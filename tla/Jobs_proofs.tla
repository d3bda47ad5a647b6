---------------------------- MODULE Jobs_proofs ----------------------------
(***************************************************************************)
(* What is proved of the jobs: that the tasks of a list never all wait for *)
(* one another; and, from an inductive invariant of the store, the run and *)
(* the records, the types, that a job put down stands still, that what is  *)
(* done stays done, and that nobody but the run reports its task.          *)
(*                                                                         *)
(* Every operation is shown to leave stores of a kind, whichever of them a *)
(* kill or a refused write leaves: those of Quiet report nothing and put   *)
(* nothing down, those of Led may report, those of Unread may put down.    *)
(***************************************************************************)
EXTENDS Jobs, RecursiveFunctions, TLAPS, FiniteSetTheorems

\* The waiting of passedOver has no circle: a task set aside waits only for
\* those ahead of the last that are not, and the last only for those set aside.
LEMMA WaitingHasNoCircle ==
    ASSUME NEW tasks, Unfinished(tasks) # {}
    PROVE  \E at \in Unfinished(tasks) : ~PassedOver(tasks, at)
<1> DEFINE Ahead == Unfinished(tasks) \ {Len(tasks)}
<1>1. CASE \E at \in Ahead : ~tasks[at].deferred
  <2>1. PICK at \in Ahead : ~tasks[at].deferred
    BY <1>1
  <2>2. ~PassedOver(tasks, at)
    BY <2>1 DEF PassedOver
  <2> QED
    BY <2>1, <2>2
<1>2. CASE Ahead # {} /\ \A at \in Ahead : tasks[at].deferred
  <2>1. PICK at \in Ahead : TRUE
    BY <1>2
  <2>2. ~PassedOver(tasks, at)
    <3>1. \A other \in Unfinished(tasks) \ {at} :
            other # Len(tasks) => tasks[other].deferred
      BY <1>2
    <3> QED
      BY <2>1, <3>1 DEF PassedOver
  <2> QED
    BY <2>1, <2>2
<1>3. CASE Ahead = {}
  <2>1. Unfinished(tasks) = {Len(tasks)}
    BY <1>3
  <2>2. ~PassedOver(tasks, Len(tasks))
    BY <2>1 DEF PassedOver
  <2> QED
    BY <2>1, <2>2
<1> QED
  BY <1>1, <1>2, <1>3

\* Whatever the store holds, no job's tasks all wait for one another
\* (passedOver, which NextTask skips tasks by).
THEOREM NoJobWaitsForItself == SomeTaskIsNotPassedOver
<1> SUFFICES ASSUME NEW j \in JobId, Unfinished(Tasks(store, j)) # {}
             PROVE  \E at \in Unfinished(Tasks(store, j)) :
                        ~PassedOver(Tasks(store, j), at)
  BY DEF SomeTaskIsNotPassedOver
<1> QED
  BY WaitingHasNoCircle

\* So it is in every reachable state.
THEOREM NoJobEverWaitsForItself == Spec => []SomeTaskIsNotPassedOver
<1>1. SomeTaskIsNotPassedOver
  BY NoJobWaitsForItself
<1> QED
  BY <1>1, PTL

-----------------------------------------------------------------------------
(***************************************************************************)
(* The stores an operation may leave.                                      *)
(***************************************************************************)
TaskLists == {l \in Seq(Task) : Len(l) <= MaxTasksPerJob}

JobRecords ==
    [kind : Kinds \cup {"plain"}, state : States, failures : Nat, mark : 0..MaxTasksPerJob,
     next : Never..Every, fixes : 0..FixTasksPerLine, proved : BOOLEAN, tasks : TaskLists]

Claims == [JobId -> [TaskNo -> Never..TaskBudget]]

\* A job put down on a task is paused or off, and the task still to be done.
MarkStands(job) ==
    job.mark # NoMark => job.state \in {"paused", "off"} /\ job.mark \in Unfinished(job.tasks)

GoodJobs == {job \in JobRecords : MarkStands(job)}
Good == [job : [JobId -> GoodJobs], claim : Claims]

\* How a job may differ from what it was.
DoneStays(a, b) ==
    \A t \in DOMAIN a.tasks : t \in DOMAIN b.tasks /\ (a.tasks[t].done => b.tasks[t].done)
Unreported(a, b) ==
    /\ \A t \in DOMAIN a.tasks : t \in DOMAIN b.tasks /\ b.tasks[t].done = a.tasks[t].done
    /\ b.failures \in {0, a.failures}
NoNewMark(a, b) == a.mark = NoMark => b.mark = NoMark

\* What a store may come to be without a mark that was not there: with tasks
\* reported, and with none.
Led(s) == {z \in Good : \A j \in JobId : DoneStays(s.job[j], z.job[j]) /\ NoNewMark(s.job[j], z.job[j])}
Quiet(s) == {z \in Good : \A j \in JobId : Unreported(s.job[j], z.job[j]) /\ NoNewMark(s.job[j], z.job[j])}

LEMMA Numbers ==
    /\ NJobs \in Nat \ {0} /\ MaxTasksPerJob \in Nat \ {0} /\ TaskBudget \in Nat \ {0}
    /\ Every \in Nat \ {0} /\ FixTasksPerLine \in Nat /\ MaxCommands \in Nat /\ MaxFaults \in Nat
    /\ FailuresThatPause \in Nat \ {0} /\ FailuresThatSwitchOff \in Nat \ {0}
    /\ Delays \in SUBSET Nat
  BY JobsAssumption

LEMMA GoodIs ==
    ASSUME NEW s \in Good, NEW j \in JobId
    PROVE  /\ s.job \in [JobId -> GoodJobs] /\ s.claim \in Claims
           /\ s.job[j] \in JobRecords /\ s.job[j] \in GoodJobs /\ MarkStands(s.job[j])
           /\ Tasks(s, j) \in Seq(Task) /\ Len(Tasks(s, j)) \in 0..MaxTasksPerJob
           /\ DOMAIN Tasks(s, j) = 1..Len(Tasks(s, j))
           /\ Unfinished(Tasks(s, j)) \subseteq DOMAIN Tasks(s, j)
<1>1. s.job \in [JobId -> GoodJobs] /\ s.claim \in Claims
  BY DEF Good
<1>2. s.job[j] \in GoodJobs
  BY <1>1
<1>3. s.job[j] \in JobRecords /\ MarkStands(s.job[j])
  BY <1>2 DEF GoodJobs
<1>4. s.job[j].tasks \in TaskLists
  BY <1>3 DEF JobRecords
<1>5. Tasks(s, j) \in Seq(Task) /\ Len(Tasks(s, j)) \in 0..MaxTasksPerJob
  BY <1>4, Numbers DEF Tasks, TaskLists
<1> QED BY <1>1, <1>2, <1>3, <1>5 DEF Unfinished

LEMMA NothingIsQuiet ==
    ASSUME NEW s \in Good
    PROVE  s \in Quiet(s)
  BY DEF Quiet, Unreported, NoNewMark

LEMMA QuietIsLed ==
    ASSUME NEW s
    PROVE  Quiet(s) \subseteq Led(s)
  BY DEF Quiet, Led, Unreported, DoneStays

\* One after the other.
LEMMA QuietTwice ==
    ASSUME NEW s \in Good, NEW y \in Quiet(s), NEW z \in Quiet(y)
    PROVE  z \in Quiet(s)
<1> SUFFICES ASSUME NEW j \in JobId
             PROVE  Unreported(s.job[j], z.job[j]) /\ NoNewMark(s.job[j], z.job[j])
  BY DEF Quiet
<1>1. /\ Unreported(s.job[j], y.job[j]) /\ NoNewMark(s.job[j], y.job[j])
      /\ Unreported(y.job[j], z.job[j]) /\ NoNewMark(y.job[j], z.job[j])
  BY DEF Quiet
<1> QED BY <1>1 DEF Unreported, NoNewMark

LEMMA LedTwice ==
    ASSUME NEW s \in Good, NEW y \in Led(s), NEW z \in Led(y)
    PROVE  z \in Led(s)
<1> SUFFICES ASSUME NEW j \in JobId
             PROVE  DoneStays(s.job[j], z.job[j]) /\ NoNewMark(s.job[j], z.job[j])
  BY DEF Led
<1>1. /\ DoneStays(s.job[j], y.job[j]) /\ NoNewMark(s.job[j], y.job[j])
      /\ DoneStays(y.job[j], z.job[j]) /\ NoNewMark(y.job[j], z.job[j])
  BY DEF Led
<1> QED BY <1>1 DEF DoneStays, NoNewMark

-----------------------------------------------------------------------------
(***************************************************************************)
(* The single writes.                                                      *)
(***************************************************************************)
WithJob(s, j, job) == [s EXCEPT !.job[j] = job]

LEMMA OneJobIsWritten ==
    ASSUME NEW s \in Good, NEW j \in JobId, NEW job \in GoodJobs
    PROVE  /\ WithJob(s, j, job) \in Good
           /\ WithJob(s, j, job).job[j] = job
           /\ \A i \in JobId \ {j} : WithJob(s, j, job).job[i] = s.job[i]
           /\ WithJob(s, j, job).claim = s.claim
<1>1. s.job \in [JobId -> GoodJobs]
  BY GoodIs
<1>2. [s.job EXCEPT ![j] = job] \in [JobId -> GoodJobs]
  BY <1>1
<1>3. WithJob(s, j, job) = [s EXCEPT !.job = [s.job EXCEPT ![j] = job]]
  BY DEF WithJob
<1> QED BY <1>1, <1>2, <1>3 DEF Good

LEMMA QuietWrite ==
    ASSUME NEW s \in Good, NEW j \in JobId, NEW job \in GoodJobs,
           Unreported(s.job[j], job), NoNewMark(s.job[j], job)
    PROVE  WithJob(s, j, job) \in Quiet(s)
  BY OneJobIsWritten DEF Quiet, Unreported, NoNewMark

LEMMA LedWrite ==
    ASSUME NEW s \in Good, NEW j \in JobId, NEW job \in GoodJobs,
           DoneStays(s.job[j], job), NoNewMark(s.job[j], job)
    PROVE  WithJob(s, j, job) \in Led(s)
  BY OneJobIsWritten DEF Led, DoneStays, NoNewMark

LEMMA ClaimWrite ==
    ASSUME NEW s \in Good, NEW claim \in Claims
    PROVE  /\ [s EXCEPT !.claim = claim] \in Quiet(s)
           /\ [s EXCEPT !.claim = claim].job = s.job
<1>1. [s EXCEPT !.claim = claim] \in Good /\ [s EXCEPT !.claim = claim].job = s.job
  BY DEF Good
<1> QED BY <1>1 DEF Quiet, Unreported, NoNewMark

LEMMA ReleaseIsQuiet ==
    ASSUME NEW s \in Good, NEW j \in JobId, NEW t \in TaskNo
    PROVE  Release(s, j, t) \in Quiet(s) /\ Release(s, j, t).job = s.job
<1>1. s.claim \in [JobId -> [TaskNo -> Never..TaskBudget]]
  BY DEF Good, Claims
<1>2. Never \in Never..TaskBudget
  BY Numbers DEF Never
<1>3. [s.claim[j] EXCEPT ![t] = Never] \in [TaskNo -> Never..TaskBudget]
  BY <1>1, <1>2
<1>4. [s.claim EXCEPT ![j][t] = Never] \in Claims
  BY <1>1, <1>3 DEF Claims
<1>5. Release(s, j, t) = [s EXCEPT !.claim = [s.claim EXCEPT ![j][t] = Never]]
  BY DEF Release
<1> QED BY <1>4, <1>5, ClaimWrite

LEMMA ReleaseAllIsQuiet ==
    ASSUME NEW s \in Good, NEW j \in JobId
    PROVE  ReleaseTheClaimsOf(s, j) \in Quiet(s) /\ ReleaseTheClaimsOf(s, j).job = s.job
<1>1. s.claim \in [JobId -> [TaskNo -> Never..TaskBudget]]
  BY DEF Good, Claims
<1>2. Never \in Never..TaskBudget
  BY Numbers DEF Never
<1>3. [s.claim EXCEPT ![j] = [t \in TaskNo |-> Never]] \in Claims
  BY <1>1, <1>2 DEF Claims
<1>4. ReleaseTheClaimsOf(s, j) = [s EXCEPT !.claim = [s.claim EXCEPT ![j] = [t \in TaskNo |-> Never]]]
  BY DEF ReleaseTheClaimsOf
<1> QED BY <1>3, <1>4, ClaimWrite

LEMMA ClaimIsQuiet ==
    ASSUME NEW s \in Good, NEW j \in JobId, NEW t \in TaskNo
    PROVE  /\ [s EXCEPT !.claim[j][t] = TaskBudget] \in Quiet(s)
           /\ [s EXCEPT !.claim[j][t] = TaskBudget].job = s.job
<1>1. s.claim \in [JobId -> [TaskNo -> Never..TaskBudget]]
  BY DEF Good, Claims
<1>2. TaskBudget \in Never..TaskBudget
  BY Numbers DEF Never
<1>3. [s.claim[j] EXCEPT ![t] = TaskBudget] \in [TaskNo -> Never..TaskBudget]
  BY <1>1, <1>2
<1>4. [s.claim EXCEPT ![j][t] = TaskBudget] \in Claims
  BY <1>1, <1>3 DEF Claims
<1>5. [s EXCEPT !.claim[j][t] = TaskBudget] = [s EXCEPT !.claim = [s.claim EXCEPT ![j][t] = TaskBudget]]
  OBVIOUS
<1> QED BY <1>4, <1>5, ClaimWrite

\* A job whose state alone changes, and which stays where its mark lets it be.
LEMMA StateIsQuiet ==
    ASSUME NEW s \in Good, NEW j \in JobId, NEW state \in States,
           s.job[j].mark # NoMark => state \in {"paused", "off"}
    PROVE  /\ SetState(s, j, state) \in Quiet(s)
           /\ SetState(s, j, state).job[j] = [s.job[j] EXCEPT !.state = state]
<1> DEFINE job == [s.job[j] EXCEPT !.state = state]
<1>1. s.job[j] \in JobRecords /\ MarkStands(s.job[j])
  BY GoodIs
<1>2. /\ job \in JobRecords /\ job.mark = s.job[j].mark /\ job.tasks = s.job[j].tasks
      /\ job.failures = s.job[j].failures /\ job.state = state
  BY <1>1 DEF JobRecords
<1>3. SetState(s, j, state) = WithJob(s, j, job)
  BY DEF SetState, WithJob
<1> HIDE DEF job
<1>4. job \in GoodJobs
  BY <1>1, <1>2 DEF GoodJobs, MarkStands
<1>5. Unreported(s.job[j], job) /\ NoNewMark(s.job[j], job)
  BY <1>2 DEF Unreported, NoNewMark
<1> QED BY <1>3, <1>4, <1>5, QuietWrite, OneJobIsWritten DEF job

\* A job whose list of tasks alone changes.
LEMMA ListIsWritten ==
    ASSUME NEW s \in Good, NEW j \in JobId, NEW list \in TaskLists,
           \A t \in DOMAIN Tasks(s, j) : t \in DOMAIN list,
           s.job[j].mark # NoMark => s.job[j].mark \in Unfinished(list)
    PROVE  /\ [s EXCEPT !.job[j].tasks = list] \in Good
           /\ [s EXCEPT !.job[j].tasks = list].job[j] = [s.job[j] EXCEPT !.tasks = list]
           /\ Tasks([s EXCEPT !.job[j].tasks = list], j) = list
           /\ (\A t \in DOMAIN Tasks(s, j) : list[t].done = Tasks(s, j)[t].done) =>
                 [s EXCEPT !.job[j].tasks = list] \in Quiet(s)
           /\ (\A t \in DOMAIN Tasks(s, j) : Tasks(s, j)[t].done => list[t].done) =>
                 [s EXCEPT !.job[j].tasks = list] \in Led(s)
<1> DEFINE job == [s.job[j] EXCEPT !.tasks = list]
<1>1. s.job[j] \in JobRecords /\ MarkStands(s.job[j])
  BY GoodIs
<1>2. /\ job \in JobRecords /\ job.mark = s.job[j].mark /\ job.state = s.job[j].state
      /\ job.failures = s.job[j].failures /\ job.tasks = list
  BY <1>1 DEF JobRecords
<1>3. [s EXCEPT !.job[j].tasks = list] = WithJob(s, j, job)
  BY DEF WithJob
<1> HIDE DEF job
<1>4. job \in GoodJobs
  BY <1>1, <1>2 DEF GoodJobs, MarkStands
<1>5. NoNewMark(s.job[j], job)
  BY <1>2 DEF NoNewMark
<1>6. WithJob(s, j, job) \in Good /\ WithJob(s, j, job).job[j] = job
  BY <1>4, OneJobIsWritten
<1>7. Tasks(WithJob(s, j, job), j) = list
  BY <1>2, <1>6 DEF Tasks
<1>8. ASSUME \A t \in DOMAIN Tasks(s, j) : list[t].done = Tasks(s, j)[t].done
      PROVE  WithJob(s, j, job) \in Quiet(s)
  <2>1. Unreported(s.job[j], job)
    BY <1>2, <1>8 DEF Unreported, Tasks
  <2> QED BY <1>4, <1>5, <2>1, QuietWrite
<1>9. ASSUME \A t \in DOMAIN Tasks(s, j) : Tasks(s, j)[t].done => list[t].done
      PROVE  WithJob(s, j, job) \in Led(s)
  <2>1. DoneStays(s.job[j], job)
    BY <1>2, <1>9 DEF DoneStays, Tasks
  <2> QED BY <1>4, <1>5, <2>1, LedWrite
<1> QED BY <1>3, <1>6, <1>7, <1>8, <1>9 DEF job

\* One task of a list is written again.
LEMMA TaskIsWritten ==
    ASSUME NEW s \in Good, NEW j \in JobId, NEW t \in DOMAIN Tasks(s, j), NEW task \in Task,
           s.job[j].mark = t => ~task.done
    PROVE  /\ [s EXCEPT !.job[j].tasks[t] = task] \in Good
           /\ [s EXCEPT !.job[j].tasks[t] = task].job[j]
                = [s.job[j] EXCEPT !.tasks = [s.job[j].tasks EXCEPT ![t] = task]]
           /\ task.done = Tasks(s, j)[t].done => [s EXCEPT !.job[j].tasks[t] = task] \in Quiet(s)
           /\ task.done => [s EXCEPT !.job[j].tasks[t] = task] \in Led(s)
<1> DEFINE tasks == Tasks(s, j)
           list == [tasks EXCEPT ![t] = task]
<1>1. /\ tasks \in Seq(Task) /\ Len(tasks) \in 0..MaxTasksPerJob
      /\ MarkStands(s.job[j])
  BY GoodIs
<1>2. /\ list \in TaskLists /\ DOMAIN list = DOMAIN tasks /\ list[t] = task
      /\ \A u \in DOMAIN tasks : u # t => list[u] = tasks[u]
  <2> HIDE DEF tasks
  <2>1. t \in DOMAIN tasks
    BY DEF tasks
  <2>2. list \in Seq(Task) /\ Len(list) = Len(tasks)
    BY <1>1, <2>1
  <2> QED BY <1>1, <2>1, <2>2 DEF TaskLists
<1>3. [s EXCEPT !.job[j].tasks[t] = task] = [s EXCEPT !.job[j].tasks = list]
  BY DEF Tasks
<1>4. s.job[j].mark # NoMark => s.job[j].mark \in Unfinished(list)
  <2> HIDE DEF list
  <2> QED BY <1>1, <1>2 DEF MarkStands, Unfinished, Tasks
<1> HIDE DEF list
<1>5. task.done = tasks[t].done => \A u \in DOMAIN tasks : list[u].done = tasks[u].done
  BY <1>2
<1>6. task.done => \A u \in DOMAIN tasks : tasks[u].done => list[u].done
  BY <1>2
<1> QED BY <1>2, <1>3, <1>4, <1>5, <1>6, ListIsWritten DEF list, Tasks

\* A task gets one of its marks.
LEMMA MarksOfATask ==
    ASSUME NEW s \in Good, NEW j \in JobId, NEW t \in Unfinished(Tasks(s, j))
    PROVE  /\ WithTask(s, j, t, "deferred", TRUE) \in Quiet(s)
           /\ WithTask(s, j, t, "pickedUp", TRUE) \in Quiet(s)
           /\ s.job[j].mark = NoMark => WithTask(s, j, t, "done", TRUE) \in Led(s)
<1> DEFINE task == Tasks(s, j)[t]
<1>1. t \in DOMAIN Tasks(s, j) /\ ~task.done /\ task \in Task
  <2>1. t \in DOMAIN Tasks(s, j) /\ ~task.done
    BY DEF Unfinished
  <2> QED BY <2>1, GoodIs
<1>2. t # NoMark
  BY <1>1, GoodIs DEF NoMark
<1>3. /\ [task EXCEPT !.deferred = TRUE] \in Task /\ [task EXCEPT !.deferred = TRUE].done = task.done
      /\ [task EXCEPT !.pickedUp = TRUE] \in Task /\ [task EXCEPT !.pickedUp = TRUE].done = task.done
      /\ [task EXCEPT !.done = TRUE] \in Task /\ [task EXCEPT !.done = TRUE].done
  <2>1. TRUE \in BOOLEAN
    OBVIOUS
  <2> QED BY <1>1, <2>1 DEF Task
<1>4. /\ WithTask(s, j, t, "deferred", TRUE)
            = [s EXCEPT !.job[j].tasks[t] = [task EXCEPT !.deferred = TRUE]]
      /\ WithTask(s, j, t, "pickedUp", TRUE)
            = [s EXCEPT !.job[j].tasks[t] = [task EXCEPT !.pickedUp = TRUE]]
      /\ WithTask(s, j, t, "done", TRUE)
            = [s EXCEPT !.job[j].tasks[t] = [task EXCEPT !.done = TRUE]]
  BY DEF WithTask, Tasks
<1>5. [s EXCEPT !.job[j].tasks[t] = [task EXCEPT !.deferred = TRUE]] \in Quiet(s)
  BY <1>1, <1>3, TaskIsWritten
<1>6. [s EXCEPT !.job[j].tasks[t] = [task EXCEPT !.pickedUp = TRUE]] \in Quiet(s)
  BY <1>1, <1>3, TaskIsWritten
<1>7. s.job[j].mark = NoMark =>
        [s EXCEPT !.job[j].tasks[t] = [task EXCEPT !.done = TRUE]] \in Led(s)
  BY <1>1, <1>2, <1>3, TaskIsWritten
<1> QED BY <1>4, <1>5, <1>6, <1>7

\* A job whose list stays, and whose mark stays with its state or goes.
LEMMA FieldsAreWritten ==
    ASSUME NEW s \in Good, NEW j \in JobId, NEW job \in JobRecords,
           job.tasks = s.job[j].tasks,
           \/ job.mark = NoMark
           \/ job.mark = s.job[j].mark /\ job.state = s.job[j].state
    PROVE  /\ WithJob(s, j, job) \in Led(s)
           /\ WithJob(s, j, job).job[j] = job
           /\ job.failures \in {0, s.job[j].failures} => WithJob(s, j, job) \in Quiet(s)
<1>1. MarkStands(s.job[j])
  BY GoodIs
<1>2. job \in GoodJobs
  BY <1>1 DEF GoodJobs, MarkStands
<1>3. DoneStays(s.job[j], job) /\ NoNewMark(s.job[j], job)
  BY DEF DoneStays, NoNewMark
<1>4. job.failures \in {0, s.job[j].failures} => Unreported(s.job[j], job)
  BY DEF Unreported
<1> QED BY <1>2, <1>3, <1>4, OneJobIsWritten, QuietWrite, LedWrite

-----------------------------------------------------------------------------
(***************************************************************************)
(* The operations, of any stores among which what each write does is there *)
(* again.                                                                  *)
(***************************************************************************)
Lists(S) == Seq(S) \ {<<>>}

Closed(S) == S \subseteq Good /\ \A s \in S : Quiet(s) \subseteq S
LedClosed(S) == S \subseteq Good /\ \A s \in S : Led(s) \subseteq S

LEMMA QuietIsClosed ==
    ASSUME NEW s \in Good
    PROVE  Closed(Quiet(s)) /\ s \in Quiet(s)
<1>1. Quiet(s) \subseteq Good
  BY DEF Quiet
<1> QED BY <1>1, QuietTwice, NothingIsQuiet DEF Closed

LEMMA LedIsClosed ==
    ASSUME NEW s \in Good
    PROVE  LedClosed(Led(s)) /\ s \in Led(s)
<1>1. Led(s) \subseteq Good
  BY DEF Led
<1> QED BY <1>1, LedTwice, NothingIsQuiet, QuietIsLed DEF LedClosed

LEMMA LedClosedIsClosed ==
    ASSUME NEW S, LedClosed(S)
    PROVE  Closed(S)
  BY QuietIsLed DEF Closed, LedClosed

LEMMA LastIs ==
    ASSUME NEW S, NEW stores \in Lists(S)
    PROVE  Last(stores) \in S
  BY DEF Lists, Last

LEMMA OneMore ==
    ASSUME NEW S, NEW stores \in Lists(S), NEW z \in S
    PROVE  Then(stores, z) \in Lists(S) /\ Last(Then(stores, z)) = z
  BY DEF Lists, Then, Last

LEMMA TwoMore ==
    ASSUME NEW S, NEW stores \in Lists(S), NEW y \in S, NEW z \in S
    PROVE  stores \o <<y, z>> \in Lists(S) /\ Last(stores \o <<y, z>>) = z
<1>1. <<y, z>> \in Seq(S) /\ Len(<<y, z>>) = 2 /\ <<y, z>>[2] = z
  OBVIOUS
<1>2. stores \in Seq(S) /\ Len(stores) \in Nat
  BY DEF Lists
<1>3. /\ stores \o <<y, z>> \in Seq(S) /\ Len(stores \o <<y, z>>) = Len(stores) + 2
      /\ (stores \o <<y, z>>)[Len(stores) + 2] = z
  BY <1>1, <1>2
<1>4. stores \o <<y, z>> # <<>>
  BY <1>2, <1>3
<1> QED BY <1>3, <1>4 DEF Lists, Last

LEMMA ThreeMore ==
    ASSUME NEW S, NEW stores \in Lists(S), NEW x \in S, NEW y \in S, NEW z \in S
    PROVE  stores \o <<x, y, z>> \in Lists(S) /\ Last(stores \o <<x, y, z>>) = z
<1>1. <<x, y, z>> \in Seq(S) /\ Len(<<x, y, z>>) = 3 /\ <<x, y, z>>[3] = z
  OBVIOUS
<1>2. stores \in Seq(S) /\ Len(stores) \in Nat
  BY DEF Lists
<1>3. /\ stores \o <<x, y, z>> \in Seq(S) /\ Len(stores \o <<x, y, z>>) = Len(stores) + 3
      /\ (stores \o <<x, y, z>>)[Len(stores) + 3] = z
  BY <1>1, <1>2
<1>4. stores \o <<x, y, z>> # <<>>
  BY <1>2, <1>3
<1> QED BY <1>3, <1>4 DEF Lists, Last

LEMMA ListOfOne ==
    ASSUME NEW S, NEW s \in S
    PROVE  <<s>> \in Lists(S) /\ Last(<<s>>) = s
  BY DEF Lists, Last

LEMMA ListsOfTwoAndThree ==
    ASSUME NEW S, NEW x \in S, NEW y \in S
    PROVE  /\ <<x, y>> \in Lists(S)
           /\ \A z \in S : <<x, y, z>> \in Lists(S)
  BY DEF Lists

LEMMA ClosingIsQuiet ==
    ASSUME NEW S, Closed(S), NEW stores \in Lists(S), NEW j \in JobId
    PROVE  /\ CloseIfEveryTaskIsDone(stores, j) \in Lists(S)
           /\ Last(CloseIfEveryTaskIsDone(stores, j)) \in Quiet(Last(stores))
<1> DEFINE s == Last(stores)
           listed == IF Checked(s, j) \/ Tasks(s, j) = <<>> THEN s
                     ELSE [s EXCEPT !.job[j].proved = TRUE]
<1>1. s \in S /\ s \in Good
  BY LastIs DEF Closed
<1> HIDE DEF s
<1>2. CASE Scheduled(s, j) \/ s.job[j].state # "running" \/ ~EveryTaskIsDone(s, j) \/ ~listed.job[j].proved
  <2>1. CloseIfEveryTaskIsDone(stores, j) = stores
    BY <1>2 DEF CloseIfEveryTaskIsDone, s
  <2> QED BY <1>1, <2>1, NothingIsQuiet DEF s
<1>3. CASE ~(Scheduled(s, j) \/ s.job[j].state # "running" \/ ~EveryTaskIsDone(s, j)) /\ listed.job[j].proved
  <2>1. CloseIfEveryTaskIsDone(stores, j) = stores \o <<listed, SetState(listed, j, "done")>>
    BY <1>3 DEF CloseIfEveryTaskIsDone, s
  <2>2. s.job[j] \in JobRecords /\ s.job[j].mark = NoMark
    BY <1>1, <1>3, GoodIs DEF MarkStands
  <2>3. listed \in Quiet(s) /\ listed.job[j].mark = NoMark
    <3> DEFINE job == [s.job[j] EXCEPT !.proved = TRUE]
    <3>1. job \in JobRecords /\ job.tasks = s.job[j].tasks /\ job.mark = NoMark
          /\ job.failures = s.job[j].failures
      <4>1. TRUE \in BOOLEAN
        OBVIOUS
      <4> QED BY <2>2, <4>1 DEF JobRecords
    <3>2. [s EXCEPT !.job[j].proved = TRUE] = WithJob(s, j, job)
      BY DEF WithJob
    <3> HIDE DEF job, listed
    <3>3. WithJob(s, j, job) \in Quiet(s) /\ WithJob(s, j, job).job[j] = job
      <4>1. job \in JobRecords /\ job.failures \in {0, s.job[j].failures}
        BY <3>1
      <4> QED BY <1>1, <3>1, <4>1, FieldsAreWritten
    <3>4. s \in Quiet(s)
      BY <1>1, NothingIsQuiet
    <3>5. listed = s \/ listed = WithJob(s, j, job)
      BY <3>2 DEF listed
    <3> DEFINE written == WithJob(s, j, job)
    <3>6. written \in Quiet(s) /\ written.job[j].mark = NoMark
      BY <3>1, <3>3
    <3> HIDE DEF written
    <3>7. CASE listed = s
      BY <2>2, <3>4, <3>7
    <3>8. CASE listed = written
      BY <3>6, <3>8
    <3> QED BY <3>5, <3>7, <3>8 DEF written
  <2> HIDE DEF listed
  <2>4. listed \in S /\ listed \in Good
    BY <1>1, <2>3 DEF Closed
  <2>5. SetState(listed, j, "done") \in S /\ SetState(listed, j, "done") \in Quiet(s)
    <3>1. SetState(listed, j, "done") \in Quiet(listed)
      BY <2>3, <2>4, StateIsQuiet DEF States
    <3> QED BY <1>1, <2>3, <2>4, <3>1, QuietTwice DEF Closed
  <2> QED BY <2>1, <2>4, <2>5, TwoMore DEF s
<1> QED BY <1>2, <1>3

LEMMA StoppingIsQuiet ==
    ASSUME NEW S, Closed(S), NEW stores \in Lists(S), NEW j \in JobId
    PROVE  StopIfItKeepsFailing(stores, j) \in Lists(S)
<1> DEFINE s == Last(stores)
<1>1. s \in S /\ s \in Good
  BY LastIs DEF Closed
<1>2. SetState(s, j, "off") \in Quiet(s) /\ SetState(s, j, "paused") \in Quiet(s)
  <2> HIDE DEF s
  <2> QED BY <1>1, StateIsQuiet DEF States
<1>3. SetState(s, j, "off") \in S /\ SetState(s, j, "paused") \in S
  BY <1>1, <1>2 DEF Closed
<1>4. \/ StopIfItKeepsFailing(stores, j) = stores
      \/ StopIfItKeepsFailing(stores, j) = Then(stores, SetState(s, j, "off"))
      \/ StopIfItKeepsFailing(stores, j) = Then(stores, SetState(s, j, "paused"))
  BY DEF StopIfItKeepsFailing
<1> QED BY <1>3, <1>4, OneMore

\* A report is taken back of a job that was not put down.
LEMMA FinishingIsLed ==
    ASSUME NEW S, LedClosed(S), NEW stores \in Lists(S), NEW j \in JobId, NEW t,
           NEW failed \in BOOLEAN, Last(stores).job[j].mark = NoMark
    PROVE  FinishTask(stores, j, t, failed) \in Lists(S)
<1> DEFINE s == Last(stores)
           released == Release(s, j, t)
           marked == IF failed /\ ~Tasks(s, j)[t].unattended THEN released
                     ELSE WithTask(released, j, t, "done", TRUE)
           counted == IF failed
                        THEN [marked EXCEPT !.job[j].failures = @ + 1,
                                            !.job[j].next =
                                IF Scheduled(s, j) THEN Every ELSE @]
                        ELSE [marked EXCEPT !.job[j].failures = 0]
           saved == stores \o <<released, marked, counted>>
<1>1. s \in S /\ s \in Good /\ Closed(S)
  BY LastIs, LedClosedIsClosed DEF LedClosed
<1>2. CASE t \notin Unfinished(Tasks(s, j))
  <2>1. FinishTask(stores, j, t, failed) = stores
    BY <1>2 DEF FinishTask
  <2> QED BY <2>1
<1>3. CASE t \in Unfinished(Tasks(s, j))
  <2>1. FinishTask(stores, j, t, failed) = IF failed THEN StopIfItKeepsFailing(saved, j)
                                                     ELSE CloseIfEveryTaskIsDone(saved, j)
    BY <1>3 DEF FinishTask
  <2>2. s.job[j].mark = NoMark
    OBVIOUS
  <2> HIDE DEF s
  <2>3. t \in TaskNo
    BY <1>1, <1>3, GoodIs, Numbers DEF TaskNo
  <2>4. released \in Quiet(s) /\ released.job = s.job
    BY <1>1, <2>3, ReleaseIsQuiet
  <2>5. released \in Led(s) /\ released \in S /\ released \in Good
    BY <1>1, <2>4, QuietIsLed DEF LedClosed
  <2> HIDE DEF released
  <2>6. /\ marked \in S /\ marked \in Good /\ marked.job[j].mark = NoMark
    <3>1. WithTask(released, j, t, "done", TRUE) \in Led(released)
      <4>1. t \in Unfinished(Tasks(released, j)) /\ released.job[j].mark = NoMark
        BY <1>3, <2>2, <2>4 DEF Tasks
      <4> QED BY <2>5, <4>1, MarksOfATask
    <3>2. marked \in Led(released)
      BY <2>5, <3>1, LedIsClosed
    <3>3. marked \in S /\ marked \in Good
      BY <2>5, <3>2 DEF LedClosed
    <3>4. NoNewMark(released.job[j], marked.job[j])
      BY <3>2 DEF Led
    <3> QED BY <2>2, <2>4, <3>3, <3>4 DEF NoNewMark
  <2> HIDE DEF marked
  <2>7. counted \in S
    <3>1. marked.job[j] \in JobRecords
      BY <2>6, GoodIs
    <3>2. CASE failed
      <4> DEFINE job == [marked.job[j] EXCEPT !.failures = @ + 1,
                                              !.next = IF Scheduled(s, j) THEN Every ELSE @]
      <4>1. job \in JobRecords /\ job.tasks = marked.job[j].tasks /\ job.mark = NoMark
        <5>1. marked.job[j].failures + 1 \in Nat
          BY <3>1 DEF JobRecords
        <5>2. (IF Scheduled(s, j) THEN Every ELSE marked.job[j].next) \in Never..Every
          BY <3>1, Numbers DEF JobRecords, Never
        <5> QED BY <2>6, <3>1, <5>1, <5>2 DEF JobRecords
      <4>2. counted = WithJob(marked, j, job)
        BY <3>2 DEF WithJob
      <4> HIDE DEF job, counted
      <4>3. counted \in Led(marked)
        BY <2>6, <4>1, <4>2, FieldsAreWritten
      <4> QED BY <2>6, <4>3 DEF LedClosed
    <3>3. CASE ~failed
      <4> DEFINE job == [marked.job[j] EXCEPT !.failures = 0]
      <4>1. job \in JobRecords /\ job.tasks = marked.job[j].tasks /\ job.mark = NoMark
        BY <2>6, <3>1 DEF JobRecords
      <4>2. counted = WithJob(marked, j, job)
        BY <3>3 DEF WithJob
      <4> HIDE DEF job, counted
      <4>3. counted \in Led(marked)
        BY <2>6, <4>1, <4>2, FieldsAreWritten
      <4> QED BY <2>6, <4>3 DEF LedClosed
    <3> QED BY <3>2, <3>3
  <2> HIDE DEF counted
  <2>8. saved \in Lists(S)
    BY <2>5, <2>6, <2>7, ThreeMore
  <2> HIDE DEF saved
  <2> QED BY <1>1, <2>1, <2>8, StoppingIsQuiet, ClosingIsQuiet
<1> QED BY <1>2, <1>3

-----------------------------------------------------------------------------
(***************************************************************************)
(* Tasks that are new, and where a task can be.                            *)
(***************************************************************************)
LEMMA GreatestOfSome ==
    ASSUME NEW S \in SUBSET Nat, IsFiniteSet(S), S # {}
    PROVE  \E m \in S : \A k \in S : m >= k
<1> DEFINE HasAGreatest(P) == P # {} => \E m \in P : \A k \in P : m >= k
           T == {n \in Nat : \A P \in SUBSET Nat :
                               IsFiniteSet(P) /\ Cardinality(P) = n => HasAGreatest(P)}
<1>1. 0 \in T
  BY FS_EmptySet
<1>2. ASSUME NEW n \in Nat, n \in T
      PROVE  n + 1 \in T
  <2> SUFFICES ASSUME NEW P \in SUBSET Nat, IsFiniteSet(P), Cardinality(P) = n + 1, P # {}
               PROVE  \E m \in P : \A k \in P : m >= k
    OBVIOUS
  <2> PICK x \in P : TRUE
    OBVIOUS
  <2>1. IsFiniteSet(P \ {x}) /\ Cardinality(P \ {x}) = n
    <3>1. Cardinality(P \ {x}) = Cardinality(P) - 1 /\ IsFiniteSet(P \ {x})
      BY FS_RemoveElement
    <3> QED BY <3>1
  <2>2. CASE P \ {x} = {}
    BY <2>2
  <2>3. CASE P \ {x} # {}
    <3>1. P \ {x} \in SUBSET Nat
      OBVIOUS
    <3>2. PICK m \in P \ {x} : \A k \in P \ {x} : m >= k
      BY <1>2, <2>1, <2>3, <3>1
    <3>3. CASE m >= x
      BY <3>2, <3>3
    <3>4. CASE ~(m >= x)
      <4>1. \A k \in P : x >= k
        BY <3>2, <3>4
      <4> QED BY <4>1
    <3> QED BY <3>3, <3>4
  <2> QED BY <2>2, <2>3
<1>3. Nat \subseteq T
  <2> HIDE DEF T
  <2> QED BY <1>1, <1>2, Inductive
<1>4. Cardinality(S) \in Nat
  BY FS_CardinalityType
<1> QED BY <1>3, <1>4

LEMMA LongestIs ==
    /\ Longest \in Nat
    /\ \A due \in Delays \cup {0} : due \in 0..Longest
<1> DEFINE S == Delays \cup {TaskBudget, Every}
<1>1. S \in SUBSET Nat /\ S # {}
  BY Numbers
<1>2. IsFiniteSet(S)
  <2>1. IsFiniteSet(Delays)
    BY JobsAssumption
  <2>2. S = (Delays \cup {TaskBudget}) \cup {Every}
    OBVIOUS
  <2> HIDE DEF S
  <2> QED BY <2>1, <2>2, FS_AddElement
<1>3. PICK m \in S : \A k \in S : m >= k
  <2> HIDE DEF S
  <2> QED BY <1>1, <1>2, GreatestOfSome
<1>4. Max(S) \in S /\ \A k \in S : Max(S) >= k
  <2> HIDE DEF S
  <2> QED BY <1>3 DEF Max
<1>5. Longest = Max(S)
  BY DEF Longest
<1>6. Longest \in Nat /\ \A due \in Delays : due \in Nat /\ Longest >= due
  BY <1>1, <1>4, <1>5
<1> QED BY <1>6

LEMMA NewTaskIsATask ==
    ASSUME NEW due \in Delays \cup {0}, NEW unattended \in BOOLEAN
    PROVE  NewTask(due, unattended) \in Task /\ ~NewTask(due, unattended).done
<1>1. FALSE \in BOOLEAN /\ due \in 0..Longest
  BY LongestIs
<1> QED BY <1>1 DEF NewTask, Task

\* The list with one more on it.
LEMMA OneTaskMore ==
    ASSUME NEW list \in Seq(Task), Len(list) < MaxTasksPerJob, NEW task \in Task
    PROVE  /\ Append(list, task) \in TaskLists
           /\ DOMAIN Append(list, task) = 1..(Len(list) + 1)
           /\ Append(list, task)[Len(list) + 1] = task
           /\ \A t \in DOMAIN list : t \in DOMAIN Append(list, task) /\ Append(list, task)[t] = list[t]
<1>1. Len(list) \in Nat /\ MaxTasksPerJob \in Nat
  BY Numbers
<1> QED BY <1>1 DEF TaskLists

LEMMA AddingIsQuiet ==
    ASSUME NEW S, Closed(S), NEW stores \in Lists(S), NEW j \in JobId,
           NEW due \in Delays \cup {0}, NEW unattended \in BOOLEAN
    PROVE  AddTask(stores, j, due, unattended) \in Lists(S)
<1> DEFINE s == Last(stores)
           at == Len(Tasks(s, j)) + 1
           list == Append(Tasks(s, j), NewTask(0, FALSE))
           listed == [s EXCEPT !.job[j].tasks = list]
           written == [listed EXCEPT !.job[j].tasks[at] = NewTask(due, unattended)]
<1>1. s \in S /\ s \in Good
  BY LastIs DEF Closed
<1>2. CASE at > MaxTasksPerJob
  <2>1. AddTask(stores, j, due, unattended) = stores
    BY <1>2 DEF AddTask
  <2> QED BY <2>1
<1>3. CASE ~(at > MaxTasksPerJob)
  <2>1. AddTask(stores, j, due, unattended) = stores \o <<listed, written>>
    BY <1>3 DEF AddTask, Tasks
  <2> HIDE DEF s
  <2>2. /\ Tasks(s, j) \in Seq(Task) /\ Len(Tasks(s, j)) \in Nat /\ MarkStands(s.job[j])
        /\ DOMAIN Tasks(s, j) = 1..Len(Tasks(s, j))
    BY <1>1, GoodIs
  <2>3. NewTask(0, FALSE) \in Task /\ ~NewTask(0, FALSE).done
    BY NewTaskIsATask
  <2>4. /\ list \in TaskLists /\ at \in DOMAIN list /\ list[at] = NewTask(0, FALSE)
        /\ \A t \in DOMAIN Tasks(s, j) : t \in DOMAIN list /\ list[t] = Tasks(s, j)[t]
    <3>1. Len(Tasks(s, j)) < MaxTasksPerJob
      BY <1>3, <2>2, Numbers
    <3> HIDE DEF list, at
    <3>2. /\ list \in TaskLists /\ DOMAIN list = 1..at /\ list[at] = NewTask(0, FALSE)
          /\ \A t \in DOMAIN Tasks(s, j) : t \in DOMAIN list /\ list[t] = Tasks(s, j)[t]
      BY <2>2, <2>3, <3>1, OneTaskMore DEF list, at
    <3>3. at \in 1..at
      BY <2>2 DEF at
    <3> QED BY <3>2, <3>3
  <2>5. at # s.job[j].mark
    BY <2>2 DEF MarkStands, Unfinished, Tasks, NoMark
  <2> HIDE DEF at, list
  <2>6. s.job[j].mark # NoMark => s.job[j].mark \in Unfinished(list)
    BY <2>2, <2>4 DEF MarkStands, Unfinished, Tasks
  <2>7. /\ listed \in Good /\ listed.job[j] = [s.job[j] EXCEPT !.tasks = list]
        /\ Tasks(listed, j) = list /\ listed \in Quiet(s)
    <3> HIDE DEF listed
    <3> QED BY <1>1, <2>4, <2>6, ListIsWritten DEF listed
  <2>8. listed.job[j].mark = s.job[j].mark
    BY <2>7
  <2> HIDE DEF listed
  <2>9. NewTask(due, unattended) \in Task /\ ~NewTask(due, unattended).done
    BY NewTaskIsATask
  <2>10. written \in Quiet(listed)
    <3>1. NewTask(due, unattended).done = Tasks(listed, j)[at].done
      <4>1. NewTask(due, unattended).done = FALSE /\ NewTask(0, FALSE).done = FALSE
        BY DEF NewTask
      <4>2. Tasks(listed, j)[at] = NewTask(0, FALSE)
        BY <2>4, <2>7
      <4> QED BY <4>1, <4>2
    <3>2. at \in DOMAIN Tasks(listed, j)
      BY <2>4, <2>7
    <3> HIDE DEF written
    <3> QED BY <2>7, <2>9, <3>1, <3>2, TaskIsWritten DEF written
  <2> HIDE DEF written
  <2>11. listed \in S /\ written \in S
    BY <1>1, <2>7, <2>10 DEF Closed
  <2> QED BY <2>1, <2>11, TwoMore
<1> QED BY <1>2, <1>3

\* StartWorking takes the mark away, and leaves the tasks as they are.
LEMMA StartingIsQuiet ==
    ASSUME NEW S, Closed(S), NEW stores \in Lists(S), NEW j \in JobId
    PROVE  /\ StartWorking(stores, j) \in Lists(S)
           /\ Last(StartWorking(stores, j)).job[j].mark = NoMark
<1> DEFINE s == Last(stores)
           released == ReleaseTheClaimsOf(s, j)
           running == [released EXCEPT !.job[j].state = "running",
                                       !.job[j].failures = 0,
                                       !.job[j].mark = NoMark]
<1>1. s \in S /\ s \in Good
  BY LastIs DEF Closed
<1>2. StartWorking(stores, j) = CloseIfEveryTaskIsDone(stores \o <<released, running>>, j)
  BY DEF StartWorking
<1> HIDE DEF s
<1>3. released \in S /\ released \in Good
  BY <1>1, ReleaseAllIsQuiet DEF Closed
<1> HIDE DEF released
<1>4. running \in Quiet(released)
  <2> DEFINE job == [released.job[j] EXCEPT !.state = "running", !.failures = 0, !.mark = NoMark]
  <2>1. released.job[j] \in JobRecords
    BY <1>3, GoodIs
  <2>2. job \in JobRecords /\ job.tasks = released.job[j].tasks /\ job.mark = NoMark /\ job.failures = 0
    <3>1. NoMark \in 0..MaxTasksPerJob /\ "running" \in States /\ 0 \in Nat
      BY Numbers DEF NoMark, States
    <3> QED BY <2>1, <3>1 DEF JobRecords
  <2>3. running = WithJob(released, j, job)
    BY DEF WithJob
  <2> HIDE DEF job, running
  <2> QED BY <1>3, <2>2, <2>3, FieldsAreWritten
<1>5. running.job[j].mark = NoMark
  BY <1>3, GoodIs DEF JobRecords
<1> HIDE DEF running
<1>6. running \in S /\ running \in Good
  BY <1>3, <1>4 DEF Closed
<1>7. stores \o <<released, running>> \in Lists(S) /\ Last(stores \o <<released, running>>) = running
  BY <1>3, <1>6, TwoMore
<1>8. Last(StartWorking(stores, j)) \in Quiet(running) /\ StartWorking(stores, j) \in Lists(S)
  BY <1>2, <1>7, ClosingIsQuiet
<1>9. NoNewMark(running.job[j], Last(StartWorking(stores, j)).job[j])
  BY <1>8 DEF Quiet
<1> QED BY <1>5, <1>8, <1>9 DEF NoNewMark

\* The next tick alone is written.
LEMMA NextIsWritten ==
    ASSUME NEW s \in Good, NEW j \in JobId, NEW next \in Never..Every
    PROVE  /\ [s EXCEPT !.job[j].next = next] \in Quiet(s)
           /\ [s EXCEPT !.job[j].next = next].job[j] = [s.job[j] EXCEPT !.next = next]
           /\ Tasks([s EXCEPT !.job[j].next = next], j) = Tasks(s, j)
<1> DEFINE job == [s.job[j] EXCEPT !.next = next]
<1>1. s.job[j] \in JobRecords
  BY GoodIs
<1>2. /\ job \in JobRecords /\ job.tasks = s.job[j].tasks /\ job.mark = s.job[j].mark
      /\ job.state = s.job[j].state /\ job.failures = s.job[j].failures
  BY <1>1 DEF JobRecords
<1>3. [s EXCEPT !.job[j].next = next] = WithJob(s, j, job)
  BY DEF WithJob
<1> HIDE DEF job
<1>4. WithJob(s, j, job) \in Quiet(s) /\ WithJob(s, j, job).job[j] = job
  BY <1>2, FieldsAreWritten
<1> QED BY <1>2, <1>3, <1>4 DEF job, Tasks

LEMMA TickingIsQuiet ==
    ASSUME NEW S, Closed(S), NEW stores \in Lists(S), NEW j \in JobId,
           Last(stores).job[j].mark = NoMark
    PROVE  TickSchedule(stores, j) \in Lists(S)
<1> DEFINE s == Last(stores)
           waits == [s EXCEPT !.job[j].next = Every]
           saved == Then(stores, waits)
<1>1. s \in S /\ s \in Good /\ s.job[j].mark = NoMark
  BY LastIs DEF Closed
<1>2. \/ TickSchedule(stores, j) = stores
      \/ TickSchedule(stores, j) = AddTask(saved, j, 0, TRUE)
      \/ TickSchedule(stores, j) = Then(saved, SetState(Last(saved), j, "off"))
  BY DEF TickSchedule
<1> HIDE DEF s
<1>3. Every \in Never..Every
  BY Numbers DEF Never
<1>4. waits \in Quiet(s) /\ waits.job[j].mark = NoMark
  <2>1. waits.job[j] = [s.job[j] EXCEPT !.next = Every] /\ waits \in Quiet(s)
    BY <1>1, <1>3, NextIsWritten
  <2>2. s.job[j] \in JobRecords
    BY <1>1, GoodIs
  <2> HIDE DEF waits
  <2> QED BY <1>1, <2>1, <2>2 DEF JobRecords
<1> HIDE DEF waits
<1>5. waits \in S /\ waits \in Good
  BY <1>1, <1>4 DEF Closed
<1>6. saved \in Lists(S) /\ Last(saved) = waits
  BY <1>5, OneMore
<1> HIDE DEF saved
<1>7. AddTask(saved, j, 0, TRUE) \in Lists(S)
  BY <1>6, AddingIsQuiet
<1>8. SetState(waits, j, "off") \in S
  <2>1. SetState(waits, j, "off") \in Quiet(waits)
    BY <1>4, <1>5, StateIsQuiet DEF States
  <2> QED BY <1>5, <2>1 DEF Closed
<1> QED BY <1>2, <1>6, <1>7, <1>8, OneMore

LEMMA RunNowStartsATask ==
    ASSUME NEW s \in Good, NEW j \in JobId
    PROVE  TheTaskRunNowStarts(s, j) = 0 \/ TheTaskRunNowStarts(s, j) \in DOMAIN Tasks(s, j)
<1> DEFINE open == Unfinished(Tasks(s, j))
<1>1. /\ open \in SUBSET DOMAIN Tasks(s, j) /\ open \in SUBSET Nat
      /\ MarkStands(s.job[j])
  BY GoodIs
<1>2. CASE s.job[j].mark # NoMark
  BY <1>1, <1>2 DEF TheTaskRunNowStarts, MarkStands, Unfinished, Tasks
<1>3. CASE s.job[j].mark = NoMark /\ open = {}
  BY <1>3 DEF TheTaskRunNowStarts
<1>4. CASE s.job[j].mark = NoMark /\ open # {}
  <2>1. TheTaskRunNowStarts(s, j) = CHOOSE t \in open : \A other \in open : t <= other
    BY <1>4 DEF TheTaskRunNowStarts
  <2> HIDE DEF open
  <2>2. \E t \in open : \A other \in open : t <= other
    BY <1>1, <1>4, LeastOfSome
  <2> QED BY <1>1, <2>1, <2>2
<1> QED BY <1>2, <1>3, <1>4

LEMMA RunningNowIsQuiet ==
    ASSUME NEW s \in Good, NEW j \in JobId
    PROVE  RunNow(s, j) \in Lists(Quiet(s))
<1> DEFINE next == TheTaskRunNowStarts(s, j)
           working == StartWorking(<<s>>, j)
           begun == Last(working)
           tick == IF Scheduled(s, j) THEN 0 ELSE begun.job[j].next
           ticks == [begun EXCEPT !.job[j].next = tick]
           task == [Tasks(ticks, j)[next] EXCEPT !.due = 0, !.pickedUp = FALSE, !.deferred = FALSE]
           started == [ticks EXCEPT !.job[j].tasks[next] = task]
<1>1. Closed(Quiet(s)) /\ s \in Quiet(s)
  BY QuietIsClosed
<1>2. working \in Lists(Quiet(s))
  BY <1>1, ListOfOne, StartingIsQuiet
<1>3. RunNow(s, j) = IF next = 0 THEN Then(working, ticks) ELSE Then(working, started)
  BY DEF RunNow, Tasks
<1>4. next = 0 \/ next \in DOMAIN Tasks(s, j)
  BY RunNowStartsATask
<1> HIDE DEF next, working
<1>5. begun \in Quiet(s) /\ begun \in Good
  BY <1>2, LastIs DEF Quiet
<1> HIDE DEF begun
<1>6. tick \in Never..Every
  <2>1. begun.job[j] \in JobRecords
    BY <1>5, GoodIs
  <2> QED BY <2>1, Numbers DEF JobRecords, Never
<1> HIDE DEF tick
<1>7. ticks \in Quiet(begun)
  BY <1>5, <1>6, NextIsWritten
<1> HIDE DEF ticks
<1>8. ticks \in Quiet(s) /\ ticks \in Good
  BY <1>5, <1>7, QuietTwice DEF Quiet
<1>9. ASSUME next # 0
      PROVE  started \in Quiet(s)
  <2>1. next \in DOMAIN Tasks(ticks, j)
    BY <1>4, <1>8, <1>9 DEF Quiet, Unreported, Tasks
  <2>2. Tasks(ticks, j)[next] \in Task /\ MarkStands(ticks.job[j])
    BY <1>8, <2>1, GoodIs
  <2>3. task \in Task /\ task.done = Tasks(ticks, j)[next].done
    <3>1. FALSE \in BOOLEAN /\ 0 \in 0..Longest
      BY LongestIs
    <3> QED BY <2>2, <3>1 DEF Task
  <2> HIDE DEF task
  <2>4. ticks.job[j].mark = next => ~task.done
    BY <1>9, <2>2, <2>3 DEF MarkStands, NoMark, Unfinished, Tasks
  <2>5. started \in Quiet(ticks)
    BY <1>8, <2>1, <2>3, <2>4, TaskIsWritten
  <2> QED BY <1>8, <2>5, QuietTwice
<1> HIDE DEF started
<1> QED BY <1>2, <1>3, <1>8, <1>9, OneMore

\* A job may come to be put down: nothing else of it is reported.
Unread(s) == {z \in Good : \A j \in JobId : Unreported(s.job[j], z.job[j])}

LEMMA PuttingDownIsUnread ==
    ASSUME NEW s \in Good, NEW z \in Unread(s), NEW j \in JobId, NEW t \in Unfinished(Tasks(z, j))
    PROVE  PutDown(z, j, t) \in Unread(s)
<1> DEFINE job == [z.job[j] EXCEPT !.state = "paused", !.mark = t]
<1>1. z \in Good
  BY DEF Unread
<1>2. z.job[j] \in JobRecords /\ t \in 0..MaxTasksPerJob
  <2>1. z.job[j] \in JobRecords /\ Len(Tasks(z, j)) \in 0..MaxTasksPerJob /\ t \in 1..Len(Tasks(z, j))
    BY <1>1, GoodIs
  <2> QED BY <2>1, Numbers
<1>3. /\ job \in JobRecords /\ job.tasks = z.job[j].tasks /\ job.mark = t /\ job.state = "paused"
      /\ job.failures = z.job[j].failures
  <2>1. "paused" \in States
    BY DEF States
  <2> QED BY <1>2, <2>1 DEF JobRecords
<1>4. PutDown(z, j, t) = WithJob(z, j, job)
  BY DEF PutDown, WithJob
<1> HIDE DEF job
<1>5. job \in GoodJobs
  BY <1>3 DEF GoodJobs, MarkStands, Tasks
<1>6. /\ WithJob(z, j, job) \in Good /\ WithJob(z, j, job).job[j] = job
      /\ \A i \in JobId \ {j} : WithJob(z, j, job).job[i] = z.job[i]
  BY <1>1, <1>5, OneJobIsWritten
<1>7. ASSUME NEW i \in JobId
      PROVE  Unreported(s.job[i], WithJob(z, j, job).job[i])
  <2>1. Unreported(s.job[i], z.job[i])
    BY DEF Unread
  <2>2. /\ WithJob(z, j, job).job[i].tasks = z.job[i].tasks
        /\ WithJob(z, j, job).job[i].failures = z.job[i].failures
    BY <1>3, <1>6
  <2> QED BY <2>1, <2>2 DEF Unreported
<1> QED BY <1>4, <1>6, <1>7 DEF Unread

LEMMA QuietIsUnread ==
    ASSUME NEW s \in Good, NEW y \in Unread(s), NEW z \in Quiet(y)
    PROVE  z \in Unread(s)
<1> SUFFICES ASSUME NEW j \in JobId
             PROVE  Unreported(s.job[j], z.job[j])
  BY DEF Quiet, Unread
<1>1. Unreported(s.job[j], y.job[j]) /\ Unreported(y.job[j], z.job[j])
  BY DEF Quiet, Unread
<1> QED BY <1>1 DEF Unreported

\* One moment later.
LEMMA TimeIsQuiet ==
    ASSUME NEW s \in Good
    PROVE  OneMomentLater(s) \in Quiet(s)
<1> DEFINE list(j) == [t \in DOMAIN s.job[j].tasks |-> [s.job[j].tasks[t] EXCEPT !.due = Sooner(@)]]
           job(j) == [s.job[j] EXCEPT !.next = Sooner(@), !.tasks = list(j)]
           claim == [j \in JobId |-> [t \in TaskNo |-> Sooner(s.claim[j][t])]]
<1>1. OneMomentLater(s) = [job |-> [j \in JobId |-> job(j)], claim |-> claim]
  BY DEF OneMomentLater
<1>2. claim \in Claims
  <2>1. s.claim \in [JobId -> [TaskNo -> Never..TaskBudget]]
    BY DEF Good, Claims
  <2>2. \A j \in JobId, t \in TaskNo : Sooner(s.claim[j][t]) \in Never..TaskBudget
    <3> TAKE j \in JobId, t \in TaskNo
    <3>1. s.claim[j][t] \in Never..TaskBudget
      BY <2>1
    <3> QED BY <3>1, Numbers DEF Sooner, Never
  <2> QED BY <2>2 DEF Claims
<1>3. ASSUME NEW j \in JobId
      PROVE  job(j) \in GoodJobs /\ Unreported(s.job[j], job(j)) /\ NoNewMark(s.job[j], job(j))
  <2>1. /\ s.job[j] \in JobRecords /\ MarkStands(s.job[j])
        /\ Tasks(s, j) \in Seq(Task) /\ Len(Tasks(s, j)) \in 0..MaxTasksPerJob
        /\ DOMAIN Tasks(s, j) = 1..Len(Tasks(s, j))
    BY GoodIs
  <2>2. \A t \in DOMAIN Tasks(s, j) : list(j)[t] \in Task /\ list(j)[t].done = Tasks(s, j)[t].done
    <3> TAKE t \in DOMAIN Tasks(s, j)
    <3>1. Tasks(s, j)[t] \in Task
      BY <2>1
    <3>2. Tasks(s, j)[t].due \in 0..Longest
      BY <3>1 DEF Task
    <3>3. Sooner(Tasks(s, j)[t].due) \in 0..Longest
      BY <3>2, LongestIs DEF Sooner
    <3>4. list(j)[t] = [Tasks(s, j)[t] EXCEPT !.due = Sooner(Tasks(s, j)[t].due)]
      BY DEF Tasks
    <3> HIDE DEF list
    <3> QED BY <3>1, <3>3, <3>4 DEF Task
  <2>3. list(j) \in TaskLists /\ DOMAIN list(j) = DOMAIN Tasks(s, j)
    <3>1. list(j) \in [1..Len(Tasks(s, j)) -> Task]
      BY <2>1, <2>2 DEF Tasks
    <3>0. DOMAIN list(j) = DOMAIN Tasks(s, j)
      BY DEF Tasks
    <3> HIDE DEF list
    <3>2. list(j) \in Seq(Task) /\ Len(list(j)) = Len(Tasks(s, j))
      BY <2>1, <3>1
    <3> QED BY <2>1, <3>1, <3>2 DEF TaskLists
  <2> HIDE DEF list
  <2>4. /\ job(j) \in JobRecords /\ job(j).tasks = list(j) /\ job(j).mark = s.job[j].mark
        /\ job(j).state = s.job[j].state /\ job(j).failures = s.job[j].failures
    <3>1. s.job[j].next \in Never..Every
      BY <2>1 DEF JobRecords
    <3>2. Sooner(s.job[j].next) \in Never..Every
      BY <3>1, Numbers DEF Sooner, Never
    <3> QED BY <2>1, <2>3, <3>2 DEF JobRecords
  <2> HIDE DEF job
  <2>5. job(j) \in GoodJobs
    BY <2>1, <2>2, <2>3, <2>4 DEF GoodJobs, MarkStands, Unfinished, Tasks
  <2>6. Unreported(s.job[j], job(j))
    BY <2>2, <2>3, <2>4 DEF Unreported, Tasks
  <2> QED BY <2>4, <2>5, <2>6 DEF NoNewMark
<1> HIDE DEF job, claim
<1> QED BY <1>1, <1>2, <1>3 DEF Good, Quiet

-----------------------------------------------------------------------------
(***************************************************************************)
(* The operations done for each of a list in turn.                         *)
(***************************************************************************)
LEMMA Division ==
    ASSUME NEW a \in Nat \ {0}, NEW b \in Nat \ {0}, NEW n \in 1..(a * b)
    PROVE  (n - 1) \div b \in 0..(a - 1) /\ (n - 1) % b \in 0..(b - 1)
<1> DEFINE q == (n - 1) \div b
           r == (n - 1) % b
<1>1. a * b \in Nat
  OBVIOUS
<1>2. n - 1 \in Nat /\ n - 1 < a * b
  BY <1>1
<1>3. q \in Int /\ r \in 0..(b - 1) /\ n - 1 = b * q + r
  BY <1>2
<1> HIDE DEF q, r
<1>4. q >= 0
  <2> SUFFICES ASSUME q <= -1
               PROVE  FALSE
    BY <1>3
  <2>1. b * q <= b * (-1)
    BY <1>3
  <2> QED BY <1>2, <1>3, <2>1
<1>5. q <= a - 1
  <2> SUFFICES ASSUME q >= a
               PROVE  FALSE
    BY <1>3
  <2>1. b * q >= b * a /\ b * a = a * b
    BY <1>3
  <2> QED BY <1>1, <1>2, <1>3, <2>1
<1> QED BY <1>3, <1>4, <1>5 DEF q, r

LEMMA PlacesAre ==
    /\ NJobs * MaxTasksPerJob \in Nat
    /\ Places \in [1..(NJobs * MaxTasksPerJob) -> JobId \X TaskNo]
    /\ Len(Places) = NJobs * MaxTasksPerJob
<1>1. NJobs * MaxTasksPerJob \in Nat
  BY Numbers
<1>2. ASSUME NEW n \in 1..(NJobs * MaxTasksPerJob)
      PROVE  <<1 + ((n - 1) \div MaxTasksPerJob), 1 + ((n - 1) % MaxTasksPerJob)>> \in JobId \X TaskNo
  <2> DEFINE q == (n - 1) \div MaxTasksPerJob
             r == (n - 1) % MaxTasksPerJob
  <2>1. q \in 0..(NJobs - 1) /\ r \in 0..(MaxTasksPerJob - 1)
    BY Numbers, Division
  <2> HIDE DEF q, r
  <2>2. 1 + q \in JobId /\ 1 + r \in TaskNo
    BY <2>1, Numbers DEF JobId, TaskNo
  <2> QED BY <2>2 DEF q, r
<1>3. Places \in [1..(NJobs * MaxTasksPerJob) -> JobId \X TaskNo]
  <2> DEFINE place(n) == <<1 + ((n - 1) \div MaxTasksPerJob), 1 + ((n - 1) % MaxTasksPerJob)>>
  <2>1. Places = [n \in 1..(NJobs * MaxTasksPerJob) |-> place(n)]
    BY DEF Places
  <2>2. \A n \in 1..(NJobs * MaxTasksPerJob) : place(n) \in JobId \X TaskNo
    BY <1>2
  <2> HIDE DEF place
  <2> QED BY <2>1, <2>2
<1>4. Len(Places) = NJobs * MaxTasksPerJob
  <2> DEFINE n == NJobs * MaxTasksPerJob
  <2>1. n \in Nat /\ DOMAIN Places = 1..n /\ Places \in [1..n -> JobId \X TaskNo]
    BY <1>1, <1>3
  <2> HIDE DEF n
  <2>2. Places \in Seq(JobId \X TaskNo)
    BY <2>1
  <2> QED BY <2>1, <2>2 DEF n
<1> QED BY <1>1, <1>3, <1>4

LEMMA OldestFirstIs ==
    OldestFirst \in [1..NJobs -> JobId] /\ Len(OldestFirst) = NJobs
<1>1. OldestFirst \in [1..NJobs -> JobId] /\ NJobs \in Nat
  BY Numbers DEF OldestFirst, JobId
<1>2. OldestFirst \in Seq(JobId)
  BY <1>1
<1> QED BY <1>1, <1>2

\* The values of an operation done in turn are there, and in the set that every
\* step stays in.
Turned(g, S, left, n, step) ==
    /\ g = [m \in 0..n |-> IF m = 0 THEN left ELSE step[m][g[m - 1]]]
    /\ \A m \in 0..n : g[m] \in S

LEMMA InTurnIsThere ==
    ASSUME NEW S, NEW left \in S, NEW n \in Nat, NEW step \in StepsOn(S, n)
    PROVE  \E g : Turned(g, S, left, n, step)
<1>1. PICK g : Made(g, S, left, n, step)
  BY Recursion
<1>2. g = [m \in 0..n |-> IF m = 0 THEN left ELSE step[m][g[m - 1]]]
  BY <1>1 DEF Made
<1> QED BY <1>1, <1>2 DEF Made, Turned

\* Claims past their budget are taken for failures, of running jobs alone.
LEMMA ReleasingIsLed ==
    ASSUME NEW s \in Good
    PROVE  ReleaseTasksPastTheirBudget(s) \in Lists(Led(s))
<1> DEFINE S == Lists(Led(s))
           n == Len(Places)
           one(stores, p) ==
              LET now == Last(stores)
              IN  IF Expired(now, p[1], p[2]) /\ now.job[p[1]].state = "running"
                    THEN FinishTask(stores, p[1], p[2], TRUE)
                    ELSE stores
           step == [m \in 1..n |-> [stores \in S |-> one(stores, Places[m])]]
           Body(x, m) == CHOOSE next \in {one(before, Places[m]) : before \in {x}} : TRUE
           Is(g) == g = [m \in 0..n |-> IF m = 0 THEN <<s>> ELSE Body(g[m - 1], m)]
           f == CHOOSE g : Is(g)
<1>1. n \in Nat /\ \A m \in 1..n : Places[m] \in JobId \X TaskNo
  BY PlacesAre
<1>2. LedClosed(Led(s)) /\ <<s>> \in S
  BY LedIsClosed, ListOfOne
<1>3. ASSUME NEW stores \in S, NEW m \in 1..n
      PROVE  one(stores, Places[m]) \in S
  <2> DEFINE j == Places[m][1]
             t == Places[m][2]
             now == Last(stores)
  <2>1. j \in JobId
    BY <1>1
  <2>2. CASE Expired(now, j, t) /\ now.job[j].state = "running"
    <3>1. now \in Good
      BY <1>2, LastIs DEF LedClosed
    <3>2. Last(stores).job[j].mark = NoMark
      BY <2>1, <2>2, <3>1, GoodIs DEF MarkStands
    <3> HIDE DEF j, t
    <3>3. FinishTask(stores, j, t, TRUE) \in S
      BY <1>2, <2>1, <3>2, FinishingIsLed
    <3> QED BY <2>2, <3>3 DEF j, t
  <2>3. CASE ~(Expired(now, j, t) /\ now.job[j].state = "running")
    BY <2>3
  <2> QED BY <2>2, <2>3
<1>4. ASSUME NEW x, NEW m
      PROVE  Body(x, m) = one(x, Places[m])
  <2> HIDE DEF one
  <2> QED OBVIOUS
<1>5. step \in StepsOn(S, n)
  <2> HIDE DEF one, S, n
  <2> QED BY <1>3 DEF StepsOn
<1>6. \E g : Is(g)
  <2> HIDE DEF S, n, step, one
  <2>0. PICK g : Turned(g, S, <<s>>, n, step)
    BY <1>1, <1>2, <1>5, InTurnIsThere
  <2>1. /\ g = [m \in 0..n |-> IF m = 0 THEN <<s>> ELSE step[m][g[m - 1]]]
        /\ \A m \in 0..n : g[m] \in S
    BY <2>0 DEF Turned
  <2>2. \A m \in 1..n : step[m][g[m - 1]] = Body(g[m - 1], m)
    <3> TAKE m \in 1..n
    <3>1. g[m - 1] \in S
      BY <1>1, <2>1
    <3>2. step[m][g[m - 1]] = one(g[m - 1], Places[m])
      BY <3>1 DEF step
    <3> HIDE DEF Body
    <3> QED BY <1>4, <3>2
  <2> HIDE DEF Body
  <2>3. Is(g)
    BY <1>1, <2>1, <2>2
  <2> QED BY <2>3, Zenon
<1>7. Is(f)
  <2> HIDE DEF Is
  <2> QED BY <1>6, Zenon
<1>8. ReleaseTasksPastTheirBudget(s) = f[n]
  BY DEF ReleaseTasksPastTheirBudget, InTurn
<1> HIDE DEF f, n, S, one
<1>9. f[0] = <<s>> /\ \A m \in 1..n : f[m] = one(f[m - 1], Places[m])
  <2> HIDE DEF Body
  <2> QED BY <1>1, <1>4, <1>7
<1>10. \A m \in 1..n : f[m - 1] \in S => f[m] \in S
  BY <1>3, <1>9
<1>11. f[n] \in S
  BY <1>1, <1>2, <1>9, <1>10, KeptToTheEnd
<1> QED BY <1>8, <1>11 DEF S

\* What NextTask has after some of the jobs: the stores, and no task yet or one
\* that is still to be done, of a job that was not put down.
HandsOut(store0, j, t) ==
    /\ j \in JobId /\ t \in TaskNo
    /\ store0.job[j].mark = NoMark
    /\ t \in Unfinished(Tasks(store0, j))

Asks(s) ==
    {left \in [stores : Lists(Led(s)), got : {<<>>} \cup (JobId \X TaskNo)] :
        left.got # <<>> => HandsOut(Last(left.stores), left.got[1], left.got[2])}

LEMMA NextTaskHandsOut ==
    ASSUME NEW s \in Good
    PROVE  NextTask(s) \in Asks(s)
<1> DEFINE S == Asks(s)
           n == Len(OldestFirst)
           first0 == [stores |-> ReleaseTasksPastTheirBudget(s), got |-> <<>>]
           ready(now, j) == {t \in DOMAIN Tasks(now, j) : MayStart(now, j, t)}
           first(now, j) == CHOOSE t \in ready(now, j) : \A other \in ready(now, j) : t <= other
           claims(left, j) ==
              LET now == Last(left.stores)
                  claimed == [now EXCEPT !.claim[j][first(now, j)] = TaskBudget]
              IN  IF now.job[j].state # "running" \/ ready(now, j) = {} THEN left
                  ELSE [stores |-> left.stores \o <<claimed, claimed>>,
                        got |-> <<j, first(now, j)>>]
           look(left, j) ==
              IF left.got # <<>> \/ Last(left.stores).job[j].state # "running"
                THEN left
                ELSE claims([left EXCEPT !.stores = TickSchedule(@, j)], j)
           step == [m \in 1..n |-> [left \in S |-> look(left, OldestFirst[m])]]
           Body(x, m) == CHOOSE next \in {look(before, OldestFirst[m]) : before \in {x}} : TRUE
           Is(g) == g = [m \in 0..n |-> IF m = 0 THEN first0 ELSE Body(g[m - 1], m)]
           f == CHOOSE g : Is(g)
<1>1. n \in Nat /\ \A m \in 1..n : OldestFirst[m] \in JobId
  BY OldestFirstIs, Numbers
<1>2. LedClosed(Led(s)) /\ Closed(Led(s))
  BY LedIsClosed, LedClosedIsClosed
<1>3. first0 \in S
  BY ReleasingIsLed DEF Asks
<1>4. ASSUME NEW left \in S, NEW j \in JobId, left.got = <<>>
      PROVE  claims(left, j) \in S
  <2> DEFINE now == Last(left.stores)
             t == first(now, j)
             claimed == [now EXCEPT !.claim[j][t] = TaskBudget]
  <2>1. left.stores \in Lists(Led(s)) /\ now \in Led(s) /\ now \in Good
    BY <1>2, LastIs DEF Asks, LedClosed
  <2>2. CASE now.job[j].state # "running" \/ ready(now, j) = {}
    BY <2>2
  <2>3. CASE ~(now.job[j].state # "running" \/ ready(now, j) = {})
    <3>1. claims(left, j) = [stores |-> left.stores \o <<claimed, claimed>>, got |-> <<j, t>>]
      BY <2>3
    <3> HIDE DEF now
    <3>2. /\ DOMAIN Tasks(now, j) = 1..Len(Tasks(now, j)) /\ Len(Tasks(now, j)) \in 0..MaxTasksPerJob
          /\ now.job[j].mark = NoMark
      BY <2>1, <2>3, GoodIs DEF MarkStands
    <3>3. t \in ready(now, j)
      <4>1. ready(now, j) \in SUBSET Nat
        BY <3>2
      <4> HIDE DEF ready
      <4>2. \E u \in ready(now, j) : \A other \in ready(now, j) : u <= other
        BY <2>3, <4>1, LeastOfSome
      <4> QED BY <4>2
    <3>4. t \in Unfinished(Tasks(now, j)) /\ t \in TaskNo
      BY <3>2, <3>3, Numbers DEF MayStart, TaskNo
    <3> HIDE DEF t
    <3>5. claimed \in Quiet(now) /\ claimed.job = now.job
      BY <2>1, <3>4, ClaimIsQuiet
    <3>6. claimed \in Led(s)
      BY <1>2, <2>1, <3>5 DEF Closed
    <3> HIDE DEF claimed
    <3>7. /\ left.stores \o <<claimed, claimed>> \in Lists(Led(s))
          /\ Last(left.stores \o <<claimed, claimed>>) = claimed
      BY <2>1, <3>6, TwoMore
    <3>8. HandsOut(claimed, j, t)
      BY <3>2, <3>4, <3>5 DEF HandsOut, Tasks
    <3> DEFINE longer == left.stores \o <<claimed, claimed>>
               handed == [stores |-> longer, got |-> <<j, t>>]
    <3>9. longer \in Lists(Led(s)) /\ HandsOut(Last(longer), j, t)
      BY <3>7, <3>8
    <3>10. <<j, t>> \in JobId \X TaskNo
      BY <3>4
    <3> HIDE DEF claims, longer
    <3>11. handed \in S
      BY <3>9, <3>10 DEF Asks
    <3> QED BY <3>1, <3>11 DEF longer
  <2> QED BY <2>2, <2>3
<1>5. ASSUME NEW left \in S, NEW j \in JobId
      PROVE  look(left, j) \in S
  <2> HIDE DEF claims
  <2>1. CASE left.got # <<>> \/ Last(left.stores).job[j].state # "running"
    BY <2>1
  <2>2. CASE ~(left.got # <<>> \/ Last(left.stores).job[j].state # "running")
    <3> DEFINE ticked == [left EXCEPT !.stores = TickSchedule(@, j)]
    <3>1. look(left, j) = claims(ticked, j)
      BY <2>2
    <3>2. left.stores \in Lists(Led(s)) /\ Last(left.stores) \in Good
      BY <1>2, LastIs DEF Asks, LedClosed
    <3>3. Last(left.stores).job[j].mark = NoMark
      BY <2>2, <3>2, GoodIs DEF MarkStands
    <3>4. TickSchedule(left.stores, j) \in Lists(Led(s))
      BY <1>2, <3>2, <3>3, TickingIsQuiet
    <3>5. ticked \in S /\ ticked.got = <<>>
      BY <2>2, <3>4 DEF Asks
    <3> HIDE DEF ticked
    <3> QED BY <1>4, <3>1, <3>5
  <2> QED BY <2>1, <2>2
<1>6. ASSUME NEW x, NEW m
      PROVE  Body(x, m) = look(x, OldestFirst[m])
  <2> HIDE DEF look
  <2> QED OBVIOUS
<1>7. step \in StepsOn(S, n)
  <2> HIDE DEF look, S, n
  <2> QED BY <1>1, <1>5 DEF StepsOn
<1>8. \E g : Is(g)
  <2> HIDE DEF S, n, step, look, first0
  <2>0. PICK g : Turned(g, S, first0, n, step)
    BY <1>1, <1>3, <1>7, InTurnIsThere
  <2>1. /\ g = [m \in 0..n |-> IF m = 0 THEN first0 ELSE step[m][g[m - 1]]]
        /\ \A m \in 0..n : g[m] \in S
    BY <2>0 DEF Turned
  <2>2. \A m \in 1..n : step[m][g[m - 1]] = Body(g[m - 1], m)
    <3> TAKE m \in 1..n
    <3>1. g[m - 1] \in S
      BY <1>1, <2>1
    <3>2. step[m][g[m - 1]] = look(g[m - 1], OldestFirst[m])
      BY <3>1 DEF step
    <3> HIDE DEF Body
    <3> QED BY <1>6, <3>2
  <2> HIDE DEF Body
  <2>3. Is(g)
    BY <1>1, <2>1, <2>2
  <2> QED BY <2>3, Zenon
<1>9. Is(f)
  <2> HIDE DEF Is
  <2> QED BY <1>8, Zenon
<1>10. NextTask(s) = f[n]
  BY DEF NextTask, InTurn
<1> HIDE DEF f, n, S, look, first0
<1>11. f[0] = first0 /\ \A m \in 1..n : f[m] = look(f[m - 1], OldestFirst[m])
  <2> HIDE DEF Body
  <2> QED BY <1>1, <1>6, <1>9
<1>12. \A m \in 1..n : f[m - 1] \in S => f[m] \in S
  BY <1>1, <1>5, <1>11
<1>13. f[n] \in S
  BY <1>1, <1>3, <1>11, <1>12, KeptToTheEnd
<1> QED BY <1>10, <1>13 DEF S

LEMMA AddingEachIsQuiet ==
    ASSUME NEW Z, Closed(Z), NEW left \in Lists(Z), NEW j \in JobId,
           NEW dues, NEW last \in Nat, dues \in [1..last -> Delays]
    PROVE  AddEach(left, j, dues) \in Lists(Z)
<1> DEFINE S == Lists(Z)
           n == Len(dues)
           first == left
           add(stores, due) == AddTask(stores, j, due, FALSE)
           step == [m \in 1..n |-> [x \in S |-> add(x, dues[m])]]
           Body(x, m) == CHOOSE next \in {add(before, dues[m]) : before \in {x}} : TRUE
           Is(g) == g = [m \in 0..n |-> IF m = 0 THEN first ELSE Body(g[m - 1], m)]
           f == CHOOSE g : Is(g)
<1>1. n \in Nat /\ \A m \in 1..n : dues[m] \in Delays
  <2>1. dues \in Seq(Delays) /\ Len(dues) = last
    OBVIOUS
  <2> QED BY <2>1
<1>2. first \in S
  OBVIOUS
<1>3. ASSUME NEW x \in S, NEW due \in Delays
      PROVE  add(x, due) \in S
  BY AddingIsQuiet
<1>4. ASSUME NEW x, NEW m
      PROVE  Body(x, m) = add(x, dues[m])
  <2> HIDE DEF add
  <2> QED OBVIOUS
<1>5. step \in StepsOn(S, n)
  <2> HIDE DEF add, S, n
  <2> QED BY <1>1, <1>3 DEF StepsOn
<1>6. \E g : Is(g)
  <2> HIDE DEF S, n, step, add, first
  <2>0. PICK g : Turned(g, S, first, n, step)
    BY <1>1, <1>2, <1>5, InTurnIsThere
  <2>1. /\ g = [m \in 0..n |-> IF m = 0 THEN first ELSE step[m][g[m - 1]]]
        /\ \A m \in 0..n : g[m] \in S
    BY <2>0 DEF Turned
  <2>2. \A m \in 1..n : step[m][g[m - 1]] = Body(g[m - 1], m)
    <3> TAKE m \in 1..n
    <3>1. g[m - 1] \in S
      BY <1>1, <2>1
    <3>2. step[m][g[m - 1]] = add(g[m - 1], dues[m])
      BY <3>1 DEF step
    <3> HIDE DEF Body
    <3> QED BY <1>4, <3>2
  <2> HIDE DEF Body
  <2>3. Is(g)
    BY <1>1, <2>1, <2>2
  <2> QED BY <2>3, Zenon
<1>7. Is(f)
  <2> HIDE DEF Is
  <2> QED BY <1>6, Zenon
<1>8. AddEach(left, j, dues) = f[n]
  BY DEF AddEach, InTurn
<1> HIDE DEF f, n, S, add, first
<1>9. f[0] = first /\ \A m \in 1..n : f[m] = add(f[m - 1], dues[m])
  <2> HIDE DEF Body
  <2>1. f = [m \in 0..n |-> IF m = 0 THEN first ELSE Body(f[m - 1], m)]
    BY <1>7
  <2>2. f[0] = first
    BY <1>1, <2>1
  <2>3. \A m \in 1..n : f[m] = Body(f[m - 1], m)
    BY <1>1, <2>1
  <2> QED BY <1>4, <2>2, <2>3
<1>10. \A m \in 1..n : f[m - 1] \in S => f[m] \in S
  BY <1>1, <1>3, <1>9
<1>11. f[n] \in S
  BY <1>1, <1>2, <1>9, <1>10, KeptToTheEnd
<1> QED BY <1>8, <1>11 DEF S

LEMMA PausingEachIsQuiet ==
    ASSUME NEW s \in Good, NEW last \in Nat, NEW running \in [1..last -> JobId]
    PROVE  PauseEach(s, running) \in Lists(Quiet(s))
<1> DEFINE S == Lists(Quiet(s))
           n == Len(running)
           first == <<s>>
           pause(stores, j) == Then(stores, SetState(Last(stores), j, "paused"))
           step == [m \in 1..n |-> [x \in S |-> pause(x, running[m])]]
           Body(x, m) == CHOOSE next \in {pause(before, running[m]) : before \in {x}} : TRUE
           Is(g) == g = [m \in 0..n |-> IF m = 0 THEN first ELSE Body(g[m - 1], m)]
           f == CHOOSE g : Is(g)
<1>1. n \in Nat /\ \A m \in 1..n : running[m] \in JobId
  <2>1. running \in Seq(JobId) /\ Len(running) = last
    OBVIOUS
  <2> QED BY <2>1
<1>2. first \in S
  BY NothingIsQuiet, ListOfOne
<1>3. ASSUME NEW x \in S, NEW j \in JobId
      PROVE  pause(x, j) \in S
  <2>1. Last(x) \in Quiet(s) /\ Last(x) \in Good
    BY LastIs DEF Quiet
  <2>2. SetState(Last(x), j, "paused") \in Quiet(Last(x))
    BY <2>1, StateIsQuiet DEF States
  <2>3. SetState(Last(x), j, "paused") \in Quiet(s)
    BY <2>1, <2>2, QuietTwice
  <2> QED BY <2>3, OneMore
<1>4. ASSUME NEW x, NEW m
      PROVE  Body(x, m) = pause(x, running[m])
  <2> HIDE DEF pause
  <2> QED OBVIOUS
<1>5. step \in StepsOn(S, n)
  <2> HIDE DEF pause, S, n
  <2> QED BY <1>1, <1>3 DEF StepsOn
<1>6. \E g : Is(g)
  <2> HIDE DEF S, n, step, pause, first
  <2>0. PICK g : Turned(g, S, first, n, step)
    BY <1>1, <1>2, <1>5, InTurnIsThere
  <2>1. /\ g = [m \in 0..n |-> IF m = 0 THEN first ELSE step[m][g[m - 1]]]
        /\ \A m \in 0..n : g[m] \in S
    BY <2>0 DEF Turned
  <2>2. \A m \in 1..n : step[m][g[m - 1]] = Body(g[m - 1], m)
    <3> TAKE m \in 1..n
    <3>1. g[m - 1] \in S
      BY <1>1, <2>1
    <3>2. step[m][g[m - 1]] = pause(g[m - 1], running[m])
      BY <3>1 DEF step
    <3> HIDE DEF Body
    <3> QED BY <1>4, <3>2
  <2> HIDE DEF Body
  <2>3. Is(g)
    BY <1>1, <2>1, <2>2
  <2> QED BY <2>3, Zenon
<1>7. Is(f)
  <2> HIDE DEF Is
  <2> QED BY <1>6, Zenon
<1>8. PauseEach(s, running) = f[n]
  BY DEF PauseEach, InTurn
<1> HIDE DEF f, n, S, pause, first
<1>9. f[0] = first /\ \A m \in 1..n : f[m] = pause(f[m - 1], running[m])
  <2> HIDE DEF Body
  <2>1. f = [m \in 0..n |-> IF m = 0 THEN first ELSE Body(f[m - 1], m)]
    BY <1>7
  <2>2. f[0] = first
    BY <1>1, <2>1
  <2>3. \A m \in 1..n : f[m] = Body(f[m - 1], m)
    BY <1>1, <2>1
  <2> QED BY <1>4, <2>2, <2>3
<1>10. \A m \in 1..n : f[m - 1] \in S => f[m] \in S
  BY <1>1, <1>3, <1>9
<1>11. f[n] \in S
  BY <1>1, <1>2, <1>9, <1>10, KeptToTheEnd
<1> QED BY <1>8, <1>11 DEF S

LEMMA StartingEachIsQuiet ==
    ASSUME NEW s \in Good, NEW last \in Nat, NEW stopped \in [1..last -> JobId]
    PROVE  StartEach(s, stopped) \in Lists(Quiet(s))
<1> DEFINE S == Lists(Quiet(s))
           n == Len(stopped)
           first == <<s>>
           start(stores, j) == StartWorking(stores, j)
           step == [m \in 1..n |-> [x \in S |-> start(x, stopped[m])]]
           Body(x, m) == CHOOSE next \in {start(before, stopped[m]) : before \in {x}} : TRUE
           Is(g) == g = [m \in 0..n |-> IF m = 0 THEN first ELSE Body(g[m - 1], m)]
           f == CHOOSE g : Is(g)
<1>1. n \in Nat /\ \A m \in 1..n : stopped[m] \in JobId
  <2>1. stopped \in Seq(JobId) /\ Len(stopped) = last
    OBVIOUS
  <2> QED BY <2>1
<1>2. first \in S
  BY NothingIsQuiet, ListOfOne
<1>3. ASSUME NEW x \in S, NEW j \in JobId
      PROVE  start(x, j) \in S
  BY QuietIsClosed, StartingIsQuiet
<1>4. ASSUME NEW x, NEW m
      PROVE  Body(x, m) = start(x, stopped[m])
  <2> HIDE DEF start
  <2> QED OBVIOUS
<1>5. step \in StepsOn(S, n)
  <2> HIDE DEF start, S, n
  <2> QED BY <1>1, <1>3 DEF StepsOn
<1>6. \E g : Is(g)
  <2> HIDE DEF S, n, step, start, first
  <2>0. PICK g : Turned(g, S, first, n, step)
    BY <1>1, <1>2, <1>5, InTurnIsThere
  <2>1. /\ g = [m \in 0..n |-> IF m = 0 THEN first ELSE step[m][g[m - 1]]]
        /\ \A m \in 0..n : g[m] \in S
    BY <2>0 DEF Turned
  <2>2. \A m \in 1..n : step[m][g[m - 1]] = Body(g[m - 1], m)
    <3> TAKE m \in 1..n
    <3>1. g[m - 1] \in S
      BY <1>1, <2>1
    <3>2. step[m][g[m - 1]] = start(g[m - 1], stopped[m])
      BY <3>1 DEF step
    <3> HIDE DEF Body
    <3> QED BY <1>4, <3>2
  <2> HIDE DEF Body
  <2>3. Is(g)
    BY <1>1, <2>1, <2>2
  <2> QED BY <2>3, Zenon
<1>7. Is(f)
  <2> HIDE DEF Is
  <2> QED BY <1>6, Zenon
<1>8. StartEach(s, stopped) = f[n]
  BY DEF StartEach, InTurn
<1> HIDE DEF f, n, S, start, first
<1>9. f[0] = first /\ \A m \in 1..n : f[m] = start(f[m - 1], stopped[m])
  <2> HIDE DEF Body
  <2>1. f = [m \in 0..n |-> IF m = 0 THEN first ELSE Body(f[m - 1], m)]
    BY <1>7
  <2>2. f[0] = first
    BY <1>1, <2>1
  <2>3. \A m \in 1..n : f[m] = Body(f[m - 1], m)
    BY <1>1, <2>1
  <2> QED BY <1>4, <2>2, <2>3
<1>10. \A m \in 1..n : f[m - 1] \in S => f[m] \in S
  BY <1>1, <1>3, <1>9
<1>11. f[n] \in S
  BY <1>1, <1>2, <1>9, <1>10, KeptToTheEnd
<1> QED BY <1>8, <1>11 DEF S

LEMMA NothingIsUnread ==
    ASSUME NEW s \in Good
    PROVE  s \in Unread(s)
  BY DEF Unread, Unreported

LEMMA ReleasingEachIsUnread ==
    ASSUME NEW s \in Good, NEW gone
    PROVE  ReleaseEach(s, gone) \in Lists(Unread(s))
<1> DEFINE S == Lists(Unread(s))
           n == Len(Places)
           first == <<s>>
           release(stores, p) == IF p \in gone THEN Then(stores, Release(Last(stores), p[1], p[2]))
                                 ELSE stores
           step == [m \in 1..n |-> [x \in S |-> release(x, Places[m])]]
           Body(x, m) == CHOOSE next \in {release(before, Places[m]) : before \in {x}} : TRUE
           Is(g) == g = [m \in 0..n |-> IF m = 0 THEN first ELSE Body(g[m - 1], m)]
           f == CHOOSE g : Is(g)
<1>1. n \in Nat /\ \A m \in 1..n : Places[m] \in JobId \X TaskNo
  BY PlacesAre
<1>2. first \in S
  BY NothingIsUnread, ListOfOne
<1>3. ASSUME NEW x \in S, NEW p \in JobId \X TaskNo
      PROVE  release(x, p) \in S
  <2>1. Last(x) \in Unread(s) /\ Last(x) \in Good
    BY LastIs DEF Unread
  <2>2. Release(Last(x), p[1], p[2]) \in Quiet(Last(x))
    BY <2>1, ReleaseIsQuiet
  <2>3. Release(Last(x), p[1], p[2]) \in Unread(s)
    BY <2>1, <2>2, QuietIsUnread
  <2> QED BY <2>3, OneMore
<1>4. ASSUME NEW x, NEW m
      PROVE  Body(x, m) = release(x, Places[m])
  <2> HIDE DEF release
  <2> QED OBVIOUS
<1>5. step \in StepsOn(S, n)
  <2> HIDE DEF release, S, n
  <2> QED BY <1>1, <1>3 DEF StepsOn
<1>6. \E g : Is(g)
  <2> HIDE DEF S, n, step, release, first
  <2>0. PICK g : Turned(g, S, first, n, step)
    BY <1>1, <1>2, <1>5, InTurnIsThere
  <2>1. /\ g = [m \in 0..n |-> IF m = 0 THEN first ELSE step[m][g[m - 1]]]
        /\ \A m \in 0..n : g[m] \in S
    BY <2>0 DEF Turned
  <2>2. \A m \in 1..n : step[m][g[m - 1]] = Body(g[m - 1], m)
    <3> TAKE m \in 1..n
    <3>1. g[m - 1] \in S
      BY <1>1, <2>1
    <3>2. step[m][g[m - 1]] = release(g[m - 1], Places[m])
      BY <3>1 DEF step
    <3> HIDE DEF Body
    <3> QED BY <1>4, <3>2
  <2> HIDE DEF Body
  <2>3. Is(g)
    BY <1>1, <2>1, <2>2
  <2> QED BY <2>3, Zenon
<1>7. Is(f)
  <2> HIDE DEF Is
  <2> QED BY <1>6, Zenon
<1>8. ReleaseEach(s, gone) = f[n]
  BY DEF ReleaseEach, InTurn
<1> HIDE DEF f, n, S, release, first
<1>9. f[0] = first /\ \A m \in 1..n : f[m] = release(f[m - 1], Places[m])
  <2> HIDE DEF Body
  <2>1. f = [m \in 0..n |-> IF m = 0 THEN first ELSE Body(f[m - 1], m)]
    BY <1>7
  <2>2. f[0] = first
    BY <1>1, <2>1
  <2>3. \A m \in 1..n : f[m] = Body(f[m - 1], m)
    BY <1>1, <2>1
  <2> QED BY <1>4, <2>2, <2>3
<1>10. \A m \in 1..n : f[m - 1] \in S => f[m] \in S
  BY <1>1, <1>3, <1>9
<1>11. f[n] \in S
  BY <1>1, <1>2, <1>9, <1>10, KeptToTheEnd
<1> QED BY <1>8, <1>11 DEF S

\* Opening puts down tasks that had made a record, which are still to be done.
LEMMA OpeningIsUnread ==
    ASSUME NEW s \in Good, NEW gone,
           \A p \in recorded : p[2] \in Unfinished(Tasks(s, p[1]))
    PROVE  Open(s, gone) \in Lists(Unread(s))
<1> DEFINE S == Lists(Unread(s))
           n == Len(Places)
           first == ReleaseEach(s, gone)
           putDown(stores, p) ==
              LET now == Last(stores)
                  j == p[1]
                  t == p[2]
              IN  IF /\ p \in gone /\ now.job[j].state = "running"
                     /\ ~Tasks(s, j)[t].unattended /\ ~Tasks(s, j)[t].done
                     /\ p \in recorded
                    THEN Then(stores, PutDown(now, j, t))
                    ELSE stores
           step == [m \in 1..n |-> [x \in S |-> putDown(x, Places[m])]]
           Body(x, m) == CHOOSE next \in {putDown(before, Places[m]) : before \in {x}} : TRUE
           Is(g) == g = [m \in 0..n |-> IF m = 0 THEN first ELSE Body(g[m - 1], m)]
           f == CHOOSE g : Is(g)
<1>1. n \in Nat /\ \A m \in 1..n : Places[m] \in JobId \X TaskNo
  BY PlacesAre
<1>2. first \in S
  BY ReleasingEachIsUnread
<1>3. ASSUME NEW x \in S, NEW p \in JobId \X TaskNo
      PROVE  putDown(x, p) \in S
  <2> DEFINE now == Last(x)
             z == PutDown(now, p[1], p[2])
  <2>1. CASE p \in recorded
    <3>1. now \in Unread(s) /\ p[1] \in JobId
      BY LastIs
    <3>2. p[2] \in Unfinished(Tasks(s, p[1]))
      BY <2>1
    <3>3. p[2] \in Unfinished(Tasks(now, p[1]))
      <4> HIDE DEF now
      <4>1. Unreported(s.job[p[1]], now.job[p[1]])
        BY <3>1 DEF Unread
      <4> QED BY <3>2, <4>1 DEF Unreported, Unfinished, Tasks
    <3>4. z \in Unread(s)
      <4> HIDE DEF now
      <4> QED BY <3>1, <3>3, PuttingDownIsUnread
    <3>5. Then(x, z) \in S
      <4> HIDE DEF z
      <4> QED BY <3>4, OneMore
    <3> QED BY <3>5
  <2>2. CASE p \notin recorded
    BY <2>2
  <2> QED BY <2>1, <2>2
<1>4. ASSUME NEW x, NEW m
      PROVE  Body(x, m) = putDown(x, Places[m])
  <2> HIDE DEF putDown
  <2> QED OBVIOUS
<1>5. step \in StepsOn(S, n)
  <2> HIDE DEF putDown, S, n
  <2> QED BY <1>1, <1>3 DEF StepsOn
<1>6. \E g : Is(g)
  <2> HIDE DEF S, n, step, putDown, first
  <2>0. PICK g : Turned(g, S, first, n, step)
    BY <1>1, <1>2, <1>5, InTurnIsThere
  <2>1. /\ g = [m \in 0..n |-> IF m = 0 THEN first ELSE step[m][g[m - 1]]]
        /\ \A m \in 0..n : g[m] \in S
    BY <2>0 DEF Turned
  <2>2. \A m \in 1..n : step[m][g[m - 1]] = Body(g[m - 1], m)
    <3> TAKE m \in 1..n
    <3>1. g[m - 1] \in S
      BY <1>1, <2>1
    <3>2. step[m][g[m - 1]] = putDown(g[m - 1], Places[m])
      BY <3>1 DEF step
    <3> HIDE DEF Body
    <3> QED BY <1>4, <3>2
  <2> HIDE DEF Body
  <2>3. Is(g)
    BY <1>1, <2>1, <2>2
  <2> QED BY <2>3, Zenon
<1>7. Is(f)
  <2> HIDE DEF Is
  <2> QED BY <1>6, Zenon
<1>8. Open(s, gone) = f[n]
  BY DEF Open, InTurn
<1> HIDE DEF f, n, S, putDown, first
<1>9. f[0] = first /\ \A m \in 1..n : f[m] = putDown(f[m - 1], Places[m])
  <2> HIDE DEF Body
  <2>1. f = [m \in 0..n |-> IF m = 0 THEN first ELSE Body(f[m - 1], m)]
    BY <1>7
  <2>2. f[0] = first
    BY <1>1, <2>1
  <2>3. \A m \in 1..n : f[m] = Body(f[m - 1], m)
    BY <1>1, <2>1
  <2> QED BY <1>4, <2>2, <2>3
<1>10. \A m \in 1..n : f[m - 1] \in S => f[m] \in S
  BY <1>1, <1>3, <1>9
<1>11. f[n] \in S
  BY <1>1, <1>2, <1>9, <1>10, KeptToTheEnd
<1> QED BY <1>8, <1>11 DEF S

-----------------------------------------------------------------------------
(***************************************************************************)
(* The inductive invariant.  The store is a good one; a run that goes on   *)
(* is of a job that was not put down, and until it ends its task is still  *)
(* to be done; records are kept of tasks that are still to be done alone.  *)
(***************************************************************************)
OthersTyped ==
    /\ up \in BOOLEAN
    /\ paused \in Seq(JobId)
    /\ commands \in 0..MaxCommands
    /\ faults \in 0..MaxFaults

Runs == [job : 0..NJobs, task : 0..MaxTasksPerJob, attended : BOOLEAN,
         step : {"none", "working", "passed", "failed", "fix"}]

RunInv ==
    /\ run \in Runs
    /\ run = NoRun \/ Place \in JobId \X TaskNo
    /\ ~up => run = NoRun
    /\ \A j \in JobId : store.job[j].mark # NoMark => run.job # j
    /\ run.step = "working" => run.task \in Unfinished(Tasks(store, run.job))

RecordedInv ==
    /\ recorded \in SUBSET (JobId \X TaskNo)
    /\ \A p \in recorded : p[2] \in Unfinished(Tasks(store, p[1]))

JobsInv == store \in Good /\ OthersTyped /\ RunInv /\ RecordedInv

\* What a step does with what is finished and with the task of the run that
\* goes on.
KeepsReports ==
    /\ \A j \in JobId : DoneStays(store.job[j], store'.job[j])
    /\ run # NoRun /\ run' = run /\ run.step = "working" =>
         \A j \in JobId : Unreported(store.job[j], store'.job[j])

LEMMA HowItEnds ==
    ASSUME NEW S, NEW stores \in Lists(S), OthersTyped
    PROVE  /\ Completes(stores) \/ IsRefused(stores) =>
                store' \in S /\ up' = up /\ faults' \in 0..MaxFaults
           /\ GoesWrong(stores) => store' \in S /\ faults' \in 0..MaxFaults
           /\ IsKilled(stores) => store' \in S /\ run' = NoRun /\ OthersTyped'
<1>1. faults < MaxFaults /\ faults' = faults + 1 => faults' \in 0..MaxFaults
  BY Numbers DEF OthersTyped
<1>2. stores \in Seq(S) /\ DOMAIN stores = 1..Len(stores) /\ Len(stores) \in Nat /\ Len(stores) # 0
  BY DEF Lists
<1>3. Completes(stores) => store' \in S /\ up' = up /\ faults' \in 0..MaxFaults
  BY LastIs DEF Completes, OthersTyped
<1>4. GoesWrong(stores) => store' \in S /\ faults' \in 0..MaxFaults
  BY <1>1, <1>2 DEF GoesWrong
<1>5. IsRefused(stores) => store' \in S /\ up' = up /\ faults' \in 0..MaxFaults
  <2> SUFFICES ASSUME IsRefused(stores)
               PROVE  store' \in S /\ up' = up /\ faults' \in 0..MaxFaults
    OBVIOUS
  <2>1. PICK n \in DOMAIN Front(stores) : store' = Front(stores)[n]
    BY DEF IsRefused, GoesWrong
  <2>2. DOMAIN Front(stores) = 1..(Len(stores) - 1) /\ \A k \in 1..(Len(stores) - 1) : Front(stores)[k] = stores[k]
    BY <1>2 DEF Front
  <2>3. store' \in S
    BY <1>2, <2>1, <2>2
  <2> QED BY <1>1, <2>3 DEF IsRefused, GoesWrong
<1>6. IsKilled(stores) => store' \in S /\ run' = NoRun /\ OthersTyped'
  <2>1. <<>> \in Seq(JobId)
    OBVIOUS
  <2> QED BY <1>4, <2>1 DEF IsKilled, OthersTyped
<1> QED BY <1>3, <1>4, <1>5, <1>6

\* The records that are kept.
LEMMA RecordsAreKept ==
    ASSUME NEW newest, NEW records \in SUBSET (JobId \X TaskNo), KeepTheRunsOf(newest, records)
    PROVE  RecordedInv'
  BY DEF KeepTheRunsOf, StillToDo, RecordedInv

LEMMA RecordsStay ==
    ASSUME RecordedInv, store' \in Unread(store), recorded' = recorded
    PROVE  RecordedInv'
<1>1. ASSUME NEW p \in recorded
      PROVE  p[2] \in Unfinished(Tasks(store', p[1]))
  <2>1. p[1] \in JobId /\ p[2] \in Unfinished(Tasks(store, p[1]))
    BY DEF RecordedInv
  <2>2. Unreported(store.job[p[1]], store'.job[p[1]])
    BY <2>1 DEF Unread
  <2> QED BY <2>1, <2>2 DEF Unreported, Unfinished, Tasks
<1> QED BY <1>1 DEF RecordedInv

\* No run goes on after the step.
LEMMA NoRunGoesOn ==
    ASSUME JobsInv, store' \in Led(store) \cup Unread(store), OthersTyped', RecordedInv', run' = NoRun
    PROVE  JobsInv' /\ KeepsReports
<1>1. store' \in Good /\ \A j \in JobId : DoneStays(store.job[j], store'.job[j])
  BY DEF Led, Unread, Unreported, DoneStays
<1>2. RunInv'
  <2>1. NoRun \in Runs /\ NoRun.step = "none" /\ NoRun.job = 0
    <3>1. FALSE \in BOOLEAN /\ 0 \in 0..NJobs /\ 0 \in 0..MaxTasksPerJob
      BY Numbers
    <3> QED BY <3>1 DEF NoRun, Runs
  <2>2. 0 \notin JobId
    BY DEF JobId
  <2> HIDE DEF NoRun
  <2> QED BY <2>1, <2>2 DEF RunInv
<1> QED BY <1>1, <1>2 DEF JobsInv, KeepsReports

\* The run, or that there is none, is as it was.
LEMMA TheRunGoesOn ==
    ASSUME JobsInv, store' \in Quiet(store), OthersTyped', RecordedInv', run' = run, up' = up
    PROVE  JobsInv' /\ KeepsReports
<1>1. /\ store' \in Good
      /\ \A j \in JobId : Unreported(store.job[j], store'.job[j]) /\ NoNewMark(store.job[j], store'.job[j])
  BY DEF Quiet
<1>2. \A j \in JobId : DoneStays(store.job[j], store'.job[j])
  BY <1>1 DEF Unreported, DoneStays
<1>3. RunInv'
  <2>1. run' \in Runs /\ (run' = NoRun \/ Place' \in JobId \X TaskNo) /\ (~up' => run' = NoRun)
    BY DEF JobsInv, RunInv, Place
  <2>2. \A j \in JobId : store'.job[j].mark # NoMark => run'.job # j
    BY <1>1 DEF JobsInv, RunInv, NoNewMark
  <2>3. ASSUME run'.step = "working"
        PROVE  run'.task \in Unfinished(Tasks(store', run'.job))
    <3>1. run.task \in Unfinished(Tasks(store, run.job)) /\ run.job \in JobId
      BY <2>3 DEF JobsInv, RunInv, Place, NoRun
    <3>2. Unreported(store.job[run.job], store'.job[run.job])
      BY <1>1, <3>1
    <3> QED BY <3>1, <3>2 DEF Unreported, Unfinished, Tasks
  <2> QED BY <2>1, <2>2, <2>3 DEF RunInv
<1> QED BY <1>1, <1>2, <1>3 DEF JobsInv, KeepsReports

\* The run has reported its task and goes on with the job's done list.
LEMMA TheRunMovesOn ==
    ASSUME JobsInv, store' \in Led(store), OthersTyped', RecordedInv', up' = up, run # NoRun,
           NEW step \in {"passed", "failed", "fix"}, run' = [run EXCEPT !.step = step]
    PROVE  JobsInv' /\ KeepsReports
<1>1. /\ store' \in Good
      /\ \A j \in JobId : DoneStays(store.job[j], store'.job[j]) /\ NoNewMark(store.job[j], store'.job[j])
  BY DEF Led
<1>2. run \in Runs /\ Place \in JobId \X TaskNo /\ up
  BY DEF JobsInv, RunInv
<1>3. run' \in Runs /\ run'.job = run.job /\ run'.task = run.task /\ run'.step = step
  BY <1>2 DEF Runs
<1>4. run'.step # "working"
  BY <1>3
<1>5. RunInv'
  <2>1. Place' \in JobId \X TaskNo /\ up'
    BY <1>2, <1>3 DEF Place
  <2>2. \A j \in JobId : store'.job[j].mark # NoMark => run'.job # j
    BY <1>1, <1>3 DEF JobsInv, RunInv, NoNewMark
  <2> QED BY <1>3, <1>4, <2>1, <2>2 DEF RunInv
<1>6. ~(run' = run /\ run.step = "working")
  BY <1>4
<1> QED BY <1>1, <1>5, <1>6 DEF JobsInv, KeepsReports

\* A run of a job that was not put down begins.
LEMMA ARunBegins ==
    ASSUME JobsInv, store' \in Led(store), OthersTyped', RecordedInv', up' = TRUE, run = NoRun,
           NEW p \in JobId \X TaskNo, NEW attended \in BOOLEAN, run' = Begin(p, attended),
           store'.job[p[1]].mark = NoMark, p[2] \in Unfinished(Tasks(store', p[1]))
    PROVE  JobsInv' /\ KeepsReports
<1>1. store' \in Good /\ \A j \in JobId : DoneStays(store.job[j], store'.job[j])
  BY DEF Led
<1>2. /\ run' = [job |-> p[1], task |-> p[2], attended |-> attended, step |-> "working"]
      /\ p[1] \in JobId /\ p[2] \in TaskNo
  BY DEF Begin
<1>3. run' \in Runs /\ run'.job = p[1] /\ run'.task = p[2]
  <2>1. p[1] \in 0..NJobs /\ p[2] \in 0..MaxTasksPerJob
    BY <1>2, Numbers DEF JobId, TaskNo
  <2> QED BY <1>2, <2>1 DEF Runs
<1>4. RunInv'
  <2>1. Place' \in JobId \X TaskNo
    BY <1>2, <1>3 DEF Place
  <2> QED BY <1>3, <2>1 DEF RunInv
<1> QED BY <1>1, <1>4 DEF JobsInv, KeepsReports

-----------------------------------------------------------------------------
(***************************************************************************)
(* The actions.                                                            *)
(***************************************************************************)
LEMMA RunStepIs ==
    ASSUME JobsInv, NEW S, NEW operation \in Lists(S), NEW next, RunStep(operation, next)
    PROVE  /\ store' \in S /\ OthersTyped' /\ RecordedInv'
           /\ run' = NoRun \/ (run' = next /\ up' = up)
<1>1. RecordedInv'
  BY RecordsAreKept DEF RunStep, JobsInv, RecordedInv
<1>2. OthersTyped
  BY DEF JobsInv
<1>3. CASE IsKilled(operation)
  BY <1>1, <1>2, <1>3, HowItEnds
<1>4. CASE (Completes(operation) \/ IsRefused(operation)) /\ run' \in {next, NoRun}
           /\ UNCHANGED <<paused, commands>>
  <2>1. store' \in S /\ up' = up /\ faults' \in 0..MaxFaults
    BY <1>2, <1>4, HowItEnds
  <2> QED BY <1>1, <1>2, <1>4, <2>1 DEF OthersTyped
<1> QED BY <1>3, <1>4 DEF RunStep

LEMMA AskedIs ==
    ASSUME JobsInv, NEW S, NEW operation \in Lists(S), NEW remembered \in Seq(JobId),
           Asked(operation, remembered)
    PROVE  /\ store' \in S /\ OthersTyped' /\ RecordedInv'
           /\ run' = NoRun \/ (run' = run /\ up' = up)
<1>1. RecordedInv'
  BY RecordsAreKept DEF Asked, JobsInv, RecordedInv
<1>2. OthersTyped
  BY DEF JobsInv
<1>3. CASE IsKilled(operation)
  BY <1>1, <1>2, <1>3, HowItEnds
<1>4. CASE (Completes(operation) \/ IsRefused(operation)) /\ paused' \in {paused, remembered}
           /\ commands < MaxCommands /\ commands' = commands + 1 /\ run' = run
  <2>1. store' \in S /\ up' = up /\ faults' \in 0..MaxFaults
    BY <1>2, <1>4, HowItEnds
  <2>2. commands' \in 0..MaxCommands
    BY <1>2, <1>4, Numbers DEF OthersTyped
  <2> QED BY <1>1, <1>2, <1>4, <2>1, <2>2 DEF OthersTyped
<1> QED BY <1>3, <1>4 DEF Asked

\* Steps of the run that end it, and what people ask of the store.
LEMMA TheRunEnds ==
    ASSUME JobsInv, NEW operation, operation \in Lists(Led(store)) \/ operation \in Lists(Unread(store)),
           RunStep(operation, NoRun)
    PROVE  JobsInv' /\ KeepsReports
<1>1. /\ store' \in Led(store) \cup Unread(store) /\ OthersTyped' /\ RecordedInv' /\ run' = NoRun
  BY RunStepIs
<1> QED BY <1>1, NoRunGoesOn

LEMMA TheStoreIsAsked ==
    ASSUME JobsInv, NEW operation \in Lists(Quiet(store)), NEW remembered \in Seq(JobId),
           Asked(operation, remembered)
    PROVE  JobsInv' /\ KeepsReports
<1>1. /\ store' \in Quiet(store) /\ OthersTyped' /\ RecordedInv'
      /\ run' = NoRun \/ (run' = run /\ up' = up)
  BY AskedIs
<1> QED BY <1>1, QuietIsLed, NoRunGoesOn, TheRunGoesOn

\* What is known of the run that works at its task.
LEMMA WorkingIs ==
    ASSUME JobsInv, Working
    PROVE  /\ store \in Good /\ run # NoRun /\ Place = <<run.job, run.task>>
           /\ run.job \in JobId /\ run.task \in TaskNo /\ run.attended \in BOOLEAN
           /\ run.task \in Unfinished(Tasks(store, run.job))
           /\ store.job[run.job].mark = NoMark
<1>1. run # NoRun
  BY DEF Working, NoRun
<1> QED BY <1>1 DEF JobsInv, RunInv, Working, Place, Runs

\* What a run may write of its own job as it ends.
LEMMA WritesOfARun ==
    ASSUME JobsInv, Working
    PROVE  /\ PutDownStores(Place) \in Lists(Unread(store))
           /\ FailStores(Place) \in Lists(Led(store))
           /\ FinishTask(<<store>>, run.job, run.task, FALSE) \in Lists(Led(store))
           /\ SetAside(Place) \in Lists(Led(store))
           /\ <<store, WithTask(store, run.job, run.task, "pickedUp", TRUE)>> \in Lists(Quiet(store))
<1> DEFINE j == run.job
           t == run.task
<1>1. /\ store \in Good /\ Place[1] = j /\ Place[2] = t /\ j \in JobId /\ t \in TaskNo
      /\ t \in Unfinished(Tasks(store, j)) /\ store.job[j].mark = NoMark
  BY WorkingIs
<1> HIDE DEF j, t
<1>2. <<store>> \in Lists(Led(store)) /\ Last(<<store>>) = store
  BY <1>1, LedIsClosed, ListOfOne
<1>3. PutDownStores(Place) \in Lists(Unread(store))
  <2>1. store \in Unread(store) /\ PutDown(store, j, t) \in Unread(store)
    BY <1>1, NothingIsUnread, PuttingDownIsUnread
  <2>2. <<store>> \in Lists(Unread(store)) /\ <<store, PutDown(store, j, t)>> \in Lists(Unread(store))
    BY <2>1, ListOfOne, ListsOfTwoAndThree
  <2> QED BY <1>1, <2>2 DEF PutDownStores
<1>4. \A failed \in BOOLEAN : FinishTask(<<store>>, j, t, failed) \in Lists(Led(store))
  BY <1>1, <1>2, LedIsClosed, FinishingIsLed
<1>5. FailStores(Place) \in Lists(Led(store))
  BY <1>1, <1>4 DEF FailStores
<1>6. SetAside(Place) \in Lists(Led(store))
  <2> DEFINE released == Release(store, j, t)
  <2>1. released \in Quiet(store) /\ released.job = store.job
    BY <1>1, ReleaseIsQuiet
  <2> HIDE DEF released
  <2>2. released \in Good /\ t \in Unfinished(Tasks(released, j))
    BY <1>1, <2>1 DEF Quiet, Tasks
  <2>3. WithTask(released, j, t, "deferred", TRUE) \in Quiet(released)
    BY <1>1, <2>2, MarksOfATask
  <2>4. WithTask(released, j, t, "deferred", TRUE) \in Quiet(store)
    BY <1>1, <2>1, <2>3, QuietTwice
  <2>5. /\ store \in Led(store) /\ released \in Led(store)
        /\ WithTask(released, j, t, "deferred", TRUE) \in Led(store)
    BY <1>1, <2>1, <2>4, NothingIsQuiet, QuietIsLed
  <2>6. <<store, released, WithTask(released, j, t, "deferred", TRUE)>> \in Lists(Led(store))
    BY <2>5, ListsOfTwoAndThree
  <2> QED BY <1>1, <2>6 DEF SetAside, released
<1>7. <<store, WithTask(store, j, t, "pickedUp", TRUE)>> \in Lists(Quiet(store))
  <2>1. store \in Quiet(store) /\ WithTask(store, j, t, "pickedUp", TRUE) \in Quiet(store)
    BY <1>1, NothingIsQuiet, MarksOfATask
  <2> QED BY <2>1, ListsOfTwoAndThree
<1> QED BY <1>3, <1>4, <1>5, <1>6, <1>7 DEF j, t

LEMMA StoppingForGoodKeepsIt ==
    ASSUME JobsInv, Working, StopsForGood
    PROVE  JobsInv' /\ KeepsReports
  BY WritesOfARun, TheRunEnds DEF StopsForGood

LEMMA TheGuardKeepsIt ==
    ASSUME JobsInv, StoppedByTheGuard
    PROVE  JobsInv' /\ KeepsReports
<1> DEFINE marked == <<store, WithTask(store, run.job, run.task, "pickedUp", TRUE)>>
<1>1. CASE RunStep(marked, run)
  <2>1. marked \in Lists(Quiet(store))
    BY WritesOfARun DEF StoppedByTheGuard
  <2> HIDE DEF marked
  <2>2. /\ store' \in Quiet(store) /\ OthersTyped' /\ RecordedInv'
        /\ run' = NoRun \/ (run' = run /\ up' = up)
    BY <1>1, <2>1, RunStepIs
  <2> QED BY <2>2, QuietIsLed, NoRunGoesOn, TheRunGoesOn
<1>2. CASE Working /\ StopsForGood
  BY <1>2, StoppingForGoodKeepsIt
<1> QED BY <1>1, <1>2 DEF StoppedByTheGuard

LEMMA EndingDoneKeepsIt ==
    ASSUME JobsInv, EndsDone
    PROVE  JobsInv' /\ KeepsReports
<1> DEFINE stores == FinishTask(<<store>>, run.job, run.task, FALSE)
<1>1. Working
  BY DEF EndsDone
<1>2. PICK shown \in {"passed", "failed", "none"} :
        RunStep(stores, IF shown = "none" \/ Len(stores) = 1 THEN NoRun
                        ELSE [run EXCEPT !.step = shown])
  BY DEF EndsDone
<1>3. stores \in Lists(Led(store)) /\ run # NoRun
  BY <1>1, WritesOfARun, WorkingIs
<1> HIDE DEF stores
<1>4. CASE shown = "none" \/ Len(stores) = 1
  BY <1>2, <1>3, <1>4, TheRunEnds
<1>5. CASE ~(shown = "none" \/ Len(stores) = 1)
  <2>1. shown \in {"passed", "failed", "fix"}
    BY <1>2, <1>5
  <2>2. RunStep(stores, [run EXCEPT !.step = shown])
    BY <1>2, <1>5
  <2>3. /\ store' \in Led(store) /\ OthersTyped' /\ RecordedInv'
        /\ run' = NoRun \/ (run' = [run EXCEPT !.step = shown] /\ up' = up)
    BY <1>3, <2>2, RunStepIs
  <2> QED BY <1>3, <2>1, <2>3, NoRunGoesOn, TheRunMovesOn
<1> QED BY <1>4, <1>5

LEMMA RunErrorsKeepsIt ==
    ASSUME JobsInv, RunErrors
    PROVE  JobsInv' /\ KeepsReports
<1>1. store \in Good /\ store' = store /\ OthersTyped'
  BY DEF JobsInv, RunErrors, OthersTyped
<1>2. store' \in Unread(store)
  BY <1>1, NothingIsUnread
<1>3. RecordedInv'
  BY <1>2, RecordsStay DEF JobsInv, RunErrors
<1> QED BY <1>1, <1>2, <1>3, NoRunGoesOn DEF RunErrors

LEMMA RunEndsKeepsIt ==
    ASSUME JobsInv, RunEnds
    PROVE  JobsInv' /\ KeepsReports
<1>1. CASE EndsDone
  BY <1>1, EndingDoneKeepsIt
<1>2. CASE EndsFailed
  BY <1>2, WritesOfARun, TheRunEnds DEF EndsFailed
<1>3. CASE StoppedByTheGuard
  BY <1>3, TheGuardKeepsIt
<1>4. CASE PacedOut
  BY <1>4, StoppingForGoodKeepsIt DEF PacedOut
<1>5. CASE StopsOrAsks \/ TurnRunsOut
  BY <1>5, WritesOfARun, TheRunEnds DEF StopsOrAsks, TurnRunsOut
<1>6. CASE StoppedByThePerson
  BY <1>6, WritesOfARun, TheRunEnds DEF StoppedByThePerson
<1>7. CASE RunErrors
  BY <1>7, RunErrorsKeepsIt
<1> QED BY <1>1, <1>2, <1>3, <1>4, <1>5, <1>6, <1>7 DEF RunEnds

LEMMA TakingWorkKeepsIt ==
    ASSUME JobsInv, TakeWork
    PROVE  JobsInv' /\ KeepsReports
<1> DEFINE asked == NextTask(store)
           p == asked.got
<1>1. store \in Good /\ OthersTyped /\ up /\ run = NoRun /\ recorded \in SUBSET (JobId \X TaskNo)
  BY DEF JobsInv, TakeWork, RecordedInv
<1>2. asked \in Asks(store)
  BY <1>1, NextTaskHandsOut
<1>3. asked.stores \in Lists(Led(store)) /\ p \in {<<>>} \cup (JobId \X TaskNo)
  BY <1>2 DEF Asks
<1>4. \/ /\ p # <<>>
         /\ Completes(asked.stores)
         /\ run' = Begin(p, ~Tasks(store', p[1])[p[2]].unattended)
         /\ KeepTheRunsOf(AsTheNewestRun(p), recorded \ {p})
         /\ UNCHANGED <<paused, commands>>
      \/ /\ Completes(asked.stores) \/ IsRefused(asked.stores)
         /\ UNCHANGED <<run, paused, commands>>
         /\ KeepTheRunsOf(ran, recorded)
      \/ IsKilled(asked.stores) /\ KeepTheRunsOf(ran, recorded)
  BY DEF TakeWork
<1>5. CASE /\ p # <<>>
           /\ Completes(asked.stores)
           /\ run' = Begin(p, ~Tasks(store', p[1])[p[2]].unattended)
           /\ KeepTheRunsOf(AsTheNewestRun(p), recorded \ {p})
           /\ UNCHANGED <<paused, commands>>
  <2>1. store' = Last(asked.stores) /\ HandsOut(store', p[1], p[2])
    BY <1>2, <1>5 DEF Completes, Asks
  <2> HIDE DEF asked
  <2>2. store' \in Led(store) /\ store' \in Good
    BY <1>3, <2>1, LastIs DEF Led
  <2>3. OthersTyped' /\ up' = TRUE
    BY <1>1, <1>5 DEF Completes, OthersTyped
  <2>4. RecordedInv'
    <3>1. recorded \ {p} \in SUBSET (JobId \X TaskNo)
      BY <1>1
    <3> QED BY <1>5, <3>1, RecordsAreKept
  <2> HIDE DEF p
  <2>5. /\ store'.job[p[1]].mark = NoMark /\ p[2] \in Unfinished(Tasks(store', p[1]))
        /\ p \in JobId \X TaskNo /\ p[1] \in JobId
    BY <1>3, <1>5, <2>1 DEF HandsOut
  <2>6. (~Tasks(store', p[1])[p[2]].unattended) \in BOOLEAN
    <3>1. Tasks(store', p[1])[p[2]] \in Task
      BY <2>2, <2>5, GoodIs
    <3> QED BY <3>1 DEF Task
  <2> QED BY <1>1, <1>5, <2>2, <2>3, <2>4, <2>5, <2>6, ARunBegins
<1>6. CASE /\ Completes(asked.stores) \/ IsRefused(asked.stores)
           /\ UNCHANGED <<run, paused, commands>>
           /\ KeepTheRunsOf(ran, recorded)
  <2> HIDE DEF asked
  <2>1. store' \in Led(store) /\ up' = up /\ faults' \in 0..MaxFaults
    BY <1>1, <1>3, <1>6, HowItEnds
  <2>2. OthersTyped' /\ RecordedInv' /\ run' = NoRun
    BY <1>1, <1>6, <2>1, RecordsAreKept DEF OthersTyped
  <2> QED BY <2>1, <2>2, NoRunGoesOn
<1>7. CASE IsKilled(asked.stores) /\ KeepTheRunsOf(ran, recorded)
  <2> HIDE DEF asked
  <2>1. store' \in Led(store) /\ OthersTyped' /\ RecordedInv' /\ run' = NoRun
    BY <1>1, <1>3, <1>7, HowItEnds, RecordsAreKept
  <2> QED BY <2>1, NoRunGoesOn
<1> QED BY <1>4, <1>5, <1>6, <1>7

LEMMA MakingTheRecordKeepsIt ==
    ASSUME JobsInv, MakeRecord
    PROVE  JobsInv' /\ KeepsReports
<1>1. store' = store /\ store \in Good /\ recorded' = recorded \cup {Place} /\ run' = run /\ up' = up
  BY DEF JobsInv, MakeRecord
<1>2. Place \in JobId \X TaskNo /\ Place[1] = run.job /\ Place[2] = run.task
      /\ run.task \in Unfinished(Tasks(store, run.job))
  BY WorkingIs DEF MakeRecord
<1>3. RecordedInv'
  <2> HIDE DEF Place
  <2> QED BY <1>1, <1>2 DEF JobsInv, RecordedInv
<1>4. OthersTyped'
  BY DEF JobsInv, OthersTyped, MakeRecord
<1> QED BY <1>1, <1>3, <1>4, NothingIsQuiet, TheRunGoesOn

LEMMA MarkingTheDoneLineKeepsIt ==
    ASSUME JobsInv, MarkDoneLine
    PROVE  JobsInv' /\ KeepsReports
<1> DEFINE j == run.job
           passed == run.step = "passed"
           marked == [store EXCEPT !.job[j].proved = passed]
           stores == CloseIfEveryTaskIsDone(<<store, marked>>, j)
           fixing == [run EXCEPT !.step = "fix"]
<1>1. RunStep(stores, NoRun) \/ RunStep(stores, fixing)
  BY DEF MarkDoneLine
<1>2. store \in Good /\ run # NoRun /\ j \in JobId /\ passed \in BOOLEAN
  <2>1. run # NoRun
    BY DEF MarkDoneLine, NoRun
  <2> QED BY <2>1 DEF JobsInv, RunInv, Place
<1> HIDE DEF passed, j
<1>3. marked \in Quiet(store)
  <2> DEFINE job == [store.job[j] EXCEPT !.proved = passed]
  <2>1. store.job[j] \in JobRecords
    BY <1>2, GoodIs
  <2>2. /\ job \in JobRecords /\ job.tasks = store.job[j].tasks /\ job.mark = store.job[j].mark
        /\ job.state = store.job[j].state /\ job.failures = store.job[j].failures
    BY <1>2, <2>1 DEF JobRecords
  <2>3. marked = WithJob(store, j, job)
    BY DEF WithJob
  <2> HIDE DEF job, marked
  <2> QED BY <1>2, <2>2, <2>3, FieldsAreWritten
<1> HIDE DEF marked
<1>4. <<store, marked>> \in Lists(Led(store)) /\ Closed(Led(store))
  <2>1. store \in Led(store) /\ marked \in Led(store)
    BY <1>2, <1>3, NothingIsQuiet, QuietIsLed
  <2> QED BY <1>2, <2>1, ListsOfTwoAndThree, LedIsClosed, LedClosedIsClosed
<1>5. stores \in Lists(Led(store))
  BY <1>2, <1>4, ClosingIsQuiet
<1> HIDE DEF stores
<1>6. CASE RunStep(stores, NoRun)
  BY <1>5, <1>6, TheRunEnds
<1>7. CASE RunStep(stores, fixing)
  <2>1. /\ store' \in Led(store) /\ OthersTyped' /\ RecordedInv'
        /\ run' = NoRun \/ (run' = fixing /\ up' = up)
    BY <1>5, <1>7, RunStepIs
  <2>2. "fix" \in {"passed", "failed", "fix"}
    OBVIOUS
  <2> QED BY <1>2, <2>1, <2>2, NoRunGoesOn, TheRunMovesOn
<1> QED BY <1>1, <1>6, <1>7

LEMMA GivingAFixTaskKeepsIt ==
    ASSUME JobsInv, GiveFixTask
    PROVE  JobsInv' /\ KeepsReports
<1> DEFINE j == run.job
           more == store.job[j].fixes + 1
           counted == [store EXCEPT !.job[j].fixes = more]
           added == AddTask(<<counted>>, j, 0, FALSE)
           stores == IF store.job[j].fixes < FixTasksPerLine THEN <<store>> \o Tail(added) ELSE <<store>>
<1>1. RunStep(stores, NoRun)
  BY DEF GiveFixTask
<1>2. store \in Good /\ j \in JobId
  <2>1. run # NoRun
    BY DEF GiveFixTask, NoRun
  <2> QED BY <2>1 DEF JobsInv, RunInv, Place
<1> HIDE DEF j
<1>3. <<store>> \in Lists(Led(store)) /\ <<store>> \in Seq(Led(store)) /\ Closed(Led(store))
  BY <1>2, LedIsClosed, LedClosedIsClosed, ListOfOne DEF Lists
<1>4. ASSUME store.job[j].fixes < FixTasksPerLine
      PROVE  <<store>> \o Tail(added) \in Lists(Led(store))
  <2>1. counted \in Quiet(store)
    <3> DEFINE job == [store.job[j] EXCEPT !.fixes = more]
    <3>1. store.job[j] \in JobRecords
      BY <1>2, GoodIs
    <3>2. more \in 0..FixTasksPerLine
      <4>1. store.job[j].fixes \in 0..FixTasksPerLine
        BY <3>1 DEF JobRecords
      <4> QED BY <1>4, <4>1, Numbers
    <3> HIDE DEF more
    <3>3. /\ job \in JobRecords /\ job.tasks = store.job[j].tasks /\ job.mark = store.job[j].mark
          /\ job.state = store.job[j].state /\ job.failures = store.job[j].failures
      BY <3>1, <3>2 DEF JobRecords
    <3>4. counted = WithJob(store, j, job)
      BY DEF WithJob
    <3> HIDE DEF job, counted
    <3> QED BY <1>2, <3>3, <3>4, FieldsAreWritten
  <2> HIDE DEF counted
  <2>2. <<counted>> \in Lists(Led(store))
    BY <2>1, QuietIsLed, ListOfOne
  <2>3. added \in Lists(Led(store))
    BY <1>2, <1>3, <2>2, AddingIsQuiet
  <2> HIDE DEF added
  <2>4. Tail(added) \in Seq(Led(store))
    BY <2>3 DEF Lists
  <2> DEFINE S == Led(store)
             rest == Tail(added)
  <2>5. <<store>> \o rest \in Seq(S) /\ <<store>> \o rest # <<>>
    <3> HIDE DEF S, rest
    <3>1. <<store>> \in Seq(S) /\ rest \in Seq(S) /\ Len(<<store>>) = 1
      BY <1>3, <2>4 DEF S, rest
    <3>2. <<store>> \o rest \in Seq(S) /\ Len(<<store>> \o rest) = 1 + Len(rest) /\ Len(rest) \in Nat
      BY <3>1
    <3> QED BY <3>2
  <2> QED BY <2>5 DEF Lists
<1>5. stores \in Lists(Led(store))
  <2> HIDE DEF added
  <2> QED BY <1>3, <1>4
<1> HIDE DEF stores
<1> QED BY <1>1, <1>5, TheRunEnds

LEMMA MakingAJobKeepsIt ==
    ASSUME JobsInv, NEW j \in JobId, MakeJob(j)
    PROVE  JobsInv' /\ KeepsReports
<1> DEFINE made(kind) == [store EXCEPT !.job[j].kind = kind,
                                       !.job[j].state = "running",
                                       !.job[j].next = IF kind = "scheduled" THEN Every
                                                                             ELSE Never]
           stores(kind, dues) == AddEach(<<store, made(kind)>>, j, dues)
           cut(kind, dues) == [n \in DOMAIN stores(kind, dues) |->
                                 IF n = 1 THEN store ELSE SetState(stores(kind, dues)[n], j, "off")]
<1>1. /\ store \in Good /\ OthersTyped /\ RecordedInv /\ run = NoRun /\ recorded' = recorded
      /\ store.job[j].state = "none"
  BY DEF JobsInv, MakeJob
<1>2. PICK kind \in Kinds, dues \in UNION {[1..n -> Delays] : n \in {0} \cup ListedTasks} :
        \/ Completes(stores(kind, dues)) /\ UNCHANGED <<run, paused, commands>>
        \/ IsRefused(stores(kind, dues)) /\ UNCHANGED <<run, paused, commands>>
        \/ IsRefused(cut(kind, dues)) /\ UNCHANGED <<run, paused, commands>>
        \/ IsKilled(stores(kind, dues))
  BY ZenonT(60) DEF MakeJob
<1>3. PICK last \in Nat : dues \in [1..last -> Delays]
  BY JobsAssumption
<1>4. made(kind) \in Quiet(store)
  <2> DEFINE next == IF kind = "scheduled" THEN Every ELSE Never
             job == [store.job[j] EXCEPT !.kind = kind, !.state = "running", !.next = next]
  <2>1. store.job[j] \in JobRecords /\ store.job[j].mark = NoMark
    BY <1>1, GoodIs DEF MarkStands
  <2>2. next \in Never..Every
    BY Numbers DEF Never
  <2>3. made(kind) = WithJob(store, j, job)
    BY DEF WithJob
  <2> HIDE DEF next, made
  <2>4. /\ job \in JobRecords /\ job.tasks = store.job[j].tasks /\ job.mark = NoMark
        /\ job.failures = store.job[j].failures
    BY <2>1, <2>2 DEF JobRecords, States
  <2> HIDE DEF job
  <2> QED BY <1>1, <2>3, <2>4, FieldsAreWritten
<1> HIDE DEF made
<1>5. stores(kind, dues) \in Lists(Quiet(store))
  <2>1. <<store, made(kind)>> \in Lists(Quiet(store)) /\ Closed(Quiet(store))
    BY <1>1, <1>4, QuietIsClosed, ListsOfTwoAndThree
  <2> QED BY <1>3, <2>1, AddingEachIsQuiet
<1> HIDE DEF stores
<1>6. cut(kind, dues) \in Lists(Quiet(store))
  <2> DEFINE list == stores(kind, dues)
  <2>1. /\ list \in Seq(Quiet(store)) /\ Len(list) \in Nat /\ Len(list) # 0
        /\ DOMAIN list = 1..Len(list)
    BY <1>5 DEF Lists
  <2>2. \A n \in 1..Len(list) : cut(kind, dues)[n] \in Quiet(store)
    <3> TAKE n \in 1..Len(list)
    <3>1. list[n] \in Quiet(store) /\ list[n] \in Good
      BY <2>1 DEF Quiet
    <3> HIDE DEF list
    <3>2. SetState(list[n], j, "off") \in Quiet(list[n])
      BY <3>1, StateIsQuiet DEF States
    <3>3. SetState(list[n], j, "off") \in Quiet(store)
      BY <1>1, <3>1, <3>2, QuietTwice
    <3>4. cut(kind, dues)[n] = IF n = 1 THEN store ELSE SetState(list[n], j, "off")
      BY <2>1 DEF list
    <3> QED BY <1>1, <3>3, <3>4, NothingIsQuiet
  <2>3. DOMAIN cut(kind, dues) = 1..Len(list)
    BY <2>1
  <2>4. cut(kind, dues) = [n \in 1..Len(list) |-> cut(kind, dues)[n]]
    BY <2>1
  <2> HIDE DEF cut, list
  <2>5. cut(kind, dues) \in [1..Len(list) -> Quiet(store)]
    BY <2>2, <2>3, <2>4
  <2>6. cut(kind, dues) \in Seq(Quiet(store)) /\ Len(cut(kind, dues)) = Len(list)
    BY <2>1, <2>3, <2>5
  <2>7. cut(kind, dues) # <<>>
    BY <2>1, <2>6
  <2> QED BY <2>6, <2>7 DEF Lists
<1> HIDE DEF cut
<1>7. store' \in Quiet(store) /\ OthersTyped' /\ run' = NoRun
  <2>1. CASE IsKilled(stores(kind, dues))
    BY <1>1, <1>5, <2>1, HowItEnds
  <2>2. CASE /\ Completes(stores(kind, dues)) \/ IsRefused(stores(kind, dues)) \/ IsRefused(cut(kind, dues))
             /\ UNCHANGED <<run, paused, commands>>
    <3>1. store' \in Quiet(store) /\ up' = up /\ faults' \in 0..MaxFaults
      BY <1>1, <1>5, <1>6, <2>2, HowItEnds
    <3> QED BY <1>1, <2>2, <3>1 DEF OthersTyped
  <2> QED BY <1>2, <2>1, <2>2
<1>8. store' \in Unread(store) /\ store' \in Led(store)
  BY <1>1, <1>7, NothingIsUnread, QuietIsUnread, QuietIsLed
<1>9. RecordedInv'
  BY <1>1, <1>8, RecordsStay
<1> QED BY <1>7, <1>8, <1>9, NoRunGoesOn

LEMMA AskingOfAJobKeepsIt ==
    ASSUME JobsInv, NEW j \in JobId, AskForTask(j) \/ SwitchOff(j) \/ AskRunNow(j)
    PROVE  JobsInv' /\ KeepsReports
<1>1. store \in Good /\ paused \in Seq(JobId)
  BY DEF JobsInv, OthersTyped
<1>2. store \in Quiet(store) /\ Closed(Quiet(store))
  BY <1>1, QuietIsClosed
<1>3. CASE AskForTask(j)
  <2>1. PICK due \in Delays : Asked(AddTask(<<store>>, j, due, FALSE), paused)
    BY <1>3 DEF AskForTask
  <2>2. AddTask(<<store>>, j, due, FALSE) \in Lists(Quiet(store))
    BY <1>2, ListOfOne, AddingIsQuiet
  <2> QED BY <1>1, <2>1, <2>2, TheStoreIsAsked
<1>4. CASE SwitchOff(j)
  <2>1. SetState(store, j, "off") \in Quiet(store)
    BY <1>1, StateIsQuiet DEF States
  <2>2. <<store, SetState(store, j, "off")>> \in Lists(Quiet(store))
    BY <1>2, <2>1, ListsOfTwoAndThree
  <2> QED BY <1>1, <1>4, <2>2, TheStoreIsAsked DEF SwitchOff
<1>5. CASE AskRunNow(j)
  BY <1>1, <1>5, RunningNowIsQuiet, TheStoreIsAsked DEF AskRunNow
<1> QED BY <1>3, <1>4, <1>5

LEMMA PausingKeepsIt ==
    ASSUME JobsInv, PauseAll
    PROVE  JobsInv' /\ KeepsReports
<1>1. PICK n \in JobId : \E running \in [1..n -> JobId] :
        Asked(PauseEach(store, running), paused \o running)
  BY DEF PauseAll
<1>2. n \in Nat /\ store \in Good /\ paused \in Seq(JobId)
  BY Numbers DEF JobsInv, OthersTyped, JobId
<1>3. PICK running \in [1..n -> JobId] : Asked(PauseEach(store, running), paused \o running)
  BY <1>1
<1>4. paused \o running \in Seq(JobId)
  <2>1. running \in Seq(JobId)
    BY <1>2
  <2> QED BY <1>2, <2>1
<1>5. PauseEach(store, running) \in Lists(Quiet(store))
  BY <1>2, PausingEachIsQuiet
<1> QED BY <1>3, <1>4, <1>5, TheStoreIsAsked

LEMMA ResumingKeepsIt ==
    ASSUME JobsInv, ResumeAll
    PROVE  JobsInv' /\ KeepsReports
<1> DEFINE many == Len(paused)
           first(n) == SubSeq(paused, 1, n - 1)
           rest(n) == SubSeq(paused, n, many)
           started(n) == Last(StartEach(store, first(n)))
<1>1. /\ store \in Good /\ paused \in Seq(JobId) /\ OthersTyped /\ up
      /\ commands < MaxCommands
  BY DEF JobsInv, OthersTyped, ResumeAll
<1>2. many \in Nat /\ paused \in [1..many -> JobId] /\ DOMAIN paused = 1..many
  BY <1>1
<1>3. RecordedInv'
  BY RecordsAreKept DEF ResumeAll, JobsInv, RecordedInv
<1>4. StartEach(store, paused) \in Lists(Quiet(store))
  BY <1>1, <1>2, StartingEachIsQuiet
<1>5. ASSUME NEW n \in 1..many
      PROVE  /\ StartWorking(<<started(n)>>, paused[n]) \in Lists(Quiet(store))
             /\ rest(n) \in Seq(JobId)
  <2>1. first(n) \in [1..(n - 1) -> JobId] /\ n - 1 \in Nat
    <3>1. first(n) = [i \in 1..(n - 1) |-> paused[i]] /\ n - 1 \in Nat
      BY <1>1, <1>2
    <3>2. \A i \in 1..(n - 1) : paused[i] \in JobId
      BY <1>2
    <3> HIDE DEF first
    <3> QED BY <3>1, <3>2
  <2>2. rest(n) \in Seq(JobId)
    BY <1>1, <1>2
  <2> HIDE DEF first, rest, many
  <2>3. StartEach(store, first(n)) \in Lists(Quiet(store))
    BY <1>1, <2>1, StartingEachIsQuiet
  <2>4. started(n) \in Quiet(store)
    BY <2>3, LastIs
  <2>5. <<started(n)>> \in Lists(Quiet(store)) /\ paused[n] \in JobId
    BY <1>2, <2>4, ListOfOne
  <2> QED BY <1>1, <2>2, <2>5, QuietIsClosed, StartingIsQuiet
<1>6. CASE IsKilled(StartEach(store, paused))
  <2>1. store' \in Quiet(store) /\ run' = NoRun /\ OthersTyped'
    BY <1>1, <1>4, <1>6, HowItEnds
  <2> QED BY <1>3, <2>1, QuietIsLed, NoRunGoesOn
<1>7. CASE /\ \/ Completes(StartEach(store, paused)) /\ paused' = <<>>
              \/ \E n \in DOMAIN paused : /\ IsRefused(StartWorking(<<started(n)>>, paused[n]))
                                         /\ paused' = rest(n)
           /\ commands' = commands + 1
           /\ UNCHANGED run
  <2>1. /\ store' \in Quiet(store) /\ up' = up /\ faults' \in 0..MaxFaults
        /\ paused' \in Seq(JobId)
    <3>1. CASE Completes(StartEach(store, paused)) /\ paused' = <<>>
      <4>1. <<>> \in Seq(JobId)
        OBVIOUS
      <4> QED BY <1>1, <1>4, <3>1, <4>1, HowItEnds
    <3>2. CASE \E n \in DOMAIN paused : /\ IsRefused(StartWorking(<<started(n)>>, paused[n]))
                                        /\ paused' = rest(n)
      <4>1. PICK n \in DOMAIN paused : /\ IsRefused(StartWorking(<<started(n)>>, paused[n]))
                                      /\ paused' = rest(n)
        BY <3>2
      <4> HIDE DEF started, rest, many
      <4>2. StartWorking(<<started(n)>>, paused[n]) \in Lists(Quiet(store)) /\ rest(n) \in Seq(JobId)
        BY <1>2, <1>5, <4>1
      <4> QED BY <1>1, <4>1, <4>2, HowItEnds
    <3> QED BY <1>7, <3>1, <3>2
  <2>2. commands' \in 0..MaxCommands
    BY <1>1, <1>7, Numbers DEF OthersTyped
  <2>3. OthersTyped'
    BY <1>1, <2>1, <2>2 DEF OthersTyped
  <2> QED BY <1>3, <1>7, <2>1, <2>3, QuietIsLed, TheRunGoesOn
<1> QED BY <1>6, <1>7 DEF ResumeAll

LEMMA PickingUpKeepsIt ==
    ASSUME JobsInv, PickUp
    PROVE  JobsInv' /\ KeepsReports
<1> DEFINE place(j) == <<j, store.job[j].mark>>
<1>1. /\ store \in Good /\ OthersTyped /\ up /\ run = NoRun /\ commands < MaxCommands
      /\ recorded \in SUBSET (JobId \X TaskNo)
  BY DEF JobsInv, PickUp, RecordedInv
<1>2. PICK j \in JobId :
        /\ store.job[j].mark # NoMark
        /\ \/ /\ Completes(StartWorking(<<store>>, j))
              /\ run' = Begin(place(j), TRUE)
              /\ commands' = commands + 1
              /\ UNCHANGED paused
           \/ IsRefused(StartWorking(<<store>>, j)) /\ UNCHANGED <<run, paused, commands>>
           \/ IsKilled(StartWorking(<<store>>, j))
        /\ KeepTheRunsOf(ran, recorded) \/ KeepTheRunsOf(AsTheNewestRun(place(j)), recorded)
  BY DEF PickUp
<1> DEFINE stores == StartWorking(<<store>>, j)
<1>3. stores \in Lists(Quiet(store)) /\ Last(stores).job[j].mark = NoMark
  BY <1>1, QuietIsClosed, ListOfOne, StartingIsQuiet
<1>4. RecordedInv'
  BY <1>1, <1>2, RecordsAreKept
<1>5. CASE IsKilled(stores)
  <2> HIDE DEF stores
  <2>1. store' \in Quiet(store) /\ OthersTyped' /\ run' = NoRun
    BY <1>1, <1>3, <1>5, HowItEnds
  <2> QED BY <1>4, <2>1, QuietIsLed, NoRunGoesOn
<1>6. CASE IsRefused(stores) /\ UNCHANGED <<run, paused, commands>>
  <2> HIDE DEF stores
  <2>1. store' \in Quiet(store) /\ up' = up /\ faults' \in 0..MaxFaults
    BY <1>1, <1>3, <1>6, HowItEnds
  <2>2. OthersTyped' /\ run' = NoRun
    BY <1>1, <1>6, <2>1 DEF OthersTyped
  <2> QED BY <1>4, <2>1, <2>2, QuietIsLed, NoRunGoesOn
<1>7. CASE /\ Completes(stores)
           /\ run' = Begin(place(j), TRUE)
           /\ commands' = commands + 1
           /\ UNCHANGED paused
  <2> HIDE DEF stores
  <2>1. store' = Last(stores) /\ store' \in Quiet(store) /\ up' = up /\ faults' \in 0..MaxFaults
    BY <1>1, <1>3, <1>7, HowItEnds DEF Completes
  <2>2. OthersTyped' /\ up' = TRUE
    <3>1. commands' \in 0..MaxCommands
      BY <1>1, <1>7, Numbers DEF OthersTyped
    <3> QED BY <1>1, <1>7, <2>1, <3>1 DEF OthersTyped
  <2> DEFINE t == store.job[j].mark
             p == place(j)
  <2>3. t \in Unfinished(Tasks(store, j)) /\ t \in TaskNo
    <3>1. /\ t \in Unfinished(Tasks(store, j)) /\ DOMAIN Tasks(store, j) = 1..Len(Tasks(store, j))
          /\ Len(Tasks(store, j)) \in 0..MaxTasksPerJob
      BY <1>1, <1>2, GoodIs DEF MarkStands, Tasks
    <3> HIDE DEF t
    <3> QED BY <3>1, Numbers DEF Unfinished, TaskNo
  <2>4. t \in Unfinished(Tasks(store', j))
    <3>1. Unreported(store.job[j], store'.job[j])
      BY <2>1 DEF Quiet
    <3> HIDE DEF t
    <3> QED BY <2>3, <3>1 DEF Unreported, Unfinished, Tasks
  <2> HIDE DEF t
  <2>5. p = <<j, t>>
    BY DEF t
  <2> HIDE DEF p
  <2>6. /\ p \in JobId \X TaskNo /\ store'.job[p[1]].mark = NoMark
        /\ p[2] \in Unfinished(Tasks(store', p[1]))
    BY <1>3, <2>1, <2>3, <2>4, <2>5
  <2>7. store' \in Led(store) /\ TRUE \in BOOLEAN /\ run' = Begin(p, TRUE)
    BY <1>7, <2>1, QuietIsLed DEF p
  <2> QED BY <1>1, <1>4, <2>2, <2>6, <2>7, ARunBegins
<1> QED BY <1>2, <1>5, <1>6, <1>7

LEMMA TheClockKeepsIt ==
    ASSUME JobsInv, Tick
    PROVE  JobsInv' /\ KeepsReports
<1>1. store' \in Quiet(store) /\ run' = run /\ up' = up /\ recorded' = recorded /\ store \in Good
  BY TimeIsQuiet DEF JobsInv, Tick
<1>2. store' \in Unread(store)
  BY <1>1, NothingIsUnread, QuietIsUnread
<1>3. RecordedInv' /\ OthersTyped'
  BY <1>1, <1>2, RecordsStay DEF JobsInv, OthersTyped, Tick
<1> QED BY <1>1, <1>3, TheRunGoesOn

LEMMA KillingKeepsIt ==
    ASSUME JobsInv, Kill
    PROVE  JobsInv' /\ KeepsReports
<1>1. store \in Good /\ OthersTyped /\ IsKilled(<<store>>) /\ recorded' = recorded
  BY DEF JobsInv, Kill
<1>2. <<store>> \in Lists(Unread(store))
  BY <1>1, NothingIsUnread, ListOfOne
<1>3. store' \in Unread(store) /\ OthersTyped' /\ run' = NoRun
  BY <1>1, <1>2, HowItEnds
<1>4. RecordedInv'
  BY <1>1, <1>3, RecordsStay DEF JobsInv
<1> QED BY <1>3, <1>4, NoRunGoesOn

LEMMA RestartingKeepsIt ==
    ASSUME JobsInv, Restart
    PROVE  JobsInv' /\ KeepsReports
<1>1. store \in Good /\ OthersTyped /\ RecordedInv /\ run = NoRun
  BY DEF JobsInv, RunInv, Restart
<1>2. PICK gone : \/ store' = Last(Open(store, gone)) /\ up' = TRUE /\ UNCHANGED faults
                  \/ GoesWrong(Open(store, gone)) /\ UNCHANGED up
  BY DEF Restart
<1>3. Open(store, gone) \in Lists(Unread(store))
  BY <1>1, OpeningIsUnread DEF RecordedInv
<1>4. store' \in Unread(store) /\ faults' \in 0..MaxFaults /\ up' \in BOOLEAN
  <2> DEFINE opened == Open(store, gone)
  <2> HIDE DEF opened
  <2>1. opened \in Lists(Unread(store)) /\ Last(opened) \in Unread(store)
    BY <1>3, LastIs DEF opened
  <2>2. CASE store' = Last(opened) /\ up' = TRUE /\ UNCHANGED faults
    BY <1>1, <2>1, <2>2 DEF OthersTyped
  <2>3. CASE GoesWrong(opened) /\ UNCHANGED up
    BY <1>1, <2>1, <2>3, HowItEnds DEF OthersTyped
  <2> QED BY <1>2, <2>2, <2>3 DEF opened
<1>5. OthersTyped' /\ run' = NoRun /\ recorded' = recorded
  BY <1>1, <1>4 DEF OthersTyped, Restart
<1>6. RecordedInv'
  BY <1>1, <1>4, <1>5, RecordsStay
<1> QED BY <1>4, <1>5, <1>6, NoRunGoesOn

-----------------------------------------------------------------------------
(***************************************************************************)
(* The invariant is kept, and what follows from it.                        *)
(***************************************************************************)
LEMMA JobsInvInitially == Init => JobsInv
<1> SUFFICES ASSUME Init
             PROVE  JobsInv
  OBVIOUS
<1>1. NoJob \in GoodJobs /\ NoJob.mark = NoMark
  <2>1. /\ "plain" \in Kinds \cup {"plain"} /\ "none" \in States /\ 0 \in Nat
        /\ NoMark \in 0..MaxTasksPerJob /\ Never \in Never..Every /\ 0 \in 0..FixTasksPerLine
        /\ FALSE \in BOOLEAN
    BY Numbers DEF States, NoMark, Never
  <2>2. <<>> \in TaskLists
    BY Numbers DEF TaskLists
  <2>3. NoJob \in JobRecords
    BY <2>1, <2>2 DEF NoJob, JobRecords
  <2> QED BY <2>3 DEF GoodJobs, MarkStands, NoJob
<1>2. store \in Good
  <2>1. Never \in Never..TaskBudget
    BY Numbers DEF Never
  <2> QED BY <1>1, <2>1 DEF Init, Good, Claims
<1>3. OthersTyped
  BY Numbers DEF Init, OthersTyped
<1>4. RunInv
  <2>1. NoRun \in Runs /\ NoRun.step = "none"
    <3>1. FALSE \in BOOLEAN /\ 0 \in 0..NJobs /\ 0 \in 0..MaxTasksPerJob
      BY Numbers
    <3> QED BY <3>1 DEF NoRun, Runs
  <2>2. run = NoRun /\ \A j \in JobId : store.job[j] = NoJob
    BY DEF Init
  <2> QED BY <1>1, <2>1, <2>2 DEF RunInv
<1>5. RecordedInv
  BY DEF Init, RecordedInv
<1> QED BY <1>2, <1>3, <1>4, <1>5 DEF JobsInv

LEMMA JobsInvKept ==
    ASSUME JobsInv, [Next]_vars
    PROVE  JobsInv' /\ KeepsReports
<1>1. CASE TakeWork
  BY <1>1, TakingWorkKeepsIt
<1>2. CASE MakeRecord
  BY <1>2, MakingTheRecordKeepsIt
<1>3. CASE RunEnds
  BY <1>3, RunEndsKeepsIt
<1>4. CASE MarkDoneLine
  BY <1>4, MarkingTheDoneLineKeepsIt
<1>5. CASE GiveFixTask
  BY <1>5, GivingAFixTaskKeepsIt
<1>6. CASE People
  <2>1. ASSUME NEW j \in JobId, MakeJob(j)
        PROVE  JobsInv' /\ KeepsReports
    BY <2>1, MakingAJobKeepsIt
  <2>2. ASSUME NEW j \in JobId, AskForTask(j) \/ SwitchOff(j) \/ AskRunNow(j)
        PROVE  JobsInv' /\ KeepsReports
    BY <2>2, AskingOfAJobKeepsIt
  <2> QED BY <1>6, <2>1, <2>2, PausingKeepsIt, ResumingKeepsIt, PickingUpKeepsIt DEF People
<1>7. CASE Tick
  BY <1>7, TheClockKeepsIt
<1>8. CASE Kill
  BY <1>8, KillingKeepsIt
<1>9. CASE Restart
  BY <1>9, RestartingKeepsIt
<1>10. CASE UNCHANGED vars
  <2>1. /\ store' = store /\ run' = run /\ up' = up /\ recorded' = recorded /\ store \in Good
        /\ OthersTyped' /\ RecordedInv'
    BY <1>10 DEF vars, JobsInv, OthersTyped, RecordedInv
  <2> QED BY <2>1, NothingIsQuiet, TheRunGoesOn
<1> QED BY <1>1, <1>2, <1>3, <1>4, <1>5, <1>6, <1>7, <1>8, <1>9, <1>10 DEF Next

\* The store and the run are always as the invariant says (the operations of
\* internal/job one by one, and every step of the loop that runs a task).
THEOREM JobsInvHolds == Spec => []JobsInv
<1>1. JobsInv /\ [Next]_vars => JobsInv'
  BY JobsInvKept
<1> QED BY <1>1, JobsInvInitially, PTL DEF Spec

\* No operation leaves a job with more tasks than the cap, a mark on no task, or
\* a count out of its range (AddTask, PutDown, finishTask, giveFixTask).
THEOREM JobsHaveTheirTypes == Spec => []JobsTypeOK
<1>1. JobsInv => JobsTypeOK
  <2> SUFFICES ASSUME JobsInv
               PROVE  JobsTypeOK
    OBVIOUS
  <2>1. store \in Good /\ OthersTyped /\ RunInv /\ RecordedInv
    BY DEF JobsInv
  <2>2. DOMAIN store = {"job", "claim"} /\ store.claim \in Claims
    BY <2>1 DEF Good
  <2>3. ASSUME NEW j \in JobId
        PROVE  /\ store.job[j] \in JobRecords /\ store.job[j].tasks \in TaskLists
               /\ store.job[j].mark \in 0..Len(Tasks(store, j))
    <3>1. /\ store.job[j] \in JobRecords /\ MarkStands(store.job[j])
          /\ DOMAIN Tasks(store, j) = 1..Len(Tasks(store, j)) /\ Len(Tasks(store, j)) \in 0..MaxTasksPerJob
      BY <2>1, GoodIs
    <3>2. store.job[j].mark = 0 \/ store.job[j].mark \in 1..Len(Tasks(store, j))
      BY <3>1 DEF MarkStands, Unfinished, Tasks, NoMark
    <3>3. store.job[j].mark \in 0..Len(Tasks(store, j))
      BY <3>1, <3>2, Numbers
    <3> QED BY <3>1, <3>3 DEF JobRecords
  <2>4. ASSUME NEW j \in JobId
        PROVE  /\ store.job[j].kind \in Kinds \cup {"plain"} /\ store.job[j].state \in States
               /\ store.job[j].tasks \in Seq(Task) /\ Len(Tasks(store, j)) <= MaxTasksPerJob
               /\ store.job[j].mark \in 0..Len(Tasks(store, j))
               /\ store.job[j].next \in Never..Every
               /\ store.job[j].failures \in Nat
               /\ store.job[j].fixes \in 0..FixTasksPerLine
               /\ store.job[j].proved \in BOOLEAN
    BY <2>3 DEF JobRecords, TaskLists, Tasks
  <2>5. /\ up \in BOOLEAN /\ paused \in Seq(JobId) /\ commands \in 0..MaxCommands
        /\ faults \in 0..MaxFaults /\ recorded \subseteq JobId \X TaskNo
        /\ run # NoRun => Place \in JobId \X TaskNo
    BY <2>1 DEF OthersTyped, RunInv, RecordedInv
  <2> QED BY <2>2, <2>4, <2>5 DEF JobsTypeOK, Claims
<1> QED BY <1>1, JobsInvHolds, PTL

\* A job put down on a task stands still on it until it is started again, and no
\* run of it goes on meanwhile (PutDown, startWorking, putDownWhatADeadProcessLeft).
THEOREM APutDownJobStandsStill == Spec => []MarkedJobsStandStill
<1>1. JobsInv => MarkedJobsStandStill
  <2> SUFFICES ASSUME JobsInv, NEW j \in JobId, store.job[j].mark # NoMark
               PROVE  /\ store.job[j].state \in {"paused", "off"}
                      /\ store.job[j].mark \in Unfinished(Tasks(store, j))
                      /\ run.job # j
    BY DEF MarkedJobsStandStill
  <2>1. MarkStands(store.job[j]) /\ RunInv
    BY GoodIs DEF JobsInv
  <2> QED BY <2>1 DEF MarkStands, RunInv, Tasks
<1> QED BY <1>1, JobsInvHolds, PTL

\* What is done stays done, through every operation, kill and refused write
\* (finishTask, addTask, RunNow, applyTasks).
THEOREM DoneStaysDone == Spec => FinishedStaysFinished
<1>1. JobsInv /\ [Next]_vars =>
        [\A j \in JobId : \A t \in DOMAIN Tasks(store, j) :
            Tasks(store, j)[t].done =>
                t \in DOMAIN Tasks(store', j) /\ Tasks(store', j)[t].done]_vars
  <2> SUFFICES ASSUME JobsInv, [Next]_vars
               PROVE  \A j \in JobId : \A t \in DOMAIN Tasks(store, j) :
                        Tasks(store, j)[t].done =>
                          t \in DOMAIN Tasks(store', j) /\ Tasks(store', j)[t].done
    OBVIOUS
  <2>1. KeepsReports
    BY JobsInvKept
  <2> QED BY <2>1 DEF KeepsReports, DoneStays, Tasks
<1> QED BY <1>1, JobsInvHolds, PTL DEF Spec, FinishedStaysFinished

\* While a run goes on, nobody else reports its task (runWhatIsDue, NextTask).
THEOREM NobodyElseReportsIt == Spec => OnlyTheRunReportsItsTask
<1>1. JobsInv /\ [Next]_vars =>
        [run # NoRun /\ run' = run /\ run.step = "working" =>
            /\ Tasks(store', run.job)[run.task].done = Tasks(store, run.job)[run.task].done
            /\ store'.job[run.job].failures \in {0, store.job[run.job].failures}]_vars
  <2> SUFFICES ASSUME JobsInv, [Next]_vars, run # NoRun, run' = run, run.step = "working"
               PROVE  /\ Tasks(store', run.job)[run.task].done = Tasks(store, run.job)[run.task].done
                      /\ store'.job[run.job].failures \in {0, store.job[run.job].failures}
    OBVIOUS
  <2>1. KeepsReports
    BY JobsInvKept
  <2>2. run.job \in JobId /\ run.task \in DOMAIN Tasks(store, run.job)
    BY DEF JobsInv, RunInv, Place, Unfinished
  <2> QED BY <2>1, <2>2 DEF KeepsReports, Unreported, Tasks
<1> QED BY <1>1, JobsInvHolds, PTL DEF Spec, OnlyTheRunReportsItsTask
=============================================================================
