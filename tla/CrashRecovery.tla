--------------------------- MODULE CrashRecovery ---------------------------
(***************************************************************************)
(* How a life of the program begins and ends: the sentinel, the check of   *)
(* the database and the archive put back in its place, the crash-loop      *)
(* breaker, and the order in which PrepareDatabase, openAgent, Guard.Start *)
(* and close use them (internal/reliability/prepare.go, sentinel.go,       *)
(* restore.go, breaker.go, guard.go, cmd/nerdgenie/serve.go).              *)
(*                                                                         *)
(* The sentinel, the breaker's file and the database are on disk.  A state *)
(* file is put in place by a rename, so writing one is a single step, and  *)
(* the program can be killed between any two steps.                        *)
(***************************************************************************)
EXTENDS Integers, Sequences, FiniteSets

CONSTANTS
    RestartLimit,   \* unclean starts in the window that make a crash loop
    RestartWindow,
    QuietPeriod,
    Archives,       \* what the newest backup may be: none, good or bad
    MaxTime,        \* bound: the last tick of the clock
    MaxLives        \* bound: how many times the program is launched

ASSUME RecoveryAssumption ==
    /\ {RestartLimit, RestartWindow, QuietPeriod, MaxTime, MaxLives} \subseteq Nat \ {0}
    /\ Archives \subseteq {"none", "good", "bad"}

VARIABLES
    sentinel,   \* lifecycle.json: whether it is there, and its Found
    breaker,    \* crash-loop.json; a file that is not there is an empty one
    database,   \* what is in the database file
    archive,    \* what the newest backup is
    stage,      \* how far this life of the program has come
    found,      \* the recovery PrepareDatabase and Guard.Start have in memory
    working,    \* a task is running
    now,        \* the clock
    lives,      \* how many lives have begun
    counted,    \* history: the unclean starts written down since the last Clear
    badEnds,    \* history: lives ended without Guard.Stop since it last cleared
    cutShort    \* history: a kill met a recovery, or a close, half way through

disk == <<sentinel, breaker, database, archive>>
history == <<counted, badEnds, cutShort>>
vars == <<disk, stage, found, working, now, lives, history>>

\* Each stage is named for the last thing that was done.
Stages == {"down", "launched", "condemned", "aside", "restoring", "checked",
           "prepared", "opened", "taken", "told", "tallied", "announcing",
           "serving", "exited", "cleared"}

\* The stages in which the event log has the database open.
LogIsOpen == stage \in {"opened", "taken", "told", "tallied", "announcing",
                        "serving", "exited", "cleared"}

Never == -1

NoSentinel == [there |-> FALSE, unclean |-> FALSE, moved |-> FALSE]

NothingFound == [unclean |-> FALSE, moved |-> FALSE]

NoCrashLoop == [starts |-> <<>>, trippedAt |-> Never, announced |-> FALSE]

Init ==
    /\ sentinel = NoSentinel
    /\ breaker = NoCrashLoop
    /\ database = "whole"
    /\ archive \in Archives
    /\ stage = "down"
    /\ found = NothingFound
    /\ working = FALSE
    /\ now = 0
    /\ lives = 0
    /\ counted = <<>>
    /\ badEnds = 0
    /\ cutShort = FALSE

From(a, b) == stage = a /\ stage' = b

-----------------------------------------------------------------------------
\* PrepareDatabase, before anything opens the database.

\* Mutant of Launch: the sentinel of the last life is not looked for.
LaunchTrusting ==
    /\ From("down", "launched")
    /\ lives < MaxLives
    /\ lives' = lives + 1
    /\ found' = NothingFound
    /\ UNCHANGED <<disk, working, now, history>>

Launch ==
    /\ From("down", "launched")
    /\ lives < MaxLives
    /\ lives' = lives + 1
    /\ found' = [NothingFound EXCEPT !.unclean = sentinel.there]
    /\ UNCHANGED <<disk, working, now, history>>

\* CheckDatabase: a file that is not there, and one that holds nothing, pass.
Unusable == database \in {"damaged", "partial"}

CheckDatabase ==
    /\ \/ From("launched", "condemned") /\ found.unclean /\ Unusable
       \/ From("launched", "checked") /\ ~(found.unclean /\ Unusable)
    /\ UNCHANGED <<disk, found, working, now, lives, history>>

MoveDatabaseAside ==
    /\ From("condemned", "aside")
    /\ database' = "missing"
    /\ found' = [found EXCEPT !.moved = TRUE]
    /\ UNCHANGED <<sentinel, breaker, archive, working, now, lives, history>>

\* LatestArchive finds one and Restore makes the file to write it into, or
\* there is none and the recovery ends with that.
BeginRestore ==
    /\ \/ /\ archive # "none"
          /\ From("aside", "restoring")
          /\ database' = "blank"
       \/ /\ archive = "none"
          /\ From("aside", "checked")
          /\ UNCHANGED database
    /\ UNCHANGED <<sentinel, breaker, archive, found, working, now, lives, history>>

WriteSome ==
    /\ stage = "restoring"
    /\ database = "blank"
    /\ database' = "partial"
    /\ UNCHANGED <<sentinel, breaker, archive, stage, found, working, now, lives, history>>

\* The archive is read to its end, or turns out to be damaged: CouldNotRestore.
EndRestore ==
    /\ From("restoring", "checked")
    /\ \/ archive = "good" /\ database = "partial" /\ database' = "whole"
       \/ archive = "bad" /\ UNCHANGED database
    /\ UNCHANGED <<sentinel, breaker, archive, found, working, now, lives, history>>

StartThisLife ==
    /\ From("checked", "prepared")
    /\ sentinel' = [there |-> TRUE, unclean |-> found.unclean, moved |-> found.moved]
    /\ UNCHANGED <<breaker, database, archive, found, working, now, lives, history>>

-----------------------------------------------------------------------------
\* openAgent.

\* log.Open makes a database where there is none.
OpenTheStores ==
    /\ From("prepared", "opened")
    /\ database' = IF database = "missing" THEN "blank" ELSE database
    /\ UNCHANGED <<sentinel, breaker, archive, found, working, now, lives, history>>

LifeEnds ==
    /\ stage' = "down"
    /\ found' = NothingFound
    /\ working' = FALSE

\* A name already taken, a newer schema, a log that cannot be opened: close has
\* no guard to stop yet, so the program leaves without an exit path.
OpeningFails ==
    /\ stage \in {"condemned", "prepared"}
    /\ LifeEnds
    /\ badEnds' = badEnds + 1
    /\ UNCHANGED <<disk, now, lives, counted, cutShort>>

-----------------------------------------------------------------------------
\* The breaker.

\* The clock does not go back, so the starts that are out of the window are the
\* first ones.
Within(moments) ==
    LET old == {i \in DOMAIN moments : now - moments[i] > RestartWindow}
    IN  SubSeq(moments, Cardinality(old) + 1, Len(moments))

\* Mutant of RecordUncleanStart: one start more before it trips.
RecordUncleanStartLate ==
    LET starts == Append(Within(breaker.starts), now)
        trips == Len(starts) > RestartLimit /\ breaker.trippedAt = Never
    IN  /\ breaker' = [starts    |-> starts,
                       trippedAt |-> IF trips THEN now ELSE breaker.trippedAt,
                       announced |-> ~trips /\ breaker.announced]
        /\ counted' = Append(counted, now)

RecordUncleanStart ==
    LET starts == Append(Within(breaker.starts), now)
        trips == Len(starts) >= RestartLimit /\ breaker.trippedAt = Never
    IN  /\ breaker' = [starts    |-> starts,
                       trippedAt |-> IF trips THEN now ELSE breaker.trippedAt,
                       announced |-> ~trips /\ breaker.announced]
        /\ counted' = Append(counted, now)

\* Mutant of Clear: what was announced is not forgotten.
ClearStillAnnounced ==
    /\ breaker' = [NoCrashLoop EXCEPT !.announced = breaker.announced]
    /\ counted' = <<>>

Clear == breaker' = NoCrashLoop /\ counted' = <<>>

\* Tripped clears a breaker that has been quiet for long enough.
QuietIsOver == breaker.trippedAt # Never /\ now - breaker.trippedAt >= QuietPeriod

AskTripped == IF QuietIsOver THEN Clear ELSE UNCHANGED <<breaker, counted>>

Tripped == breaker.trippedAt # Never /\ ~QuietIsOver

-----------------------------------------------------------------------------
\* Guard.Start, up to Resend.  An error ends it, and serve begins all the same.

TakeWhatThisLifeFound ==
    /\ From("opened", "taken")
    /\ found' = [unclean |-> sentinel.unclean, moved |-> sentinel.moved]
    /\ sentinel' = [NoSentinel EXCEPT !.there = TRUE]
    /\ UNCHANGED <<breaker, database, archive, working, now, lives, history>>

TellOfTheRecovery ==
    /\ \/ From("taken", "told")
       \/ From("taken", "serving") /\ found.moved
    /\ UNCHANGED <<disk, found, working, now, lives, history>>

CountTheStart ==
    /\ From("told", "tallied")
    /\ IF found.unclean THEN RecordUncleanStart ELSE AskTripped
    /\ UNCHANGED <<sentinel, database, archive, found, working, now, lives, badEnds, cutShort>>

\* Announce writes that the user was told, and then they are told.
AnnounceTheBreaker ==
    /\ \/ /\ Tripped /\ ~breaker.announced
          /\ From("tallied", "announcing")
          /\ breaker' = [breaker EXCEPT !.announced = TRUE]
          /\ UNCHANGED counted
       \/ /\ ~Tripped \/ breaker.announced
          /\ From("tallied", "serving")
          /\ AskTripped
    /\ UNCHANGED <<sentinel, database, archive, found, working, now, lives, badEnds, cutShort>>

SendTheAnnouncement ==
    /\ From("announcing", "serving")
    /\ UNCHANGED <<disk, found, working, now, lives, history>>

-----------------------------------------------------------------------------
\* Serving, and leaving.

\* WhyNoNewTask has nothing to say, and a task starts.
StartTask ==
    /\ stage = "serving"
    /\ ~working
    /\ ~Tripped
    /\ AskTripped
    /\ working' = TRUE
    /\ UNCHANGED <<sentinel, database, archive, stage, found, now, lives, badEnds, cutShort>>

TaskEnds ==
    /\ working
    /\ working' = FALSE
    /\ UNCHANGED <<disk, stage, found, now, lives, history>>

\* Mutant of MarkExited: the sentinel stays.
MarkExitedInWords ==
    /\ From("serving", "exited") \/ From("opened", "exited")
    /\ UNCHANGED <<disk, found, working, now, lives, history>>

\* Guard.Stop is the first thing close does: when serve returns, however it
\* returns, and when openTheFront fails.
MarkExited ==
    /\ From("serving", "exited") \/ From("opened", "exited")
    /\ sentinel' = NoSentinel
    /\ UNCHANGED <<breaker, database, archive, found, working, now, lives, history>>

ForgetTheLoop ==
    /\ From("exited", "cleared")
    /\ Clear
    /\ badEnds' = 0
    /\ UNCHANGED <<sentinel, database, archive, found, working, now, lives, cutShort>>

\* The rest of close, the event log last.
CloseTheLog ==
    /\ stage = "cleared"
    /\ LifeEnds
    /\ UNCHANGED <<disk, now, lives, history>>

\* A kill, or the machine losing power: a database that was open may be damaged.
Die ==
    /\ stage # "down"
    /\ LifeEnds
    /\ database' \in {database} \cup (IF LogIsOpen THEN {"damaged"} ELSE {})
    /\ badEnds' = IF stage \in {"exited", "cleared"} THEN badEnds ELSE badEnds + 1
    /\ cutShort' = (cutShort \/ stage \in {"aside", "restoring", "exited", "cleared"})
    /\ UNCHANGED <<sentinel, breaker, archive, now, lives, counted>>

Tick ==
    /\ now < MaxTime
    /\ now' = now + 1
    /\ UNCHANGED <<disk, stage, found, working, lives, history>>

-----------------------------------------------------------------------------

Next ==
    \/ Launch
    \/ CheckDatabase
    \/ MoveDatabaseAside
    \/ BeginRestore
    \/ WriteSome
    \/ EndRestore
    \/ StartThisLife
    \/ OpenTheStores
    \/ OpeningFails
    \/ TakeWhatThisLifeFound
    \/ TellOfTheRecovery
    \/ CountTheStart
    \/ AnnounceTheBreaker
    \/ SendTheAnnouncement
    \/ StartTask
    \/ TaskEnds
    \/ MarkExited
    \/ ForgetTheLoop
    \/ CloseTheLog
    \/ Die
    \/ Tick

Spec == Init /\ [][Next]_vars

-----------------------------------------------------------------------------

\* The types of the files and of what is in memory; only a trip was announced,
\* so that no later trip is taken for one the user heard of.
RecoveryTypeOK ==
    /\ sentinel \in [there : BOOLEAN, unclean : BOOLEAN, moved : BOOLEAN]
    /\ breaker.starts \in Seq(0 .. MaxTime)
    /\ breaker.trippedAt \in 0 .. MaxTime \cup {Never}
    /\ breaker.announced \in BOOLEAN
    /\ breaker.announced => breaker.trippedAt # Never
    /\ database \in {"whole", "damaged", "missing", "blank", "partial"}
    /\ archive \in Archives
    /\ stage \in Stages
    /\ found \in [unclean : BOOLEAN, moved : BOOLEAN]
    /\ working \in BOOLEAN
    /\ now \in 0 .. MaxTime
    /\ lives \in 0 .. MaxLives
    /\ counted \in Seq(0 .. MaxTime)
    /\ badEnds \in 0 .. MaxLives
    /\ cutShort \in BOOLEAN

\* The user's history survives every kill that leaves a recovery and a close
\* alone: with a good backup at hand, the agent serves on a whole database,
\* whatever state the last life left the file in and however often it died.
OnlyAKillHalfWayLosesTheDatabase ==
    stage = "serving" /\ archive = "good" /\ ~cutShort => database = "whole"

\* The k-th of the counted starts is the last of RestartLimit in one window.
Trips(k) ==
    /\ k >= RestartLimit
    /\ counted[k] - counted[k - RestartLimit + 1] <= RestartWindow

\* A crash loop is on from the first start that trips until QuietPeriod later,
\* whatever happens in between.
CrashLoop ==
    \E k \in DOMAIN counted :
        /\ Trips(k)
        /\ \A j \in 1 .. k - 1 : ~Trips(j)
        /\ now - counted[k] < QuietPeriod

\* No task starts while a crash loop is on: not in the life that tripped the
\* breaker, and not in any that follows it until one of them exits cleanly.
CrashLoopStartsNoTask == [][working' /\ ~working => ~CrashLoop]_vars

\* Every start the breaker holds against the program stands for a life that
\* ended without an exit path since the crash loop was last forgotten: a person
\* who stops and starts the program never trips it, even when the program is
\* killed between taking the sentinel away and clearing the breaker.
OnlyBadEndsCount == Len(breaker.starts) <= badEnds

\* "so that a program killed in the middle of a recovery is still an unclean
\* exit to the life after it and the recovery runs again" (prepare.go:71): with
\* a good backup at hand the agent does not serve on an empty database.
RecoveryRunsAgain ==
    stage = "serving" /\ archive = "good" => database # "blank"
=============================================================================
