------------------------------- MODULE Update -------------------------------
(***************************************************************************)
(* nerdgenie update and nerdgenie update --rollback, the migration step,   *)
(* and the service they stop and start (internal/update/updater.go,        *)
(* switchover.go, release.go, migrate.go, schema.go, readiness.go;         *)
(* internal/reliability/drain.go; the unit in internal/command/service.go).*)
(*                                                                         *)
(* The installer's launcher goes through the current link, so the program  *)
(* that runs a command is the one the link names.  The service manager is  *)
(* outside the repository: the actions under "The service" are what the    *)
(* unit's text asks of it.                                                 *)
(***************************************************************************)
EXTENDS Integers, FiniteSets, FiniteSetsExt

CONSTANTS
    Newest,         \* versions are 1..Newest, in the order of Newer
    Migrating,      \* the versions that bring migrations with them
    PerVersion,     \* how many migrations each of them brings
    KeptReleases,
    MaxOrders,      \* bound: how many commands a person gives
    MaxFaults       \* bound: how many things go wrong

ASSUME UpdateAssumption ==
    /\ {Newest, PerVersion, KeptReleases, MaxOrders, MaxFaults} \subseteq Nat
    /\ Newest > 0
    /\ Migrating \subseteq 1..Newest

VARIABLES
    releases,   \* the whole versions under the releases folder
    link,       \* the version the current link names
    schema,     \* the newest migration the database has had
    whole,      \* FALSE from a restore's first write to its last
    archive,    \* the schema in the backup this migration took, or NoArchive
    drain,      \* the drain marker: none, on, or ignored
    leftover,   \* history: the marker that is on outlived the switch that wrote it,
                \* because that was cut short or the removal was refused
    agent,      \* the process the service manager runs
    updater,    \* the command, and how far it has come
    said,       \* how the last command ended
    refused,    \* the migration was refused the stop it asked for
    stranded,   \* history: a command that was cut short or failed left the
                \* database half migrated, or the link on a program that cannot read it
    orders, faults

database == <<schema, whole, archive>>
marker == <<drain, leftover>>
bounds == <<orders, faults>>
vars == <<releases, link, database, marker, agent, updater, said, refused, stranded, bounds>>

Versions == 1..Newest
NoVersion == 0
NoArchive == -1

\* The schema a version understands: SchemaVersion.
Understood(v) == PerVersion * Cardinality({w \in Migrating : w <= v})

Reads(v) == whole /\ schema <= Understood(v)

\* The stages of switchTo and of the migration, each named for what is next.
Switching == {"drain", "stop", "link", "start", "starting", "ready"}
MigrationStages == {"check", "backup", "apply", "bring down", "prove", "restore", "restoring"}
Stages == {"idle", "clear", "place", "prune"} \cup Switching \cup MigrationStages

Idle == updater.at = "idle"

\* The agent has the database open.
HasItOpen == agent.at \in {"opening", "up", "hung"}

Init ==
    /\ releases \in SUBSET Versions
    /\ link \in releases
    /\ schema \in 0..Understood(link)
    /\ whole = TRUE
    /\ archive = NoArchive
    /\ drain = "none"
    /\ leftover = FALSE
    /\ agent = [at |-> "up", v |-> link]
    /\ updater = [at |-> "idle", by |-> "install", way |-> "on", new |-> NoVersion, previous |-> NoVersion]
    /\ said = "nothing"
    /\ refused = FALSE
    /\ stranded = FALSE
    /\ orders = 0
    /\ faults = 0

GoesWrong == faults < MaxFaults /\ faults' = faults + 1

-----------------------------------------------------------------------------
\* The service, as the unit describes it: Type=notify, Restart=on-failure, a
\* watchdog, and no restart after ExitBadConfiguration.

\* Mutant of Stopped: the running agent is only told.
StoppedLater == UNCHANGED agent

\* "systemctl stop" ends the agent whatever it is doing.
Stopped == agent' = [agent EXCEPT !.at = "off"]

\* "systemctl start" of a unit that is active, or coming up, changes nothing.
Started ==
    agent' = IF agent.at \in {"off", "restarting"} THEN [at |-> "starting", v |-> link] ELSE agent

Launch ==
    /\ agent.at = "restarting"
    /\ Started
    /\ UNCHANGED <<releases, link, database, marker, updater, said, refused, stranded, bounds>>

\* serve asks CheckSchema before it opens the database.
OpenTheDatabase ==
    /\ agent.at = "starting"
    /\ agent' = [agent EXCEPT !.at = CASE Reads(agent.v) -> "opening"
                                       [] ~whole -> "restarting"
                                       [] OTHER -> "off"]
    /\ UNCHANGED <<releases, link, database, marker, updater, said, refused, stranded, bounds>>

ComeUp ==
    /\ agent.at = "opening"
    /\ agent' = [agent EXCEPT !.at = "up"]
    /\ UNCHANGED <<releases, link, database, marker, updater, said, refused, stranded, bounds>>

\* Mutant of WatchdogKills: the unit starts nothing again.
WatchdogKillsForGood ==
    /\ agent.at = "hung"
    /\ agent' = [agent EXCEPT !.at = "off"]
    /\ UNCHANGED <<releases, link, database, marker, updater, said, refused, stranded, bounds>>

WatchdogKills ==
    /\ agent.at = "hung"
    /\ agent' = [agent EXCEPT !.at = "restarting"]
    /\ UNCHANGED <<releases, link, database, marker, updater, said, refused, stranded, bounds>>

\* The agent dies, or its loop stops answering.
AgentFails ==
    /\ GoesWrong
    /\ \/ agent.at \in {"starting", "opening", "up"} /\ agent' = [agent EXCEPT !.at = "restarting"]
       \/ agent.at = "up" /\ agent' = [agent EXCEPT !.at = "hung"]
    /\ UNCHANGED <<releases, link, database, marker, updater, said, refused, stranded, orders>>

-----------------------------------------------------------------------------
\* What the person asks for.

Asked(by, new, first) ==
    /\ Idle
    /\ orders < MaxOrders
    /\ orders' = orders + 1
    /\ updater' = [at |-> first, by |-> by, way |-> "on", new |-> new, previous |-> link]
    /\ said' = "nothing"
    /\ archive' = NoArchive
    /\ refused' = FALSE
    /\ UNCHANGED <<releases, link, schema, whole, marker, agent, stranded, faults>>

Install ==
    \E offered \in Versions : offered > link /\ Asked("install", offered, "clear")

\* Rollback asks CheckSchema first, and takes the newest version below the link's.
Rollback ==
    LET below == {v \in releases : v < link}
    IN  /\ Reads(link)
        /\ below # {}
        /\ Asked("rollback", Max(below), "drain")

-----------------------------------------------------------------------------
\* How a step of a command ends.  Each of these settles the updater, the marker,
\* and what was said.

GoOn(stage) ==
    /\ updater' = [updater EXCEPT !.at = stage]
    /\ UNCHANGED <<marker, said, stranded>>

Ends(outcome) ==
    /\ updater' = [updater EXCEPT !.at = "idle"]
    /\ said' = outcome
    /\ UNCHANGED stranded

\* What a migration that ends here leaves behind.
LeftHalfway == ~whole \/ (archive # NoArchive /\ schema # archive)

\* The deferred Cancel of switchTo: it takes the marker away or is refused, and
\* its error is dropped.
CancelTheDrain ==
    \/ drain' = "none" /\ leftover' = FALSE
    \/ drain' = drain /\ leftover' = (drain = "on")

\* Mutant of Undo: the drain is cancelled only where the switch has worked.
UndoStillDraining ==
    /\ updater' = [updater EXCEPT !.at = "link", !.way = "back"]
    /\ UNCHANGED <<marker, said>>

\* switchTo or the migration has returned with an error, and undo begins.  The
\* Cancel is deferred once the marker is written, so a Request that fails leaves
\* an older marker where it is.
Undo ==
    /\ updater' = [updater EXCEPT !.at = "link", !.way = "back"]
    /\ IF updater.at \in Switching \ {"drain"} THEN CancelTheDrain ELSE UNCHANGED marker
    /\ UNCHANGED said

\* A step that fails: on the way back there is nothing left but to say so.
Fails ==
    \/ /\ updater.way = "on"
       /\ Undo
       /\ stranded' = (stranded \/ (updater.at \in MigrationStages /\ LeftHalfway))
    \/ /\ updater.way = "back"
       /\ updater' = [updater EXCEPT !.at = "idle"]
       /\ said' = "not back"
       /\ stranded' = (stranded \/ ~Reads(link))
       /\ UNCHANGED marker

-----------------------------------------------------------------------------
\* The steps of a command.

\* putReleaseInPlace: clear the old copy away, then rename the new one into place.
PutReleaseInPlace ==
    /\ \/ /\ updater.at = "clear"
          /\ releases' = releases \ {updater.new}
          /\ GoOn("place")
          /\ UNCHANGED faults
       \/ /\ updater.at = "place"
          /\ releases' = releases \cup {updater.new}
          /\ GoOn("drain")
          /\ UNCHANGED faults
       \/ /\ updater.at \in {"clear", "place"}
          /\ GoesWrong
          /\ Ends("nothing installed")
          /\ UNCHANGED <<releases, marker>>
    /\ UNCHANGED <<link, database, agent, refused, orders>>

RequestDrain ==
    /\ updater.at = "drain"
    /\ \/ /\ drain' = "on"
          /\ leftover' = FALSE
          /\ updater' = [updater EXCEPT !.at = "stop"]
          /\ UNCHANGED <<said, stranded, faults>>
       \/ GoesWrong /\ Fails
    /\ UNCHANGED <<releases, link, database, agent, refused, orders>>

StopTheService ==
    /\ updater.at = "stop"
    /\ \/ Stopped /\ GoOn("link") /\ UNCHANGED faults
       \/ GoesWrong /\ Fails /\ UNCHANGED agent
    /\ UNCHANGED <<releases, link, database, refused, orders>>

\* Where the link goes, on the way on and on the way back.
Wanted == IF updater.way = "on" THEN updater.new ELSE updater.previous

LinkRelease ==
    /\ updater.at = "link"
    /\ \/ /\ IF Wanted \in releases THEN link' = Wanted /\ GoOn("start") ELSE Fails /\ UNCHANGED link
          /\ UNCHANGED faults
       \/ GoesWrong /\ Fails /\ UNCHANGED link
    /\ UNCHANGED <<releases, database, agent, refused, orders>>

StartTheService ==
    /\ updater.at = "start"
    /\ \/ Started /\ GoOn("starting") /\ UNCHANGED faults
       \/ GoesWrong /\ Fails /\ UNCHANGED agent
    /\ UNCHANGED <<releases, link, database, refused, orders>>

\* systemctl comes back when the unit has said it is ready or has failed, and
\* is given serviceWait to do so.
ServiceWasStarted ==
    /\ updater.at = "starting"
    /\ IF agent.at \in {"up", "hung"} THEN GoOn("ready") ELSE Fails
    /\ UNCHANGED <<releases, link, database, agent, refused, bounds>>

\* waitUntilReady: any reply counts, whichever version it came from.  An agent
\* that does not answer is waited for, and the wait is over at some point.
WaitUntilReady ==
    /\ updater.at = "ready"
    /\ \/ agent.at = "up" /\ updater.way = "back" /\ Ends("back") /\ UNCHANGED marker
       \/ agent.at = "up" /\ updater.way = "on" /\ updater.by = "rollback" /\ Ends("gone back") /\ CancelTheDrain
       \/ /\ agent.at = "up" /\ updater.way = "on" /\ updater.by = "install"
          /\ updater' = [updater EXCEPT !.at = "check"]
          /\ CancelTheDrain
          /\ UNCHANGED <<said, stranded>>
       \/ agent.at # "up" /\ Fails
    /\ UNCHANGED <<releases, link, database, agent, refused, bounds>>

\* Mutant of Prunable: the version before the one now running is not protected.
PrunableWithPrevious ==
    {v \in releases \ {updater.new} :
        Cardinality({w \in releases : w >= v}) > KeptReleases}

\* pruneReleases: the newest few stay, and so do the version now running and the
\* one before it.
Prunable ==
    {v \in releases \ {updater.new, updater.previous} :
        Cardinality({w \in releases : w >= v}) > KeptReleases}

\* A removal that fails ends the pruning where it is.
PruneReleases ==
    /\ updater.at = "prune"
    /\ \/ releases' = releases \ Prunable /\ UNCHANGED faults
       \/ GoesWrong /\ \E gone \in SUBSET Prunable : releases' = releases \ gone
    /\ Ends("installed")
    /\ UNCHANGED <<link, database, marker, agent, refused, orders>>

-----------------------------------------------------------------------------
\* The migration, which the newly installed program runs while the agent it
\* came up as has the database open.

CheckWhatIsPending ==
    /\ updater.at = "check"
    /\ \/ ~Reads(updater.new) /\ Fails
       \/ Reads(updater.new) /\ schema = Understood(updater.new) /\ GoOn("prune")
       \/ Reads(updater.new) /\ schema < Understood(updater.new) /\ GoOn("backup")
    /\ UNCHANGED <<releases, link, database, agent, refused, bounds>>

\* Mutant of TakeABackup: the archive's name is not handed on to what follows.
TakeABackupUnnamed ==
    /\ updater.at = "backup"
    /\ GoOn("apply")
    /\ UNCHANGED <<releases, link, database, agent, refused, bounds>>

TakeABackup ==
    /\ updater.at = "backup"
    /\ \/ archive' = schema /\ GoOn("apply") /\ UNCHANGED faults
       \/ GoesWrong /\ Fails /\ UNCHANGED archive
    /\ UNCHANGED <<releases, link, schema, whole, agent, refused, orders>>

\* Mutant of ApplyPending: a migration that fails ends the run as it is.
ApplyPendingAndGiveUp ==
    /\ updater.at = "apply"
    /\ \/ /\ schema < Understood(updater.new)
          /\ schema' = schema + 1
          /\ GoOn("apply")
          /\ UNCHANGED faults
       \/ /\ schema = Understood(updater.new)
          /\ GoOn("prune")
          /\ UNCHANGED <<schema, faults>>
       \/ GoesWrong /\ Undo /\ UNCHANGED <<schema, stranded>>
    /\ UNCHANGED <<releases, link, whole, archive, agent, refused, orders>>

\* Mutant of ApplyPending: the last migration counts as one still to come.
ApplyPendingOneMore ==
    /\ updater.at = "apply"
    /\ \/ /\ schema <= Understood(updater.new)
          /\ schema' = schema + 1
          /\ GoOn("apply")
          /\ UNCHANGED faults
       \/ /\ schema >= Understood(updater.new)
          /\ GoOn("prune")
          /\ UNCHANGED <<schema, faults>>
       \/ GoesWrong /\ GoOn("bring down") /\ UNCHANGED schema
    /\ UNCHANGED <<releases, link, whole, archive, agent, refused, orders>>

\* applyPending: one transaction a migration, and closeDatabase after the last.
ApplyPending ==
    /\ updater.at = "apply"
    /\ \/ /\ schema < Understood(updater.new)
          /\ schema' = schema + 1
          /\ GoOn("apply")
          /\ UNCHANGED faults
       \/ /\ schema = Understood(updater.new)
          /\ GoOn("prune")
          /\ UNCHANGED <<schema, faults>>
       \/ GoesWrong /\ GoOn("bring down") /\ UNCHANGED schema
    /\ UNCHANGED <<releases, link, whole, archive, agent, refused, orders>>

\* Mutant of BringTheAgentDown: the backup is put back under the running agent.
BringNothingDown ==
    /\ updater.at = "bring down"
    /\ GoOn("restore")
    /\ UNCHANGED <<releases, link, database, agent, refused, bounds>>

\* bringTheAgentDown: the stop may be refused, and the readiness check decides.
BringTheAgentDown ==
    /\ updater.at = "bring down"
    /\ GoOn("prove")
    /\ \/ Stopped /\ UNCHANGED <<refused, faults>>
       \/ GoesWrong /\ refused' = TRUE /\ UNCHANGED agent
    /\ UNCHANGED <<releases, link, database, orders>>

ProveItIsDown ==
    /\ updater.at = "prove"
    /\ IF agent.at = "up" THEN Fails ELSE GoOn("restore")
    /\ UNCHANGED <<releases, link, database, agent, refused, bounds>>

\* Restore writes over the file in place.
PutTheBackupBack ==
    /\ \/ /\ updater.at = "restore"
          /\ whole' = FALSE
          /\ GoOn("restoring")
          /\ UNCHANGED <<schema, faults>>
       \/ /\ updater.at = "restoring"
          /\ whole' = TRUE
          /\ schema' = archive
          /\ Undo
          /\ UNCHANGED <<stranded, faults>>
       \/ /\ updater.at \in {"restore", "restoring"}
          /\ GoesWrong
          /\ Fails
          /\ UNCHANGED <<schema, whole>>
    /\ UNCHANGED <<releases, link, archive, agent, refused, orders>>

\* migrateWait is over, and the migrating program is killed where it is.
MigrationIsKilled ==
    /\ updater.at \in MigrationStages
    /\ GoesWrong
    /\ Fails
    /\ UNCHANGED <<releases, link, database, agent, refused, orders>>

-----------------------------------------------------------------------------
\* What else can happen.

CutShort ==
    /\ ~Idle
    /\ updater' = [updater EXCEPT !.at = "idle"]
    /\ said' = "cut short"
    /\ stranded' = (stranded \/ ~Reads(link) \/ (updater.at \in MigrationStages /\ LeftHalfway))

\* The command is interrupted at the terminal, with the migration it is running.
Kill ==
    /\ GoesWrong
    /\ CutShort
    /\ leftover' = (drain = "on")
    /\ UNCHANGED <<releases, link, database, drain, agent, refused, orders>>

\* The machine restarts.  A marker from another boot is not honoured.
Reboot ==
    /\ GoesWrong
    /\ (CutShort \/ (Idle /\ UNCHANGED <<updater, said, stranded>>))
    /\ agent' = [agent EXCEPT !.at = "restarting"]
    /\ drain' = IF drain = "on" THEN "ignored" ELSE drain
    /\ leftover' = FALSE
    /\ UNCHANGED <<releases, link, database, refused, orders>>

\* A marker is honoured for DrainExpiry; the stop of a switch may wait as long.
DrainExpires ==
    /\ drain = "on"
    /\ drain' = "ignored"
    /\ leftover' = FALSE
    /\ UNCHANGED <<releases, link, database, agent, updater, said, refused, stranded, bounds>>

Migrate ==
    \/ CheckWhatIsPending \/ TakeABackup \/ ApplyPending \/ BringTheAgentDown
    \/ ProveItIsDown \/ PutTheBackupBack \/ MigrationIsKilled

Command ==
    \/ PutReleaseInPlace \/ RequestDrain \/ StopTheService \/ LinkRelease \/ StartTheService
    \/ ServiceWasStarted \/ WaitUntilReady \/ Migrate \/ PruneReleases

Service == Launch \/ OpenTheDatabase \/ ComeUp \/ WatchdogKills

Next ==
    \/ Install \/ Rollback \/ Command
    \/ Service \/ AgentFails
    \/ Kill \/ Reboot \/ DrainExpires

\* The service manager starts what it owes a start, and the watchdog fires.
Fairness == WF_vars(Service)

Spec == Init /\ [][Next]_vars /\ Fairness

-----------------------------------------------------------------------------
\* Properties.

\* Type correctness of the updater's state, the marker, the service and the
\* database.
UpdateTypeOK ==
    /\ releases \subseteq Versions /\ link \in Versions
    /\ schema \in 0..Understood(Newest)
    /\ whole \in BOOLEAN
    /\ archive \in {NoArchive} \cup 0..Understood(Newest)
    /\ drain \in {"none", "on", "ignored"} /\ leftover \in BOOLEAN
    /\ agent \in [at : {"off", "restarting", "starting", "opening", "up", "hung"}, v : Versions]
    /\ updater \in [at : Stages, by : {"install", "rollback"}, way : {"on", "back"},
                    new : Versions \cup {NoVersion}, previous : Versions \cup {NoVersion}]
    /\ said \in {"nothing", "nothing installed", "installed", "gone back", "back", "not back", "cut short"}
    /\ refused \in BOOLEAN /\ stranded \in BOOLEAN
    /\ orders \in 0..MaxOrders /\ faults \in 0..MaxFaults

\* An agent never works on a database a newer version has migrated, whatever the
\* order of switching, migrating, failing and going back: an older binary must
\* never open such a file (theDatabaseToOpen, CheckSchema, switchTo's stop).
NoAgentOnANewerDatabase == HasItOpen => schema <= Understood(agent.v)

\* An update that says the version is running, and a rollback by hand that says
\* it went back, have the link and the running agent on that version, and the
\* installed one has had all of its migrations (putIntoService, Rollback).
WhatWasSaidIsRunning ==
    Idle /\ said \in {"installed", "gone back"} =>
        /\ link = updater.new
        /\ HasItOpen => agent.v = link
        /\ said = "installed" => schema = Understood(link)

\* A command that ended by itself, in a new version, the old one again or the
\* one gone back to, leaves a link whose program reads the database, unless the
\* migration was left neither done nor put back (undo after putTheBackupBack).
RestingLinkReadsTheDatabase ==
    Idle /\ said \in {"installed", "gone back", "back"} /\ ~stranded => Reads(link)

\* After an update that says so, the version before it is kept to go back to,
\* and the link names a whole release at every moment (pruneReleases, linkRelease).
TheOneToGoBackToIsKept ==
    /\ link \in releases
    /\ Idle /\ said = "installed" => updater.previous \in releases

\* The drain marker is honoured while the switch that wrote it is on; once that
\* is over, however it ended, only if the command was cut short or the removal
\* was refused.  Such a marker outlives any command whose own Request fails, and
\* goes with the first whose Request does not (switchTo's deferred Cancel).
DrainsEndWithTheirSwitch ==
    drain = "on" => leftover \/ (updater.at \in Switching \ {"drain"} /\ updater.way = "on")

\* A backup is written over the database only when no agent has it open, unless
\* the service manager refused to stop it (bringTheAgentDown).
NoBackupUnderARunningAgent ==
    [][whole' # whole => ~HasItOpen \/ refused]_vars

\* After a command that ended well the agent comes back whenever it dies, until
\* a person orders something else (the unit's Restart, and the link it starts).
TheAgentComesBack ==
    Idle /\ said \in {"installed", "gone back", "back"} /\ ~stranded
        ~> agent.at = "up" \/ said = "nothing"

\* What the undo of an update reports: "the link is back on the version that was
\* running and nothing else was changed", so that version is the one that runs
\* (updater.go:181).
BackMeansTheOldVersionRuns ==
    Idle /\ updater.by = "install" /\ said = "back" /\ agent.at = "up" => agent.v = link

=============================================================================
