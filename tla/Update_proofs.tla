--------------------------- MODULE Update_proofs ---------------------------
(***************************************************************************)
(* That an update, however it goes, keeps what Update states of it, for    *)
(* any number of versions, migrations, orders and faults.  One inductive   *)
(* invariant, UpdateInv, says at which stage of a command the link, the    *)
(* agent, the database and the backup are where; each property of the      *)
(* module but the liveness one follows from it.                            *)
(***************************************************************************)
EXTENDS Update, FiniteSetTheorems, WellFoundedInduction, TLAPS

\* The stages before the link has moved, and those after the new program ran.
Ahead == {"clear", "place", "drain", "stop"}
After == {"starting", "ready", "prune"} \cup MigrationStages
WayBack == {"link", "start", "starting", "ready"}
Undoing == {"bring down", "prove", "restore", "restoring"}

StagesInv ==
    /\ updater.at # "idle" /\ updater.way = "back" => updater.at \in WayBack
    /\ updater.at # "idle" => updater.new \in Versions /\ updater.new # updater.previous

\* Where the link is, and which program the service manager runs.
LinkInv ==
    /\ link \in releases
    /\ updater.at # "idle" => updater.previous \in releases
    /\ updater.at = "idle" /\ said = "installed" => updater.previous \in releases
    /\ updater.at \in Ahead => link = updater.previous
    /\ updater.way = "on" /\ updater.at \in {"start"} \cup After => link = updater.new
    /\ updater.way = "back" /\ updater.at \in {"start", "starting", "ready"} => link = updater.previous
    /\ updater.at = "idle" /\ said \in {"installed", "gone back"} => link = updater.new

AgentInv ==
    /\ updater.way = "on" /\ updater.at \in {"link", "start"} => agent.at = "off"
    /\ updater.way = "on" /\ updater.at \in After => agent.v = updater.new
    /\ updater.at \in {"prove", "restore", "restoring"} /\ ~refused => agent.at = "off"
    /\ updater.at = "idle" /\ said \in {"installed", "gone back"} => agent.v = updater.new

\* How far the database has been migrated, and what its backup holds.
SchemaInv ==
    /\ updater.at \in {"backup", "apply"} => schema <= Understood(updater.new)
    /\ updater.at = "prune" => schema = Understood(updater.new)
    /\ updater.at \in {"apply"} \cup Undoing => archive \in 0..Understood(updater.new)
    /\ updater.at = "idle" /\ said = "installed" => schema = Understood(link)
    /\ NoAgentOnANewerDatabase

\* What a command that was neither cut short nor failed half way has done.
DatabaseInv == ~stranded =>
    /\ updater.at # "restoring" => whole
    /\ updater.at = "idle" => Reads(link)
    /\ updater.at \in Ahead \cup Switching \cup {"check", "backup"} => Reads(updater.previous)
    /\ updater.way = "on" /\ updater.at \in Ahead \cup Switching \cup {"check", "backup"} =>
         archive = NoArchive
    /\ updater.at \in {"apply"} \cup Undoing => archive <= Understood(updater.previous)

\* The type invariant in parts, one for each of who writes them.
FilesTypeOK == releases \subseteq Versions /\ link \in Versions
DatabaseTypeOK ==
    /\ schema \in 0..Understood(Newest)
    /\ whole \in BOOLEAN
    /\ archive \in {NoArchive} \cup 0..Understood(Newest)
AgentTypeOK ==
    agent \in [at : {"off", "restarting", "starting", "opening", "up", "hung"}, v : Versions]
UpdaterTypeOK ==
    updater \in [at : Stages, by : {"install", "rollback"}, way : {"on", "back"},
                    new : Versions \cup {NoVersion}, previous : Versions \cup {NoVersion}]
SaidTypeOK ==
    /\ said \in {"nothing", "nothing installed", "installed", "gone back", "back", "not back", "cut short"}
    /\ drain \in {"none", "on", "ignored"} /\ leftover \in BOOLEAN
    /\ refused \in BOOLEAN /\ stranded \in BOOLEAN
BoundsTypeOK == orders \in 0..MaxOrders /\ faults \in 0..MaxFaults

TypesInv ==
    /\ FilesTypeOK /\ DatabaseTypeOK /\ AgentTypeOK
    /\ UpdaterTypeOK /\ SaidTypeOK /\ BoundsTypeOK

UpdateInv ==
    /\ TypesInv
    /\ StagesInv
    /\ LinkInv
    /\ AgentInv
    /\ SchemaInv
    /\ DatabaseInv
    /\ DrainsEndWithTheirSwitch

-----------------------------------------------------------------------------
\* A version understands a number of migrations, and a newer one no fewer.
LEMMA UnderstoodIsMonotone ==
    ASSUME NEW v \in Versions
    PROVE  /\ Understood(v) \in Nat
           /\ Understood(Newest) \in Nat
           /\ Understood(v) <= Understood(Newest)
<1> DEFINE Of(n) == {w \in Migrating : w <= n}
<1>1. Newest \in Nat /\ PerVersion \in Nat /\ Migrating \subseteq 1..Newest
  BY UpdateAssumption
<1>2. IsFiniteSet(1..Newest)
  BY <1>1, FS_Interval
<1>3. IsFiniteSet(Of(v)) /\ IsFiniteSet(Of(Newest))
  BY <1>1, <1>2, FS_Subset
<1>4. Of(v) \subseteq Of(Newest)
  <2> SUFFICES ASSUME NEW w \in Migrating, w <= v
               PROVE  w <= Newest
    OBVIOUS
  <2>1. w \in Int /\ v \in Int /\ v <= Newest
    BY <1>1 DEF Versions
  <2> QED BY <1>1, <2>1
<1>5. PICK few \in Nat, many \in Nat :
        few = Cardinality(Of(v)) /\ many = Cardinality(Of(Newest)) /\ few <= many
  BY <1>3, <1>4, FS_CardinalityType, FS_Subset
<1>6. \A k \in Nat : k * few \in Nat /\ k * many \in Nat /\ k * few <= k * many
  BY <1>5
<1> QED BY <1>1, <1>5, <1>6 DEF Understood

\* A step counts at most one fault and orders nothing.
OneFaultAtMost == UNCHANGED orders /\ (UNCHANGED faults \/ GoesWrong)

LEMMA BoundsKept ==
    ASSUME BoundsTypeOK, OneFaultAtMost
    PROVE  BoundsTypeOK'
<1>1. MaxFaults \in Nat /\ MaxOrders \in Nat /\ faults \in 0..MaxFaults
  BY UpdateAssumption DEF BoundsTypeOK
<1>2. CASE UNCHANGED faults
  BY <1>2 DEF BoundsTypeOK, OneFaultAtMost
<1>3. CASE GoesWrong
  <2>1. faults + 1 \in 0..MaxFaults
    BY <1>1, <1>3 DEF GoesWrong
  <2> QED BY <1>3, <2>1 DEF BoundsTypeOK, OneFaultAtMost, GoesWrong
<1> QED BY <1>2, <1>3 DEF OneFaultAtMost

-----------------------------------------------------------------------------
(* The service: whatever it does to the agent, what it starts is the link's, *)
(* and what opens the database has read its schema.                          *)

ServiceStep ==
    /\ UNCHANGED <<releases, link, database, marker, updater, said, refused, stranded>>
    /\ OneFaultAtMost
    /\ AgentTypeOK'
    /\ agent.at = "off" => UNCHANGED agent
    /\ agent'.v = agent.v \/ agent'.v = link
    /\ NoAgentOnANewerDatabase'

LEMMA ServiceKeepsIt ==
    ASSUME UpdateInv, ServiceStep
    PROVE  UpdateInv'
<1> USE DEF UpdateInv, ServiceStep, TypesInv, database, marker
<1>1. TypesInv'
  <2>1. BoundsTypeOK'
    BY BoundsKept
  <2>2. FilesTypeOK'
    BY DEF FilesTypeOK
  <2>3. DatabaseTypeOK'
    BY DEF DatabaseTypeOK
  <2>4. UpdaterTypeOK'
    BY DEF UpdaterTypeOK
  <2>5. SaidTypeOK'
    BY DEF SaidTypeOK
  <2> QED BY <2>1, <2>2, <2>3, <2>4, <2>5
<1>2. StagesInv' /\ LinkInv' /\ DrainsEndWithTheirSwitch'
  BY DEF StagesInv, LinkInv, DrainsEndWithTheirSwitch, Idle
<1>3. AgentInv'
  BY DEF AgentInv, LinkInv, After, MigrationStages
<1>4. SchemaInv'
  BY DEF SchemaInv
<1>5. DatabaseInv'
  BY DEF DatabaseInv, Reads
<1> QED BY <1>1, <1>2, <1>3, <1>4, <1>5

LEMMA ServiceSteps ==
    ASSUME UpdateInv, Service \/ AgentFails
    PROVE  ServiceStep
<1> USE DEF UpdateInv, TypesInv, ServiceStep, OneFaultAtMost, AgentTypeOK, FilesTypeOK, SchemaInv,
            NoAgentOnANewerDatabase, HasItOpen, database, bounds
<1>1. CASE Launch           BY <1>1 DEF Launch, Started
<1>2. CASE OpenTheDatabase  BY <1>2 DEF OpenTheDatabase, Reads
<1>3. CASE ComeUp           BY <1>3 DEF ComeUp
<1>4. CASE WatchdogKills    BY <1>4 DEF WatchdogKills
<1>5. CASE AgentFails       BY <1>5 DEF AgentFails
<1> QED BY <1>1, <1>2, <1>3, <1>4, <1>5 DEF Service

-----------------------------------------------------------------------------
(* The two ways a command comes to grief: a step of it fails, or the whole   *)
(* of it is cut short.                                                       *)

LeavesTheFiles == UNCHANGED <<releases, link, database, refused>> /\ OneFaultAtMost

\* Once a backup has been taken, it has a name.
LEMMA BackupsAreNamed ==
    ASSUME UpdateInv, updater.at \in {"apply"} \cup Undoing
    PROVE  archive # NoArchive
<1>1. archive \in 0..Understood(updater.new)
  BY DEF UpdateInv, SchemaInv
<1>2. Understood(updater.new) \in Nat
  BY UnderstoodIsMonotone DEF UpdateInv, StagesInv, Undoing
<1> QED BY <1>1, <1>2 DEF NoArchive

\* A Cancel that is refused leaves a marker that has outlived its switch.
LEMMA CancellingAccountsForIt ==
    ASSUME SaidTypeOK, CancelTheDrain
    PROVE  /\ drain' \in {"none", "on", "ignored"} /\ leftover' \in BOOLEAN
           /\ drain' = "on" => leftover'
<1>1. FALSE \in BOOLEAN /\ (drain = "on") \in BOOLEAN
  OBVIOUS
<1> QED BY <1>1 DEF SaidTypeOK, CancelTheDrain

LEMMA FailingKeepsIt ==
    ASSUME UpdateInv, Fails, LeavesTheFiles, UNCHANGED agent,
           updater.at \in Switching \cup MigrationStages
    PROVE  UpdateInv'
<1> USE DEF UpdateInv, Fails, Undo, CancelTheDrain, LeavesTheFiles, TypesInv, database, marker, Switching, MigrationStages
<1>1. TypesInv'
  <2>1. UpdaterTypeOK'
    BY DEF UpdaterTypeOK, Stages
  <2>2. SaidTypeOK'
    BY DEF SaidTypeOK
  <2>3. FilesTypeOK'
    BY DEF FilesTypeOK
  <2>4. DatabaseTypeOK'
    BY DEF DatabaseTypeOK
  <2>5. AgentTypeOK'
    BY DEF AgentTypeOK
  <2>6. BoundsTypeOK'
    BY BoundsKept
  <2> QED BY <2>1, <2>2, <2>3, <2>4, <2>5, <2>6
<1>2. updater'.way \in {"on", "back"} /\ updater'.at \in {"link", "idle"}
  BY DEF UpdaterTypeOK
<1>3. StagesInv'
  BY DEF StagesInv, UpdaterTypeOK, WayBack
<1>4. LinkInv'
  BY DEF LinkInv, UpdaterTypeOK, Ahead, After
<1>5. AgentInv'
  BY DEF AgentInv, UpdaterTypeOK, After
<1>6. SchemaInv'
  BY DEF SchemaInv, UpdaterTypeOK, Undoing, NoAgentOnANewerDatabase, HasItOpen
<1>7. DatabaseInv'
  <2> SUFFICES ASSUME ~stranded'
               PROVE  DatabaseInv'
    BY DEF DatabaseInv
  <2>1. CASE updater.way = "on"
    <3>1. ~stranded /\ (updater.at \in MigrationStages => ~LeftHalfway)
      BY <2>1
    <3>2. whole /\ Reads(updater.previous)
      <4>1. CASE updater.at \in Switching \cup {"check", "backup"}
        BY <3>1, <4>1 DEF DatabaseInv, Reads
      <4>2. CASE updater.at \in {"apply"} \cup Undoing
        <5>1. archive # NoArchive
          BY <4>2, BackupsAreNamed
        <5> QED BY <3>1, <4>2, <5>1 DEF DatabaseInv, LeftHalfway, Reads, Undoing
      <4> QED BY <4>1, <4>2 DEF Undoing
    <3> QED BY <2>1, <3>2 DEF DatabaseInv, UpdaterTypeOK, Ahead, Undoing, Reads
  <2>2. CASE updater.way = "back"
    <3>1. Reads(link)
      BY <2>2
    <3> QED BY <2>2, <3>1 DEF DatabaseInv, UpdaterTypeOK, Ahead, Undoing, Reads
  <2> QED BY <2>1, <2>2
<1>8. DrainsEndWithTheirSwitch'
  BY DEF DrainsEndWithTheirSwitch, UpdaterTypeOK, Idle
<1> QED BY <1>1, <1>3, <1>4, <1>5, <1>6, <1>7, <1>8

LEMMA CutShortKeepsIt ==
    ASSUME UpdateInv, CutShort, LeavesTheFiles, AgentTypeOK',
           UNCHANGED agent \/ ~HasItOpen',
           leftover' \in BOOLEAN,
           (UNCHANGED drain /\ (drain = "on" => leftover')) \/ drain' = "ignored"
    PROVE  UpdateInv'
<1> USE DEF UpdateInv, CutShort, LeavesTheFiles, TypesInv, database, marker
<1>1. TypesInv'
  <2>1. UpdaterTypeOK'
    BY DEF UpdaterTypeOK, Stages
  <2>2. SaidTypeOK'
    BY DEF SaidTypeOK
  <2> QED BY <2>1, <2>2, BoundsKept DEF FilesTypeOK, DatabaseTypeOK
<1>2. updater'.at = "idle" /\ said' = "cut short"
  BY DEF UpdaterTypeOK
<1>3. StagesInv' /\ LinkInv' /\ AgentInv' /\ DrainsEndWithTheirSwitch'
  BY <1>2 DEF StagesInv, LinkInv, AgentInv, DrainsEndWithTheirSwitch, Ahead, After,
              MigrationStages, Idle
<1>4. SchemaInv'
  BY <1>2 DEF SchemaInv, Undoing, NoAgentOnANewerDatabase, HasItOpen
<1>5. DatabaseInv'
  BY <1>2 DEF DatabaseInv, Ahead, Switching, Undoing, Reads, SaidTypeOK
<1> QED BY <1>1, <1>3, <1>4, <1>5

LEMMA CuttingSteps ==
    ASSUME UpdateInv, Kill \/ Reboot
    PROVE  UpdateInv'
<1> USE DEF LeavesTheFiles, OneFaultAtMost, database, marker
<1>1. CASE Kill
  BY <1>1, CutShortKeepsIt DEF Kill, UpdateInv, TypesInv, AgentTypeOK
<1>2. CASE Reboot
  <2>1. AgentTypeOK' /\ ~HasItOpen' /\ agent'.v = agent.v
    BY <1>2 DEF Reboot, UpdateInv, TypesInv, AgentTypeOK, HasItOpen
  <2>2. CASE CutShort
    BY <1>2, <2>1, <2>2, CutShortKeepsIt DEF Reboot
  <2>3. CASE Idle /\ UNCHANGED <<updater, said, stranded>>
    <3> USE DEF UpdateInv, TypesInv, Reboot, Idle
    <3>1. TypesInv'
      <4>1. BoundsTypeOK'
        BY <1>2, BoundsKept
      <4>2. FilesTypeOK' /\ DatabaseTypeOK'
        BY <1>2 DEF FilesTypeOK, DatabaseTypeOK
      <4>3. UpdaterTypeOK'
        BY <2>3 DEF UpdaterTypeOK
      <4>4. SaidTypeOK'
        BY <1>2, <2>3 DEF SaidTypeOK
      <4> QED BY <2>1, <4>1, <4>2, <4>3, <4>4
    <3>2. StagesInv' /\ LinkInv' /\ DrainsEndWithTheirSwitch'
      BY <1>2, <2>3 DEF StagesInv, LinkInv, DrainsEndWithTheirSwitch
    <3>3. AgentInv'
      BY <1>2, <2>1, <2>3 DEF AgentInv, After, MigrationStages
    <3>4. SchemaInv' /\ DatabaseInv'
      BY <1>2, <2>1, <2>3 DEF SchemaInv, DatabaseInv, NoAgentOnANewerDatabase, Reads
    <3> QED BY <3>1, <3>2, <3>3, <3>4
  <2> QED BY <1>2, <2>2, <2>3 DEF Reboot
<1> QED BY <1>1, <1>2

LEMMA ExpiryKeepsIt ==
    ASSUME UpdateInv, DrainExpires
    PROVE  UpdateInv'
<1> USE DEF UpdateInv, DrainExpires, TypesInv, database, marker, bounds
<1>1. TypesInv'
  <2>1. SaidTypeOK' /\ BoundsTypeOK'
    BY DEF SaidTypeOK, BoundsTypeOK
  <2>2. FilesTypeOK'
    BY DEF FilesTypeOK
  <2>3. DatabaseTypeOK'
    BY DEF DatabaseTypeOK
  <2>4. AgentTypeOK'
    BY DEF AgentTypeOK
  <2>5. UpdaterTypeOK'
    BY DEF UpdaterTypeOK
  <2> QED BY <2>1, <2>2, <2>3, <2>4, <2>5
<1>2. StagesInv' /\ LinkInv' /\ AgentInv' /\ DrainsEndWithTheirSwitch'
  BY DEF StagesInv, LinkInv, AgentInv, DrainsEndWithTheirSwitch
<1>3. SchemaInv' /\ DatabaseInv'
  BY DEF SchemaInv, DatabaseInv, NoAgentOnANewerDatabase, HasItOpen, Reads
<1> QED BY <1>1, <1>2, <1>3

-----------------------------------------------------------------------------
(* A person's order.                                                         *)

\* A set of natural numbers that has any has a least one.
LEMMA LeastOfSome ==
    ASSUME NEW T \in SUBSET Nat, T # {}
    PROVE  \E m \in T : \A n \in T : m <= n
<1> DEFINE R == OpToRel(<, Nat)
<1>1. IsWellFoundedOn(R, Nat)
  BY NatLessThanWellFounded
<1>2. PICK m \in T : \A n \in T : ~(<<n, m>> \in R)
  <2> HIDE DEF R
  <2> QED BY <1>1, WFMin
<1>3. \A n \in T : ~(n < m)
  BY <1>2 DEF OpToRel
<1> QED BY <1>3

\* A set of versions that has any has a newest, and Max finds it.
LEMMA NewestOfSome ==
    ASSUME NEW S \in SUBSET Versions, S # {}
    PROVE  Max(S) \in S
<1> DEFINE T == {Newest - v : v \in S}
<1>1. Newest \in Nat /\ \A v \in S : v \in Nat /\ v <= Newest
  BY UpdateAssumption DEF Versions
<1>2. \A v \in S : Newest - v \in Nat
  BY <1>1
<1>3. PICK least \in T : \A n \in T : least <= n
  <2>1. T \in SUBSET Nat /\ T # {}
    BY <1>2
  <2> HIDE DEF T
  <2> QED BY <2>1, LeastOfSome
<1>4. PICK m \in S : least = Newest - m
  BY <1>3
<1>5. \A v \in S : m >= v
  <2> TAKE v \in S
  <2>1. Newest - m <= Newest - v
    BY <1>3, <1>4
  <2> QED BY <1>1, <2>1
<1> QED BY <1>4, <1>5 DEF Max

LEMMA AskedKeepsIt ==
    ASSUME UpdateInv, NEW by \in {"install", "rollback"}, NEW new \in Versions, new # link,
           NEW first \in {"clear", "drain"}, Asked(by, new, first)
    PROVE  UpdateInv'
<1> USE DEF UpdateInv, TypesInv, Asked
<1>1. /\ updater' = [at |-> first, by |-> by, way |-> "on", new |-> new, previous |-> link]
      /\ said' = "nothing"
      /\ archive' = NoArchive
      /\ refused' = FALSE
      /\ UNCHANGED <<releases, link, schema, whole, drain, leftover, agent, stranded, faults>>
  BY DEF marker
<1>2. /\ updater'.at = first
      /\ updater'.way = "on"
      /\ updater'.new = new
      /\ updater'.previous = link
  BY <1>1
<1>3. TypesInv'
  <2>1. UpdaterTypeOK'
    BY <1>1 DEF UpdaterTypeOK, FilesTypeOK, Stages, Switching
  <2>2. orders' \in 0..MaxOrders
    BY UpdateAssumption DEF BoundsTypeOK
  <2>3. SaidTypeOK' /\ BoundsTypeOK'
    BY <1>1, <2>2 DEF SaidTypeOK, BoundsTypeOK
  <2>4. FilesTypeOK'
    BY <1>1 DEF FilesTypeOK
  <2>5. DatabaseTypeOK'
    BY <1>1 DEF DatabaseTypeOK
  <2>6. AgentTypeOK'
    BY <1>1 DEF AgentTypeOK
  <2> QED BY <2>1, <2>3, <2>4, <2>5, <2>6
<1> HIDE DEF Asked
<1>4. StagesInv'
  BY <1>2 DEF StagesInv
<1>5. LinkInv' /\ AgentInv'
  BY <1>1, <1>2 DEF LinkInv, AgentInv, Ahead, After, MigrationStages
<1>6. SchemaInv'
  BY <1>1, <1>2 DEF SchemaInv, Undoing, NoAgentOnANewerDatabase, HasItOpen
<1>7. DatabaseInv'
  <2>1. updater.at = "idle"
    BY DEF Asked, Idle
  <2>2. ~stranded => whole /\ Reads(link)
    BY <2>1 DEF DatabaseInv
  <2> QED BY <1>1, <1>2, <2>2 DEF DatabaseInv, Undoing, Reads
<1>8. DrainsEndWithTheirSwitch'
  BY <1>1, <1>2 DEF DrainsEndWithTheirSwitch, Asked, Idle, Switching
<1> QED BY <1>3, <1>4, <1>5, <1>6, <1>7, <1>8

LEMMA OrdersKeepIt ==
    ASSUME UpdateInv, Install \/ Rollback
    PROVE  UpdateInv'
<1>1. link \in Versions /\ link \in Int /\ releases \subseteq Versions
  BY UpdateAssumption DEF UpdateInv, TypesInv, FilesTypeOK, Versions
<1>2. CASE Install
  <2>1. PICK offered \in Versions : offered > link /\ Asked("install", offered, "clear")
    BY <1>2 DEF Install
  <2>2. offered # link
    BY <1>1, <2>1
  <2> QED BY <2>1, <2>2, AskedKeepsIt
<1>3. CASE Rollback
  <2> DEFINE below == {v \in releases : v < link}
  <2>1. below # {} /\ Asked("rollback", Max(below), "drain")
    BY <1>3 DEF Rollback
  <2>2. Max(below) \in below
    BY <1>1, <2>1, NewestOfSome
  <2>3. Max(below) \in Versions /\ Max(below) # link
    <3>1. \A v \in below : v \in Versions /\ v \in Int /\ v < link
      BY <1>1 DEF Versions
    <3> HIDE DEF below
    <3> QED BY <1>1, <2>2, <3>1
  <2> HIDE DEF below
  <2> QED BY <2>1, <2>3, AskedKeepsIt
<1> QED BY <1>2, <1>3


-----------------------------------------------------------------------------
(* The steps of a command, stage by stage.                                   *)

\* Facts of arithmetic, for the numbers of migrations.
LEMMA InRange ==
    ASSUME NEW u \in Nat, NEW top \in Nat, u <= top, NEW n \in 0..u
    PROVE  /\ n \in Nat /\ n <= u /\ n \in 0..top
           /\ n < u => n + 1 <= u /\ n + 1 \in 0..top
  OBVIOUS

LEMMA IsANumber ==
    ASSUME NEW u \in Nat, NEW n \in 0..u
    PROVE  n \in Nat
  OBVIOUS

LEMMA IsInRange ==
    ASSUME NEW u \in Nat, NEW n \in Nat, n <= u
    PROVE  n \in 0..u
  OBVIOUS

\* What a migration knows of the database: the agent is the new version, which
\* understands all it does and all it saved.
LEMMA WhatAMigrationKnows ==
    ASSUME UpdateInv, updater.at \in MigrationStages
    PROVE  /\ Understood(updater.new) \in Nat /\ Understood(Newest) \in Nat
           /\ Understood(updater.new) <= Understood(Newest)
           /\ schema \in Nat
           /\ updater.way = "on" /\ agent.v = updater.new
           /\ updater.at \in {"backup", "apply"} => schema <= Understood(updater.new)
           /\ updater.at \in {"apply"} \cup Undoing =>
                archive \in Nat /\ archive <= Understood(updater.new)
<1> USE DEF UpdateInv, MigrationStages
<1>1. Understood(updater.new) \in Nat /\ Understood(Newest) \in Nat
      /\ Understood(updater.new) <= Understood(Newest)
  BY UnderstoodIsMonotone DEF StagesInv
<1>2. schema \in Nat
  <2>1. schema \in 0..Understood(Newest)
    BY DEF TypesInv, DatabaseTypeOK
  <2> QED BY <1>1, <2>1, IsANumber
<1>3. updater.way = "on" /\ agent.v = updater.new
  BY DEF TypesInv, UpdaterTypeOK, StagesInv, AgentInv, WayBack, After
<1>4. updater.at \in {"apply"} \cup Undoing => archive \in 0..Understood(updater.new)
  BY DEF SchemaInv
<1>5. updater.at \in {"backup", "apply"} => schema <= Understood(updater.new)
  BY DEF SchemaInv
<1>6. updater.at \in {"apply"} \cup Undoing =>
        archive \in Nat /\ archive <= Understood(updater.new)
  BY <1>1, <1>4, InRange
<1> HIDE DEF UpdateInv
<1> QED BY <1>1, <1>2, <1>3, <1>5, <1>6

LEMMA PutReleaseInPlaceKeepsIt ==
    ASSUME UpdateInv, PutReleaseInPlace
    PROVE  UpdateInv'
<1> USE DEF UpdateInv, TypesInv, GoOn, OneFaultAtMost, database, marker, bounds, Switching, MigrationStages, PutReleaseInPlace, Ends
<1>1. TypesInv'
  <2>1. UpdaterTypeOK'
    BY DEF UpdaterTypeOK, Stages
  <2>2. BoundsTypeOK'
    BY BoundsKept
  <2>3. FilesTypeOK'
    BY DEF FilesTypeOK, StagesInv
  <2>4. DatabaseTypeOK'
    BY DEF DatabaseTypeOK
  <2>5. AgentTypeOK'
    BY DEF AgentTypeOK
  <2>6. SaidTypeOK'
    BY DEF SaidTypeOK
  <2> QED BY <2>1, <2>2, <2>3, <2>4, <2>5, <2>6
<1>2. StagesInv'
  BY DEF StagesInv, UpdaterTypeOK, WayBack
<1>3. LinkInv'
  BY DEF LinkInv, StagesInv, UpdaterTypeOK, Ahead, After, WayBack
<1>4. AgentInv'
  <2>1. /\ updater'.at \in {"place", "drain", "idle"}
        /\ updater'.at = "idle" => said' = "nothing installed"
        /\ UNCHANGED <<agent, refused>>
    BY DEF UpdaterTypeOK
  <2> QED BY <2>1 DEF AgentInv, After
<1>5. SchemaInv'
  BY DEF SchemaInv, StagesInv, LinkInv, UpdaterTypeOK, AgentTypeOK, DatabaseTypeOK, Undoing, NoAgentOnANewerDatabase, HasItOpen
<1>6. DatabaseInv'
  BY DEF DatabaseInv, StagesInv, LinkInv, UpdaterTypeOK, Ahead, Undoing, WayBack, Reads
<1>7. DrainsEndWithTheirSwitch'
  <2>1. updater'.at \in {"place", "drain", "idle"}
    BY DEF UpdaterTypeOK
  <2>2. updater'.at = "drain" => updater'.way = "on"
    BY DEF StagesInv, UpdaterTypeOK, WayBack
  <2>3. updater'.at = "idle" => said' = "nothing installed"
    BY DEF UpdaterTypeOK
  <2> QED BY <2>1, <2>2, <2>3 DEF DrainsEndWithTheirSwitch, Idle
<1> QED BY <1>1, <1>2, <1>3, <1>4, <1>5, <1>6, <1>7

LEMMA RequestDrainKeepsIt ==
    ASSUME UpdateInv, RequestDrain
    PROVE  UpdateInv'
<1>1. CASE Fails /\ LeavesTheFiles /\ UNCHANGED agent
  BY <1>1, FailingKeepsIt DEF RequestDrain, Switching, MigrationStages
<1>2. CASE /\ drain' = "on" /\ leftover' = FALSE
           /\ updater' = [updater EXCEPT !.at = "stop"]
           /\ UNCHANGED <<said, stranded, faults>>
  <2> USE DEF UpdateInv, TypesInv, GoOn, OneFaultAtMost, database, marker, bounds, Switching, MigrationStages, RequestDrain
  <2>1. TypesInv'
    <3>1. UpdaterTypeOK'
      BY <1>2 DEF UpdaterTypeOK, Stages
    <3>2. BoundsTypeOK'
      BY <1>2, BoundsKept
    <3>3. FilesTypeOK'
      BY <1>2 DEF FilesTypeOK
    <3>4. DatabaseTypeOK'
      BY <1>2 DEF DatabaseTypeOK
    <3>5. AgentTypeOK'
      BY <1>2 DEF AgentTypeOK
    <3>6. SaidTypeOK'
      BY <1>2 DEF SaidTypeOK
    <3> QED BY <3>1, <3>2, <3>3, <3>4, <3>5, <3>6
  <2>2. StagesInv'
    BY <1>2 DEF StagesInv, UpdaterTypeOK, WayBack
  <2>3. LinkInv'
    BY <1>2 DEF LinkInv, StagesInv, UpdaterTypeOK, Ahead, After, WayBack
  <2>4. AgentInv'
    BY <1>2 DEF AgentInv, LinkInv, StagesInv, UpdaterTypeOK, AgentTypeOK, After, WayBack
  <2>5. SchemaInv'
    BY <1>2 DEF SchemaInv, StagesInv, LinkInv, UpdaterTypeOK, AgentTypeOK, DatabaseTypeOK, Undoing, NoAgentOnANewerDatabase, HasItOpen
  <2>6. DatabaseInv'
    BY <1>2 DEF DatabaseInv, StagesInv, LinkInv, UpdaterTypeOK, Ahead, Undoing, WayBack, Reads
  <2>7. DrainsEndWithTheirSwitch'
    BY <1>2 DEF DrainsEndWithTheirSwitch, StagesInv, UpdaterTypeOK, WayBack, Idle
  <2> QED BY <2>1, <2>2, <2>3, <2>4, <2>5, <2>6, <2>7
<1> QED BY <1>1, <1>2 DEF RequestDrain, LeavesTheFiles, OneFaultAtMost, database, marker, bounds

LEMMA StopTheServiceKeepsIt ==
    ASSUME UpdateInv, StopTheService
    PROVE  UpdateInv'
<1>1. CASE Fails /\ LeavesTheFiles /\ UNCHANGED agent
  BY <1>1, FailingKeepsIt DEF StopTheService, Switching, MigrationStages
<1>2. CASE Stopped /\ GoOn("link") /\ UNCHANGED faults
  <2> USE DEF UpdateInv, TypesInv, GoOn, OneFaultAtMost, database, marker, bounds, Switching, MigrationStages, StopTheService, Stopped
  <2>1. TypesInv'
    <3>1. UpdaterTypeOK'
      BY <1>2 DEF UpdaterTypeOK, Stages
    <3>2. BoundsTypeOK'
      BY <1>2, BoundsKept
    <3>3. FilesTypeOK'
      BY <1>2 DEF FilesTypeOK
    <3>4. DatabaseTypeOK'
      BY <1>2 DEF DatabaseTypeOK
    <3>5. AgentTypeOK'
      BY <1>2 DEF AgentTypeOK
    <3>6. SaidTypeOK'
      BY <1>2 DEF SaidTypeOK
    <3> QED BY <3>1, <3>2, <3>3, <3>4, <3>5, <3>6
  <2>2. StagesInv'
    BY <1>2 DEF StagesInv, UpdaterTypeOK, WayBack
  <2>3. LinkInv'
    BY <1>2 DEF LinkInv, StagesInv, UpdaterTypeOK, Ahead, After, WayBack
  <2>4. AgentInv'
    BY <1>2 DEF AgentInv, LinkInv, StagesInv, UpdaterTypeOK, AgentTypeOK, After, WayBack
  <2>5. SchemaInv'
    BY <1>2 DEF SchemaInv, StagesInv, LinkInv, UpdaterTypeOK, AgentTypeOK, DatabaseTypeOK, Undoing, NoAgentOnANewerDatabase, HasItOpen
  <2>6. DatabaseInv'
    BY <1>2 DEF DatabaseInv, StagesInv, LinkInv, UpdaterTypeOK, Ahead, Undoing, WayBack, Reads
  <2>7. DrainsEndWithTheirSwitch'
    BY <1>2 DEF DrainsEndWithTheirSwitch, StagesInv, UpdaterTypeOK, WayBack, Idle
  <2> QED BY <2>1, <2>2, <2>3, <2>4, <2>5, <2>6, <2>7
<1> QED BY <1>1, <1>2 DEF StopTheService, Stopped, LeavesTheFiles, OneFaultAtMost, database, marker, bounds

LEMMA LinkReleaseKeepsIt ==
    ASSUME UpdateInv, LinkRelease
    PROVE  UpdateInv'
<1>1. CASE Fails /\ LeavesTheFiles /\ UNCHANGED agent
  BY <1>1, FailingKeepsIt DEF LinkRelease, Switching, MigrationStages
<1>2. CASE Wanted \in releases /\ link' = Wanted /\ GoOn("start") /\ UNCHANGED faults
  <2> USE DEF UpdateInv, TypesInv, GoOn, OneFaultAtMost, database, marker, bounds, Switching, MigrationStages, LinkRelease, Wanted
  <2>1. TypesInv'
    <3>1. UpdaterTypeOK'
      BY <1>2 DEF UpdaterTypeOK, Stages
    <3>2. BoundsTypeOK'
      BY <1>2, BoundsKept
    <3>3. FilesTypeOK'
      BY <1>2 DEF FilesTypeOK
    <3>4. DatabaseTypeOK'
      BY <1>2 DEF DatabaseTypeOK
    <3>5. AgentTypeOK'
      BY <1>2 DEF AgentTypeOK
    <3>6. SaidTypeOK'
      BY <1>2 DEF SaidTypeOK
    <3> QED BY <3>1, <3>2, <3>3, <3>4, <3>5, <3>6
  <2>2. StagesInv'
    BY <1>2 DEF StagesInv, UpdaterTypeOK, WayBack
  <2>3. LinkInv'
    BY <1>2 DEF LinkInv, StagesInv, UpdaterTypeOK, Ahead, After, WayBack
  <2>4. AgentInv'
    BY <1>2 DEF AgentInv, LinkInv, StagesInv, UpdaterTypeOK, AgentTypeOK, After, WayBack
  <2>5. SchemaInv'
    BY <1>2 DEF SchemaInv, StagesInv, LinkInv, UpdaterTypeOK, AgentTypeOK, DatabaseTypeOK, Undoing, NoAgentOnANewerDatabase, HasItOpen
  <2>6. DatabaseInv'
    BY <1>2 DEF DatabaseInv, StagesInv, LinkInv, UpdaterTypeOK, Ahead, Undoing, WayBack, Reads
  <2>7. DrainsEndWithTheirSwitch'
    BY <1>2 DEF DrainsEndWithTheirSwitch, StagesInv, UpdaterTypeOK, WayBack, Idle
  <2> QED BY <2>1, <2>2, <2>3, <2>4, <2>5, <2>6, <2>7
<1> QED BY <1>1, <1>2 DEF LinkRelease, Wanted, LeavesTheFiles, OneFaultAtMost, database, marker, bounds

LEMMA StartTheServiceKeepsIt ==
    ASSUME UpdateInv, StartTheService
    PROVE  UpdateInv'
<1>1. CASE Fails /\ LeavesTheFiles /\ UNCHANGED agent
  BY <1>1, FailingKeepsIt DEF StartTheService, Switching, MigrationStages
<1>2. CASE Started /\ GoOn("starting") /\ UNCHANGED faults
  <2> USE DEF UpdateInv, TypesInv, GoOn, OneFaultAtMost, database, marker, bounds, Switching, MigrationStages, StartTheService, Started
  <2>1. TypesInv'
    <3>1. UpdaterTypeOK'
      BY <1>2 DEF UpdaterTypeOK, Stages
    <3>2. BoundsTypeOK'
      BY <1>2, BoundsKept
    <3>3. FilesTypeOK'
      BY <1>2 DEF FilesTypeOK
    <3>4. DatabaseTypeOK'
      BY <1>2 DEF DatabaseTypeOK
    <3>5. AgentTypeOK'
      <4>1. [at |-> "starting", v |-> link] \in
              [at : {"off", "restarting", "starting", "opening", "up", "hung"}, v : Versions]
        BY DEF FilesTypeOK
      <4> QED BY <1>2, <4>1 DEF AgentTypeOK
    <3>6. SaidTypeOK'
      BY <1>2 DEF SaidTypeOK
    <3> QED BY <3>1, <3>2, <3>3, <3>4, <3>5, <3>6
  <2>2. StagesInv'
    BY <1>2 DEF StagesInv, UpdaterTypeOK, WayBack
  <2>3. LinkInv'
    BY <1>2 DEF LinkInv, StagesInv, UpdaterTypeOK, Ahead, After, WayBack
  <2>4. AgentInv'
    BY <1>2 DEF AgentInv, LinkInv, StagesInv, UpdaterTypeOK, AgentTypeOK, After, WayBack
  <2>5. SchemaInv'
    BY <1>2 DEF SchemaInv, StagesInv, LinkInv, UpdaterTypeOK, AgentTypeOK, DatabaseTypeOK, Undoing, NoAgentOnANewerDatabase, HasItOpen
  <2>6. DatabaseInv'
    BY <1>2 DEF DatabaseInv, StagesInv, LinkInv, UpdaterTypeOK, Ahead, Undoing, WayBack, Reads
  <2>7. DrainsEndWithTheirSwitch'
    BY <1>2 DEF DrainsEndWithTheirSwitch, StagesInv, UpdaterTypeOK, WayBack, Idle
  <2> QED BY <2>1, <2>2, <2>3, <2>4, <2>5, <2>6, <2>7
<1> QED BY <1>1, <1>2 DEF StartTheService, Started, LeavesTheFiles, OneFaultAtMost, database, marker, bounds

LEMMA ServiceWasStartedKeepsIt ==
    ASSUME UpdateInv, ServiceWasStarted
    PROVE  UpdateInv'
<1>1. CASE Fails /\ LeavesTheFiles /\ UNCHANGED agent
  BY <1>1, FailingKeepsIt DEF ServiceWasStarted, Switching, MigrationStages
<1>2. CASE GoOn("ready")
  <2> USE DEF UpdateInv, TypesInv, GoOn, OneFaultAtMost, database, marker, bounds, Switching, MigrationStages, ServiceWasStarted
  <2>1. TypesInv'
    <3>1. UpdaterTypeOK'
      BY <1>2 DEF UpdaterTypeOK, Stages
    <3>2. BoundsTypeOK'
      BY <1>2, BoundsKept
    <3>3. FilesTypeOK'
      BY <1>2 DEF FilesTypeOK
    <3>4. DatabaseTypeOK'
      BY <1>2 DEF DatabaseTypeOK
    <3>5. AgentTypeOK'
      BY <1>2 DEF AgentTypeOK
    <3>6. SaidTypeOK'
      BY <1>2 DEF SaidTypeOK
    <3> QED BY <3>1, <3>2, <3>3, <3>4, <3>5, <3>6
  <2>2. StagesInv'
    BY <1>2 DEF StagesInv, UpdaterTypeOK, WayBack
  <2>3. LinkInv'
    BY <1>2 DEF LinkInv, StagesInv, UpdaterTypeOK, Ahead, After, WayBack
  <2>4. AgentInv'
    BY <1>2 DEF AgentInv, LinkInv, StagesInv, UpdaterTypeOK, AgentTypeOK, After, WayBack
  <2>5. SchemaInv'
    BY <1>2 DEF SchemaInv, StagesInv, LinkInv, UpdaterTypeOK, AgentTypeOK, DatabaseTypeOK, Undoing, NoAgentOnANewerDatabase, HasItOpen
  <2>6. DatabaseInv'
    BY <1>2 DEF DatabaseInv, StagesInv, LinkInv, UpdaterTypeOK, Ahead, Undoing, WayBack, Reads
  <2>7. DrainsEndWithTheirSwitch'
    BY <1>2 DEF DrainsEndWithTheirSwitch, StagesInv, UpdaterTypeOK, WayBack, Idle
  <2> QED BY <2>1, <2>2, <2>3, <2>4, <2>5, <2>6, <2>7
<1> QED BY <1>1, <1>2 DEF ServiceWasStarted, LeavesTheFiles, OneFaultAtMost, database, marker, bounds

LEMMA WaitUntilReadyKeepsIt ==
    ASSUME UpdateInv, WaitUntilReady
    PROVE  UpdateInv'
<1>1. CASE Fails /\ LeavesTheFiles /\ UNCHANGED agent
  BY <1>1, FailingKeepsIt DEF WaitUntilReady, Switching, MigrationStages
<1>2. CASE /\ agent.at = "up"
            /\ \/ updater.way = "back" /\ Ends("back") /\ UNCHANGED marker
               \/ updater.way = "on" /\ updater.by = "rollback" /\ Ends("gone back") /\ CancelTheDrain
               \/ /\ updater.way = "on"
                  /\ updater' = [updater EXCEPT !.at = "check"]
                  /\ CancelTheDrain
                  /\ UNCHANGED <<said, stranded>>
  <2> USE DEF UpdateInv, TypesInv, GoOn, OneFaultAtMost, database, marker, bounds, Switching, MigrationStages, WaitUntilReady, Ends
  <2>0. /\ drain' \in {"none", "on", "ignored"} /\ leftover' \in BOOLEAN
        /\ drain' = "on" => leftover'
    <3>1. CASE CancelTheDrain
      BY <3>1, CancellingAccountsForIt
    <3>2. CASE updater.way = "back" /\ UNCHANGED marker
      BY <3>2 DEF SaidTypeOK, DrainsEndWithTheirSwitch
    <3> QED BY <1>2, <3>1, <3>2
  <2>1. TypesInv'
    <3>1. UpdaterTypeOK'
      BY <1>2 DEF UpdaterTypeOK, Stages
    <3>2. BoundsTypeOK'
      BY <1>2, BoundsKept
    <3>3. FilesTypeOK'
      BY <1>2 DEF FilesTypeOK
    <3>4. DatabaseTypeOK'
      BY <1>2 DEF DatabaseTypeOK
    <3>5. AgentTypeOK'
      BY <1>2 DEF AgentTypeOK
    <3>6. SaidTypeOK'
      BY <1>2, <2>0 DEF SaidTypeOK
    <3> QED BY <3>1, <3>2, <3>3, <3>4, <3>5, <3>6
  <2>2. StagesInv'
    BY <1>2 DEF StagesInv, UpdaterTypeOK, WayBack
  <2>3. LinkInv'
    BY <1>2 DEF LinkInv, StagesInv, UpdaterTypeOK, Ahead, After, WayBack
  <2>4. AgentInv'
    BY <1>2 DEF AgentInv, LinkInv, StagesInv, UpdaterTypeOK, AgentTypeOK, After, WayBack
  <2>5. SchemaInv'
    BY <1>2 DEF SchemaInv, StagesInv, LinkInv, UpdaterTypeOK, AgentTypeOK, DatabaseTypeOK, Undoing, NoAgentOnANewerDatabase, HasItOpen
  <2>6. DatabaseInv'
    <3>5. UNCHANGED stranded
      BY <1>2
    <3> SUFFICES ASSUME ~stranded
                 PROVE  DatabaseInv'
      BY <3>5 DEF DatabaseInv
    <3>1. whole /\ Reads(updater.previous) /\ (updater.way = "on" => archive = NoArchive)
      BY DEF DatabaseInv
    <3>2. updater.way = "back" => link = updater.previous
      BY DEF LinkInv
    <3>3. updater.way = "on" => link = updater.new /\ Reads(link)
      BY <1>2, <3>1 DEF LinkInv, AgentInv, SchemaInv, After, NoAgentOnANewerDatabase, HasItOpen, Reads
    <3>4. /\ updater'.previous = updater.previous
          /\ \/ updater'.at = "idle"
             \/ updater'.at = "check" /\ updater.way = "on"
      BY <1>2 DEF UpdaterTypeOK
    <3> QED BY <3>1, <3>2, <3>3, <3>4 DEF DatabaseInv, UpdaterTypeOK, Ahead, Undoing, Reads
  <2>7. DrainsEndWithTheirSwitch'
    BY <2>0 DEF DrainsEndWithTheirSwitch
  <2> QED BY <2>1, <2>2, <2>3, <2>4, <2>5, <2>6, <2>7
<1> QED BY <1>1, <1>2 DEF WaitUntilReady, Ends, LeavesTheFiles, OneFaultAtMost, database, marker, bounds

LEMMA PruneReleasesKeepsIt ==
    ASSUME UpdateInv, PruneReleases
    PROVE  UpdateInv'
<1> USE DEF UpdateInv, TypesInv, GoOn, OneFaultAtMost, database, marker, bounds, Switching, MigrationStages, PruneReleases, Prunable, Ends
<1>1. TypesInv'
  <2>1. UpdaterTypeOK'
    BY DEF UpdaterTypeOK, Stages
  <2>2. BoundsTypeOK'
    BY BoundsKept
  <2>3. FilesTypeOK'
    BY DEF FilesTypeOK
  <2>4. DatabaseTypeOK'
    BY DEF DatabaseTypeOK
  <2>5. AgentTypeOK'
    BY DEF AgentTypeOK
  <2>6. SaidTypeOK'
    BY DEF SaidTypeOK
  <2> QED BY <2>1, <2>2, <2>3, <2>4, <2>5, <2>6
<1>2. StagesInv'
  BY DEF StagesInv, UpdaterTypeOK, WayBack
<1>3. LinkInv'
  BY DEF LinkInv, StagesInv, UpdaterTypeOK, Ahead, After, WayBack
<1>4. AgentInv'
  BY DEF AgentInv, LinkInv, StagesInv, UpdaterTypeOK, AgentTypeOK, After, WayBack
<1>5. SchemaInv'
  <2>1. updater.way = "on" /\ link = updater.new /\ schema = Understood(updater.new)
    BY DEF StagesInv, LinkInv, SchemaInv, UpdaterTypeOK, WayBack, After
  <2>2. updater'.at = "idle" /\ UNCHANGED <<schema, link, agent>>
    BY DEF UpdaterTypeOK
  <2> QED BY <2>1, <2>2 DEF SchemaInv, Undoing, NoAgentOnANewerDatabase, HasItOpen
<1>6. DatabaseInv'
  <2>1. updater.way = "on" /\ link = updater.new /\ schema = Understood(updater.new)
    BY DEF StagesInv, LinkInv, SchemaInv, UpdaterTypeOK, WayBack, After
  <2>2. updater'.at = "idle" /\ UNCHANGED <<schema, link, whole, stranded>>
    BY DEF UpdaterTypeOK
  <2>3. schema <= Understood(link)
    <3>1. schema \in Int
      BY DEF DatabaseTypeOK
    <3> QED BY <2>1, <3>1
  <2> QED BY <2>2, <2>3 DEF DatabaseInv, Ahead, Undoing, Reads
<1>7. DrainsEndWithTheirSwitch'
  BY DEF DrainsEndWithTheirSwitch, StagesInv, UpdaterTypeOK, WayBack, Idle
<1> QED BY <1>1, <1>2, <1>3, <1>4, <1>5, <1>6, <1>7

LEMMA CheckWhatIsPendingKeepsIt ==
    ASSUME UpdateInv, CheckWhatIsPending
    PROVE  UpdateInv'
<1>1. CASE Fails /\ LeavesTheFiles /\ UNCHANGED agent
  BY <1>1, FailingKeepsIt DEF CheckWhatIsPending, Switching, MigrationStages
<1>2. CASE /\ Reads(updater.new)
            /\ \/ schema = Understood(updater.new) /\ GoOn("prune")
               \/ schema < Understood(updater.new) /\ GoOn("backup")
  <2> USE DEF UpdateInv, TypesInv, GoOn, OneFaultAtMost, database, marker, bounds, Switching, MigrationStages, CheckWhatIsPending
  <2>1. TypesInv'
    <3>1. UpdaterTypeOK'
      BY <1>2 DEF UpdaterTypeOK, Stages
    <3>2. BoundsTypeOK'
      BY <1>2, BoundsKept
    <3>3. FilesTypeOK'
      BY <1>2 DEF FilesTypeOK
    <3>4. DatabaseTypeOK'
      BY <1>2 DEF DatabaseTypeOK
    <3>5. AgentTypeOK'
      BY <1>2 DEF AgentTypeOK
    <3>6. SaidTypeOK'
      BY <1>2 DEF SaidTypeOK
    <3> QED BY <3>1, <3>2, <3>3, <3>4, <3>5, <3>6
  <2>2. StagesInv'
    BY <1>2 DEF StagesInv, UpdaterTypeOK, WayBack
  <2>3. LinkInv'
    BY <1>2 DEF LinkInv, StagesInv, UpdaterTypeOK, Ahead, After, WayBack
  <2>4. AgentInv'
    BY <1>2 DEF AgentInv, LinkInv, StagesInv, UpdaterTypeOK, AgentTypeOK, After, WayBack
  <2>5. SchemaInv'
    <3>1. /\ updater'.new = updater.new
          /\ updater'.at \in {"backup", "prune"}
          /\ updater'.at = "prune" => schema = Understood(updater.new)
          /\ UNCHANGED <<schema, agent>>
      BY <1>2 DEF UpdaterTypeOK
    <3>2. schema <= Understood(updater.new)
      BY <1>2 DEF Reads
    <3> QED BY <3>1, <3>2 DEF SchemaInv, Undoing, NoAgentOnANewerDatabase, HasItOpen
  <2>6. DatabaseInv'
    <3>1. /\ updater'.previous = updater.previous
          /\ updater'.at \in {"backup", "prune"}
          /\ UNCHANGED <<schema, whole, archive, stranded>>
      BY <1>2 DEF UpdaterTypeOK
    <3>2. updater.at = "check" /\ updater.way = "on"
      BY WhatAMigrationKnows
    <3> SUFFICES ASSUME ~stranded
                 PROVE  DatabaseInv'
      BY <3>1 DEF DatabaseInv
    <3>3. whole /\ Reads(updater.previous) /\ archive = NoArchive
      BY <3>2 DEF DatabaseInv
    <3>4. Reads(updater.previous)'
      BY <3>1, <3>3 DEF Reads
    <3>5. CASE updater'.at = "backup"
      BY <3>1, <3>3, <3>4, <3>5 DEF DatabaseInv, Ahead, Undoing
    <3>6. CASE updater'.at = "prune"
      BY <3>1, <3>3, <3>6 DEF DatabaseInv, Ahead, Undoing
    <3> QED BY <3>1, <3>5, <3>6
  <2>7. DrainsEndWithTheirSwitch'
    BY <1>2 DEF DrainsEndWithTheirSwitch, StagesInv, UpdaterTypeOK, WayBack, Idle
  <2> QED BY <2>1, <2>2, <2>3, <2>4, <2>5, <2>6, <2>7
<1> QED BY <1>1, <1>2 DEF CheckWhatIsPending, LeavesTheFiles, OneFaultAtMost, database, marker, bounds

LEMMA TakeABackupKeepsIt ==
    ASSUME UpdateInv, TakeABackup
    PROVE  UpdateInv'
<1>1. CASE Fails /\ LeavesTheFiles /\ UNCHANGED agent
  BY <1>1, FailingKeepsIt DEF TakeABackup, Switching, MigrationStages
<1>2. CASE archive' = schema /\ GoOn("apply") /\ UNCHANGED faults
  <2> USE DEF UpdateInv, TypesInv, GoOn, OneFaultAtMost, database, marker, bounds, Switching, MigrationStages, TakeABackup
  <2>1. TypesInv'
    <3>1. UpdaterTypeOK'
      BY <1>2 DEF UpdaterTypeOK, Stages
    <3>2. BoundsTypeOK'
      BY <1>2, BoundsKept
    <3>3. FilesTypeOK'
      BY <1>2 DEF FilesTypeOK
    <3>4. DatabaseTypeOK'
      BY <1>2 DEF DatabaseTypeOK
    <3>5. AgentTypeOK'
      BY <1>2 DEF AgentTypeOK
    <3>6. SaidTypeOK'
      BY <1>2 DEF SaidTypeOK
    <3> QED BY <3>1, <3>2, <3>3, <3>4, <3>5, <3>6
  <2>2. StagesInv'
    BY <1>2 DEF StagesInv, UpdaterTypeOK, WayBack
  <2>3. LinkInv'
    BY <1>2 DEF LinkInv, StagesInv, UpdaterTypeOK, Ahead, After, WayBack
  <2>4. AgentInv'
    BY <1>2 DEF AgentInv, LinkInv, StagesInv, UpdaterTypeOK, AgentTypeOK, After, WayBack
  <2>5. SchemaInv'
    BY <1>2 DEF SchemaInv, StagesInv, LinkInv, UpdaterTypeOK, AgentTypeOK, DatabaseTypeOK, Undoing, NoAgentOnANewerDatabase, HasItOpen
  <2>6. DatabaseInv'
    BY <1>2 DEF DatabaseInv, StagesInv, LinkInv, UpdaterTypeOK, Ahead, Undoing, WayBack, Reads
  <2>7. DrainsEndWithTheirSwitch'
    BY <1>2 DEF DrainsEndWithTheirSwitch, StagesInv, UpdaterTypeOK, WayBack, Idle
  <2> QED BY <2>1, <2>2, <2>3, <2>4, <2>5, <2>6, <2>7
<1> QED BY <1>1, <1>2 DEF TakeABackup, LeavesTheFiles, OneFaultAtMost, database, marker, bounds

LEMMA ApplyPendingKeepsIt ==
    ASSUME UpdateInv, ApplyPending
    PROVE  UpdateInv'
<1> USE DEF UpdateInv, TypesInv, GoOn, OneFaultAtMost, database, marker, bounds, Switching, MigrationStages, ApplyPending
<1>1. TypesInv'
  <2>1. UpdaterTypeOK'
    BY DEF UpdaterTypeOK, Stages
  <2>2. BoundsTypeOK'
    BY BoundsKept
  <2>3. schema' \in 0..Understood(Newest)
    <3>1. \/ UNCHANGED schema
          \/ schema < Understood(updater.new) /\ schema' = schema + 1
      OBVIOUS
    <3>2. schema \in 0..Understood(updater.new)
      BY WhatAMigrationKnows, IsInRange
    <3>3. /\ schema \in 0..Understood(Newest)
          /\ schema < Understood(updater.new) => schema + 1 \in 0..Understood(Newest)
      BY <3>2, WhatAMigrationKnows, InRange
    <3> QED BY <3>1, <3>3
  <2>4. FilesTypeOK'
    BY DEF FilesTypeOK
  <2>5. DatabaseTypeOK'
    BY <2>3 DEF DatabaseTypeOK
  <2>6. AgentTypeOK'
    BY DEF AgentTypeOK
  <2>7. SaidTypeOK'
    BY DEF SaidTypeOK
  <2> QED BY <2>1, <2>2, <2>3, <2>4, <2>5, <2>6, <2>7
<1>2. StagesInv'
  BY DEF StagesInv, UpdaterTypeOK, WayBack
<1>3. LinkInv'
  BY DEF LinkInv, StagesInv, UpdaterTypeOK, Ahead, After, WayBack
<1>4. AgentInv'
  BY DEF AgentInv, LinkInv, StagesInv, UpdaterTypeOK, AgentTypeOK, After, WayBack
<1>5. SchemaInv'
  <2>1. /\ updater'.new = updater.new
        /\ updater'.at \in {"apply", "prune", "bring down"}
        /\ UNCHANGED <<archive, agent>>
    BY DEF UpdaterTypeOK
  <2>2. /\ updater.at \in MigrationStages
        /\ schema <= Understood(updater.new)
        /\ archive \in 0..Understood(updater.new)
        /\ agent.v = updater.new
    BY WhatAMigrationKnows DEF SchemaInv
  <2>3. \/ updater'.at \in {"apply", "bring down"} /\ UNCHANGED schema
        \/ updater'.at = "prune" /\ UNCHANGED schema /\ schema = Understood(updater.new)
        \/ /\ updater'.at = "apply"
           /\ schema < Understood(updater.new)
           /\ schema' = schema + 1
    BY DEF UpdaterTypeOK
  <2>4. schema < Understood(updater.new) => schema + 1 <= Understood(updater.new)
    BY <2>2, WhatAMigrationKnows, IsInRange, InRange
  <2>5. schema' <= Understood(updater.new)
    BY <2>2, <2>3, <2>4
  <2>6. updater'.at = "prune" => schema' = Understood(updater.new)
    BY <2>3
  <2> QED BY <2>1, <2>2, <2>5, <2>6 DEF SchemaInv, Undoing, NoAgentOnANewerDatabase, HasItOpen
<1>6. DatabaseInv'
  BY DEF DatabaseInv, StagesInv, LinkInv, UpdaterTypeOK, Ahead, Undoing, WayBack, Reads
<1>7. DrainsEndWithTheirSwitch'
  BY DEF DrainsEndWithTheirSwitch, StagesInv, UpdaterTypeOK, WayBack, Idle
<1> QED BY <1>1, <1>2, <1>3, <1>4, <1>5, <1>6, <1>7

LEMMA BringTheAgentDownKeepsIt ==
    ASSUME UpdateInv, BringTheAgentDown
    PROVE  UpdateInv'
<1> USE DEF UpdateInv, TypesInv, GoOn, OneFaultAtMost, database, marker, bounds, Switching, MigrationStages, BringTheAgentDown, Stopped
<1>1. TypesInv'
  <2>1. UpdaterTypeOK'
    BY DEF UpdaterTypeOK, Stages
  <2>2. BoundsTypeOK'
    BY BoundsKept
  <2>3. FilesTypeOK'
    BY DEF FilesTypeOK
  <2>4. DatabaseTypeOK'
    BY DEF DatabaseTypeOK
  <2>5. AgentTypeOK'
    BY DEF AgentTypeOK
  <2>6. SaidTypeOK'
    BY DEF SaidTypeOK
  <2> QED BY <2>1, <2>2, <2>3, <2>4, <2>5, <2>6
<1>2. StagesInv'
  BY DEF StagesInv, UpdaterTypeOK, WayBack
<1>3. LinkInv'
  BY DEF LinkInv, StagesInv, UpdaterTypeOK, Ahead, After, WayBack
<1>4. AgentInv'
  BY DEF AgentInv, LinkInv, StagesInv, UpdaterTypeOK, AgentTypeOK, After, WayBack
<1>5. SchemaInv'
  BY DEF SchemaInv, StagesInv, LinkInv, UpdaterTypeOK, AgentTypeOK, DatabaseTypeOK, Undoing, NoAgentOnANewerDatabase, HasItOpen
<1>6. DatabaseInv'
  BY DEF DatabaseInv, StagesInv, LinkInv, UpdaterTypeOK, Ahead, Undoing, WayBack, Reads
<1>7. DrainsEndWithTheirSwitch'
  BY DEF DrainsEndWithTheirSwitch, StagesInv, UpdaterTypeOK, WayBack, Idle
<1> QED BY <1>1, <1>2, <1>3, <1>4, <1>5, <1>6, <1>7

LEMMA ProveItIsDownKeepsIt ==
    ASSUME UpdateInv, ProveItIsDown
    PROVE  UpdateInv'
<1>1. CASE Fails /\ LeavesTheFiles /\ UNCHANGED agent
  BY <1>1, FailingKeepsIt DEF ProveItIsDown, Switching, MigrationStages
<1>2. CASE agent.at # "up" /\ GoOn("restore")
  <2> USE DEF UpdateInv, TypesInv, GoOn, OneFaultAtMost, database, marker, bounds, Switching, MigrationStages, ProveItIsDown
  <2>1. TypesInv'
    <3>1. UpdaterTypeOK'
      BY <1>2 DEF UpdaterTypeOK, Stages
    <3>2. BoundsTypeOK'
      BY <1>2, BoundsKept
    <3>3. FilesTypeOK'
      BY <1>2 DEF FilesTypeOK
    <3>4. DatabaseTypeOK'
      BY <1>2 DEF DatabaseTypeOK
    <3>5. AgentTypeOK'
      BY <1>2 DEF AgentTypeOK
    <3>6. SaidTypeOK'
      BY <1>2 DEF SaidTypeOK
    <3> QED BY <3>1, <3>2, <3>3, <3>4, <3>5, <3>6
  <2>2. StagesInv'
    BY <1>2 DEF StagesInv, UpdaterTypeOK, WayBack
  <2>3. LinkInv'
    BY <1>2 DEF LinkInv, StagesInv, UpdaterTypeOK, Ahead, After, WayBack
  <2>4. AgentInv'
    BY <1>2 DEF AgentInv, LinkInv, StagesInv, UpdaterTypeOK, AgentTypeOK, After, WayBack
  <2>5. SchemaInv'
    BY <1>2 DEF SchemaInv, StagesInv, LinkInv, UpdaterTypeOK, AgentTypeOK, DatabaseTypeOK, Undoing, NoAgentOnANewerDatabase, HasItOpen
  <2>6. DatabaseInv'
    BY <1>2 DEF DatabaseInv, StagesInv, LinkInv, UpdaterTypeOK, Ahead, Undoing, WayBack, Reads
  <2>7. DrainsEndWithTheirSwitch'
    BY <1>2 DEF DrainsEndWithTheirSwitch, StagesInv, UpdaterTypeOK, WayBack, Idle
  <2> QED BY <2>1, <2>2, <2>3, <2>4, <2>5, <2>6, <2>7
<1> QED BY <1>1, <1>2 DEF ProveItIsDown, LeavesTheFiles, OneFaultAtMost, database, marker, bounds

LEMMA PutTheBackupBackKeepsIt ==
    ASSUME UpdateInv, PutTheBackupBack
    PROVE  UpdateInv'
<1>1. CASE Fails /\ LeavesTheFiles /\ UNCHANGED agent
  BY <1>1, FailingKeepsIt DEF PutTheBackupBack, Switching, MigrationStages
<1>2. CASE \/ /\ updater.at = "restore"
               /\ whole' = FALSE
               /\ GoOn("restoring")
               /\ UNCHANGED <<schema, faults>>
            \/ /\ updater.at = "restoring"
               /\ whole' = TRUE
               /\ schema' = archive
               /\ Undo
               /\ UNCHANGED <<stranded, faults>>
  <2> USE DEF UpdateInv, TypesInv, GoOn, OneFaultAtMost, database, marker, bounds, Switching, MigrationStages, PutTheBackupBack, Undo, CancelTheDrain
  <2>1. TypesInv'
    <3>1. UpdaterTypeOK'
      BY <1>2 DEF UpdaterTypeOK, Stages
    <3>2. BoundsTypeOK'
      BY <1>2, BoundsKept
    <3>3. schema' \in 0..Understood(Newest)
      <4>1. (updater.at = "restoring" => archive \in 0..Understood(Newest)) /\ schema \in 0..Understood(Newest)
        <5>1. updater.at = "restoring" => archive \in 0..Understood(updater.new)
          BY <1>2, WhatAMigrationKnows, IsInRange DEF Undoing
        <5>2. updater.at = "restoring" => archive \in 0..Understood(Newest)
          BY <1>2, <5>1, WhatAMigrationKnows, InRange
        <5> QED BY <5>2 DEF DatabaseTypeOK
      <4>2. schema' = schema \/ (updater.at = "restoring" /\ schema' = archive)
        BY <1>2
      <4> QED BY <4>1, <4>2
    <3>4. FilesTypeOK'
      BY <1>2 DEF FilesTypeOK
    <3>5. DatabaseTypeOK'
      BY <1>2, <3>3 DEF DatabaseTypeOK
    <3>6. AgentTypeOK'
      BY <1>2 DEF AgentTypeOK
    <3>7. SaidTypeOK'
      BY <1>2 DEF SaidTypeOK
    <3> QED BY <3>1, <3>2, <3>3, <3>4, <3>5, <3>6, <3>7
  <2>2. StagesInv'
    BY <1>2 DEF StagesInv, UpdaterTypeOK, WayBack
  <2>3. LinkInv'
    BY <1>2 DEF LinkInv, StagesInv, UpdaterTypeOK, Ahead, After, WayBack
  <2>4. AgentInv'
    BY <1>2 DEF AgentInv, LinkInv, StagesInv, UpdaterTypeOK, AgentTypeOK, After, WayBack
  <2>5. SchemaInv'
    <3>1. /\ archive \in 0..Understood(updater.new)
          /\ archive <= Understood(updater.new)
          /\ agent.v = updater.new
      BY <1>2, WhatAMigrationKnows DEF SchemaInv, Undoing
    <3>2. /\ updater'.new = updater.new
          /\ updater'.at \in {"restoring", "link"}
          /\ UNCHANGED <<archive, agent>>
      BY <1>2 DEF UpdaterTypeOK
    <3>3. HasItOpen' => schema' <= Understood(agent'.v)
      BY <1>2, <3>1 DEF SchemaInv, NoAgentOnANewerDatabase, HasItOpen
    <3> QED BY <3>1, <3>2, <3>3 DEF SchemaInv, Undoing, NoAgentOnANewerDatabase
  <2>6. DatabaseInv'
    BY <1>2 DEF DatabaseInv, StagesInv, LinkInv, UpdaterTypeOK, Ahead, Undoing, WayBack, Reads
  <2>7. DrainsEndWithTheirSwitch'
    BY <1>2 DEF DrainsEndWithTheirSwitch, StagesInv, UpdaterTypeOK, WayBack, Idle
  <2> QED BY <2>1, <2>2, <2>3, <2>4, <2>5, <2>6, <2>7
<1> QED BY <1>1, <1>2 DEF PutTheBackupBack, Undo, LeavesTheFiles, OneFaultAtMost, database, marker, bounds

LEMMA KillingKeepsIt ==
    ASSUME UpdateInv, MigrationIsKilled
    PROVE  UpdateInv'
  BY FailingKeepsIt DEF MigrationIsKilled, LeavesTheFiles, OneFaultAtMost, database, marker

-----------------------------------------------------------------------------
(* The invariant, and what follows from it.                                  *)

LEMMA TypesAreTheInvariants == TypesInv <=> UpdateTypeOK
  BY DEF TypesInv, UpdateTypeOK, FilesTypeOK, DatabaseTypeOK, AgentTypeOK, UpdaterTypeOK,
         SaidTypeOK, BoundsTypeOK

LEMMA UpdateInvInitially == Init => UpdateInv
<1> SUFFICES ASSUME Init
             PROVE  UpdateInv
  OBVIOUS
<1> USE DEF Init
<1>1. link \in Versions /\ Understood(link) \in Nat /\ Understood(Newest) \in Nat
      /\ Understood(link) <= Understood(Newest)
  BY UnderstoodIsMonotone
<1>2. TypesInv
  <2>1. orders \in 0..MaxOrders /\ faults \in 0..MaxFaults
    BY UpdateAssumption
  <2>2. schema \in 0..Understood(Newest)
    BY <1>1
  <2> QED BY <1>1, <2>1, <2>2
          DEF TypesInv, FilesTypeOK, DatabaseTypeOK, AgentTypeOK, UpdaterTypeOK, SaidTypeOK,
              BoundsTypeOK, Stages
<1>3. StagesInv /\ LinkInv /\ AgentInv /\ DrainsEndWithTheirSwitch
  BY DEF StagesInv, LinkInv, AgentInv, DrainsEndWithTheirSwitch, Ahead, After,
         MigrationStages
<1>4. SchemaInv /\ DatabaseInv
  BY <1>1 DEF SchemaInv, DatabaseInv, NoAgentOnANewerDatabase, HasItOpen, Reads, Ahead,
              Switching, Undoing
<1> QED BY <1>2, <1>3, <1>4 DEF UpdateInv

LEMMA UpdateInvKept == UpdateInv /\ [Next]_vars => UpdateInv'
<1> SUFFICES ASSUME UpdateInv, [Next]_vars
             PROVE  UpdateInv'
  OBVIOUS
<1>1. CASE Install \/ Rollback
  BY <1>1, OrdersKeepIt
<1>2. CASE PutReleaseInPlace \/ RequestDrain \/ StopTheService \/ LinkRelease \/ StartTheService
  BY <1>2, PutReleaseInPlaceKeepsIt, RequestDrainKeepsIt, StopTheServiceKeepsIt,
     LinkReleaseKeepsIt, StartTheServiceKeepsIt
<1>3. CASE ServiceWasStarted \/ WaitUntilReady \/ PruneReleases
  BY <1>3, ServiceWasStartedKeepsIt, WaitUntilReadyKeepsIt, PruneReleasesKeepsIt
<1>4. CASE Migrate
  BY <1>4, CheckWhatIsPendingKeepsIt, TakeABackupKeepsIt, ApplyPendingKeepsIt,
     BringTheAgentDownKeepsIt, ProveItIsDownKeepsIt, PutTheBackupBackKeepsIt, KillingKeepsIt
     DEF Migrate
<1>5. CASE Service \/ AgentFails
  BY <1>5, ServiceSteps, ServiceKeepsIt
<1>6. CASE Kill \/ Reboot
  BY <1>6, CuttingSteps
<1>7. CASE DrainExpires
  BY <1>7, ExpiryKeepsIt
<1>8. CASE UNCHANGED vars
  <2> USE DEF vars, database, marker, bounds, UpdateInv
  <2>1. TypesInv'
    <3>1. UpdaterTypeOK' /\ SaidTypeOK' /\ BoundsTypeOK'
      BY <1>8 DEF TypesInv, UpdaterTypeOK, SaidTypeOK, BoundsTypeOK
    <3> QED BY <1>8, <3>1 DEF TypesInv, FilesTypeOK, DatabaseTypeOK, AgentTypeOK
  <2>2. StagesInv' /\ LinkInv' /\ AgentInv'
    BY <1>8 DEF StagesInv, LinkInv, AgentInv
  <2>3. SchemaInv' /\ DatabaseInv' /\ DrainsEndWithTheirSwitch'
    BY <1>8 DEF SchemaInv, DatabaseInv, DrainsEndWithTheirSwitch, Idle,
                NoAgentOnANewerDatabase, HasItOpen, Reads
  <2> QED BY <2>1, <2>2, <2>3
<1> QED BY <1>1, <1>2, <1>3, <1>4, <1>5, <1>6, <1>7, <1>8 DEF Next, Command

LEMMA UpdateInvAlways == Spec => []UpdateInv
  BY UpdateInvInitially, UpdateInvKept, PTL DEF Spec

\* Type correctness: the schema stays within what the newest version knows, and
\* a backup is named before anything rests on it (migrate.go:124-129).
THEOREM UpdateTypes == Spec => []UpdateTypeOK
<1>1. UpdateInv => UpdateTypeOK
  BY TypesAreTheInvariants DEF UpdateInv
<1> QED BY <1>1, UpdateInvAlways, PTL

\* No agent works on a database a newer version has migrated: the switch stops
\* it before the link moves, and serve asks CheckSchema before it opens the
\* file (switchover.go:47, schema.go:34).
THEOREM NoAgentIsEverOnANewerDatabase == Spec => []NoAgentOnANewerDatabase
<1>1. UpdateInv => NoAgentOnANewerDatabase
  BY DEF UpdateInv, SchemaInv
<1> QED BY <1>1, UpdateInvAlways, PTL

\* What an update or a rollback said is so: the link and the agent are on the
\* version, and an installed one has all its migrations (updater.go:157-170).
THEOREM WhatWasSaidIsAlwaysRunning == Spec => []WhatWasSaidIsRunning
<1>1. UpdateInv => WhatWasSaidIsRunning
  BY DEF UpdateInv, SchemaInv, LinkInv, AgentInv, WhatWasSaidIsRunning, Idle
<1> QED BY <1>1, UpdateInvAlways, PTL

\* A command that ended by itself leaves a link whose program reads the
\* database, unless its migration was left half way (updater.go:174-182).
THEOREM RestingLinkAlwaysReads == Spec => []RestingLinkReadsTheDatabase
<1>1. UpdateInv => RestingLinkReadsTheDatabase
  BY DEF UpdateInv, DatabaseInv, RestingLinkReadsTheDatabase, Idle
<1> QED BY <1>1, UpdateInvAlways, PTL

\* The version before an installed one is kept, and the link names a whole
\* release at every moment (release.go:227-242).
THEOREM TheOneToGoBackToIsAlwaysKept == Spec => []TheOneToGoBackToIsKept
<1>1. UpdateInv => TheOneToGoBackToIsKept
  BY DEF UpdateInv, LinkInv, TheOneToGoBackToIsKept, Idle
<1> QED BY <1>1, UpdateInvAlways, PTL

\* A drain is honoured past its switch only where that was cut short or the
\* removal of the marker was refused (switchover.go:45).
THEOREM DrainsAreCancelled == Spec => []DrainsEndWithTheirSwitch
<1>1. UpdateInv => DrainsEndWithTheirSwitch
  BY DEF UpdateInv
<1> QED BY <1>1, UpdateInvAlways, PTL

\* The database is written over only when no agent has it open, unless the
\* service manager refused the stop (migrate.go:231-248).
THEOREM BackupsGoBackUnderNobody == Spec => NoBackupUnderARunningAgent
<1>1. UpdateInv /\ [Next]_vars => [whole' # whole => ~HasItOpen \/ refused]_vars
  <2> SUFFICES ASSUME UpdateInv, Next, whole' # whole
               PROVE  ~HasItOpen \/ refused
    BY DEF vars, database, marker
  <2>1. PutTheBackupBack
    BY DEF Next, Command, Migrate, Service, Install, Rollback, Asked, PutReleaseInPlace,
           RequestDrain, StopTheService, LinkRelease, StartTheService, ServiceWasStarted,
           WaitUntilReady, PruneReleases, CheckWhatIsPending, TakeABackup, ApplyPending,
           BringTheAgentDown, ProveItIsDown, MigrationIsKilled, Launch, OpenTheDatabase,
           ComeUp, WatchdogKills, AgentFails, Kill, Reboot, DrainExpires, database
  <2>2. updater.at \in {"restore", "restoring"}
    BY <2>1 DEF PutTheBackupBack
  <2> QED BY <2>2 DEF UpdateInv, AgentInv, HasItOpen
<1> QED BY <1>1, UpdateInvAlways, PTL DEF Spec, NoBackupUnderARunningAgent
=============================================================================
