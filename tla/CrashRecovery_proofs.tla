------------------------ MODULE CrashRecovery_proofs ------------------------
(***************************************************************************)
(* That the safety properties of CrashRecovery hold for any limits of the  *)
(* breaker and any number of lives.  Each of them has an invariant of its  *)
(* own over the types: what a good backup leaves in the database at each   *)
(* stage, which life's end a start still to be counted stands for, and     *)
(* which of the counted starts the breaker still holds.                    *)
(***************************************************************************)
EXTENDS CrashRecovery, FiniteSetTheorems, TLAPS

Moments == 0 .. MaxTime

\* The parts of RecoveryTypeOK: the breaker's file, the rest of what is on disk
\* and in memory, and the counts.
BreakerTypes ==
    /\ breaker.starts \in Seq(Moments)
    /\ breaker.trippedAt \in Moments \cup {Never}
    /\ breaker.announced \in BOOLEAN
    /\ breaker.announced => breaker.trippedAt # Never
    /\ counted \in Seq(Moments)

FileTypes ==
    /\ sentinel \in [there : BOOLEAN, unclean : BOOLEAN, moved : BOOLEAN]
    /\ database \in {"whole", "damaged", "missing", "blank", "partial"}
    /\ archive \in Archives
    /\ found \in [unclean : BOOLEAN, moved : BOOLEAN]
    /\ working \in BOOLEAN
    /\ cutShort \in BOOLEAN

\* A life ends badly at most once, so there are no more bad ends than lives.
HasLeft == stage \in {"down", "exited", "cleared"}

CountTypes ==
    /\ stage \in Stages
    /\ now \in Moments
    /\ lives \in 0 .. MaxLives
    /\ badEnds \in Nat
    /\ badEnds + (IF HasLeft THEN 0 ELSE 1) <= lives

TypesInv == BreakerTypes /\ FileTypes /\ CountTypes

LEMMA TypesAreRight == TypesInv => RecoveryTypeOK
<1> SUFFICES ASSUME TypesInv PROVE RecoveryTypeOK
  OBVIOUS
<1>1. badEnds \in 0 .. MaxLives
  <2>1. badEnds <= lives /\ badEnds \in Nat /\ lives \in 0 .. MaxLives
    BY DEF TypesInv, CountTypes
  <2> QED
    BY <2>1, RecoveryAssumption
<1> QED
  BY <1>1 DEF TypesInv, BreakerTypes, FileTypes, CountTypes, RecoveryTypeOK, Moments

-----------------------------------------------------------------------------
\* What leaves the window leaves the front of the sequence.

LEMMA WithinIsASuffix ==
    ASSUME NEW S, NEW moments \in Seq(S)
    PROVE  \E gone \in 0 .. Len(moments) :
              /\ Within(moments) = SubSeq(moments, gone + 1, Len(moments))
              /\ gone = Cardinality({i \in DOMAIN moments : now - moments[i] > RestartWindow})
<1> DEFINE old == {i \in DOMAIN moments : now - moments[i] > RestartWindow}
<1>1. DOMAIN moments = 1 .. Len(moments) /\ Len(moments) \in Nat
  OBVIOUS
<1>2. IsFiniteSet(1 .. Len(moments)) /\ Cardinality(1 .. Len(moments)) = Len(moments)
  BY <1>1, FS_Interval
<1>3. old \in SUBSET (1 .. Len(moments))
  BY <1>1
<1>4. IsFiniteSet(old) /\ Cardinality(old) <= Len(moments)
  BY <1>2, <1>3, FS_Subset
<1>5. Cardinality(old) \in Nat
  BY <1>4, FS_CardinalityType
<1>6. Cardinality(old) \in 0 .. Len(moments)
  BY <1>1, <1>4, <1>5
<1>7. Within(moments) = SubSeq(moments, Cardinality(old) + 1, Len(moments))
  BY DEF Within
<1> WITNESS Cardinality(old) \in 0 .. Len(moments)
<1> QED
  BY <1>7

LEMMA WithinTypes ==
    ASSUME NEW S, NEW moments \in Seq(S)
    PROVE  Within(moments) \in Seq(S) /\ Len(Within(moments)) <= Len(moments)
<1>1. PICK gone \in 0 .. Len(moments) :
          Within(moments) = SubSeq(moments, gone + 1, Len(moments))
  BY WithinIsASuffix
<1>2. gone + 1 \in 1 .. Len(moments) + 1 /\ Len(moments) \in Nat
  BY <1>1
<1>3. \A i \in gone + 1 .. Len(moments) : moments[i] \in S
  BY <1>2
<1> QED
  BY <1>1, <1>2, <1>3

\* What one more start, and a breaker that is cleared, leave in the file.
LEMMA RecordingTypes ==
    ASSUME BreakerTypes, now \in Moments, RecordUncleanStart
    PROVE  BreakerTypes' /\ Len(breaker'.starts) <= Len(breaker.starts) + 1
<1>1. Within(breaker.starts) \in Seq(Moments) /\ Len(Within(breaker.starts)) <= Len(breaker.starts)
  BY WithinTypes DEF BreakerTypes
<1>2. breaker'.starts = Append(Within(breaker.starts), now) /\ counted' = Append(counted, now)
  BY DEF RecordUncleanStart
<1>3. /\ breaker'.starts \in Seq(Moments)
      /\ Len(breaker'.starts) = Len(Within(breaker.starts)) + 1
      /\ counted' \in Seq(Moments)
  BY <1>1, <1>2 DEF BreakerTypes
<1>4. Len(breaker'.starts) <= Len(breaker.starts) + 1
  BY <1>1, <1>3 DEF BreakerTypes
<1>5. /\ breaker'.trippedAt \in {now, breaker.trippedAt}
      /\ breaker'.announced \in BOOLEAN
      /\ breaker'.announced => breaker.announced /\ breaker'.trippedAt = breaker.trippedAt
  BY DEF RecordUncleanStart, BreakerTypes
<1> QED
  BY <1>3, <1>4, <1>5 DEF BreakerTypes

LEMMA ClearingTypes ==
    ASSUME Clear
    PROVE  BreakerTypes' /\ breaker'.starts = <<>> /\ breaker'.trippedAt = Never
BY DEF Clear, NoCrashLoop, BreakerTypes

LEMMA AskingTypes ==
    ASSUME BreakerTypes, AskTripped
    PROVE  BreakerTypes' /\ Len(breaker'.starts) <= Len(breaker.starts)
<1>1. CASE Clear
  <2>1. Len(breaker.starts) \in Nat
    BY DEF BreakerTypes
  <2> QED
    BY <1>1, <2>1, ClearingTypes
<1>2. CASE UNCHANGED <<breaker, counted>>
  BY <1>2 DEF BreakerTypes
<1> QED
  BY <1>1, <1>2 DEF AskTripped

-----------------------------------------------------------------------------
\* Types.

\* The steps that leave the breaker's file alone.
LeavesTheBreaker ==
    \/ Launch \/ CheckDatabase \/ MoveDatabaseAside \/ BeginRestore \/ WriteSome
    \/ EndRestore \/ StartThisLife \/ OpenTheStores \/ OpeningFails
    \/ TakeWhatThisLifeFound \/ TellOfTheRecovery \/ SendTheAnnouncement
    \/ TaskEnds \/ MarkExited \/ CloseTheLog \/ Die \/ Tick

LEMMA TheBreakerIsLeft == LeavesTheBreaker => UNCHANGED <<breaker, counted>>
BY DEF LeavesTheBreaker, Launch, CheckDatabase, MoveDatabaseAside, BeginRestore, WriteSome,
       EndRestore, StartThisLife, OpenTheStores, OpeningFails, TakeWhatThisLifeFound,
       TellOfTheRecovery, SendTheAnnouncement, TaskEnds, MarkExited, CloseTheLog, Die, Tick,
       disk, history

LEMMA BreakerTypesNext ==
    ASSUME BreakerTypes, now \in Moments, [Next]_vars
    PROVE  BreakerTypes'
<1>1. CASE LeavesTheBreaker
  BY <1>1, TheBreakerIsLeft DEF BreakerTypes
<1>2. CASE CountTheStart
  BY <1>2, RecordingTypes, AskingTypes DEF CountTheStart
<1>3. CASE AnnounceTheBreaker
  <2>1. CASE AskTripped
    BY <2>1, AskingTypes
  <2>2. CASE Tripped /\ breaker' = [breaker EXCEPT !.announced = TRUE] /\ UNCHANGED counted
    BY <2>2 DEF BreakerTypes, Tripped
  <2> QED
    BY <1>3, <2>1, <2>2 DEF AnnounceTheBreaker
<1>4. CASE StartTask
  BY <1>4, AskingTypes DEF StartTask
<1>5. CASE ForgetTheLoop
  BY <1>5, ClearingTypes DEF ForgetTheLoop
<1>6. CASE UNCHANGED vars
  BY <1>6 DEF vars, disk, history, BreakerTypes
<1> QED
  BY <1>1, <1>2, <1>3, <1>4, <1>5, <1>6 DEF Next, LeavesTheBreaker

LEMMA FileTypesNext ==
    ASSUME FileTypes, [Next]_vars
    PROVE  FileTypes'
<1> USE DEF FileTypes, From, disk, history, NoSentinel, NothingFound
<1>1. CASE Launch
  BY <1>1 DEF Launch
<1>2. CASE CheckDatabase
  BY <1>2 DEF CheckDatabase
<1>3. CASE MoveDatabaseAside
  BY <1>3 DEF MoveDatabaseAside
<1>4. CASE BeginRestore
  BY <1>4 DEF BeginRestore
<1>5. CASE WriteSome
  BY <1>5 DEF WriteSome
<1>6. CASE EndRestore
  BY <1>6 DEF EndRestore
<1>7. CASE StartThisLife
  BY <1>7 DEF StartThisLife
<1>8. CASE OpenTheStores
  BY <1>8 DEF OpenTheStores
<1>9. CASE OpeningFails
  BY <1>9 DEF OpeningFails, LifeEnds
<1>10. CASE TakeWhatThisLifeFound
  BY <1>10 DEF TakeWhatThisLifeFound
<1>11. CASE TellOfTheRecovery
  BY <1>11 DEF TellOfTheRecovery
<1>12. CASE CountTheStart
  BY <1>12 DEF CountTheStart
<1>13. CASE AnnounceTheBreaker
  BY <1>13 DEF AnnounceTheBreaker
<1>14. CASE StartTask
  BY <1>14 DEF StartTask
<1>15. CASE ForgetTheLoop
  BY <1>15 DEF ForgetTheLoop
<1>16. CASE SendTheAnnouncement
  BY <1>16 DEF SendTheAnnouncement
<1>17. CASE TaskEnds
  BY <1>17 DEF TaskEnds
<1>18. CASE MarkExited
  BY <1>18 DEF MarkExited
<1>19. CASE CloseTheLog
  BY <1>19 DEF CloseTheLog, LifeEnds
<1>20. CASE Die
  BY <1>20 DEF Die, LifeEnds, LogIsOpen
<1>21. CASE Tick
  BY <1>21 DEF Tick
<1>22. CASE UNCHANGED vars
  BY <1>22 DEF vars
<1> QED
  BY <1>1, <1>2, <1>3, <1>4, <1>5, <1>6, <1>7, <1>8, <1>9, <1>10, <1>11, <1>12,
     <1>13, <1>14, <1>15, <1>16, <1>17, <1>18, <1>19, <1>20, <1>21, <1>22 DEF Next

LEMMA CountTypesNext ==
    ASSUME CountTypes, [Next]_vars
    PROVE  CountTypes'
<1>0. MaxLives \in Nat /\ (now' = now + 1 /\ now < MaxTime /\ now \in Moments => now' \in Moments)
  BY RecoveryAssumption DEF Moments
<1> USE <1>0 DEF CountTypes, HasLeft, From, disk, history, Stages
<1>1. CASE Launch
  BY <1>1 DEF Launch
<1>2. CASE CheckDatabase
  BY <1>2 DEF CheckDatabase
<1>3. CASE MoveDatabaseAside
  BY <1>3 DEF MoveDatabaseAside
<1>4. CASE BeginRestore
  BY <1>4 DEF BeginRestore
<1>5. CASE WriteSome
  BY <1>5 DEF WriteSome
<1>6. CASE EndRestore
  BY <1>6 DEF EndRestore
<1>7. CASE StartThisLife
  BY <1>7 DEF StartThisLife
<1>8. CASE OpenTheStores
  BY <1>8 DEF OpenTheStores
<1>9. CASE OpeningFails
  BY <1>9 DEF OpeningFails, LifeEnds
<1>10. CASE TakeWhatThisLifeFound
  BY <1>10 DEF TakeWhatThisLifeFound
<1>11. CASE TellOfTheRecovery
  BY <1>11 DEF TellOfTheRecovery
<1>12. CASE CountTheStart
  BY <1>12 DEF CountTheStart
<1>13. CASE AnnounceTheBreaker
  BY <1>13 DEF AnnounceTheBreaker
<1>14. CASE StartTask
  BY <1>14 DEF StartTask
<1>15. CASE ForgetTheLoop
  BY <1>15 DEF ForgetTheLoop
<1>16. CASE SendTheAnnouncement
  BY <1>16 DEF SendTheAnnouncement
<1>17. CASE TaskEnds
  BY <1>17 DEF TaskEnds
<1>18. CASE MarkExited
  BY <1>18 DEF MarkExited
<1>19. CASE CloseTheLog
  BY <1>19 DEF CloseTheLog, LifeEnds
<1>20. CASE Die
  BY <1>20 DEF Die, LifeEnds
<1>21. CASE Tick
  BY <1>21 DEF Tick
<1>22. CASE UNCHANGED vars
  BY <1>22 DEF vars
<1> QED
  BY <1>1, <1>2, <1>3, <1>4, <1>5, <1>6, <1>7, <1>8, <1>9, <1>10, <1>11, <1>12,
     <1>13, <1>14, <1>15, <1>16, <1>17, <1>18, <1>19, <1>20, <1>21, <1>22 DEF Next

LEMMA TypesInit == Init => TypesInv
<1> SUFFICES ASSUME Init PROVE TypesInv
  OBVIOUS
<1>1. 0 \in Moments /\ 0 \in 0 .. MaxLives
  BY RecoveryAssumption DEF Moments
<1>2. BreakerTypes
  BY DEF Init, BreakerTypes, NoCrashLoop
<1>3. FileTypes
  BY DEF Init, FileTypes, NoSentinel, NothingFound
<1>4. CountTypes
  BY <1>1 DEF Init, CountTypes, Stages, HasLeft
<1> QED
  BY <1>2, <1>3, <1>4 DEF TypesInv

LEMMA TypesAlways == Spec => []TypesInv
<1>1. TypesInv /\ [Next]_vars => TypesInv'
  BY BreakerTypesNext, FileTypesNext, CountTypesNext DEF TypesInv, CountTypes
<1> QED
  BY <1>1, TypesInit, PTL DEF Spec

\* The state files, the found recovery, the counts and the history stay in their
\* types, and only a trip is ever called announced (StateFile, Breaker.Announce).
THEOREM RecoveryTypes == Spec => []RecoveryTypeOK
BY TypesAlways, TypesAreRight, PTL

-----------------------------------------------------------------------------
\* The database.

\* With a good backup and no recovery or close cut short, the file is whole but
\* from a kill to the end of the recovery after it, and until then the sentinel,
\* or what was found of it, says that there was one.
DatabaseAtItsStage ==
    /\ stage = "down" => database = "whole" \/ (database = "damaged" /\ sentinel.there)
    /\ stage = "launched" => database = "whole" \/ (database = "damaged" /\ found.unclean)
    /\ stage \in {"launched", "condemned"} => found.unclean = sentinel.there
    /\ stage = "condemned" => database = "damaged" /\ found.unclean
    /\ stage = "aside" => database = "missing"
    /\ stage = "restoring" => database \in {"blank", "partial"}
    /\ stage \in {"checked", "prepared", "opened", "taken", "told", "tallied", "announcing",
                  "serving", "exited", "cleared"} => database = "whole"
    /\ stage \in {"prepared", "opened", "taken", "told", "tallied", "announcing", "serving"} =>
          sentinel.there

DatabaseInv == archive = "good" /\ ~cutShort => DatabaseAtItsStage

LEMMA ABackupIsABackup ==
    ASSUME [Next]_vars
    PROVE  archive' = archive /\ (cutShort => cutShort')
<1>1. CASE Die
  <2>1. cutShort => cutShort'
    BY <1>1, Zenon DEF Die
  <2> QED
    BY <1>1, <2>1 DEF Die
<1>2. CASE ~Die
  <2>1. archive' = archive /\ cutShort' = cutShort
    BY <1>2
       DEF Next, vars, disk, history, Launch, CheckDatabase, MoveDatabaseAside, BeginRestore,
           WriteSome, EndRestore, StartThisLife, OpenTheStores, OpeningFails,
           TakeWhatThisLifeFound, TellOfTheRecovery, CountTheStart, AnnounceTheBreaker,
           StartTask, ForgetTheLoop, SendTheAnnouncement, TaskEnds, MarkExited, CloseTheLog, Tick
  <2> QED
    BY <2>1
<1> QED
  BY <1>1, <1>2

LEMMA DatabaseInvNext ==
    ASSUME FileTypes, CountTypes, DatabaseInv, [Next]_vars
    PROVE  DatabaseInv'
<1> SUFFICES ASSUME archive = "good", ~cutShort, ~cutShort', DatabaseAtItsStage
             PROVE  DatabaseAtItsStage'
  BY ABackupIsABackup DEF DatabaseInv
<1> USE DEF DatabaseAtItsStage, From, disk, history
<1>1. CASE Launch
  BY <1>1 DEF Launch, NothingFound
<1>2. CASE CheckDatabase
  BY <1>2 DEF CheckDatabase, Unusable
<1>3. CASE MoveDatabaseAside
  BY <1>3 DEF MoveDatabaseAside
<1>4. CASE BeginRestore
  BY <1>4 DEF BeginRestore
<1>5. CASE WriteSome
  BY <1>5 DEF WriteSome
<1>6. CASE EndRestore
  BY <1>6 DEF EndRestore
<1>7. CASE StartThisLife
  BY <1>7 DEF StartThisLife, NoSentinel
<1>8. CASE OpenTheStores
  BY <1>8 DEF OpenTheStores
<1>9. CASE OpeningFails
  BY <1>9 DEF OpeningFails, LifeEnds
<1>10. CASE TakeWhatThisLifeFound
  BY <1>10 DEF TakeWhatThisLifeFound, NoSentinel
<1>11. CASE TellOfTheRecovery
  BY <1>11 DEF TellOfTheRecovery
<1>12. CASE CountTheStart
  BY <1>12 DEF CountTheStart
<1>13. CASE AnnounceTheBreaker
  BY <1>13 DEF AnnounceTheBreaker
<1>14. CASE StartTask
  BY <1>14 DEF StartTask
<1>15. CASE ForgetTheLoop
  BY <1>15 DEF ForgetTheLoop
<1>16. CASE SendTheAnnouncement
  BY <1>16 DEF SendTheAnnouncement
<1>17. CASE TaskEnds
  BY <1>17 DEF TaskEnds
<1>18. CASE MarkExited
  BY <1>18 DEF MarkExited, NoSentinel
<1>19. CASE CloseTheLog
  BY <1>19 DEF CloseTheLog, LifeEnds
<1>20. CASE Die
  BY <1>20 DEF Die, LifeEnds, LogIsOpen, CountTypes, Stages
<1>21. CASE Tick
  BY <1>21 DEF Tick
<1>22. CASE UNCHANGED vars
  BY <1>22 DEF vars
<1> QED
  BY <1>1, <1>2, <1>3, <1>4, <1>5, <1>6, <1>7, <1>8, <1>9, <1>10, <1>11, <1>12,
     <1>13, <1>14, <1>15, <1>16, <1>17, <1>18, <1>19, <1>20, <1>21, <1>22 DEF Next

\* With a good backup the agent serves on a whole database, however often and at
\* whatever moment it was killed, unless a kill met a recovery or a close half way
\* (PrepareDatabase, Restore).
THEOREM TheDatabaseIsNotLost == Spec => []OnlyAKillHalfWayLosesTheDatabase
<1>1. Init => DatabaseInv
  BY DEF Init, DatabaseInv, DatabaseAtItsStage
<1>2. TypesInv /\ DatabaseInv /\ [Next]_vars => DatabaseInv'
  BY DatabaseInvNext DEF TypesInv
<1>3. DatabaseInv => OnlyAKillHalfWayLosesTheDatabase
  BY DEF DatabaseInv, DatabaseAtItsStage, OnlyAKillHalfWayLosesTheDatabase
<1> QED
  BY <1>1, <1>2, <1>3, TypesAlways, PTL DEF Spec

-----------------------------------------------------------------------------
\* Which ends are counted.

\* A bad end that is still to be counted by the life that found it, or will.
StillToBeCounted ==
    \/ stage = "down" /\ sentinel.there
    \/ stage \in {"launched", "condemned", "aside", "restoring", "checked"}
         /\ (sentinel.there \/ found.unclean)
    \/ stage \in {"prepared", "opened"} /\ (sentinel.unclean \/ found.unclean)
    \/ stage \in {"taken", "told"} /\ found.unclean

\* So each start the breaker holds, and the one still to come, has an end of its
\* own; and a life that left by its exit path has taken its sentinel with it.
StartsInv ==
    /\ Len(breaker.starts) <= badEnds
    /\ StillToBeCounted => Len(breaker.starts) < badEnds
    /\ stage \in {"exited", "cleared"} => ~sentinel.there

LEMMA StartsInvNext ==
    ASSUME TypesInv, StartsInv, [Next]_vars
    PROVE  StartsInv'
<1>0. /\ Len(breaker.starts) \in Nat /\ badEnds \in Nat
      /\ BreakerTypes /\ now \in Moments
  BY DEF TypesInv, BreakerTypes, CountTypes
<1> USE <1>0 DEF StartsInv, From, disk, history, StillToBeCounted
<1>1. CASE Launch
  BY <1>1 DEF Launch, NothingFound
<1>2. CASE CheckDatabase
  BY <1>2 DEF CheckDatabase, Unusable
<1>3. CASE MoveDatabaseAside
  BY <1>3 DEF MoveDatabaseAside
<1>4. CASE BeginRestore
  BY <1>4 DEF BeginRestore
<1>5. CASE WriteSome
  BY <1>5 DEF WriteSome
<1>6. CASE EndRestore
  BY <1>6 DEF EndRestore
<1>7. CASE StartThisLife
  BY <1>7 DEF StartThisLife, NoSentinel
<1>8. CASE OpenTheStores
  BY <1>8 DEF OpenTheStores
<1>9. CASE OpeningFails
  BY <1>9 DEF OpeningFails, LifeEnds
<1>10. CASE TakeWhatThisLifeFound
  BY <1>10 DEF TakeWhatThisLifeFound, NoSentinel
<1>11. CASE TellOfTheRecovery
  BY <1>11 DEF TellOfTheRecovery
<1>12. CASE CountTheStart
  <2>1. CASE RecordUncleanStart /\ found.unclean
    <3>1. Len(breaker'.starts) \in Nat /\ Len(breaker'.starts) <= Len(breaker.starts) + 1
      BY <2>1, RecordingTypes DEF BreakerTypes
    <3> QED
      BY <1>12, <2>1, <3>1 DEF CountTheStart
  <2>2. CASE AskTripped
    <3>1. Len(breaker'.starts) \in Nat /\ Len(breaker'.starts) <= Len(breaker.starts)
      BY <2>2, AskingTypes DEF BreakerTypes
    <3> QED
      BY <1>12, <2>2, <3>1 DEF CountTheStart
  <2> QED
    BY <1>12, <2>1, <2>2 DEF CountTheStart
<1>13. CASE AnnounceTheBreaker
  <2>1. Len(breaker'.starts) \in Nat /\ Len(breaker'.starts) <= Len(breaker.starts)
    <3>1. CASE AskTripped
      BY <3>1, AskingTypes DEF BreakerTypes
    <3>2. CASE breaker' = [breaker EXCEPT !.announced = TRUE]
      BY <3>2
    <3> QED
      BY <1>13, <3>1, <3>2 DEF AnnounceTheBreaker
  <2> QED
    BY <1>13, <2>1 DEF AnnounceTheBreaker
<1>14. CASE StartTask
  <2>1. Len(breaker'.starts) \in Nat /\ Len(breaker'.starts) <= Len(breaker.starts)
    BY <1>14, AskingTypes DEF StartTask, BreakerTypes
  <2> QED
    BY <1>14, <2>1 DEF StartTask
<1>15. CASE ForgetTheLoop
  BY <1>15 DEF ForgetTheLoop, Clear, NoCrashLoop
<1>16. CASE SendTheAnnouncement
  BY <1>16 DEF SendTheAnnouncement
<1>17. CASE TaskEnds
  BY <1>17 DEF TaskEnds
<1>18. CASE MarkExited
  BY <1>18 DEF MarkExited, NoSentinel
<1>19. CASE CloseTheLog
  BY <1>19 DEF CloseTheLog, LifeEnds
<1>20. CASE Die
  BY <1>20 DEF Die, LifeEnds, CountTypes, Stages
<1>21. CASE Tick
  BY <1>21 DEF Tick
<1>22. CASE UNCHANGED vars
  BY <1>22 DEF vars
<1> QED
  BY <1>1, <1>2, <1>3, <1>4, <1>5, <1>6, <1>7, <1>8, <1>9, <1>10, <1>11, <1>12,
     <1>13, <1>14, <1>15, <1>16, <1>17, <1>18, <1>19, <1>20, <1>21, <1>22 DEF Next

\* Nothing but a life that ended without an exit path is held against the program
\* (Guard.Start, Guard.Stop, RecordUncleanStart).
THEOREM OnlyBadEndsAreCounted == Spec => []OnlyBadEndsCount
<1>1. Init => StartsInv
  BY DEF Init, StartsInv, StillToBeCounted, NoSentinel, NothingFound, NoCrashLoop
<1>2. TypesInv /\ StartsInv /\ [Next]_vars => StartsInv'
  BY StartsInvNext
<1>3. TypesInv /\ StartsInv => OnlyBadEndsCount
  BY DEF StartsInv, OnlyBadEndsCount
<1> QED
  BY <1>1, <1>2, <1>3, TypesAlways, PTL DEF Spec

-----------------------------------------------------------------------------
\* The crash loop.

\* The counted starts are in the order of the clock, the breaker holds the last
\* of them, what it dropped is out of the window for good, and it is tripped if
\* one of them tripped it, since the first that did.
InOrder ==
    /\ \A i, j \in DOMAIN counted : i <= j => counted[i] <= counted[j]
    /\ \A i \in DOMAIN counted : counted[i] <= now

Dropped(gone) ==
    /\ Len(breaker.starts) = Len(counted) - gone
    /\ \A i \in 1 .. Len(breaker.starts) : breaker.starts[i] = counted[gone + i]
    /\ \A i \in 1 .. gone : now - counted[i] > RestartWindow

FirstTrip(k) == Trips(k) /\ \A j \in 1 .. k - 1 : ~Trips(j)

TripInv ==
    /\ breaker.trippedAt = Never => \A k \in DOMAIN counted : ~Trips(k)
    /\ breaker.trippedAt # Never =>
          \E k \in DOMAIN counted : FirstTrip(k) /\ counted[k] = breaker.trippedAt

WindowInv == InOrder /\ (\E gone \in 0 .. Len(counted) : Dropped(gone)) /\ TripInv

\* The old ones of a sequence in the order of the clock are its first ones.
LEMMA TheOldOnesAreFirst ==
    ASSUME NEW moments \in Seq(Moments), now \in Moments,
           \A i, j \in DOMAIN moments : i <= j => moments[i] <= moments[j]
    PROVE  \E gone \in 0 .. Len(moments) :
              /\ Within(moments) = SubSeq(moments, gone + 1, Len(moments))
              /\ \A i \in 1 .. Len(moments) : now - moments[i] > RestartWindow <=> i <= gone
<1> DEFINE old == {i \in DOMAIN moments : now - moments[i] > RestartWindow}
<1>1. PICK gone \in 0 .. Len(moments) :
          /\ Within(moments) = SubSeq(moments, gone + 1, Len(moments))
          /\ gone = Cardinality(old)
  BY WithinIsASuffix
<1>2. DOMAIN moments = 1 .. Len(moments) /\ Len(moments) \in Nat
  OBVIOUS
<1>3. IsFiniteSet(old)
  <2>1. old \in SUBSET (1 .. Len(moments)) /\ IsFiniteSet(1 .. Len(moments))
    BY <1>2, FS_Interval
  <2> QED
    BY <2>1, FS_Subset
<1>4. RestartWindow \in Nat /\ now \in Nat /\ \A i \in DOMAIN moments : moments[i] \in Nat
  BY <1>2, RecoveryAssumption DEF Moments
<1>5. ASSUME NEW i \in 1 .. Len(moments), i \in old
      PROVE  i <= gone
  <2>1. 1 .. i \subseteq old
    <3> SUFFICES ASSUME NEW j \in 1 .. i
                 PROVE  j \in old
      OBVIOUS
    <3>1. j \in DOMAIN moments /\ moments[j] <= moments[i] /\ now - moments[i] > RestartWindow
      BY <1>2, <1>5
    <3>2. moments[i] \in Nat /\ moments[j] \in Nat
      BY <1>2, <1>4, <3>1
    <3>3. now - moments[j] > RestartWindow
      BY <1>4, <3>1, <3>2
    <3> QED
      BY <3>1, <3>3
  <2>2. Cardinality(1 .. i) = i
    BY FS_Interval
  <2> QED
    BY <1>1, <1>3, <2>1, <2>2, FS_Subset
<1>6. ASSUME NEW i \in 1 .. Len(moments), i \notin old
      PROVE  i > gone
  <2>1. old \subseteq 1 .. i - 1
    <3> SUFFICES ASSUME NEW j \in old, j >= i
                 PROVE  FALSE
      BY <1>2
    <3>1. moments[i] <= moments[j] /\ now - moments[j] > RestartWindow
      BY <1>2, <1>6
    <3>2. ~(now - moments[i] > RestartWindow)
      BY <1>2, <1>6
    <3> QED
      BY <1>2, <1>4, <3>1, <3>2
  <2>2. Cardinality(1 .. i - 1) = i - 1 /\ IsFiniteSet(1 .. i - 1)
    BY FS_Interval
  <2> QED
    BY <1>1, <2>1, <2>2, FS_Subset
<1>7. \A i \in 1 .. Len(moments) : now - moments[i] > RestartWindow <=> i <= gone
  BY <1>2, <1>5, <1>6
<1> QED
  BY <1>1, <1>7

\* A step that leaves the counted starts, and which of them are held, keeps it.
LEMMA WaitingKeepsTheWindow ==
    ASSUME BreakerTypes, WindowInv, now \in Moments, now' \in Moments, now' >= now,
           breaker'.starts = breaker.starts, breaker'.trippedAt = breaker.trippedAt,
           counted' = counted
    PROVE  WindowInv'
<1>1. \A i \in DOMAIN counted : counted[i] \in Moments
  BY DEF BreakerTypes
<1>2. InOrder'
  BY <1>1 DEF WindowInv, InOrder, Moments
<1>3. PICK gone \in 0 .. Len(counted) : Dropped(gone)
  BY DEF WindowInv
<1>4. Dropped(gone)'
  <2>1. \A i \in 1 .. gone : now' - counted[i] > RestartWindow
    <3> SUFFICES ASSUME NEW i \in 1 .. gone
                 PROVE  now' - counted[i] > RestartWindow
      OBVIOUS
    <3>1. counted[i] \in Moments /\ now - counted[i] > RestartWindow
      BY <1>1, <1>3 DEF Dropped, BreakerTypes
    <3> QED
      BY <3>1, RecoveryAssumption DEF Moments
  <2> QED
    BY <1>3, <2>1 DEF Dropped
<1>5. TripInv'
  BY DEF WindowInv, TripInv, FirstTrip, Trips
<1> QED
  BY <1>2, <1>3, <1>4, <1>5 DEF WindowInv

LEMMA ClearingEmptiesTheWindow ==
    ASSUME Clear
    PROVE  WindowInv'
<1>1. /\ counted' = <<>> /\ breaker'.starts = <<>> /\ breaker'.trippedAt = Never
      /\ Len(counted') = 0 /\ DOMAIN counted' = {}
  BY DEF Clear, NoCrashLoop
<1>2. InOrder' /\ TripInv'
  BY <1>1 DEF InOrder, TripInv
<1>3. Dropped(0)'
  BY <1>1 DEF Dropped
<1> QED
  BY <1>1, <1>2, <1>3 DEF WindowInv

\* One more start is the last of RestartLimit in the window exactly when the
\* breaker then holds RestartLimit of them.
LEMMA RecordingKeepsTheWindow ==
    ASSUME BreakerTypes, WindowInv, now \in Moments, now' = now, RecordUncleanStart
    PROVE  WindowInv'
<1>1. PICK n \in Nat, last \in Nat : n = Len(counted) /\ DOMAIN counted = 1 .. n /\ last = n + 1
  BY DEF BreakerTypes
<1>2. PICK held \in Nat : held = Len(breaker.starts) /\ DOMAIN breaker.starts = 1 .. held
  BY DEF BreakerTypes
<1>3. /\ Len(counted') = n + 1 /\ DOMAIN counted' = 1 .. n + 1
      /\ \A i \in 1 .. n : counted'[i] = counted[i]
      /\ counted'[n + 1] = now
  BY <1>1 DEF RecordUncleanStart, BreakerTypes
<1>4. /\ now \in Nat /\ RestartWindow \in Nat /\ RestartLimit \in Nat /\ RestartLimit >= 1
      /\ \A i \in 1 .. n : counted[i] \in Nat
  BY <1>1, RecoveryAssumption DEF Moments, BreakerTypes
<1>5. /\ \A i, j \in 1 .. n : i <= j => counted[i] <= counted[j]
      /\ \A i \in 1 .. n : counted[i] <= now
  BY <1>1 DEF WindowInv, InOrder
<1>6. InOrder'
  <2>1. ASSUME NEW i \in 1 .. n + 1, NEW j \in 1 .. n + 1, i <= j
        PROVE  counted'[i] <= counted'[j] /\ counted'[i] <= now
    <3>1. CASE j \in 1 .. n
      <4>1. i \in 1 .. n
        BY <2>1, <3>1
      <4> QED
        BY <1>3, <1>5, <2>1, <3>1, <4>1
    <3>2. CASE j = n + 1 /\ i \in 1 .. n
      BY <1>3, <1>5, <3>2
    <3>3. CASE j = n + 1 /\ i = n + 1
      BY <1>3, <1>4, <3>3
    <3> QED
      BY <2>1, <3>1, <3>2, <3>3
  <2> QED
    BY <1>3, <2>1 DEF InOrder
<1>7. PICK gone \in 0 .. n :
          /\ held = n - gone
          /\ \A i \in 1 .. held : breaker.starts[i] = counted[gone + i]
          /\ \A i \in 1 .. gone : now - counted[i] > RestartWindow
  BY <1>1, <1>2 DEF WindowInv, Dropped
<1>8. PICK more \in 0 .. held :
          /\ Within(breaker.starts) = SubSeq(breaker.starts, more + 1, held)
          /\ \A i \in 1 .. held : now - breaker.starts[i] > RestartWindow <=> i <= more
  <2>1. ASSUME NEW i \in 1 .. held, NEW j \in 1 .. held, i <= j
        PROVE  breaker.starts[i] <= breaker.starts[j]
    <3>1. gone + i \in 1 .. n /\ gone + j \in 1 .. n /\ gone + i <= gone + j
      BY <1>7, <2>1
    <3>2. breaker.starts[i] = counted[gone + i] /\ breaker.starts[j] = counted[gone + j]
      BY <1>7
    <3> QED
      BY <1>5, <3>1, <3>2
  <2> QED
    BY <1>2, <2>1, TheOldOnesAreFirst DEF BreakerTypes
<1>9. PICK out \in 0 .. n : out = gone + more /\ held - more = n - out
  BY <1>7, <1>8
<1>10. \A i \in 1 .. n : now - counted[i] > RestartWindow <=> i <= out
  <2> SUFFICES ASSUME NEW i \in 1 .. n
               PROVE  now - counted[i] > RestartWindow <=> i <= out
    OBVIOUS
  <2>1. CASE i <= gone
    <3>1. i \in 1 .. gone /\ i <= out
      BY <1>7, <1>8, <1>9, <2>1
    <3> QED
      BY <1>7, <3>1
  <2>2. CASE i > gone
    <3>1. i - gone \in 1 .. held /\ gone + (i - gone) = i
      BY <1>7, <2>2
    <3>2. breaker.starts[i - gone] = counted[i]
      BY <1>7, <3>1
    <3>3. i - gone <= more <=> i <= out
      BY <1>7, <1>8, <1>9
    <3> QED
      BY <1>8, <3>1, <3>2, <3>3
  <2> QED
    BY <1>7, <2>1, <2>2
<1>11. /\ Len(breaker'.starts) = n - out + 1
       /\ \A i \in 1 .. n - out : breaker'.starts[i] = counted[out + i]
       /\ breaker'.starts[n - out + 1] = now
  <2>1. /\ Within(breaker.starts) \in Seq(Moments)
        /\ Len(Within(breaker.starts)) = n - out
        /\ \A i \in 1 .. n - out : Within(breaker.starts)[i] = breaker.starts[more + i]
    <3>1. Within(breaker.starts) \in Seq(Moments)
      BY WithinTypes DEF BreakerTypes
    <3>2. breaker.starts \in Seq(Moments)
      BY DEF BreakerTypes
    <3>3. /\ Len(Within(breaker.starts)) = held - more
          /\ \A i \in 1 .. held - more : Within(breaker.starts)[i] = breaker.starts[more + i]
      <4>1. Len(SubSeq(breaker.starts, more + 1, held)) = held - more
        BY <1>2, <1>8, <3>2
      <4>2. \A i \in 1 .. held - more :
                SubSeq(breaker.starts, more + 1, held)[i] = breaker.starts[more + i]
        BY <1>2, <1>8, <3>2
      <4> QED
        BY <1>8, <4>1, <4>2
    <3> QED
      BY <1>9, <3>1, <3>3
  <2>2. \A i \in 1 .. n - out : breaker.starts[more + i] = counted[out + i]
    <3> SUFFICES ASSUME NEW i \in 1 .. n - out
                 PROVE  breaker.starts[more + i] = counted[out + i]
      OBVIOUS
    <3>1. more + i \in 1 .. held /\ gone + (more + i) = out + i
      BY <1>7, <1>8, <1>9
    <3> QED
      BY <1>7, <3>1
  <2>3. breaker'.starts = Append(Within(breaker.starts), now)
    BY DEF RecordUncleanStart
  <2>4. /\ Len(breaker'.starts) = n - out + 1
        /\ \A i \in 1 .. n - out : breaker'.starts[i] = Within(breaker.starts)[i]
        /\ breaker'.starts[n - out + 1] = now
    <3>1. PICK kept \in Seq(Moments) : kept = Within(breaker.starts)
      BY <2>1
    <3>2. breaker'.starts = Append(kept, now) /\ Len(kept) = n - out
      BY <2>1, <2>3, <3>1
    <3> QED
      BY <1>9, <3>1, <3>2
  <2> QED
    BY <2>1, <2>2, <2>4
<1>12. Dropped(out)'
  <2>1. ASSUME NEW i \in 1 .. n - out + 1
        PROVE  breaker'.starts[i] = counted'[out + i]
    <3>1. CASE i \in 1 .. n - out
      <4>1. out + i \in 1 .. n
        BY <1>9, <3>1
      <4> QED
        BY <1>3, <1>11, <3>1, <4>1
    <3>2. CASE i = n - out + 1
      <4>1. out + i = n + 1
        BY <1>9, <3>2
      <4> QED
        BY <1>3, <1>11, <3>2, <4>1
    <3> QED
      BY <1>9, <2>1, <3>1, <3>2
  <2>2. ASSUME NEW i \in 1 .. out
        PROVE  now' - counted'[i] > RestartWindow
    <3>1. i \in 1 .. n /\ i <= out
      BY <1>9, <2>2
    <3> QED
      BY <1>3, <1>10, <3>1
  <2>3. Len(breaker'.starts) = Len(counted') - out
    BY <1>3, <1>9, <1>11
  <2> QED
    BY <1>11, <2>1, <2>2, <2>3 DEF Dropped
<1>13. Trips(last)' <=> Len(breaker'.starts) >= RestartLimit
  <2>1. PICK first \in Int : first = n + 1 - RestartLimit + 1
    BY <1>4
  <2>2. Trips(last)' <=> n + 1 >= RestartLimit /\ now - counted'[first] <= RestartWindow
    <3>1. Trips(last)' <=>
             /\ last >= RestartLimit
             /\ counted'[last] - counted'[last - RestartLimit + 1] <= RestartWindow
      BY DEF Trips
    <3>2. last - RestartLimit + 1 = first /\ counted'[last] = now
      BY <1>1, <1>3, <1>4, <2>1
    <3> QED
      BY <1>1, <3>1, <3>2
  <2>3. Len(breaker'.starts) >= RestartLimit <=> first >= out + 1
    BY <1>4, <1>9, <1>11, <2>1
  <2>4. n + 1 >= RestartLimit <=> first >= 1
    BY <1>4, <2>1
  <2>5. CASE first = n + 1
    BY <1>3, <1>4, <1>9, <2>2, <2>3, <2>4, <2>5
  <2>6. CASE first \in 1 .. n
    <3>1. counted'[first] = counted[first] /\ counted[first] \in Nat
      BY <1>3, <1>4, <2>6
    <3>2. now - counted[first] <= RestartWindow <=> ~(now - counted[first] > RestartWindow)
      BY <1>4, <3>1
    <3> QED
      BY <1>9, <1>10, <2>2, <2>3, <2>4, <2>6, <3>1, <3>2
  <2>7. CASE first < 1
    BY <1>9, <2>2, <2>3, <2>4, <2>7
  <2> QED
    BY <1>4, <2>1, <2>5, <2>6, <2>7
<1>14. \A k \in 1 .. n : Trips(k)' <=> Trips(k)
  <2> SUFFICES ASSUME NEW k \in 1 .. n
               PROVE  Trips(k)' <=> Trips(k)
    OBVIOUS
  <2>1. k >= RestartLimit => k - RestartLimit + 1 \in 1 .. n
    BY <1>4
  <2> QED
    BY <1>3, <2>1 DEF Trips
<1>15. TripInv'
  <2>1. CASE breaker.trippedAt = Never /\ Len(breaker'.starts) >= RestartLimit
    <3>1. breaker'.trippedAt = now /\ now # Never
      <4>1. now # Never
        BY <1>4 DEF Never
      <4>2. breaker'.trippedAt = now
        BY <2>1 DEF RecordUncleanStart
      <4> QED
        BY <4>1, <4>2
    <3>2. Trips(last)' /\ \A j \in 1 .. n : ~Trips(j)'
      BY <1>1, <1>13, <1>14, <2>1 DEF WindowInv, TripInv
    <3>3. FirstTrip(last)'
      <4>1. last - 1 = n
        BY <1>1
      <4> QED
        BY <3>2, <4>1 DEF FirstTrip
    <3>4. last \in DOMAIN counted' /\ counted'[last] = breaker'.trippedAt
      BY <1>1, <1>3, <3>1
    <3> QED
      BY <3>1, <3>3, <3>4 DEF TripInv
  <2>2. CASE breaker.trippedAt = Never /\ ~(Len(breaker'.starts) >= RestartLimit)
    <3>1. breaker'.trippedAt = Never
      BY <2>2 DEF RecordUncleanStart
    <3>2. \A k \in 1 .. n : ~Trips(k)'
      BY <1>1, <1>14, <2>2 DEF WindowInv, TripInv
    <3>3. ~Trips(last)'
      BY <1>13, <2>2
    <3>4. \A k \in 1 .. n + 1 : k \in 1 .. n \/ k = last
      BY <1>1
    <3> QED
      BY <1>3, <3>1, <3>2, <3>3, <3>4 DEF TripInv
  <2>3. CASE breaker.trippedAt # Never
    <3>1. breaker'.trippedAt = breaker.trippedAt
      BY <2>3 DEF RecordUncleanStart
    <3>2. PICK k \in 1 .. n : FirstTrip(k) /\ counted[k] = breaker.trippedAt
      BY <1>1, <2>3 DEF WindowInv, TripInv
    <3>3. \A j \in 1 .. k - 1 : j \in 1 .. n
      OBVIOUS
    <3>4. FirstTrip(k)' /\ counted'[k] = breaker'.trippedAt
      BY <1>3, <1>14, <3>1, <3>2, <3>3 DEF FirstTrip
    <3>5. k \in DOMAIN counted'
      BY <1>3
    <3> QED
      BY <2>3, <3>1, <3>4, <3>5 DEF TripInv
  <2> QED
    BY <2>1, <2>2, <2>3
<1>16. out \in 0 .. Len(counted')
  BY <1>3, <1>9
<1> QED
  BY <1>6, <1>12, <1>15, <1>16 DEF WindowInv

LEMMA AskingKeepsTheWindow ==
    ASSUME BreakerTypes, WindowInv, now \in Moments, now' = now, AskTripped
    PROVE  WindowInv'
<1>1. CASE Clear
  BY <1>1, ClearingEmptiesTheWindow
<1>2. CASE UNCHANGED <<breaker, counted>>
  <2>1. now' \in Moments /\ now' >= now
    BY DEF Moments
  <2> QED
    BY <1>2, <2>1, WaitingKeepsTheWindow
<1> QED
  BY <1>1, <1>2 DEF AskTripped

LEMMA WindowInvNext ==
    ASSUME BreakerTypes, now \in Moments, now' \in Moments, WindowInv, [Next]_vars
    PROVE  WindowInv'
<1>1. CASE LeavesTheBreaker \/ UNCHANGED vars
  <2>1. UNCHANGED <<breaker, counted>>
    BY <1>1, TheBreakerIsLeft DEF vars, disk, history
  <2>2. now' = now \/ now' = now + 1
    BY <1>1
       DEF LeavesTheBreaker, vars, Launch, CheckDatabase, MoveDatabaseAside, BeginRestore,
           WriteSome, EndRestore, StartThisLife, OpenTheStores, OpeningFails,
           TakeWhatThisLifeFound, TellOfTheRecovery, SendTheAnnouncement, TaskEnds,
           MarkExited, CloseTheLog, Die, Tick
  <2>3. now' >= now
    BY <2>2 DEF Moments
  <2> QED
    BY <2>1, <2>3, WaitingKeepsTheWindow
<1>2. CASE CountTheStart
  BY <1>2, RecordingKeepsTheWindow, AskingKeepsTheWindow DEF CountTheStart
<1>3. CASE AnnounceTheBreaker
  <2>1. CASE AskTripped
    BY <1>3, <2>1, AskingKeepsTheWindow DEF AnnounceTheBreaker
  <2>2. CASE breaker' = [breaker EXCEPT !.announced = TRUE] /\ UNCHANGED counted
    <3>1. breaker'.starts = breaker.starts /\ breaker'.trippedAt = breaker.trippedAt
      BY <2>2
    <3>2. now' = now /\ now' >= now
      BY <1>3 DEF AnnounceTheBreaker, Moments
    <3> QED
      BY <2>2, <3>1, <3>2, WaitingKeepsTheWindow
  <2> QED
    BY <1>3, <2>1, <2>2 DEF AnnounceTheBreaker
<1>4. CASE StartTask
  BY <1>4, AskingKeepsTheWindow DEF StartTask
<1>5. CASE ForgetTheLoop
  BY <1>5, ClearingEmptiesTheWindow DEF ForgetTheLoop
<1> QED
  BY <1>1, <1>2, <1>3, <1>4, <1>5 DEF Next, LeavesTheBreaker

\* A breaker that lets a task start has no crash loop that is still on.
LEMMA NothingStartsInALoop ==
    ASSUME BreakerTypes, CountTypes, WindowInv, [Next]_vars, working', ~working
    PROVE  ~CrashLoop
<1>1. CASE StartTask
  <2> SUFFICES ASSUME CrashLoop
               PROVE  FALSE
    OBVIOUS
  <2>1. PICK k \in DOMAIN counted : FirstTrip(k) /\ now - counted[k] < QuietPeriod
    BY DEF CrashLoop, FirstTrip
  <2>2. breaker.trippedAt # Never
    BY <2>1 DEF WindowInv, TripInv, FirstTrip
  <2>3. PICK first \in DOMAIN counted : FirstTrip(first) /\ counted[first] = breaker.trippedAt
    BY <2>2 DEF WindowInv, TripInv
  <2>4. first = k
    <3>1. /\ first \in Nat /\ k \in Nat /\ first >= 1 /\ k >= 1
      BY DEF BreakerTypes
    <3>2. ~(first < k) /\ ~(k < first)
      BY <2>1, <2>3, <3>1 DEF FirstTrip
    <3> QED
      BY <3>1, <3>2
  <2>5. now - breaker.trippedAt >= QuietPeriod
    BY <1>1, <2>2 DEF StartTask, Tripped, QuietIsOver
  <2>6. now \in Nat /\ counted[k] \in Nat /\ QuietPeriod \in Nat
    BY RecoveryAssumption DEF CountTypes, BreakerTypes, Moments
  <2> QED
    BY <2>1, <2>3, <2>4, <2>5, <2>6
<1>2. CASE ~StartTask
  <2>1. working' = working \/ working' = FALSE
    BY <1>2
       DEF Next, vars, disk, history, LifeEnds, Launch, CheckDatabase, MoveDatabaseAside,
           BeginRestore, WriteSome, EndRestore, StartThisLife, OpenTheStores, OpeningFails,
           TakeWhatThisLifeFound, TellOfTheRecovery, CountTheStart, AnnounceTheBreaker,
           ForgetTheLoop, SendTheAnnouncement, TaskEnds, MarkExited, CloseTheLog, Die, Tick
  <2> QED
    BY <2>1
<1> QED
  BY <1>1, <1>2

\* While a crash loop is on no task starts, in the life that tripped the breaker
\* and in those after it, for any limit, window and quiet period
\* (RecordUncleanStart, Tripped, WhyNoNewTask).
THEOREM NoTaskStartsInACrashLoop == Spec => CrashLoopStartsNoTask
<1>1. Init => WindowInv
  <2> SUFFICES ASSUME Init PROVE WindowInv
    OBVIOUS
  <2>1. counted = <<>> /\ breaker.starts = <<>> /\ breaker.trippedAt = Never /\ DOMAIN counted = {}
        /\ Len(counted) = 0
    BY DEF Init, NoCrashLoop
  <2>2. Dropped(0)
    BY <2>1 DEF Dropped
  <2> QED
    BY <2>1, <2>2 DEF WindowInv, InOrder, TripInv
<1>2. TypesInv /\ TypesInv' /\ WindowInv /\ [Next]_vars => WindowInv'
  BY WindowInvNext DEF TypesInv, CountTypes
<1>3. TypesInv /\ WindowInv /\ [Next]_vars => [working' /\ ~working => ~CrashLoop]_vars
  BY NothingStartsInALoop DEF TypesInv
<1> QED
  BY <1>1, <1>2, <1>3, TypesAlways, PTL DEF Spec, CrashLoopStartsNoTask

=============================================================================
