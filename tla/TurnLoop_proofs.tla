--------------------------- MODULE TurnLoop_proofs ---------------------------
(* That no task is lost (TurnLoop.NoTaskIsLost) and that a run stays in its  *)
(* bounds (TurnLoop.TurnTypeOK), for every value of the limits.  Every way a *)
(* step of a run can go is one of three: it goes on in the round, it begins  *)
(* an ending, or it comes back with an error.  Each kind has a lemma, and    *)
(* each action is shown to be of those kinds.                                *)
EXTENDS TurnLoop, TLAPS, WellFoundedInduction

Ends == {"waiting", "stopped", "failed", "done"}
EndingSteps == {"closing", "reviewing", "reporting"}
RoundSteps == {"top", "asking", "calling", "replied", "answered", "deciding", "tools",
               "rethinking", "reading", "finalReport"}

(* NoTaskIsLost is not inductive: it needs to know that an ending begun      *)
(* because of an error had one misfortune behind it already, and that what   *)
(* is being reported is what the record says.                                *)
TypesInv ==
    /\ at \in AtRest \cup {"setup"} \cup RoundSteps \cup EndingSteps
    /\ record \in [Tasks -> Standings]
    /\ refused \in Nat
    /\ cut \in BOOLEAN
    /\ setUp \in BOOLEAN

RunInv ==
    /\ at \in {"setup"} \cup RoundSteps \cup EndingSteps =>
         task \in Tasks /\ told = 0 /\ untold = "none"
    /\ at \in RoundSteps \cup EndingSteps => setUp
    /\ at \in {"setup", "down"} => ~setUp

EndingInv ==
    /\ at \notin EndingSteps => ~ending.last
    /\ at \in EndingSteps => ending.status \in Ends
    /\ at \in EndingSteps => (ending.last => Misfortunes >= 1)
    /\ at \in {"reviewing", "reporting"} => (HasARecord => record[task] = ending.status)

LoopInv == TypesInv /\ RunInv /\ EndingInv /\ NoTaskIsLost

-----------------------------------------------------------------------------

\* What every step of a run past its set-up leaves alone, and how far it moves
\* the count of refused writes.
TheRunGoesOn ==
    /\ UNCHANGED <<task, cut, setUp>>
    /\ refused' \in {refused, refused + 1}

StaysInTheRound ==
    /\ at \in RoundSteps
    /\ at' \in RoundSteps
    /\ UNCHANGED <<ending, theReport>>
    /\ record' \in [Tasks -> Standings]
    /\ TheRunGoesOn

BeginsAnEnding ==
    /\ at \in RoundSteps
    /\ at' = "closing"
    /\ ending'.status \in Ends
    /\ ~ending'.last
    /\ UNCHANGED <<theReport, record>>
    /\ TheRunGoesOn

IsAnError ==
    /\ at \in RoundSteps \cup EndingSteps
    /\ ComesBackWithAnError
    /\ UNCHANGED <<theReport, record>>
    /\ TheRunGoesOn
    /\ \/ cut /\ at \in RoundSteps
       \/ refused' = refused + 1

LEMMA StayingKeepsIt ==
    ASSUME LoopInv, StaysInTheRound
    PROVE  LoopInv'
<1> USE DEF LoopInv, StaysInTheRound, TheRunGoesOn, theReport, RoundSteps, EndingSteps, AtRest
<1>1. TypesInv'
  BY DEF TypesInv
<1>2. RunInv'
  BY DEF RunInv
<1>3. EndingInv'
  BY DEF EndingInv
<1>4. NoTaskIsLost'
  BY DEF NoTaskIsLost
<1> QED BY <1>1, <1>2, <1>3, <1>4

LEMMA EndingsKeepIt ==
    ASSUME LoopInv, BeginsAnEnding
    PROVE  LoopInv'
<1> USE DEF LoopInv, BeginsAnEnding, TheRunGoesOn, theReport, RoundSteps, EndingSteps, AtRest
<1>1. TypesInv'
  BY DEF TypesInv
<1>2. RunInv'
  BY DEF RunInv
<1>3. EndingInv'
  BY DEF EndingInv
<1>4. NoTaskIsLost'
  BY DEF NoTaskIsLost
<1> QED BY <1>1, <1>2, <1>3, <1>4

\* An error with an ending begun for one already is the second misfortune.
LEMMA ErrorsKeepIt ==
    ASSUME LoopInv, IsAnError
    PROVE  LoopInv'
<1>1. /\ refused \in Nat
      /\ refused' \in {refused, refused + 1}
      /\ cut' = cut
      /\ cut \in BOOLEAN
      /\ cut \/ refused' = refused + 1
  BY DEF LoopInv, TypesInv, IsAnError, TheRunGoesOn
<1>2. Misfortunes' >= 1
  <2>1. PICK n \in Nat : refused' = n
    BY <1>1
  <2>2. Misfortunes' = n + (IF cut THEN 1 ELSE 0)
    BY <1>1, <2>1 DEF Misfortunes
  <2>3. cut \/ n >= 1
    BY <1>1, <2>1
  <2> QED BY <1>1, <2>2, <2>3
<1>3. ending.last => Misfortunes' >= 2
  <2>1. ending.last => Misfortunes >= 1 /\ refused' = refused + 1
    BY DEF LoopInv, EndingInv, IsAnError, EndingSteps, RoundSteps
  <2> QED BY <1>1, <2>1 DEF Misfortunes
<1> USE DEF LoopInv, TypesInv, RunInv, EndingInv, IsAnError, TheRunGoesOn, theReport, RoundSteps,
            EndingSteps, AtRest
<1>4. CASE HasARecord /\ record[task] = "running" /\ ~ending.last
  <2>1. /\ at' = "closing"
        /\ ending' = [status |-> "failed", review |-> ~cut, last |-> TRUE]
    BY <1>4 DEF ComesBackWithAnError
  <2>2. TypesInv' /\ RunInv' /\ EndingInv'
    BY <1>2, <2>1 DEF Ends
  <2> QED BY <2>1, <2>2 DEF NoTaskIsLost
<1>5. CASE ~(HasARecord /\ record[task] = "running" /\ ~ending.last)
  <2>1. Returns("none")
    BY <1>5 DEF ComesBackWithAnError
  <2>2. at' = "idle" /\ ending' = NoEnding /\ memory' = [number |-> 0, status |-> "none"]
    BY <2>1 DEF Returns
  <2>3. TypesInv' /\ RunInv' /\ EndingInv'
    BY <2>2 DEF NoEnding
  <2>4. record[task] = "running" => ending.last
    BY <1>5 DEF HasARecord, Tasks
  <2>5. untold' = "none" /\ record' = record /\ task' = task
    OBVIOUS
  <2>6. Misfortunes' > 0
    <3>1. PICK n \in Nat : refused' = n
      BY <1>1
    <3>2. cut \/ n >= 1
      BY <1>1, <3>1
    <3> QED BY <1>1, <3>1, <3>2 DEF Misfortunes
  <2> QED BY <1>3, <2>2, <2>3, <2>4, <2>5, <2>6 DEF NoTaskIsLost
<1> QED BY <1>4, <1>5

-----------------------------------------------------------------------------
\* The kinds, for an action that takes its turn in a round.
AStepOfTheRound == StaysInTheRound \/ BeginsAnEnding \/ IsAnError

LEMMA TheRoundKeepsIt ==
    ASSUME LoopInv, AStepOfTheRound
    PROVE  LoopInv'
  BY StayingKeepsIt, EndingsKeepIt, ErrorsKeepIt DEF AStepOfTheRound

LEMMA TheRoundsSteps ==
    ASSUME LoopInv,
           \/ OneRound \/ FinalReport \/ HoldTheCall \/ ModelReplies \/ ModelFails
           \/ CountTheRound \/ RewindIfDue
    PROVE  AStepOfTheRound
<1> USE DEF LoopInv, TypesInv, AStepOfTheRound, StaysInTheRound, BeginsAnEnding, TheRunGoesOn,
            RoundSteps, Ends, EndAs, StopHere, StopForThePerson, CutOffHere, FailHere,
            theRecord, theReport, thePerson
<1>1. CASE OneRound       BY <1>1 DEF OneRound
<1>2. CASE FinalReport    BY <1>2 DEF FinalReport
<1>3. CASE HoldTheCall    BY <1>3 DEF HoldTheCall
<1>4. CASE ModelReplies   BY <1>4 DEF ModelReplies
<1>5. CASE ModelFails     BY <1>5 DEF ModelFails
<1>6. CASE CountTheRound  BY <1>6 DEF CountTheRound, AStall, AfterTheMeter
<1>7. CASE RewindIfDue    BY <1>7 DEF RewindIfDue
<1> QED BY <1>1, <1>2, <1>3, <1>4, <1>5, <1>6, <1>7

LEMMA TheRepliesSteps ==
    ASSUME LoopInv, HearTheReply
    PROVE  AStepOfTheRound
<1> USE DEF LoopInv, TypesInv, RunInv, AStepOfTheRound, TheRunGoesOn, RoundSteps, LogTakesIt,
            LogRefuses, TheTurnCannotWrite, TheTurnWrites, theRecord, theReport, thePerson
<1>1. at = "replied" /\ UNCHANGED <<task, theReport, cut, setUp>> /\ task \in Tasks
  BY DEF HearTheReply
<1>2. ASSUME NEW reply, NEW cutOffs, Hears(reply, cutOffs)
      PROVE  AStepOfTheRound
  <2>1. CASE UNCHANGED record /\ ComesBackWithAnError /\ TheTurnCannotWrite
    BY <1>1, <2>1 DEF IsAnError
  <2>2. CASE /\ at' \in {"top", "answered", "tools"}
             /\ UNCHANGED ending
             /\ UNCHANGED record \/ Becomes("running")
             /\ LogTakesIt
    BY <1>1, <2>2 DEF StaysInTheRound, Becomes, Standings
  <2> QED BY <1>1, <1>2, <2>1, <2>2 DEF Hears, GoRoundAgain
<1>3. CASE UNCHANGED record /\ ComesBackWithAnError /\ TheTurnCannotWrite
  BY <1>1, <1>3 DEF IsAnError
<1>4. CASE GoRoundAgain /\ UNCHANGED record /\ LogTakesIt
  BY <1>1, <1>4 DEF StaysInTheRound, GoRoundAgain
<1> QED BY <1>2, <1>3, <1>4 DEF HearTheReply

LEMMA TheCallsSteps ==
    ASSUME LoopInv, OneCall
    PROVE  AStepOfTheRound
<1> USE DEF LoopInv, TypesInv, AStepOfTheRound, TheRunGoesOn, RoundSteps, LogTakesIt,
            LogRefuses, TheTurnCannotWrite, TheTurnWrites, theRecord, theReport, thePerson,
            Ends, EndAs
<1>1. at = "tools" /\ UNCHANGED <<task, theReport, cut, setUp>>
  BY DEF OneCall
<1>2. CASE RefuseTheCall  BY <1>1, <1>2 DEF RefuseTheCall, StaysInTheRound
<1>3. CASE SameCallAgain  BY <1>1, <1>3 DEF SameCallAgain, StopHere, StaysInTheRound, BeginsAnEnding
<1>4. CASE RunAndRecord
  <2>1. UNCHANGED <<record, refused>>
    BY <1>4 DEF RunAndRecord
  <2>2. \/ UNCHANGED <<at, ending>>
        \/ \E status \in {"done", "stopped"} : EndAs(status, TRUE)
    BY <1>4 DEF RunAndRecord
  <2>3. CASE UNCHANGED <<at, ending>>
    BY <1>1, <2>1, <2>3 DEF StaysInTheRound
  <2>4. CASE \E status \in {"done", "stopped"} : EndAs(status, TRUE)
    BY <1>1, <2>1, <2>4 DEF BeginsAnEnding
  <2> QED BY <2>2, <2>3, <2>4
<1>5. CASE TheTurnCannotWrite /\ ComesBackWithAnError /\ UNCHANGED record
  BY <1>1, <1>5 DEF IsAnError
<1> QED BY <1>2, <1>3, <1>4, <1>5 DEF OneCall

\* What may follow the messages when none of them is a stop or a correction is
\* left to the two steps that read them.
LEMMA TheMessagesSteps ==
    ASSUME LoopInv, ReadDelivered \/ EndOfTurn
    PROVE  AStepOfTheRound
<1> USE DEF LoopInv, TypesInv, AStepOfTheRound, TheRunGoesOn, RoundSteps, LogTakesIt,
            LogRefuses, TheTurnCannotWrite, theRecord, theReport, thePerson,
            Ends, EndAs
<1>1. at \in {"reading", "answered"} /\ UNCHANGED <<task, theReport, cut, setUp>>
  BY DEF ReadDelivered, EndOfTurn
<1>2. CASE UNCHANGED record /\ ComesBackWithAnError /\ TheTurnCannotWrite
  BY <1>1, <1>2 DEF IsAnError
<1>3. CASE StopForThePerson /\ UNCHANGED record /\ LogTakesIt
  BY <1>1, <1>3 DEF BeginsAnEnding, StopForThePerson
<1>4. CASE GoRoundAgain /\ UNCHANGED record /\ LogTakesIt
  BY <1>1, <1>4 DEF StaysInTheRound, GoRoundAgain
<1>5. CASE HandTheWorkToTheJob
  BY <1>1, <1>5 DEF BeginsAnEnding, HandTheWorkToTheJob
<1>6. CASE at' = "deciding" /\ UNCHANGED <<record, ending>> /\ LogTakesIt
  BY <1>1, <1>6 DEF StaysInTheRound
<1> QED BY <1>2, <1>3, <1>4, <1>5, <1>6 DEF ReadDelivered, EndOfTurn, ReadTheMessages

LEMMA TheDecisionsSteps ==
    ASSUME LoopInv, CloseOrWait
    PROVE  AStepOfTheRound
<1> USE DEF LoopInv, TypesInv, AStepOfTheRound, TheRunGoesOn, RoundSteps, LogTakesIt,
            LogRefuses, TheTurnCannotWrite, TheTurnWrites, theRecord, theReport, thePerson,
            Ends, EndAs
<1>1. at = "deciding" /\ UNCHANGED <<task, theReport, cut, setUp>>
  BY DEF CloseOrWait
<1>2. CASE /\ UNCHANGED record /\ LogTakesIt
           /\ WaitHere \/ FailHere \/ GoRoundAgain \/ EndAs("done", TRUE) \/ EndAs("done", FALSE)
  BY <1>1, <1>2 DEF StaysInTheRound, BeginsAnEnding, WaitHere, FailHere, GoRoundAgain
<1>3. CASE UNCHANGED record /\ ComesBackWithAnError /\ TheTurnCannotWrite
  BY <1>1, <1>3 DEF IsAnError
<1>4. CASE AnswerWithNoRecord /\ UNCHANGED record
  BY <1>2, <1>4 DEF AnswerWithNoRecord
<1>5. CASE AsksBeforeADoneList /\ UNCHANGED record
  BY <1>2, <1>5 DEF AsksBeforeADoneList, SendBackToWork
<1>6. CASE DoneCheckPasses /\ UNCHANGED record
  BY <1>2, <1>6 DEF DoneCheckPasses
<1>7. CASE DoneCheckRefuses /\ UNCHANGED record
  BY <1>2, <1>7 DEF DoneCheckRefuses, SendBackToWork
<1>8. CASE ACheckRefuses /\ UNCHANGED record
  BY <1>2, <1>8 DEF ACheckRefuses
<1> QED BY <1>3, <1>4, <1>5, <1>6, <1>7, <1>8 DEF CloseOrWait

-----------------------------------------------------------------------------
(* The steps of an ending.                                                   *)

LEMMA ClosingKeepsIt ==
    ASSUME LoopInv, CloseTheRecord
    PROVE  LoopInv'
<1> USE DEF LoopInv, thePerson
<1>1. at = "closing" /\ UNCHANGED <<task, theReport, cut, setUp>>
  BY DEF CloseTheRecord
<1>2. CASE TheEndingCannotWrite /\ ComesBackWithAnError /\ UNCHANGED record
  BY <1>1, <1>2, ErrorsKeepIt
     DEF IsAnError, TheRunGoesOn, EndingSteps, TheEndingCannotWrite, LogRefuses
<1>3. CASE /\ TheEndingWrites
           /\ IF HasARecord THEN Becomes(ending.status) ELSE UNCHANGED record
           /\ at' = IF HasARecord /\ ending.review THEN "reviewing" ELSE "reporting"
           /\ UNCHANGED <<ending, memory>>
  <2>1. UNCHANGED refused
    BY <1>3 DEF TheEndingWrites, LogTakesIt
  <2>2. at' \in {"reviewing", "reporting"}
    BY <1>3
  <2>3. /\ record' \in [Tasks -> Standings]
        /\ HasARecord => record'[task] = ending.status
        /\ HasARecord' => HasARecord
    BY <1>1, <1>3 DEF TypesInv, RunInv, EndingInv, EndingSteps, Becomes, Ends, Standings, HasARecord
  <2>4. TypesInv' /\ RunInv'
    BY <1>1, <2>1, <2>2, <2>3 DEF TypesInv, RunInv, EndingSteps, RoundSteps, AtRest, theReport
  <2>5. EndingInv'
    BY <1>1, <1>3, <2>1, <2>2, <2>3 DEF EndingInv, EndingSteps, Misfortunes
  <2> QED BY <2>2, <2>4, <2>5 DEF NoTaskIsLost
<1> QED BY <1>2, <1>3 DEF CloseTheRecord

LEMMA ReviewKeepsIt ==
    ASSUME LoopInv, Review
    PROVE  LoopInv'
  BY DEF LoopInv, TypesInv, RunInv, EndingInv, NoTaskIsLost, Review, EndingSteps, RoundSteps,
         AtRest, Misfortunes, HasARecord, theRecord, theReport, thePerson

\* By the time of the report the record says where the task ended, so whatever
\* becomes of the report, the run returns.
LEMMA ReportKeepsIt ==
    ASSUME LoopInv, Report
    PROVE  LoopInv'
<1> USE DEF LoopInv, theRecord, thePerson
<1>1. /\ at = "reporting" /\ UNCHANGED <<task, record, cut, setUp>>
      /\ told = 0 /\ untold = "none" /\ refused \in Nat
  BY DEF Report, RunInv, EndingSteps, TypesInv
<1>2. /\ ending.status \in Ends /\ task \in Tasks
      /\ HasARecord => record[task] = ending.status
      /\ record[task] # "running"
  BY <1>1 DEF EndingInv, RunInv, EndingSteps, HasARecord, Ends, Tasks
<1>3. \E status \in {ending.status, "none"} : Returns(status)
  BY <1>2 DEF Report, NothingToSay, TheReplyCannotBeWritten, TheSendFails, ThePersonIsTold,
              ComesBackWithAnError
<1>4. PICK status \in {ending.status, "none"} : Returns(status)
  BY <1>3
<1>5. at' = "idle" /\ ending' = NoEnding
  BY <1>4 DEF Returns
<1>6. refused' = refused \/ refused' = refused + 1
  BY DEF Report, NothingToSay, TheReplyCannotBeWritten, TheSendFails, ThePersonIsTold,
         TheEndingWrites, TheEndingCannotWrite, LogTakesIt, LogRefuses
<1>7. TypesInv' /\ RunInv' /\ EndingInv'
  BY <1>1, <1>5, <1>6 DEF TypesInv, RunInv, EndingInv, EndingSteps, RoundSteps, AtRest, NoEnding
<1>8. memory'.number # 0 => memory'.status = record[memory'.number]
  BY <1>2, <1>4 DEF Returns
<1>9. told' = 0 => Misfortunes' > 0 \/ untold' # "none"
  <2>1. CASE NothingToSay \/ TheSendFails
    BY <2>1 DEF NothingToSay, TheSendFails
  <2>2. CASE ThePersonIsTold
    BY <1>1, <2>2 DEF ThePersonIsTold
  <2>3. CASE TheReplyCannotBeWritten
    <3>1. refused' = refused + 1 /\ refused' \in Nat /\ refused' > 0
      BY <1>1, <2>3 DEF TheReplyCannotBeWritten, TheEndingCannotWrite, LogRefuses
    <3> QED BY <3>1 DEF Misfortunes
  <2> QED BY <2>1, <2>2, <2>3 DEF Report
<1>10. untold' = "blank" => ~HasARecord'
  BY <1>1 DEF Report, NothingToSay, TheReplyCannotBeWritten, TheSendFails, ThePersonIsTold,
              HasARecord
<1> QED BY <1>1, <1>2, <1>7, <1>8, <1>9, <1>10 DEF NoTaskIsLost

-----------------------------------------------------------------------------
(* The steps outside a round, and the theorem.                               *)

LEMMA TheOthersKeepIt ==
    ASSUME LoopInv,
           Run \/ NewRun \/ Stop \/ Deliver \/ TheDeadlinePasses \/ Kill \/ Restart
    PROVE  LoopInv'
<1> USE DEF LoopInv, TypesInv, RunInv, EndingInv, NoTaskIsLost, EndingSteps, RoundSteps,
            AtRest, theRecord, theReport, thePerson
<1>1. CASE Run
  BY <1>1 DEF Run
<1>2. CASE NewRun
  <2>1. at = "setup" /\ UNCHANGED <<task, theReport, cut>> /\ ~setUp /\ refused' \in Nat
    BY <1>2 DEF NewRun, TheTurnWrites, TheTurnCannotWrite, LogTakesIt, LogRefuses
  <2>2. record' \in [Tasks -> Standings]
    BY <1>2 DEF NewRun, Becomes, Standings
  <2>3. \/ at' = "top" /\ setUp' /\ UNCHANGED ending
        \/ at' = "idle" /\ ~setUp' /\ ~ending'.last
    BY <1>2, <2>1 DEF NewRun, Returns, NoEnding
  <2>4. setUp' \in BOOLEAN
    BY <1>2 DEF NewRun
  <2> QED BY <2>1, <2>2, <2>3, <2>4
<1>3. CASE Stop \/ Deliver
  BY <1>3 DEF Stop, Deliver, Underway, Misfortunes, HasARecord
<1>4. CASE TheDeadlinePasses
  BY <1>4 DEF TheDeadlinePasses, Underway, Misfortunes, HasARecord
<1>5. CASE Kill
  BY <1>5 DEF Kill, NoEnding
<1>6. CASE Restart
  <2>1. at' = "idle" /\ ~setUp' /\ setUp' \in BOOLEAN /\ UNCHANGED <<ending, cut>>
    BY <1>6 DEF Restart
  <2>2. record' \in [Tasks -> Standings] /\ refused' \in Nat
    BY <1>6 DEF Restart, LogTakesIt, LogRefuses, Standings
  <2> QED BY <1>6, <2>1, <2>2 DEF Restart
<1> QED BY <1>1, <1>2, <1>3, <1>4, <1>5, <1>6

\* The strengthening holds at first: nothing runs and nothing was refused.
LEMMA LoopInvInitially == Init => LoopInv
<1> SUFFICES ASSUME Init
             PROVE  LoopInv
  OBVIOUS
<1> USE DEF Init, EndingSteps, RoundSteps, AtRest
<1>1. TypesInv
  BY DEF TypesInv, Standings
<1>2. RunInv
  BY DEF RunInv
<1>3. EndingInv
  BY DEF EndingInv, NoEnding
<1> QED BY <1>1, <1>2, <1>3 DEF LoopInv, NoTaskIsLost

\* Every step of the loop, of the person, of the clock and of the supervisor
\* keeps it.
LEMMA LoopInvKept == LoopInv /\ [Next]_vars => LoopInv'
<1> SUFFICES ASSUME LoopInv, [Next]_vars
             PROVE  LoopInv'
  OBVIOUS
<1>1. CASE UNCHANGED vars
  BY <1>1 DEF vars, LoopInv, TypesInv, RunInv, EndingInv, NoTaskIsLost, Misfortunes, HasARecord
<1>2. CASE \/ OneRound \/ FinalReport \/ HoldTheCall \/ ModelReplies \/ ModelFails
           \/ CountTheRound \/ RewindIfDue
  BY <1>2, TheRoundsSteps, TheRoundKeepsIt
<1>3. CASE HearTheReply             BY <1>3, TheRepliesSteps, TheRoundKeepsIt
<1>4. CASE OneCall                  BY <1>4, TheCallsSteps, TheRoundKeepsIt
<1>5. CASE ReadDelivered \/ EndOfTurn   BY <1>5, TheMessagesSteps, TheRoundKeepsIt
<1>6. CASE CloseOrWait              BY <1>6, TheDecisionsSteps, TheRoundKeepsIt
<1>7. CASE CloseTheRecord           BY <1>7, ClosingKeepsIt
<1>8. CASE Review                   BY <1>8, ReviewKeepsIt
<1>9. CASE Report                   BY <1>9, ReportKeepsIt
<1>10. CASE Run \/ NewRun \/ Stop \/ Deliver \/ TheDeadlinePasses \/ Kill \/ Restart
  BY <1>10, TheOthersKeepIt
<1> QED BY <1>1, <1>2, <1>3, <1>4, <1>5, <1>6, <1>7, <1>8, <1>9, <1>10 DEF Next, TheLoop

(* A task is not lost, whatever the bounds: when a run past its set-up is    *)
(* over, its record is left at running only after two misfortunes; a person  *)
(* who was not told had the log, the deadline or the channel in the way, or  *)
(* the task had no record and the model said nothing; and the screen         *)
(* remembers the task as its record stands (run.go play, endings.go          *)
(* stopAndSay and send).                                                     *)
THEOREM NoTaskIsEverLost == Spec => []NoTaskIsLost
<1>1. LoopInv => NoTaskIsLost
  BY DEF LoopInv
<1> QED BY <1>1, LoopInvInitially, LoopInvKept, PTL DEF Spec

-----------------------------------------------------------------------------
(* The types, and that no meter of a run passes its limit.                   *)

LEMMA Bounds ==
    /\ MaxTasks \in Nat \ {0} /\ MaxCalls \in Nat \ {0} /\ QueuedMessages \in Nat \ {0}
    /\ RewindAfter \in Nat \ {0} /\ StallsBeforeStop \in Nat \ {0}
    /\ MaxCutOffsSentBack \in Nat /\ MaxFailedParses \in Nat /\ MaxDoneCheckNudges \in Nat
    /\ RewindsAllowed \in Nat /\ MaxRefusals \in Nat
    /\ Budgets \subseteq Nat
  BY TurnLoopAssumption

\* A round that is being asked for is one the budget still has, the nudge too
\* many ends the task, and a count of still rounds at its limit buys a rethink:
\* without the three the counts' next step could pass their limits.
MetersInv ==
    /\ meters \in Meters
    /\ meters.rounds <= meters.budget
    /\ at \in {"asking", "calling"} /\ meters.budget > 0 => meters.rounds < meters.budget
    /\ at \notin EndingSteps => meters.nudges <= MaxDoneCheckNudges
    /\ at \notin {"rethinking"} \cup EndingSteps => meters.still < RewindAfter

LEMMA FreshMeters ==
    ASSUME NEW budget \in Budgets \cup {0}, meters' = NoMeters(budget)
    PROVE  MetersInv'
<1>1. budget \in Nat
  BY Bounds
<1> QED BY <1>1, Bounds DEF MetersInv, NoMeters, Meters

\* A step that counts nothing, at a place that asks no more of the counts.
LEMMA SameMeters ==
    ASSUME MetersInv, UNCHANGED meters,
           \/ at' = at
           \/ at' \in EndingSteps
           \/ at \notin {"rethinking"} \cup EndingSteps /\ at' \notin {"asking", "calling"}
           \/ at = "asking" /\ at' = "calling"
    PROVE  MetersInv'
  BY DEF MetersInv, EndingSteps

\* A step that counts something else than rounds and nudges.
LEMMA OtherMeters ==
    ASSUME MetersInv, meters' \in Meters,
           UNCHANGED <<meters.budget, meters.rounds, meters.nudges>>,
           at \notin EndingSteps,
           at' \notin {"asking", "calling"},
           at' \notin {"rethinking"} \cup EndingSteps => meters'.still < RewindAfter
    PROVE  MetersInv'
  BY DEF MetersInv

LEMMA ErrorMeters ==
    ASSUME MetersInv, ComesBackWithAnError
    PROVE  MetersInv'
<1>1. CASE at' = "closing" /\ UNCHANGED meters
  BY <1>1, SameMeters DEF EndingSteps
<1>2. CASE Returns("none")
  BY <1>2, FreshMeters DEF Returns
<1> QED BY <1>1, <1>2 DEF ComesBackWithAnError

LEMMA RoundMeters ==
    ASSUME MetersInv,
           \/ OneRound \/ FinalReport \/ HoldTheCall \/ ModelReplies \/ ModelFails
    PROVE  MetersInv'
<1> USE Bounds DEF EndingSteps, EndAs
<1>1. CASE OneRound
  <2>1. /\ meters' = [meters EXCEPT !.reply = "none", !.moved = FALSE]
        /\ at = "top" /\ at' \in {"finalReport", "closing", "asking"}
        /\ at' = "asking" => ~BudgetIsSpent
    BY <1>1 DEF OneRound, StopForThePerson
  <2>2. meters' \in Meters
    BY <2>1 DEF MetersInv, Meters
  <2>3. at' = "asking" /\ meters.budget > 0 => meters.rounds < meters.budget
    BY <2>1 DEF BudgetIsSpent, MetersInv, Meters
  <2> QED BY <2>1, <2>2, <2>3 DEF MetersInv, Meters
<1>2. CASE FinalReport
  BY <1>2, SameMeters DEF FinalReport
<1>3. CASE HoldTheCall
  BY <1>3, SameMeters DEF HoldTheCall
<1>4. CASE ModelReplies
  <2>1. PICK reply \in Replies :
          meters' = [meters EXCEPT !.reply = reply,
                                   !.rounds = IF meters.budget > 0 THEN @ + 1 ELSE @]
    BY <1>4 DEF ModelReplies
  <2>2. at = "calling" /\ at' = "replied"
    BY <1>4 DEF ModelReplies
  <2>3. meters' \in Meters
    <3> DEFINE rounds == IF meters.budget > 0 THEN meters.rounds + 1 ELSE meters.rounds
    <3>1. rounds \in Nat /\ reply \in Replies \cup {"none"}
      BY DEF MetersInv, Meters
    <3>2. meters' = [meters EXCEPT !.reply = reply, !.rounds = rounds]
      BY <2>1 DEF MetersInv, Meters
    <3> HIDE DEF rounds
    <3> QED BY <3>1, <3>2 DEF MetersInv, Meters
  <2>4. meters'.rounds <= meters'.budget
    BY <2>1, <2>2 DEF MetersInv, Meters
  <2> QED BY <2>1, <2>2, <2>3, <2>4 DEF MetersInv, Meters
<1>5. CASE ModelFails
  <2>1. at' = "closing" /\ UNCHANGED meters
    BY <1>5 DEF ModelFails, StopForThePerson, CutOffHere, FailHere
  <2> QED BY <2>1, SameMeters
<1> QED BY <1>1, <1>2, <1>3, <1>4, <1>5

LEMMA ReplyMeters ==
    ASSUME MetersInv, HearTheReply
    PROVE  MetersInv'
<1> USE Bounds DEF EndingSteps
<1>1. at = "replied" /\ meters.still < RewindAfter
  BY DEF HearTheReply, MetersInv
<1>2. ASSUME meters' \in Meters,
             UNCHANGED <<meters.budget, meters.rounds, meters.nudges, meters.still>>,
             at' \in {"top", "answered", "tools"}
      PROVE  MetersInv'
  BY <1>1, <1>2, OtherMeters
<1>3. CASE ComesBackWithAnError
  BY <1>3, ErrorMeters
<1>4. ASSUME NEW reply, NEW cutOffs \in 0..MaxCutOffsSentBack, Hears(reply, cutOffs)
      PROVE  MetersInv'
  <2>1. CASE /\ meters.failedParses < MaxFailedParses
             /\ meters' = [meters EXCEPT !.cutOffs = cutOffs, !.failedParses = @ + 1]
             /\ GoRoundAgain
    <3>1. meters' \in Meters
      <4>1. meters.failedParses + 1 \in 0..MaxFailedParses
        BY <2>1 DEF MetersInv, Meters
      <4> QED BY <2>1, <4>1 DEF MetersInv, Meters
    <3>2. UNCHANGED <<meters.budget, meters.rounds, meters.nudges, meters.still>>
      BY <2>1 DEF MetersInv, Meters
    <3> QED BY <1>2, <2>1, <3>1, <3>2 DEF GoRoundAgain
  <2>2. CASE /\ meters' = [meters EXCEPT !.cutOffs = cutOffs, !.failedParses = 0,
                              !.reply = IF reply = "question" THEN @ ELSE "answer"]
             /\ at' = "answered"
    <3>1. meters' \in Meters
      <4> DEFINE heard == IF reply = "question" THEN meters.reply ELSE "answer"
      <4>1. heard \in Replies \cup {"none"} /\ 0 \in 0..MaxFailedParses
        <5>1. meters.reply \in Replies \cup {"none"}
          BY DEF MetersInv, Meters
        <5>2. "answer" \in Replies
          BY DEF Replies
        <5> QED BY <5>1, <5>2
      <4>2. meters' = [meters EXCEPT !.cutOffs = cutOffs, !.failedParses = 0, !.reply = heard]
        BY <2>2
      <4> HIDE DEF heard
      <4> QED BY <4>1, <4>2 DEF MetersInv, Meters
    <3>2. UNCHANGED <<meters.budget, meters.rounds, meters.nudges, meters.still>>
      BY <2>2 DEF MetersInv, Meters
    <3> QED BY <1>2, <2>2, <3>1, <3>2
  <2>3. CASE /\ at' = "tools"
             /\ \E calls \in 1..MaxCalls :
                  meters' = [meters EXCEPT !.cutOffs = cutOffs, !.failedParses = 0,
                                           !.calls = calls, !.moved = FALSE]
    <3>1. meters' \in Meters
      <4>1. PICK calls \in 1..MaxCalls :
              meters' = [meters EXCEPT !.cutOffs = cutOffs, !.failedParses = 0,
                                       !.calls = calls, !.moved = FALSE]
        BY <2>3
      <4>2. calls \in 0..MaxCalls /\ 0 \in 0..MaxFailedParses /\ FALSE \in BOOLEAN
        OBVIOUS
      <4> QED BY <4>1, <4>2 DEF MetersInv, Meters
    <3>2. UNCHANGED <<meters.budget, meters.rounds, meters.nudges, meters.still>>
      BY <2>3 DEF MetersInv, Meters
    <3> QED BY <1>2, <2>3, <3>1, <3>2
  <2> QED BY <1>3, <1>4, <2>1, <2>2, <2>3 DEF Hears
<1>5. CASE /\ meters.cutOffs < MaxCutOffsSentBack
           /\ meters' = [meters EXCEPT !.cutOffs = @ + 1]
           /\ GoRoundAgain
  <2>1. meters' \in Meters
    BY <1>5 DEF MetersInv, Meters
  <2>2. UNCHANGED <<meters.budget, meters.rounds, meters.nudges, meters.still>>
    BY <1>5 DEF MetersInv, Meters
  <2> QED BY <1>2, <1>5, <2>1, <2>2 DEF GoRoundAgain
<1>6. CASE \E reply, cutOffs : cutOffs \in 0..MaxCutOffsSentBack /\ Hears(reply, cutOffs)
  BY <1>4, <1>6
<1>7. meters.cutOffs \in 0..MaxCutOffsSentBack /\ 0 \in 0..MaxCutOffsSentBack
  BY DEF MetersInv, Meters
<1> QED BY <1>3, <1>5, <1>6, <1>7 DEF HearTheReply

LEMMA CallMeters ==
    ASSUME MetersInv, OneCall
    PROVE  MetersInv'
<1> USE Bounds DEF EndingSteps
<1>1. at = "tools" /\ meters.calls > 0 /\ meters.still < RewindAfter
  BY DEF OneCall, MetersInv
<1>2. ASSUME meters' \in Meters,
             UNCHANGED <<meters.budget, meters.rounds, meters.nudges, meters.still>>,
             at' \in {"tools", "closing"}
      PROVE  MetersInv'
  BY <1>1, <1>2, OtherMeters
<1>3. CASE RefuseTheCall
  <2>1. meters' \in Meters
    <3>1. meters.calls - 1 \in 0..MaxCalls
      BY <1>1 DEF MetersInv, Meters
    <3>2. meters' = [meters EXCEPT !.calls = meters.calls - 1]
      BY <1>3 DEF RefuseTheCall, CallDone
    <3> QED BY <3>1, <3>2 DEF MetersInv, Meters
  <2>2. UNCHANGED <<meters.budget, meters.rounds, meters.nudges, meters.still>>
    BY <1>3 DEF RefuseTheCall, CallDone, MetersInv, Meters
  <2>3. at' = "tools"
    BY <1>1, <1>3 DEF RefuseTheCall
  <2> QED BY <1>2, <2>1, <2>2, <2>3
<1>4. CASE SameCallAgain
  <2>1. meters' \in Meters
    <3>1. CASE /\ meters.rewinds < RewindsAllowed
               /\ meters' = [meters EXCEPT !.calls = @ - 1, !.rewinds = @ + 1, !.rewindDue = TRUE]
      <4>1. /\ meters.calls - 1 \in 0..MaxCalls
            /\ meters.rewinds + 1 \in 0..RewindsAllowed
            /\ TRUE \in BOOLEAN
        BY <1>1, <3>1 DEF MetersInv, Meters
      <4> QED BY <3>1, <4>1 DEF MetersInv, Meters
    <3>2. CASE meters' = [meters EXCEPT !.calls = 0]
      <4>1. 0 \in 0..MaxCalls
        OBVIOUS
      <4> QED BY <3>2, <4>1 DEF MetersInv, Meters
    <3> QED BY <1>4, <3>1, <3>2 DEF SameCallAgain
  <2>2. UNCHANGED <<meters.budget, meters.rounds, meters.nudges, meters.still>>
    BY <1>4 DEF SameCallAgain, MetersInv, Meters
  <2>3. at' \in {"tools", "closing"}
    BY <1>1, <1>4 DEF SameCallAgain, StopHere, EndAs
  <2> QED BY <1>2, <2>1, <2>2, <2>3
<1>5. CASE RunAndRecord
  <2>1. CASE \E moved \in BOOLEAN :
               meters' = [meters EXCEPT !.calls = @ - 1, !.moved = @ \/ moved]
    <3>1. PICK moved \in BOOLEAN :
            meters' = [meters EXCEPT !.calls = @ - 1, !.moved = @ \/ moved]
      BY <2>1
    <3> DEFINE either == meters.moved \/ moved
    <3>2. meters' = [meters EXCEPT !.calls = @ - 1, !.moved = either] /\ either \in BOOLEAN
      BY <3>1
    <3> HIDE DEF either
    <3>3. meters' \in Meters
      <4>1. meters.calls - 1 \in 0..MaxCalls
        BY <1>1 DEF MetersInv, Meters
      <4>2. meters' = [meters EXCEPT !.calls = meters.calls - 1, !.moved = either]
        BY <3>2
      <4> QED BY <3>2, <4>1, <4>2 DEF MetersInv, Meters
    <3>4. UNCHANGED <<meters.budget, meters.rounds, meters.nudges, meters.still>>
      BY <3>2 DEF MetersInv, Meters
    <3>5. at' \in {"tools", "closing"}
      BY <1>1, <1>5 DEF RunAndRecord, EndAs
    <3> QED BY <1>2, <3>3, <3>4, <3>5
  <2>2. CASE meters' = [meters EXCEPT !.calls = 0] /\ at' = "closing"
    <3>1. meters' \in Meters
      BY <2>2 DEF MetersInv, Meters
    <3>2. UNCHANGED <<meters.budget, meters.rounds, meters.nudges, meters.still>>
      BY <2>2 DEF MetersInv, Meters
    <3> QED BY <1>2, <2>2, <3>1, <3>2
  <2> QED BY <1>5, <2>1, <2>2 DEF RunAndRecord, EndAs
<1>6. CASE ComesBackWithAnError
  BY <1>6, ErrorMeters
<1> QED BY <1>3, <1>4, <1>5, <1>6 DEF OneCall

LEMMA StallMeters ==
    ASSUME MetersInv, CountTheRound \/ RewindIfDue
    PROVE  MetersInv'
<1> USE Bounds DEF EndingSteps
<1>1. ASSUME meters' \in Meters,
             UNCHANGED <<meters.budget, meters.rounds, meters.nudges>>,
             at \in {"tools", "rethinking"},
             at' \in {"reading", "rethinking", "closing"},
             at' = "reading" => meters'.still < RewindAfter
      PROVE  MetersInv'
  BY <1>1, OtherMeters
<1>2. ASSUME NEW still \in 0..RewindAfter, at = "tools", AStall(still)
      PROVE  MetersInv'
  <2>1. meters' \in Meters
    <3>1. CASE meters' = [meters EXCEPT !.still = still]
      BY <3>1 DEF MetersInv, Meters
    <3>2. CASE /\ meters.stalls < StallsBeforeStop - 1
               /\ meters' = [meters EXCEPT !.still = still, !.stalls = @ + 1, !.rewindDue = TRUE]
      <4>1. meters.stalls + 1 \in 0..StallsBeforeStop - 1 /\ TRUE \in BOOLEAN
        BY <3>2 DEF MetersInv, Meters
      <4> QED BY <3>2, <4>1 DEF MetersInv, Meters
    <3> QED BY <1>2, <3>1, <3>2 DEF AStall
  <2>2. UNCHANGED <<meters.budget, meters.rounds, meters.nudges>>
    BY <1>2 DEF AStall, MetersInv, Meters
  <2>3. at' \in {"rethinking", "closing"}
    BY <1>2 DEF AStall, StopHere, EndAs
  <2> QED BY <1>1, <1>2, <2>1, <2>2, <2>3
<1>3. CASE CountTheRound
  <2>1. at = "tools" /\ AfterTheMeter \in {"reading", "rethinking"}
    BY <1>3 DEF CountTheRound, AfterTheMeter
  <2>2. meters.still \in 0..RewindAfter /\ meters.still < RewindAfter
    BY <2>1 DEF MetersInv, Meters
  <2>3. CASE AStall(meters.still)
    BY <1>2, <2>1, <2>2, <2>3
  <2>4. CASE at' = AfterTheMeter /\ meters' = [meters EXCEPT !.still = 0]
    <3>1. meters' \in Meters
      BY <2>4 DEF MetersInv, Meters
    <3>2. UNCHANGED <<meters.budget, meters.rounds, meters.nudges>> /\ meters'.still < RewindAfter
      BY <2>4 DEF MetersInv, Meters
    <3> QED BY <1>1, <2>1, <2>4, <3>1, <3>2
  <2>5. CASE at' = AfterTheMeter /\ UNCHANGED meters
    BY <2>1, <2>5, SameMeters
  <2>6. CASE meters.still + 1 = RewindAfter /\ AStall(RewindAfter)
    BY <1>2, <2>1, <2>6
  <2>7. CASE /\ meters.still + 1 # RewindAfter
             /\ at' = AfterTheMeter /\ meters' = [meters EXCEPT !.still = @ + 1]
    <3>1. meters' \in Meters
      BY <2>2, <2>7 DEF MetersInv, Meters
    <3>2. UNCHANGED <<meters.budget, meters.rounds, meters.nudges>> /\ meters'.still < RewindAfter
      BY <2>2, <2>7 DEF MetersInv, Meters
    <3> QED BY <1>1, <2>1, <2>7, <3>1, <3>2
  <2> QED BY <1>3, <2>3, <2>4, <2>5, <2>6, <2>7 DEF CountTheRound
<1>4. CASE RewindIfDue
  <2>1. meters' \in Meters
    <3>1. FALSE \in BOOLEAN /\ 0 \in 0..RewindAfter
      OBVIOUS
    <3>2. meters' = [meters EXCEPT !.rewindDue = FALSE, !.still = 0]
      BY <1>4 DEF RewindIfDue
    <3> QED BY <3>1, <3>2 DEF MetersInv, Meters
  <2>2. UNCHANGED <<meters.budget, meters.rounds, meters.nudges>> /\ meters'.still < RewindAfter
    BY <1>4 DEF RewindIfDue, MetersInv, Meters
  <2> QED BY <1>1, <1>4, <2>1, <2>2 DEF RewindIfDue
<1> QED BY <1>3, <1>4

LEMMA DecisionMeters ==
    ASSUME MetersInv, ReadDelivered \/ EndOfTurn \/ CloseOrWait
    PROVE  MetersInv'
<1> USE Bounds DEF EndingSteps
<1>1. at \in {"reading", "answered", "deciding"}
  BY DEF ReadDelivered, EndOfTurn, CloseOrWait
<1>2. CASE UNCHANGED meters /\ at' \in {"closing", "top", "deciding"}
  BY <1>1, <1>2, SameMeters
<1>3. CASE ComesBackWithAnError
  BY <1>3, ErrorMeters
<1>5. CASE SendBackToWork
  <2>0. /\ meters' = [meters EXCEPT !.nudges = @ + 1]
        /\ IF meters.nudges + 1 > MaxDoneCheckNudges THEN FailHere ELSE GoRoundAgain
    BY <1>5 DEF SendBackToWork
  <2>1. meters.nudges \in 0..MaxDoneCheckNudges
    BY <1>1 DEF MetersInv, Meters
  <2>2. meters' \in Meters
    <3>1. meters.nudges + 1 \in 0..MaxDoneCheckNudges + 1
      BY <2>1
    <3> QED BY <2>0, <3>1 DEF MetersInv, Meters
  <2>3. /\ at' \in {"closing", "top"}
        /\ at' = "top" => meters.nudges + 1 <= MaxDoneCheckNudges
    BY <2>0, <2>1 DEF FailHere, EndAs, GoRoundAgain
  <2>4. /\ meters'.nudges = meters.nudges + 1
        /\ meters'.rounds = meters.rounds /\ meters'.budget = meters.budget
        /\ meters'.still = meters.still
    BY <2>0 DEF MetersInv, Meters
  <2> QED BY <1>1, <2>2, <2>3, <2>4 DEF MetersInv
<1>6. CASE ReadDelivered \/ EndOfTurn
  BY <1>2, <1>3, <1>6 DEF ReadDelivered, EndOfTurn, ReadTheMessages, StopForThePerson,
                          EndAs, GoRoundAgain, HandTheWorkToTheJob
<1>7. CASE CloseOrWait
  <2>1. CASE AnswerWithNoRecord
    BY <1>2, <2>1 DEF AnswerWithNoRecord, WaitHere, EndAs
  <2>2. CASE AsksBeforeADoneList
    BY <1>2, <1>5, <2>2 DEF AsksBeforeADoneList, WaitHere, EndAs
  <2>3. CASE DoneCheckPasses
    BY <1>2, <2>3 DEF DoneCheckPasses, EndAs
  <2>4. CASE DoneCheckRefuses
    <3>1. CASE WaitHere
      BY <1>2, <3>1 DEF WaitHere, EndAs
    <3>2. CASE SendBackToWork
      BY <1>5, <3>2
    <3> QED BY <2>4, <3>1, <3>2 DEF DoneCheckRefuses
  <2>5. CASE ACheckRefuses
    BY <1>2, <2>5 DEF ACheckRefuses, WaitHere, EndAs, GoRoundAgain
  <2> QED BY <1>3, <1>7, <2>1, <2>2, <2>3, <2>4, <2>5 DEF CloseOrWait
<1> QED BY <1>6, <1>7

LEMMA MetersKept ==
    ASSUME MetersInv, [Next]_vars
    PROVE  MetersInv'
<1>1. CASE UNCHANGED vars
  BY <1>1, SameMeters DEF vars
<1>2. CASE OneRound \/ FinalReport \/ HoldTheCall \/ ModelReplies \/ ModelFails
  BY <1>2, RoundMeters
<1>3. CASE HearTheReply                 BY <1>3, ReplyMeters
<1>4. CASE OneCall                      BY <1>4, CallMeters
<1>5. CASE CountTheRound \/ RewindIfDue BY <1>5, StallMeters
<1>6. CASE ReadDelivered \/ EndOfTurn \/ CloseOrWait
  BY <1>6, DecisionMeters
<1>7. CASE CloseTheRecord
  <2>1. CASE ComesBackWithAnError
    BY <2>1, ErrorMeters
  <2>2. CASE meters' = NoMeters(0)
    BY <2>2, FreshMeters
  <2> QED BY <1>7, <2>1, <2>2 DEF CloseTheRecord
<1>8. CASE Review
  BY <1>8, SameMeters DEF Review, EndingSteps
<1>9. CASE Report
  <2>1. CASE ComesBackWithAnError
    BY <2>1, ErrorMeters
  <2>2. CASE meters' = NoMeters(0)
    BY <2>2, FreshMeters
  <2> QED BY <1>9, <2>1, <2>2 DEF Report, NothingToSay, TheReplyCannotBeWritten, TheSendFails,
                                  ThePersonIsTold, Returns
<1>10. CASE NewRun
  <2>1. CASE UNCHANGED meters /\ at = "setup" /\ at' = "top"
    BY <2>1, SameMeters DEF EndingSteps
  <2>2. CASE meters' = NoMeters(0)
    BY <2>2, FreshMeters
  <2> QED BY <1>10, <2>1, <2>2 DEF NewRun, Returns
<1>11. CASE Run
  BY <1>11, FreshMeters DEF Run
<1>12. CASE Kill
  BY <1>12, FreshMeters DEF Kill
<1>13. CASE Stop \/ Deliver \/ TheDeadlinePasses
  BY <1>13, SameMeters DEF Stop, Deliver, TheDeadlinePasses
<1>14. CASE Restart
  BY <1>14, SameMeters DEF Restart, EndingSteps
<1> QED BY <1>1, <1>2, <1>3, <1>4, <1>5, <1>6, <1>7, <1>8, <1>9, <1>10, <1>11, <1>12, <1>13,
           <1>14 DEF Next, TheLoop

-----------------------------------------------------------------------------
(* What the other variables hold.                                            *)

RefusedInv == refused \in 0..MaxRefusals

\* Every write goes to the log, which takes it or refuses it; a run and a start
\* of the program begin the count again.
LEMMA RefusedKept ==
    ASSUME RefusedInv, [Next]_vars
    PROVE  RefusedInv'
<1>1. CASE LogTakesIt
  BY <1>1 DEF LogTakesIt, RefusedInv
<1>2. CASE LogRefuses
  BY <1>2, Bounds DEF LogRefuses, RefusedInv
<1>3. CASE refused' = 0
  BY <1>3, Bounds DEF RefusedInv
<1>4. \/ LogTakesIt \/ LogRefuses \/ refused' = 0
  <2> USE DEF LogTakesIt, TheTurnWrites, TheTurnCannotWrite, TheEndingWrites, TheEndingCannotWrite
  <2>1. CASE UNCHANGED vars
    BY <2>1 DEF vars
  <2>2. CASE \/ OneRound \/ FinalReport \/ HoldTheCall \/ ModelReplies \/ ModelFails
             \/ CountTheRound \/ RewindIfDue \/ Review
    BY <2>2 DEF OneRound, FinalReport, HoldTheCall, ModelReplies, ModelFails, CountTheRound,
                RewindIfDue, Review
  <2>3. CASE HearTheReply
    BY <2>3 DEF HearTheReply, Hears
  <2>4. CASE OneCall
    BY <2>4 DEF OneCall, RefuseTheCall, SameCallAgain, RunAndRecord
  <2>5. CASE ReadDelivered \/ EndOfTurn
    BY <2>5 DEF ReadDelivered, EndOfTurn, ReadTheMessages, HandTheWorkToTheJob
  <2>6. CASE CloseOrWait
    BY <2>6 DEF CloseOrWait, AnswerWithNoRecord, AsksBeforeADoneList, DoneCheckPasses,
                DoneCheckRefuses, ACheckRefuses
  <2>7. CASE NewRun \/ CloseTheRecord \/ Report \/ Restart
    BY <2>7 DEF NewRun, CloseTheRecord, Report, NothingToSay, TheReplyCannotBeWritten,
                TheSendFails, ThePersonIsTold, Restart
  <2>8. CASE Run \/ Stop \/ Deliver \/ TheDeadlinePasses \/ Kill
    BY <2>8 DEF Run, Stop, Deliver, TheDeadlinePasses, Kill
  <2> QED BY <2>1, <2>2, <2>3, <2>4, <2>5, <2>6, <2>7, <2>8 DEF Next, TheLoop
<1> QED BY <1>1, <1>2, <1>3, <1>4

\* What the person, the done list and the report hold.
PersonInv ==
    /\ task \in 0..MaxTasks
    /\ doneList \in {"none", "open", "proved"}
    /\ told \in 0..1
    /\ untold \in {"none", "blank", "unsent"}
    /\ stopWanted \in BOOLEAN
    /\ callCancelled \in BOOLEAN
    /\ queued \in Seq({"words", "stop"})
    /\ Len(queued) <= QueuedMessages
    /\ movedOn \in BOOLEAN

LEMMA PersonKept ==
    ASSUME PersonInv, RunInv, [Next]_vars
    PROVE  PersonInv'
<1> USE Bounds DEF PersonInv, thePerson, theRecord, theReport
<1>0. <<>> \in Seq({"words", "stop"}) /\ Len(<<>>) <= QueuedMessages
  OBVIOUS
<1>1. CASE UNCHANGED vars
  BY <1>1 DEF vars
<1>2. CASE \/ OneRound \/ FinalReport \/ HoldTheCall \/ ModelReplies \/ ModelFails
           \/ CountTheRound \/ RewindIfDue \/ Review
  BY <1>2 DEF OneRound, FinalReport, HoldTheCall, ModelReplies, ModelFails, CountTheRound,
              RewindIfDue, Review
<1>3. CASE HearTheReply
  BY <1>3 DEF HearTheReply, Hears
<1>4. CASE OneCall
  BY <1>4 DEF OneCall, RefuseTheCall, SameCallAgain, RunAndRecord
<1>5. CASE ReadDelivered \/ EndOfTurn
  <2>1. queued' = <<>> /\ UNCHANGED <<task, theReport, stopWanted, callCancelled>>
    BY <1>5 DEF ReadDelivered, EndOfTurn
  <2>2. doneList' \in {"none", "open", "proved"} /\ movedOn' \in BOOLEAN
    BY <1>5 DEF ReadDelivered, EndOfTurn, ReadTheMessages, HandTheWorkToTheJob
  <2> QED BY <1>0, <2>1, <2>2
<1>6. CASE CloseOrWait
  BY <1>6 DEF CloseOrWait, AnswerWithNoRecord, AsksBeforeADoneList, DoneCheckPasses,
              DoneCheckRefuses, ACheckRefuses, SendBackToWork
<1>7. CASE NewRun \/ CloseTheRecord \/ Restart
  BY <1>7 DEF NewRun, CloseTheRecord, Restart
<1>8. CASE Report
  <2>1. told = 0 /\ untold = "none"
    BY <1>8 DEF Report, RunInv, EndingSteps
  <2>2. told' \in {0, 1} /\ untold' \in {"none", "blank", "unsent"}
    BY <1>8, <2>1 DEF Report, NothingToSay, TheReplyCannotBeWritten, TheSendFails, ThePersonIsTold
  <2> QED BY <1>8, <2>2 DEF Report
<1>9. CASE Run
  <2>1. /\ task' \in 1..MaxTasks
        /\ told' = 0 /\ untold' = "none" /\ stopWanted' = FALSE
        /\ callCancelled' = FALSE /\ movedOn' = FALSE
        /\ UNCHANGED <<doneList, queued>>
    BY <1>9 DEF Run, Tasks
  <2>2. task' \in 0..MaxTasks
    BY <2>1
  <2>3. 0 \in 0..1 /\ FALSE \in BOOLEAN
    OBVIOUS
  <2> QED BY <2>1, <2>2, <2>3
<1>10. CASE Stop \/ TheDeadlinePasses
  BY <1>10 DEF Stop, TheDeadlinePasses
<1>11. CASE Deliver
  BY <1>11 DEF Deliver
<1>12. CASE Kill
  <2>1. /\ told' = 0 /\ untold' = "none" /\ stopWanted' = FALSE
        /\ callCancelled' = FALSE /\ movedOn' = FALSE
        /\ queued' = <<>>
        /\ UNCHANGED <<doneList, task>>
    BY <1>12 DEF Kill
  <2>2. 0 \in 0..1 /\ FALSE \in BOOLEAN
    OBVIOUS
  <2> QED BY <1>0, <2>1, <2>2
<1> QED BY <1>1, <1>2, <1>3, <1>4, <1>5, <1>6, <1>7, <1>8, <1>9, <1>10, <1>11, <1>12
        DEF Next, TheLoop

\* What is being ended, and what the screen remembers.
OutcomeInv ==
    /\ memory \in [number : 0..MaxTasks, status : Standings]
    /\ ending \in [status : Standings, review : BOOLEAN, last : BOOLEAN]

LEMMA ReturningKeepsIt ==
    ASSUME OutcomeInv, task \in 0..MaxTasks, NEW status \in Standings, Returns(status)
    PROVE  OutcomeInv'
  BY Bounds DEF OutcomeInv, Returns, Standings, NoEnding

LEMMA EndingAsKeepsIt ==
    ASSUME OutcomeInv, NEW status \in Standings, NEW review \in BOOLEAN, EndAs(status, review)
    PROVE  OutcomeInv'
  BY DEF OutcomeInv, EndAs

LEMMA AnErrorKeepsIt ==
    ASSUME OutcomeInv, task \in 0..MaxTasks, cut \in BOOLEAN, ComesBackWithAnError
    PROVE  OutcomeInv'
<1>0. (~cut) \in BOOLEAN
  OBVIOUS
<1>1. "none" \in Standings /\ "failed" \in Standings /\ (~cut) \in BOOLEAN /\ TRUE \in BOOLEAN
  BY <1>0 DEF Standings
<1>2. CASE Returns("none")
  BY <1>1, <1>2, ReturningKeepsIt
<1>3. CASE ending' = [status |-> "failed", review |-> ~cut, last |-> TRUE] /\ UNCHANGED memory
  BY <1>1, <1>3 DEF OutcomeInv
<1> QED BY <1>2, <1>3 DEF ComesBackWithAnError

\* A set of task numbers that has any has a newest, and Max finds it.
LEMMA NewestOfTasks ==
    ASSUME NEW S \in SUBSET (0..MaxTasks), S # {}
    PROVE  Max(S) \in S
<1> DEFINE T == {MaxTasks - t : t \in S}
           R == OpToRel(<, Nat)
<1>1. MaxTasks \in Nat /\ \A t \in S : t \in Nat /\ t <= MaxTasks
  BY Bounds
<1>2. IsWellFoundedOn(R, Nat)
  BY NatLessThanWellFounded
<1>3. T \in SUBSET Nat /\ T # {}
  <2>1. \A t \in S : MaxTasks - t \in Nat
    BY <1>1
  <2> QED BY <2>1
<1>4. PICK least \in T : \A n \in T : ~(<<n, least>> \in R)
  <2> HIDE DEF R, T
  <2> QED BY <1>2, <1>3, WFMin
<1>5. \A n \in T : ~(n < least)
  BY <1>3, <1>4 DEF OpToRel
<1>6. PICK newest \in S : least = MaxTasks - newest
  BY <1>4
<1>7. \A t \in S : newest >= t
  <2> TAKE t \in S
  <2>1. ~(MaxTasks - t < MaxTasks - newest)
    BY <1>5, <1>6
  <2> QED BY <1>1, <2>1
<1> QED BY <1>6, <1>7 DEF Max

LEMMA OutcomeKept ==
    ASSUME OutcomeInv, LoopInv, task \in 0..MaxTasks, [Next]_vars
    PROVE  OutcomeInv'
<1> USE DEF EndAs
<1>0. (~cut) \in BOOLEAN
  OBVIOUS
<1>1. cut \in BOOLEAN /\ (~cut) \in BOOLEAN /\ record \in [Tasks -> Standings]
  BY <1>0 DEF LoopInv, TypesInv
<1>2. CASE UNCHANGED <<memory, ending>>
  BY <1>2 DEF OutcomeInv
<1>3. CASE \E status \in Ends, review \in BOOLEAN : EndAs(status, review)
  <2>1. Ends \subseteq Standings
    BY DEF Ends, Standings
  <2> HIDE DEF EndAs
  <2> QED BY <1>3, <2>1, EndingAsKeepsIt
<1>4. CASE ComesBackWithAnError
  BY <1>1, <1>4, AnErrorKeepsIt
<1> DEFINE AKind == \/ UNCHANGED <<memory, ending>>
                    \/ \E status \in Ends, review \in BOOLEAN : EndAs(status, review)
                    \/ ComesBackWithAnError
<1>5. AKind => OutcomeInv'
  BY <1>2, <1>3, <1>4
<1> HIDE DEF AKind
<1>6. StopForThePerson \/ CutOffHere \/ FailHere \/ StopHere \/ WaitHere => AKind
  <2> HIDE DEF EndAs
  <2>1. {"stopped", "failed", "done", "waiting"} \subseteq Ends /\ TRUE \in BOOLEAN /\ FALSE \in BOOLEAN
    BY DEF Ends
  <2> QED BY <1>1, <2>1 DEF AKind, StopForThePerson, CutOffHere, FailHere, StopHere, WaitHere
<1>7. \A review \in BOOLEAN : EndAs("stopped", review) \/ EndAs("done", review) => AKind
  <2> HIDE DEF EndAs
  <2> QED BY DEF AKind, Ends
<1>8. UNCHANGED <<memory, ending>> \/ ComesBackWithAnError => AKind
  BY DEF AKind
<1> HIDE DEF EndAs
<1>9. CASE UNCHANGED vars
  BY <1>5, <1>8, <1>9 DEF vars
<1>10. CASE \/ OneRound \/ FinalReport \/ HoldTheCall \/ ModelReplies \/ ModelFails
            \/ CountTheRound \/ RewindIfDue \/ Review
  BY <1>5, <1>6, <1>7, <1>8, <1>10 DEF OneRound, FinalReport, HoldTheCall, ModelReplies,
     ModelFails, CountTheRound, AStall, RewindIfDue, Review
<1>11. CASE HearTheReply
  BY <1>5, <1>8, <1>11 DEF HearTheReply, Hears, GoRoundAgain
<1>12. CASE OneCall
  <2>1. CASE RunAndRecord
    BY <1>5, <1>7, <1>8, <2>1 DEF RunAndRecord
  <2> QED BY <1>5, <1>6, <1>8, <1>12, <2>1 DEF OneCall, RefuseTheCall, SameCallAgain
<1>13. CASE ReadDelivered \/ EndOfTurn
  BY <1>5, <1>6, <1>7, <1>8, <1>13 DEF ReadDelivered, EndOfTurn, ReadTheMessages,
     HandTheWorkToTheJob, GoRoundAgain
<1>14. CASE CloseOrWait
  BY <1>5, <1>6, <1>7, <1>8, <1>14 DEF CloseOrWait, AnswerWithNoRecord, AsksBeforeADoneList,
     DoneCheckPasses, DoneCheckRefuses, ACheckRefuses, SendBackToWork, GoRoundAgain
<1>15. CASE CloseTheRecord
  BY <1>5, <1>8, <1>15 DEF CloseTheRecord
<1>16. CASE Report
  <2>1. CASE ComesBackWithAnError
    BY <1>5, <1>8, <2>1
  <2>2. CASE Returns(ending.status)
    <3>1. ending.status \in Standings
      BY DEF OutcomeInv
    <3> QED BY <2>2, <3>1, ReturningKeepsIt
  <2> QED BY <1>16, <2>1, <2>2 DEF Report, NothingToSay, TheReplyCannotBeWritten, TheSendFails,
                                   ThePersonIsTold
<1>17. CASE NewRun
  <2>1. CASE UNCHANGED <<memory, ending>>
    BY <1>5, <1>8, <2>1
  <2>2. CASE Returns("none")
    BY <2>2, ReturningKeepsIt DEF Standings
  <2> QED BY <1>17, <2>1, <2>2 DEF NewRun
<1>18. CASE Run \/ Stop \/ Deliver \/ TheDeadlinePasses
  BY <1>5, <1>8, <1>18 DEF Run, Stop, Deliver, TheDeadlinePasses
<1>19. CASE Kill
  BY <1>19, Bounds DEF Kill, OutcomeInv, NoEnding, Standings
<1>20. CASE Restart
  <2> DEFINE Unfinished == {t \in Tasks : record[t] \in PickedUp \cup {"running"}}
             newest == Max({0} \cup Unfinished)
  <2>1. newest \in {0} \cup Unfinished
    <3>1. {0} \cup Unfinished \in SUBSET (0..MaxTasks)
      BY Bounds DEF Tasks
    <3> HIDE DEF Unfinished
    <3> QED BY <3>1, NewestOfTasks
  <2>2. CASE UNCHANGED <<memory, ending>>
    BY <1>5, <1>8, <2>2
  <2>3. CASE /\ newest # 0
             /\ UNCHANGED ending
             /\ memory' = [number |-> newest,
                           status |-> IF record[newest] = "running" THEN "stopped"
                                                                    ELSE record[newest]]
    <3>1. newest \in Tasks
      BY <2>1, <2>3
    <3>2. newest \in 0..MaxTasks /\ record[newest] \in Standings /\ "stopped" \in Standings
      BY <1>1, <3>1, Bounds DEF Tasks, Standings
    <3> HIDE DEF newest
    <3> QED BY <2>3, <3>2 DEF OutcomeInv
  <2> QED BY <1>20, <2>2, <2>3 DEF Restart
<1> QED BY <1>9, <1>10, <1>11, <1>12, <1>13, <1>14, <1>15, <1>16, <1>17, <1>18, <1>19, <1>20
        DEF Next, TheLoop

(* The bounds hold for every value of the limits: no run plays more rounds   *)
(* than its budget, sends its model back more often than it may (run.go:33,  *)
(* donecheck.go:47, cutoff.go:23, repair.go:31), clears the conversation or  *)
(* stalls more often than the guards allow (guard.go:46, progress.go:35), or *)
(* reports twice.                                                            *)
THEOREM TurnStaysInItsBounds == Spec => []TurnTypeOK
<1> DEFINE Inv == LoopInv /\ MetersInv /\ RefusedInv /\ PersonInv /\ OutcomeInv
<1>1. Init => Inv
  <2> SUFFICES ASSUME Init
               PROVE  Inv
    OBVIOUS
  <2>1. LoopInv
    BY LoopInvInitially
  <2>2. MetersInv
    BY Bounds DEF Init, MetersInv, NoMeters, Meters
  <2>3. <<>> \in Seq({"words", "stop"}) /\ Len(<<>>) <= QueuedMessages
    BY Bounds
  <2>4. RefusedInv /\ PersonInv
    <3>1. /\ task = 0 /\ doneList = "none" /\ told = 0 /\ untold = "none"
          /\ queued = <<>> /\ refused = 0
          /\ stopWanted = FALSE /\ callCancelled = FALSE /\ movedOn = FALSE
      BY DEF Init
    <3>2. 0 \in 0..1 /\ 0 \in 0..MaxTasks /\ 0 \in 0..MaxRefusals /\ FALSE \in BOOLEAN
      BY Bounds
    <3> QED BY <2>3, <3>1, <3>2 DEF RefusedInv, PersonInv
  <2>5. OutcomeInv
    BY Bounds DEF Init, OutcomeInv, NoEnding, Standings
  <2> QED BY <2>1, <2>2, <2>4, <2>5
<1>2. Inv /\ [Next]_vars => Inv'
  <2> SUFFICES ASSUME Inv, [Next]_vars
               PROVE  Inv'
    OBVIOUS
  <2>1. LoopInv'
    BY LoopInvKept
  <2>2. MetersInv'
    BY MetersKept
  <2>3. RefusedInv'
    BY RefusedKept
  <2>4. PersonInv'
    BY PersonKept DEF LoopInv
  <2>5. OutcomeInv'
    BY OutcomeKept DEF PersonInv
  <2> QED BY <2>1, <2>2, <2>3, <2>4, <2>5
<1>3. Inv => TurnTypeOK
  <2> SUFFICES ASSUME Inv
               PROVE  TurnTypeOK
    OBVIOUS
  <2>1. at \in Steps
    BY DEF LoopInv, TypesInv, Steps, RoundSteps, EndingSteps
  <2> QED BY <2>1 DEF TurnTypeOK, LoopInv, TypesInv, MetersInv, RefusedInv, PersonInv, OutcomeInv
<1> QED BY <1>1, <1>2, <1>3, PTL DEF Spec
=============================================================================
