------------------------ MODULE MessageQueue_proofs ------------------------
(***************************************************************************)
(* What MessageQueue guarantees for every capacity and every number of     *)
(* messages: its types, its bound, that what is finished stays finished,   *)
(* and that the table implements AtLeastOnceQueue.                         *)
(***************************************************************************)
EXTENDS MessageQueue, FiniteSetTheorems, TLAPS

\* The inductive invariant.  The bound needs the types, because a new row's
\* number is new only if the table's numbers never ran ahead of the counter.
QInv == QTypeOK /\ QueueIsBounded /\ TakenIsCounted

\* The unfinished rows are among the numbers given out, so there are finitely
\* many of them (countHeld, queue.go:266).
LEMMA HeldIsFinite ==
    ASSUME QTypeOK
    PROVE  /\ Held \subseteq 1 .. lastSequence
           /\ IsFiniteSet(Held)
           /\ lastSequence \in Nat
<1>1. lastSequence \in Nat
  BY MaxSequenceAssumption DEF QTypeOK
<1>2. Held \subseteq 1 .. lastSequence
  BY DEF QTypeOK, Held
<1>3. IsFiniteSet(1 .. lastSequence)
  BY <1>1, FS_Interval
<1>4. IsFiniteSet(Held)
  BY <1>2, <1>3, FS_Subset
<1> QED
  BY <1>1, <1>2, <1>4

\* What each method does to the set of unfinished rows.
LEMMA AddHolds ==
    ASSUME QTypeOK, NEW kind \in Kinds, Add(kind)
    PROVE  /\ Held' = Held \cup {lastSequence + 1}
           /\ lastSequence + 1 \notin Held
           /\ \A s \in DOMAIN rows : rows'[s] = rows[s]
           /\ DOMAIN rows' = DOMAIN rows \cup {lastSequence + 1}
           /\ rows'[lastSequence + 1] =
                [kind |-> kind, state |-> "waiting", takenCount |-> 0]
<1>1. lastSequence \in Nat /\ lastSequence + 1 \notin DOMAIN rows
  BY HeldIsFinite DEF QTypeOK
<1>2. DOMAIN rows' = DOMAIN rows \cup {lastSequence + 1}
  BY DEF Add
<1>3. \A s \in DOMAIN rows : rows'[s] = rows[s]
  BY <1>1 DEF Add
<1>4. rows'[lastSequence + 1] = [kind |-> kind, state |-> "waiting", takenCount |-> 0]
  BY DEF Add
<1>5. Held' = Held \cup {lastSequence + 1}
  BY <1>2, <1>3, <1>4 DEF Held
<1> QED
  BY <1>1, <1>2, <1>3, <1>4, <1>5 DEF Held

LEMMA TakeHolds ==
    ASSUME QTypeOK, NEW s \in Numbers, Take(s)
    PROVE  /\ Held' = Held
           /\ DOMAIN rows' = DOMAIN rows
           /\ s \in Waiting
           /\ \A t \in DOMAIN rows : t # s => rows'[t] = rows[t]
           /\ rows'[s] = [kind |-> rows[s].kind, state |-> "taken",
                          takenCount |-> rows[s].takenCount + 1]
<1>1. s \in DOMAIN rows /\ rows[s].state = "waiting" /\ rows[s] \in Row
  BY DEF Take, IsOldestWaiting, Waiting, InState, QTypeOK
<1>2. DOMAIN rows' = DOMAIN rows
  BY DEF Take
<1>3. \A t \in DOMAIN rows : t # s => rows'[t] = rows[t]
  BY DEF Take
<1>4. rows'[s] = [kind |-> rows[s].kind, state |-> "taken",
                  takenCount |-> rows[s].takenCount + 1]
  BY <1>1 DEF Take, Row
<1>5. Held' = Held
  BY <1>1, <1>2, <1>3, <1>4 DEF Held
<1> QED
  BY <1>1, <1>2, <1>3, <1>4, <1>5 DEF Waiting, InState

LEMMA DoneHolds ==
    ASSUME QTypeOK, NEW s \in Numbers, Done(s)
    PROVE  /\ Held' = Held \ {s}
           /\ s \in Held
           /\ DOMAIN rows' = DOMAIN rows
           /\ \A t \in DOMAIN rows : t # s => rows'[t] = rows[t]
           /\ rows'[s] = [kind |-> rows[s].kind, state |-> "done",
                          takenCount |-> rows[s].takenCount]
<1>1. s \in Held /\ s \in DOMAIN rows /\ rows[s] \in Row
  BY DEF Done, Held, QTypeOK
<1>2. DOMAIN rows' = DOMAIN rows
  BY DEF Done
<1>3. \A t \in DOMAIN rows : t # s => rows'[t] = rows[t]
  BY DEF Done
<1>4. rows'[s] = [kind |-> rows[s].kind, state |-> "done",
                  takenCount |-> rows[s].takenCount]
  BY <1>1 DEF Done, Row
<1>5. Held' = Held \ {s}
  BY <1>1, <1>2, <1>3, <1>4 DEF Held
<1> QED
  BY <1>1, <1>2, <1>3, <1>4, <1>5

LEMMA OpenHolds ==
    ASSUME QTypeOK, OpenQueue
    PROVE  /\ Held' = Held
           /\ DOMAIN rows' = Held
           /\ \A t \in Held : rows'[t] = [kind |-> rows[t].kind, state |-> "waiting",
                                          takenCount |-> rows[t].takenCount]
<1>1. \A t \in Held : rows[t] \in Row
  BY DEF Held, QTypeOK
<1>2. DOMAIN rows' = Held
  BY DEF OpenQueue, Recovered
<1>3. \A t \in Held : rows'[t] = [kind |-> rows[t].kind, state |-> "waiting",
                                  takenCount |-> rows[t].takenCount]
  BY <1>1 DEF OpenQueue, Recovered, Row
<1>4. Held' = {t \in DOMAIN rows' : rows'[t].state # "done"}
  BY DEF Held
<1>5. ASSUME NEW t \in Held PROVE rows'[t].state = "waiting"
  <2>1. rows'[t] = [kind |-> rows[t].kind, state |-> "waiting",
                    takenCount |-> rows[t].takenCount]
    BY <1>3
  <2> QED
    BY <2>1
<1>6. Held' = Held
  BY <1>2, <1>4, <1>5
<1> QED
  BY <1>2, <1>3, <1>6

-----------------------------------------------------------------------------

LEMMA QInitHolds == QInit => QInv
<1> SUFFICES ASSUME QInit PROVE QInv
  OBVIOUS
<1>1. DOMAIN rows = {} /\ lastSequence = 0
  BY DEF QInit
<1>2. QTypeOK
  <2>1. lastSequence \in 0 .. MaxSequence
    BY <1>1, MaxSequenceAssumption
  <2>2. DOMAIN rows \subseteq 1 .. lastSequence /\ \A s \in DOMAIN rows : rows[s] \in Row
    BY <1>1
  <2>3. open \in {"open", "closed", "down"} /\ nudge \in BOOLEAN
    BY DEF QInit
  <2> QED
    BY <2>1, <2>2, <2>3 DEF QTypeOK
<1>3. Held = {} /\ InState("taken") = {}
  BY <1>1 DEF Held, InState
<1>4. Cardinality(Held) <= Capacity
  BY <1>3, FS_EmptySet, CapacityAssumption
<1> QED
  BY <1>2, <1>3, <1>4 DEF QInv, QueueIsBounded, TakenIsCounted

\* A row put in the place of another leaves a table of rows.
LEMMA OneRowRewritten ==
    ASSUME QTypeOK, NEW s \in DOMAIN rows, NEW new \in Row,
           DOMAIN rows' = DOMAIN rows,
           \A t \in DOMAIN rows : t # s => rows'[t] = rows[t],
           rows'[s] = new,
           UNCHANGED <<lastSequence, open, nudge>>
    PROVE  QTypeOK'
<1>1. \A t \in DOMAIN rows : rows[t] \in Row
  BY DEF QTypeOK
<1>2. ASSUME NEW t \in DOMAIN rows' PROVE rows'[t] \in Row
  <2>1. CASE t = s
    BY <2>1
  <2>2. CASE t # s
    BY <1>1, <2>2
  <2> QED
    BY <2>1, <2>2
<1>3. DOMAIN rows' \subseteq 1 .. lastSequence'
  BY DEF QTypeOK
<1> QED
  BY <1>2, <1>3 DEF QTypeOK

\* The types survive every method: the hard part is Add's new number and the
\* rows prepare leaves.
LEMMA QTypeStep ==
    ASSUME QTypeOK, [QNext]_queueVars
    PROVE  QTypeOK'
<1>1. lastSequence \in Nat
  BY HeldIsFinite
<1>2. ASSUME NEW kind \in Kinds, Add(kind) PROVE QTypeOK'
  <2>1. lastSequence' = lastSequence + 1 /\ lastSequence' \in 0 .. MaxSequence
    BY <1>1, <1>2, MaxSequenceAssumption DEF Add, QTypeOK
  <2>2. /\ DOMAIN rows' = DOMAIN rows \cup {lastSequence + 1}
        /\ \A s \in DOMAIN rows : rows'[s] = rows[s]
        /\ rows'[lastSequence + 1] =
             [kind |-> kind, state |-> "waiting", takenCount |-> 0]
    BY <1>2, AddHolds
  <2>3. DOMAIN rows' \subseteq 1 .. lastSequence'
    <3>1. DOMAIN rows \subseteq 1 .. lastSequence
      BY DEF QTypeOK
    <3> QED
      BY <1>1, <2>1, <2>2, <3>1
  <2>4. rows'[lastSequence + 1] \in Row
    <3>1. [kind |-> kind, state |-> "waiting", takenCount |-> 0] \in Row
      BY DEF Row, RowStates
    <3> QED
      BY <2>2, <3>1
  <2>5. \A s \in DOMAIN rows : rows[s] \in Row
    BY DEF QTypeOK
  <2>6. ASSUME NEW s \in DOMAIN rows' PROVE rows'[s] \in Row
    BY <2>2, <2>4, <2>5
  <2>7. open' \in {"open", "closed", "down"} /\ nudge' \in BOOLEAN
    BY <1>2 DEF Add, QTypeOK
  <2> QED
    BY <2>1, <2>3, <2>6, <2>7 DEF QTypeOK
<1>3. ASSUME NEW s \in Numbers, Take(s) PROVE QTypeOK'
  <2>1. /\ DOMAIN rows' = DOMAIN rows
        /\ s \in Waiting
        /\ \A t \in DOMAIN rows : t # s => rows'[t] = rows[t]
        /\ rows'[s] = [kind |-> rows[s].kind, state |-> "taken",
                        takenCount |-> rows[s].takenCount + 1]
    BY <1>3, TakeHolds
  <2>2. s \in DOMAIN rows /\ \A t \in DOMAIN rows : rows[t] \in Row
    BY <2>1 DEF Waiting, InState, QTypeOK
  <2>3. [kind |-> rows[s].kind, state |-> "taken",
         takenCount |-> rows[s].takenCount + 1] \in Row
    BY <2>2 DEF Row, RowStates
  <2>4. UNCHANGED <<lastSequence, open, nudge>>
    BY <1>3 DEF Take
  <2> QED
    BY <2>1, <2>2, <2>3, <2>4, OneRowRewritten
<1>4. ASSUME NEW s \in Numbers, Done(s) PROVE QTypeOK'
  <2>1. /\ DOMAIN rows' = DOMAIN rows
        /\ s \in Held
        /\ \A t \in DOMAIN rows : t # s => rows'[t] = rows[t]
        /\ rows'[s] = [kind |-> rows[s].kind, state |-> "done",
                        takenCount |-> rows[s].takenCount]
    BY <1>4, DoneHolds
  <2>2. s \in DOMAIN rows /\ \A t \in DOMAIN rows : rows[t] \in Row
    BY <2>1 DEF Held, QTypeOK
  <2>3. [kind |-> rows[s].kind, state |-> "done",
         takenCount |-> rows[s].takenCount] \in Row
    BY <2>2 DEF Row, RowStates
  <2>4. UNCHANGED <<lastSequence, open, nudge>>
    BY <1>4 DEF Done
  <2> QED
    BY <2>1, <2>2, <2>3, <2>4, OneRowRewritten
<1>5. ASSUME OpenQueue PROVE QTypeOK'
  <2>1. /\ DOMAIN rows' = Held
        /\ \A t \in Held : rows'[t] = [kind |-> rows[t].kind, state |-> "waiting",
                                        takenCount |-> rows[t].takenCount]
    BY <1>5, OpenHolds
  <2>2. \A t \in Held : rows[t] \in Row
    BY DEF Held, QTypeOK
  <2>3. ASSUME NEW t \in DOMAIN rows' PROVE rows'[t] \in Row
    <3>1. t \in Held /\ rows[t] \in Row
      BY <2>1, <2>2
    <3>2. [kind |-> rows[t].kind, state |-> "waiting",
           takenCount |-> rows[t].takenCount] \in Row
      BY <3>1 DEF Row, RowStates
    <3> QED
      BY <2>1, <3>1, <3>2
  <2>4. lastSequence' = lastSequence /\ open' = "open" /\ nudge' = FALSE
    BY <1>5 DEF OpenQueue
  <2>5. DOMAIN rows' \subseteq 1 .. lastSequence'
    BY <2>1, <2>4, HeldIsFinite
  <2>6. lastSequence' \in 0 .. MaxSequence
    BY <2>4 DEF QTypeOK
  <2> QED
    BY <2>3, <2>4, <2>5, <2>6 DEF QTypeOK
<1>6. ASSUME ReadNudge \/ Close \/ Die \/ UNCHANGED queueVars PROVE QTypeOK'
  BY <1>6 DEF ReadNudge, Close, Die, queueVars, QTypeOK
<1> QED
  BY <1>2, <1>3, <1>4, <1>5, <1>6 DEF QNext

\* Never more unfinished rows than there is room for: only Add makes one, and
\* it counts first.
LEMMA BoundStep ==
    ASSUME QTypeOK, QueueIsBounded, [QNext]_queueVars
    PROVE  QueueIsBounded'
<1>1. IsFiniteSet(Held) /\ Cardinality(Held) \in Nat
  BY HeldIsFinite, FS_CardinalityType
<1>2. ASSUME NEW kind \in Kinds, Add(kind) PROVE QueueIsBounded'
  <2>1. Cardinality(Held \cup {lastSequence + 1}) = Cardinality(Held) + 1
    BY <1>1, <1>2, AddHolds, FS_AddElement
  <2>2. Cardinality(Held) < Capacity
    BY <1>2 DEF Add
  <2>3. Cardinality(Held') = Cardinality(Held) + 1
    BY <1>2, <2>1, AddHolds
  <2> QED
    BY <1>1, <2>2, <2>3, CapacityAssumption DEF QueueIsBounded
<1>3. ASSUME NEW s \in Numbers, Done(s) PROVE QueueIsBounded'
  <2>1. Cardinality(Held \ {s}) = Cardinality(Held) - 1
    BY <1>1, <1>3, DoneHolds, FS_RemoveElement
  <2>2. Cardinality(Held') = Cardinality(Held) - 1
    BY <1>3, <2>1, DoneHolds
  <2> QED
    BY <1>1, <2>2, CapacityAssumption DEF QueueIsBounded
<1>4. ASSUME Held' = Held PROVE QueueIsBounded'
  BY <1>4 DEF QueueIsBounded
<1>5. ASSUME NEW s \in Numbers, Take(s) PROVE Held' = Held
  BY <1>5, TakeHolds
<1>6. ASSUME OpenQueue PROVE Held' = Held
  BY <1>6, OpenHolds
<1>7. ASSUME ReadNudge \/ Close \/ Die \/ UNCHANGED queueVars PROVE Held' = Held
  BY <1>7 DEF ReadNudge, Close, Die, queueVars, Held
<1> QED
  BY <1>2, <1>3, <1>4, <1>5, <1>6, <1>7 DEF QNext

\* A row in the loop's hands was counted as handed out.
LEMMA CountedStep ==
    ASSUME QTypeOK, TakenIsCounted, [QNext]_queueVars
    PROVE  TakenIsCounted'
<1>0. \A t \in DOMAIN rows : rows[t].state = "taken" => rows[t].takenCount > 0
  BY DEF TakenIsCounted, InState
<1> SUFFICES ASSUME NEW t \in DOMAIN rows', rows'[t].state = "taken"
             PROVE  rows'[t].takenCount > 0
  BY DEF TakenIsCounted, InState
<1>1. ASSUME NEW kind \in Kinds, Add(kind) PROVE rows'[t].takenCount > 0
  <2>1. /\ DOMAIN rows' = DOMAIN rows \cup {lastSequence + 1}
        /\ \A s \in DOMAIN rows : rows'[s] = rows[s]
        /\ rows'[lastSequence + 1] =
             [kind |-> kind, state |-> "waiting", takenCount |-> 0]
    BY <1>1, AddHolds
  <2>2. rows'[lastSequence + 1].state = "waiting"
    BY <2>1
  <2> QED
    BY <1>0, <2>1, <2>2
<1>2. ASSUME NEW s \in Numbers, Take(s) PROVE rows'[t].takenCount > 0
  <2>1. /\ DOMAIN rows' = DOMAIN rows
        /\ s \in Waiting
        /\ \A u \in DOMAIN rows : u # s => rows'[u] = rows[u]
        /\ rows'[s] = [kind |-> rows[s].kind, state |-> "taken",
                        takenCount |-> rows[s].takenCount + 1]
    BY <1>2, TakeHolds
  <2>2. rows[s].takenCount \in Nat
    BY <2>1 DEF Waiting, InState, QTypeOK, Row
  <2>3. rows'[s].takenCount = rows[s].takenCount + 1
    BY <2>1
  <2>4. rows'[s].takenCount > 0
    BY <2>2, <2>3
  <2> QED
    BY <1>0, <2>1, <2>4
<1>3. ASSUME NEW s \in Numbers, Done(s) PROVE rows'[t].takenCount > 0
  <2>1. /\ DOMAIN rows' = DOMAIN rows
        /\ \A u \in DOMAIN rows : u # s => rows'[u] = rows[u]
        /\ rows'[s] = [kind |-> rows[s].kind, state |-> "done",
                        takenCount |-> rows[s].takenCount]
    BY <1>3, DoneHolds
  <2>2. rows'[s].state = "done"
    BY <2>1
  <2> QED
    BY <1>0, <2>1, <2>2
<1>4. ASSUME OpenQueue PROVE rows'[t].takenCount > 0
  <2>1. t \in Held /\ rows'[t] = [kind |-> rows[t].kind, state |-> "waiting",
                                  takenCount |-> rows[t].takenCount]
    BY <1>4, OpenHolds
  <2>2. rows'[t].state = "waiting"
    BY <2>1
  <2> QED
    BY <2>2
<1>5. ASSUME ReadNudge \/ Close \/ Die \/ UNCHANGED queueVars
      PROVE  rows'[t].takenCount > 0
  BY <1>0, <1>5 DEF ReadNudge, Close, Die, queueVars
<1> QED
  BY <1>1, <1>2, <1>3, <1>4, <1>5 DEF QNext

LEMMA QInvStep == QInv /\ [QNext]_queueVars => QInv'
  BY QTypeStep, BoundStep, CountedStep DEF QInv

LEMMA QInvariance == QSpec => []QInv
  BY QInitHolds, QInvStep, PTL DEF QSpec

\* The types of the queue hold in every reachable state, for every capacity and
\* every number of messages.
THEOREM QueueTypes == QSpec => []QTypeOK
<1>1. QInv => QTypeOK
  BY DEF QInv
<1> QED
  BY <1>1, QInvariance, PTL

\* Add never takes the queue past caps.queued_messages (queue.go:182).
THEOREM QueueBound == QSpec => []QueueIsBounded
<1>1. QInv => QueueIsBounded
  BY DEF QInv
<1> QED
  BY <1>1, QInvariance, PTL

-----------------------------------------------------------------------------

\* No method takes a number back, and none makes a finished number unfinished:
\* the counter only grows, so Add's number is a new one, and prepare deletes
\* the finished rows instead of resetting them.
LEMMA FinishedStep ==
    ASSUME QTypeOK, [QNext]_queueVars
    PROVE  (1 .. lastSequence) \ Held \subseteq (1 .. lastSequence') \ Held'
<1>1. lastSequence \in Nat
  BY HeldIsFinite
<1>2. ASSUME NEW kind \in Kinds, Add(kind)
      PROVE  (1 .. lastSequence) \ Held \subseteq (1 .. lastSequence') \ Held'
  <2>1. Held' = Held \cup {lastSequence + 1}
    BY <1>2, AddHolds
  <2>2. lastSequence' = lastSequence + 1
    BY <1>2 DEF Add
  <2> QED
    BY <1>1, <2>1, <2>2
<1>3. ASSUME NEW s \in Numbers, Done(s)
      PROVE  (1 .. lastSequence) \ Held \subseteq (1 .. lastSequence') \ Held'
  <2>1. Held' = Held \ {s}
    BY <1>3, DoneHolds
  <2>2. lastSequence' = lastSequence
    BY <1>3 DEF Done
  <2> QED
    BY <2>1, <2>2
<1>4. ASSUME Held' = Held, lastSequence' = lastSequence
      PROVE  (1 .. lastSequence) \ Held \subseteq (1 .. lastSequence') \ Held'
  BY <1>4
<1>5. ASSUME NEW s \in Numbers, Take(s)
      PROVE  Held' = Held /\ lastSequence' = lastSequence
  BY <1>5, TakeHolds DEF Take
<1>6. ASSUME OpenQueue PROVE Held' = Held /\ lastSequence' = lastSequence
  BY <1>6, OpenHolds DEF OpenQueue
<1>7. ASSUME ReadNudge \/ Close \/ Die \/ UNCHANGED queueVars
      PROVE  Held' = Held /\ lastSequence' = lastSequence
  BY <1>7 DEF ReadNudge, Close, Die, queueVars, Held
<1> QED
  BY <1>2, <1>3, <1>4, <1>5, <1>6, <1>7 DEF QNext

\* A finished message stays finished through every later Add, Take and Done and
\* through every restart's prepare (queue.go:303).
THEOREM FinishedForever == QSpec => FinishedIsForever
<1>1. QInv /\ [QNext]_queueVars =>
        [(1 .. lastSequence) \ Held \subseteq (1 .. lastSequence') \ Held']_queueVars
  BY FinishedStep DEF QInv
<1> QED
  BY <1>1, QInvariance, PTL DEF QSpec, FinishedIsForever

-----------------------------------------------------------------------------

\* What the promise calls unfinished are the held rows, and what it calls in
\* line are, in a life that is running, the waiting rows.
LEMMA PromisedSets ==
    ASSUME QTypeOK
    PROVE  /\ Promise!Unfinished = Held
           /\ open # "down" => Promise!InLine = Waiting
<1>1. Promise!Unfinished = Held
  BY HeldIsFinite DEF Promise!Unfinished
<1>2. ASSUME open # "down" PROVE Promise!InLine = Waiting
  <2>1. \A s \in DOMAIN rows : rows[s].state \in RowStates
    BY DEF QTypeOK, Row
  <2>2. Held \ InState("taken") = Waiting
    BY <2>1 DEF Held, InState, Waiting, RowStates
  <2> QED
    BY <1>1, <1>2, <2>2 DEF Promise!InLine
<1> QED
  BY <1>1, <1>2

\* The table before the first message is the promise before the first message.
LEMMA PromiseInit == QInit => Promise!Init
<1> SUFFICES ASSUME QInit PROVE Promise!Init
  OBVIOUS
<1>1. DOMAIN rows = {} /\ lastSequence = 0
  BY DEF QInit
<1>2. Held = {} /\ InState("taken") = {}
  BY <1>1 DEF Held, InState
<1> QED
  BY <1>1, <1>2 DEF Promise!Init

LEMMA AddAccepts ==
    ASSUME QTypeOK, NEW kind \in Kinds, Add(kind)
    PROVE  Promise!Accept
<1>1. lastSequence \in Nat /\ Held \subseteq 1 .. lastSequence
  BY HeldIsFinite
<1>2. /\ lastSequence' = lastSequence + 1 /\ lastSequence < MaxSequence
      /\ Cardinality(Held) < Capacity /\ open' = open
  BY DEF Add
<1>3. /\ Held' = Held \cup {lastSequence + 1}
      /\ lastSequence + 1 \notin Held
      /\ \A s \in DOMAIN rows : rows'[s] = rows[s]
      /\ DOMAIN rows' = DOMAIN rows \cup {lastSequence + 1}
      /\ rows'[lastSequence + 1] =
           [kind |-> kind, state |-> "waiting", takenCount |-> 0]
  BY AddHolds
<1>4. rows'[lastSequence + 1].state = "waiting" /\ rows'[lastSequence + 1].takenCount = 0
  BY <1>3
<1>5. (1 .. lastSequence') \ Held' = (1 .. lastSequence) \ Held
  BY <1>1, <1>2, <1>3
<1>6. InState("taken")' = InState("taken")
  BY <1>3, <1>4 DEF InState
<1>7. Held \subseteq DOMAIN rows
  BY DEF Held
<1>8. {s \in Held' : rows'[s].takenCount > 0} = {s \in Held : rows[s].takenCount > 0}
  BY <1>3, <1>4, <1>7
<1>9. Promise!Cardinality(Promise!Unfinished) = Cardinality(Held)
  BY PromisedSets, Zenon DEF Promise!Cardinality, Cardinality
<1> QED
  BY <1>2, <1>5, <1>6, <1>8, <1>9 DEF Promise!Accept

LEMMA TakeHandsOut ==
    ASSUME QTypeOK, NEW s \in Numbers, Take(s)
    PROVE  Promise!HandOut(s)
<1>1. lastSequence' = lastSequence /\ open = "open" /\ open' = "open"
  BY DEF Take
<1>2. s \in Waiting /\ \A t \in Waiting : s <= t
  BY DEF Take, IsOldestWaiting
<1>3. /\ Held' = Held
      /\ DOMAIN rows' = DOMAIN rows
      /\ \A t \in DOMAIN rows : t # s => rows'[t] = rows[t]
      /\ rows'[s] = [kind |-> rows[s].kind, state |-> "taken",
                     takenCount |-> rows[s].takenCount + 1]
  BY TakeHolds
<1>4. s \in DOMAIN rows /\ rows[s].state = "waiting" /\ rows[s].takenCount \in Nat
  BY <1>2 DEF Waiting, InState, QTypeOK, Row
<1>5. rows'[s].state = "taken" /\ rows'[s].takenCount = rows[s].takenCount + 1
  BY <1>3
<1>6. InState("taken")' = InState("taken") \cup {s}
  BY <1>3, <1>4, <1>5 DEF InState
<1>7. Held \subseteq DOMAIN rows /\ s \in Held
  BY <1>4 DEF Held
<1>8. {t \in Held' : rows'[t].takenCount > 0}
        = {t \in Held : rows[t].takenCount > 0} \cup {s}
  BY <1>3, <1>4, <1>5, <1>7
<1>9. Promise!InLine = Waiting
  BY <1>1, PromisedSets
<1> QED
  BY <1>1, <1>2, <1>3, <1>6, <1>8, <1>9 DEF Promise!HandOut

LEMMA DoneFinishes ==
    ASSUME QTypeOK, NEW s \in Numbers, Done(s)
    PROVE  Promise!Finish(s)
<1>1. lastSequence' = lastSequence /\ open = "open" /\ open' = "open"
  BY DEF Done
<1>2. /\ Held' = Held \ {s}
      /\ s \in Held
      /\ DOMAIN rows' = DOMAIN rows
      /\ \A t \in DOMAIN rows : t # s => rows'[t] = rows[t]
      /\ rows'[s] = [kind |-> rows[s].kind, state |-> "done",
                     takenCount |-> rows[s].takenCount]
  BY DoneHolds
<1>3. rows'[s].state = "done"
  BY <1>2
<1>4. Held \subseteq DOMAIN rows /\ Held \subseteq 1 .. lastSequence
  BY HeldIsFinite DEF Held
<1>5. (1 .. lastSequence') \ Held' = ((1 .. lastSequence) \ Held) \cup {s}
  BY <1>1, <1>2, <1>4
<1>6. InState("taken")' = InState("taken") \ {s}
  BY <1>2, <1>3 DEF InState
<1>7. {t \in Held' : rows'[t].takenCount > 0}
        = {t \in Held : rows[t].takenCount > 0} \ {s}
  BY <1>2, <1>4
<1> QED
  BY <1>1, <1>2, <1>5, <1>6, <1>7, PromisedSets DEF Promise!Finish

\* A process that ends lets go of what was in hand, and the prepare of the
\* next one leaves nothing in hand.
LEMMA DieRestarts ==
    ASSUME QTypeOK, Die
    PROVE  Promise!Restart
  BY DEF Die, Promise!Restart, Held, InState

LEMMA OpenRestarts ==
    ASSUME QTypeOK, OpenQueue
    PROVE  Promise!Restart
<1>1. lastSequence' = lastSequence /\ open' = "open"
  BY DEF OpenQueue
<1>2. /\ Held' = Held
      /\ DOMAIN rows' = Held
      /\ \A t \in Held : rows'[t] = [kind |-> rows[t].kind, state |-> "waiting",
                                      takenCount |-> rows[t].takenCount]
  BY OpenHolds
<1>3. ASSUME NEW t \in Held
      PROVE  rows'[t].state = "waiting" /\ rows'[t].takenCount = rows[t].takenCount
  <2>1. rows'[t] = [kind |-> rows[t].kind, state |-> "waiting",
                    takenCount |-> rows[t].takenCount]
    BY <1>2
  <2> QED
    BY <2>1
<1>4. InState("taken")' = {}
  BY <1>2, <1>3 DEF InState
<1>5. {t \in Held' : rows'[t].takenCount > 0} = {t \in Held : rows[t].takenCount > 0}
  BY <1>2, <1>3
<1> QED
  BY <1>1, <1>2, <1>4, <1>5 DEF Promise!Restart

LEMMA PromiseStep ==
    ASSUME QTypeOK, [QNext]_queueVars
    PROVE  [Promise!Next]_(Promise!vars)
<1>1. ASSUME NEW kind \in Kinds, Add(kind) PROVE Promise!Next
  BY <1>1, AddAccepts DEF Promise!Next
<1>2. ASSUME NEW s \in Numbers, Take(s) PROVE Promise!Next
  BY <1>2, TakeHandsOut DEF Promise!Next, Promise!Numbers, Numbers
<1>3. ASSUME NEW s \in Numbers, Done(s) PROVE Promise!Next
  BY <1>3, DoneFinishes DEF Promise!Next, Promise!Numbers, Numbers
<1>4. ASSUME Die \/ OpenQueue PROVE Promise!Next
  BY <1>4, DieRestarts, OpenRestarts DEF Promise!Next
<1>5. ASSUME ReadNudge \/ Close \/ UNCHANGED queueVars PROVE UNCHANGED Promise!vars
  BY <1>5 DEF ReadNudge, Close, queueVars, Promise!vars, Held, InState
<1> QED
  BY <1>1, <1>2, <1>3, <1>4, <1>5 DEF QNext

\* The table and its six methods implement the at-least-once promise: in order
\* of acceptance, again after a restart until finished, finished for good.
THEOREM QueueImplementsPromise == QSpec => QueueKeepsItsPromise
<1>1. QInv /\ [QNext]_queueVars => [Promise!Next]_(Promise!vars)
  BY PromiseStep DEF QInv
<1> QED
  BY <1>1, PromiseInit, QInvariance, PTL DEF QSpec, QueueKeepsItsPromise, Promise!Spec
=============================================================================
