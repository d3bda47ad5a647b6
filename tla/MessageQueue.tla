---------------------------- MODULE MessageQueue ----------------------------
(***************************************************************************)
(* The queue every channel feeds: internal/channel/queue.go.               *)
(*                                                                         *)
(* One SQLite table holds the rows, so rows and the AUTOINCREMENT counter  *)
(* outlive the process.  The `closed` flag and the one-slot `arrived`      *)
(* channel live in memory.  Every method holds queue.guard from its first  *)
(* look at the table to its last write, so each method is one step; a      *)
(* statement the database refuses is an error that changes nothing.  What  *)
(* a message says is left out; its kind (what the router will make of it)  *)
(* is carried in the row.                                                  *)
(***************************************************************************)
EXTENDS Integers, FiniteSets

CONSTANTS
    Capacity,       \* caps.queued_messages
    Kinds,          \* what the router can make of a message
    MaxSequence     \* bound: how many messages are ever added

\* OpenQueue refuses a capacity below one.
ASSUME CapacityAssumption == Capacity \in Nat \ {0}

ASSUME MaxSequenceAssumption == MaxSequence \in Nat

VARIABLES
    rows,           \* the table: sequence number -> row
    lastSequence,   \* the table's AUTOINCREMENT counter
    open,           \* "open", "closed" by Close, or "down": no process
    nudge           \* the one slot of the `arrived` channel is full

queueVars == <<rows, lastSequence, open, nudge>>

Numbers == 1 .. MaxSequence

RowStates == {"waiting", "taken", "done"}

Row == [kind : Kinds, state : RowStates, takenCount : Nat]

-----------------------------------------------------------------------------

InState(state) == {s \in DOMAIN rows : rows[s].state = state}

Waiting == InState("waiting")

\* countHeld: the rows that are not finished, the one in the loop's hands too.
Held == {s \in DOMAIN rows : rows[s].state # "done"}

\* Mutant of IsOldestWaiting: ORDER BY sequence DESC.
NewestWaiting(s) == s \in Waiting /\ \A t \in Waiting : t <= s

\* The row SELECT ... ORDER BY sequence LIMIT 1 finds.
IsOldestWaiting(s) == s \in Waiting /\ \A t \in Waiting : s <= t

\* Queued.Duplicate: this message was handed out before and never finished.
Duplicate(s) == rows[s].takenCount > 0

QInit ==
    /\ rows = [s \in {} |-> {}]
    /\ lastSequence = 0
    /\ open = "open"
    /\ nudge = FALSE

\* Mutant of Add: the cap compared with > instead of >=.
AddOneTooMany(kind) ==
    /\ open = "open"
    /\ lastSequence < MaxSequence
    /\ Cardinality(Held) <= Capacity
    /\ lastSequence' = lastSequence + 1
    /\ rows' = [s \in DOMAIN rows \cup {lastSequence + 1} |->
                    IF s = lastSequence + 1
                    THEN [kind |-> kind, state |-> "waiting", takenCount |-> 0]
                    ELSE rows[s]]
    /\ nudge' = TRUE
    /\ UNCHANGED open

\* Add: refused when the queue is closed or already holds its capacity, and
\* otherwise one INSERT and one nudge that is dropped when the slot is full.
Add(kind) ==
    /\ open = "open"
    /\ lastSequence < MaxSequence
    /\ Cardinality(Held) < Capacity
    /\ lastSequence' = lastSequence + 1
    /\ rows' = [s \in DOMAIN rows \cup {lastSequence + 1} |->
                    IF s = lastSequence + 1
                    THEN [kind |-> kind, state |-> "waiting", takenCount |-> 0]
                    ELSE rows[s]]
    /\ nudge' = TRUE
    /\ UNCHANGED open

\* Take: the oldest waiting row is marked taken and counted once more.
Take(s) ==
    /\ open = "open"
    /\ IsOldestWaiting(s)
    /\ rows' = [rows EXCEPT ![s].state = "taken", ![s].takenCount = @ + 1]
    /\ UNCHANGED <<lastSequence, open, nudge>>

\* Done: UPDATE ... WHERE state <> done.  On a closed queue, or for a number
\* with no unfinished row, it is an error that changes nothing, and so it is
\* when the database refuses the UPDATE.
Done(s) ==
    /\ open = "open"
    /\ s \in Held
    /\ rows' = [rows EXCEPT ![s].state = "done"]
    /\ UNCHANGED <<lastSequence, open, nudge>>

\* The reader of Arrived() takes the nudge out of the slot.
ReadNudge ==
    /\ nudge
    /\ nudge' = FALSE
    /\ UNCHANGED <<rows, lastSequence, open>>

\* Close: later calls are refused; the table stays as it is.
Close ==
    /\ open = "open"
    /\ open' = "closed"
    /\ UNCHANGED <<rows, lastSequence, nudge>>

\* The process ends, whether or not it closed the queue first.
Die ==
    /\ open # "down"
    /\ open' = "down"
    /\ nudge' = FALSE
    /\ UNCHANGED <<rows, lastSequence>>

\* Mutants of Recovered: prepare's first statement without its WHERE, and
\* prepare without its first statement.
RecoveredDoneToo == [s \in DOMAIN rows |-> [rows[s] EXCEPT !.state = "waiting"]]

RecoveredStillTaken == [s \in Held |-> rows[s]]

\* What prepare leaves: taken rows wait again, done rows are deleted.
Recovered ==
    [s \in Held |-> [rows[s] EXCEPT !.state = "waiting"]]

\* OpenQueue in a new process.
OpenQueue ==
    /\ open = "down"
    /\ open' = "open"
    /\ rows' = Recovered
    /\ nudge' = FALSE
    /\ UNCHANGED lastSequence

\* The queue under callers that may do anything its methods allow.
QNext ==
    \/ \E kind \in Kinds : Add(kind)
    \/ \E s \in Numbers : Take(s) \/ Done(s)
    \/ ReadNudge
    \/ Close
    \/ Die
    \/ OpenQueue

QSpec == QInit /\ [][QNext]_queueVars

-----------------------------------------------------------------------------

\* The shape of the table and of the state in memory, numbers never running
\* ahead of the counter, and never more unfinished rows than there is room for
\* (Add's check and insert are one step under the lock).
QTypeOK ==
    /\ lastSequence \in 0 .. MaxSequence
    /\ DOMAIN rows \subseteq 1 .. lastSequence
    /\ \A s \in DOMAIN rows : rows[s] \in Row
    /\ open \in {"open", "closed", "down"}
    /\ nudge \in BOOLEAN

QueueIsBounded == Cardinality(Held) <= Capacity

\* A row is in the loop's hands only if it was counted as handed out, so a
\* message whose task a crash cut short can never come back looking new.
TakenIsCounted == \A s \in InState("taken") : rows[s].takenCount > 0

\* A message that was finished is never unfinished again: not by prepare at
\* the next start, and not by a later message being given the same number.
FinishedIsForever ==
    [][(1 .. lastSequence) \ Held \subseteq (1 .. lastSequence') \ Held']_queueVars

\* The table implements the promise: each number handed out in order, offered
\* again after a restart until it is finished, and known to be a duplicate.
Promise == INSTANCE AtLeastOnceQueue WITH
    accepted <- lastSequence,
    finished <- (1 .. lastSequence) \ Held,
    inHand   <- IF open = "down" THEN {} ELSE InState("taken"),
    offered  <- {s \in Held : rows[s].takenCount > 0}

QueueKeepsItsPromise == Promise!Spec
=============================================================================
