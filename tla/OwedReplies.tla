---------------------------- MODULE OwedReplies ----------------------------
(***************************************************************************)
(* What the delivery ledger promises of the agent's replies, with no log   *)
(* and no restart in sight: a reply is owed from the moment it is written  *)
(* down until it is told or let go, copies of it are put in front of the   *)
(* user only while it is owed, and there is a limit to how many.           *)
(***************************************************************************)
EXTENDS Integers

CONSTANTS
    Replies,        \* the replies
    MaxCopies       \* how many copies of one reply are ever shown

VARIABLES
    status,     \* where each reply got to
    shown       \* how many copies of it the user has seen

vars == <<status, shown>>

Statuses == {"unwritten", "owed", "told", "letGo"}

Init ==
    /\ status = [r \in Replies |-> "unwritten"]
    /\ shown = [r \in Replies |-> 0]

Move(r, from, to) ==
    /\ status[r] = from
    /\ status' = [status EXCEPT ![r] = to]
    /\ UNCHANGED shown

Write(r) == Move(r, "unwritten", "owed")

Show(r) ==
    /\ status[r] = "owed"
    /\ shown[r] < MaxCopies
    /\ shown' = [shown EXCEPT ![r] = @ + 1]
    /\ UNCHANGED status

Tell(r) == Move(r, "owed", "told")

LetGo(r) == Move(r, "owed", "letGo")

Next == \E r \in Replies : Write(r) \/ Show(r) \/ Tell(r) \/ LetGo(r)

Spec == Init /\ [][Next]_vars
=============================================================================
