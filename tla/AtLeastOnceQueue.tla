-------------------------- MODULE AtLeastOnceQueue --------------------------
(***************************************************************************)
(* What the queue of inbound messages promises the rest of Nerd Genie,     *)
(* with no table, no row states and no file in sight.                      *)
(*                                                                         *)
(* Messages are numbered as they are accepted.  A number is handed out in  *)
(* the order of acceptance, stays in hand until it is finished, and is     *)
(* offered again after a restart only if it was never finished.  A number  *)
(* that is finished is finished for good.                                  *)
(***************************************************************************)
EXTENDS Integers, FiniteSets

CONSTANTS
    Capacity,       \* how many unfinished messages are accepted
    MaxSequence     \* bound: how many messages are ever accepted

VARIABLES
    accepted,   \* how many messages were accepted so far
    finished,   \* the numbers that are done with
    inHand,     \* the numbers handed out in this life and not finished
    offered     \* the unfinished numbers that were handed out at least once

vars == <<accepted, finished, inHand, offered>>

Numbers == 1 .. MaxSequence

Unfinished == (1 .. accepted) \ finished

InLine == Unfinished \ inHand

Init ==
    /\ accepted = 0
    /\ finished = {}
    /\ inHand = {}
    /\ offered = {}

\* A message is accepted only while there is room for one more.
Accept ==
    /\ accepted < MaxSequence
    /\ Cardinality(Unfinished) < Capacity
    /\ accepted' = accepted + 1
    /\ UNCHANGED <<finished, inHand, offered>>

\* The number at the head of the line is handed out; it is a duplicate exactly
\* when it is in `offered` already.
HandOut(n) ==
    /\ n \in InLine
    /\ \A m \in InLine : n <= m
    /\ inHand' = inHand \cup {n}
    /\ offered' = offered \cup {n}
    /\ UNCHANGED <<accepted, finished>>

Finish(n) ==
    /\ n \in Unfinished
    /\ finished' = finished \cup {n}
    /\ inHand' = inHand \ {n}
    /\ offered' = offered \ {n}
    /\ UNCHANGED accepted

\* A new life of the program holds nothing: what was in hand is in line again.
Restart ==
    /\ inHand' = {}
    /\ UNCHANGED <<accepted, finished, offered>>

Next ==
    \/ Accept
    \/ \E n \in Numbers : HandOut(n) \/ Finish(n)
    \/ Restart

Spec == Init /\ [][Next]_vars
=============================================================================
