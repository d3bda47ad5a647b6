--------------------------- MODULE DeliveryLedger ---------------------------
(***************************************************************************)
(* The delivery ledger: internal/reliability/ledger.go, Deliver in turn.go *)
(* and sendToTheUser in cmd/nerdgenie/serve.go.                            *)
(*                                                                         *)
(* A reply is written into the event log, sent, and marked delivered, each *)
(* by a step of its own, with a crash possible between any two.  The next  *)
(* start reads the log back and sends again what is still owed.  The log   *)
(* is all that outlives the process.  Sending is two steps too: the        *)
(* channel is looked up and seen to be attached, and then written to.      *)
(***************************************************************************)
EXTENDS Integers, FiniteSets, SequencesExt

CONSTANTS
    Channels,           \* the channels a reply can be for
    MaxReplies,         \* bound: how many replies are ever written
    MaxAttempts,        \* MaxDeliveryAttempts
    MaxUndelivered,     \* the greatest cap tried for MaxUndeliveredReplies
    OpenDuring,         \* the parts of a life in which a channel can be open
    KilledDuring,       \* the parts of a life in which the process can end
    PeopleComeAndGo,    \* screens and Signal come up and go down as they like
    StoreMayFail        \* the event log may refuse an Append or a Replay

ASSUME LedgerAssumption ==
    /\ Channels \subseteq {"terminal", "signal"}
    /\ {MaxReplies, MaxAttempts, MaxUndelivered} \subseteq Nat \ {0}
    /\ OpenDuring \subseteq {"starting", "serving"}
    /\ KilledDuring \subseteq {"starting", "serving", "stopping"}
    /\ {PeopleComeAndGo, StoreMayFail} \subseteq BOOLEAN

VARIABLES
    log,        \* the reply events, in the order they were appended
    oldUpTo,    \* the replies up to this one were written over a day ago
    life,       \* what the process is doing
    open,       \* the channels somebody is listening on
    deliver,    \* where the Deliver call of each reply is
    resend,     \* where Resend is, and what it has left to do
    for,        \* the channel each reply is for
    cap,        \* MaxUndeliveredReplies: no step changes it
    copies      \* history: the copies of each reply that reached the user

vars == <<log, oldUpTo, life, open, deliver, resend, for, cap, copies>>

Replies == 1 .. MaxReplies

Lives == {"down", "starting", "serving", "stopping"}

DeliverSteps == {"none", "written", "seen", "sent", "over"}

ResendSteps == {"reading", "next", "counted", "seen", "sent", "returned", "failed"}

Event(r, state, attempts) == [reply |-> r, state |-> state, attempts |-> attempts]

AppendEvent(event) == log' = Append(log, event)

Written == {r \in Replies : \E i \in DOMAIN log : log[i].reply = r}

NoResend == [at |-> "returned", todo |-> <<>>]

Init ==
    /\ log = <<>>
    /\ oldUpTo = 0
    /\ life = "serving"
    /\ open = {}
    /\ deliver = [r \in Replies |-> "none"]
    /\ resend = NoResend
    /\ for \in [Replies -> Channels]
    /\ cap \in 1 .. MaxUndelivered
    /\ copies = [r \in Replies |-> 0]

-----------------------------------------------------------------------------
\* Undelivered: one pass over the whole log.

NothingRead ==
    [waiting |-> {}, order |-> <<>>, tries |-> [r \in Replies |-> 0], tooMany |-> FALSE]

\* Mutant of Waiting: the newest reply is put in front.
WaitingInFront(read, event) ==
    IF event.reply \in read.waiting
    THEN [read EXCEPT !.tries[event.reply] = event.attempts]
    ELSE IF Cardinality(read.waiting) >= cap
    THEN [read EXCEPT !.tooMany = TRUE]
    ELSE [read EXCEPT !.waiting = @ \cup {event.reply},
                      !.order = <<event.reply>> \o @,
                      !.tries[event.reply] = event.attempts]

\* A pending event: the reply waits, and this is how often it was tried.
Waiting(read, event) ==
    IF event.reply \in read.waiting
    THEN [read EXCEPT !.tries[event.reply] = event.attempts]
    ELSE IF Cardinality(read.waiting) >= cap
    THEN [read EXCEPT !.tooMany = TRUE]
    ELSE [read EXCEPT !.waiting = @ \cup {event.reply},
                      !.order = Append(@, event.reply),
                      !.tries[event.reply] = event.attempts]

\* What Replay's callback does with one event.
Reading(read, event) ==
    IF read.tooMany THEN read
    ELSE IF event.state # "pending" THEN [read EXCEPT !.waiting = @ \ {event.reply}]
    ELSE Waiting(read, event)

\* Replay hands the events over in order.
ReadUpTo[n \in 0 .. Len(log)] ==
    IF n = 0 THEN NothingRead ELSE Reading(ReadUpTo[n - 1], log[n])

WholeLog == ReadUpTo[Len(log)]

\* The replies waiting, oldest first, each with the attempts made at it.
Undelivered(read) ==
    LET found[n \in 0 .. Len(read.order)] ==
            IF n = 0 THEN <<>>
            ELSE IF read.order[n] \notin read.waiting THEN found[n - 1]
            ELSE Append(found[n - 1], [reply    |-> read.order[n],
                                       attempts |-> read.tries[read.order[n]]])
    IN found[Len(read.order)]

-----------------------------------------------------------------------------
\* sendToTheUser.

\* Who is listening; without the coming and going, everybody at all times.
Listening ==
    IF PeopleComeAndGo THEN open
    ELSE IF life \in OpenDuring THEN Channels ELSE {}

\* The channel is found, and it has somebody attached.
CanBeReached(r) == for[r] \in Listening

\* The write to the channel, after the look.  A screen that left since takes
\* no copy and is no error, a closed socket is one; the answer of a Signal send
\* can be lost on its way back.  `taken` says whether Send returned no error.
Sending(r, taken) ==
    /\ for[r] = "terminal" => taken = (life # "stopping")
    /\ \E copy \in {0, 1} :
          /\ for[r] = "terminal" => copy = (IF CanBeReached(r) THEN 1 ELSE 0)
          /\ for[r] = "signal" /\ taken => copy = 1
          /\ copies' = [copies EXCEPT ![r] = @ + copy]

-----------------------------------------------------------------------------
\* Guard.Deliver, as the channel of every task calls it.

At(r, step) == deliver' = [deliver EXCEPT ![r] = step]

Running == life \in {"serving", "stopping"}

Quiet == UNCHANGED <<oldUpTo, life, open, for, cap>>

\* Record: a log that refuses the reply sends nothing at all.
Record(r) ==
    /\ Running
    /\ deliver[r] = "none"
    /\ Written = 1 .. r - 1
    /\ AppendEvent(Event(r, "pending", 0))
    /\ At(r, "written")
    /\ Quiet /\ UNCHANGED <<resend, copies>>

\* Mutant of Look: the reply is marked before it is sent.
LookAndMark(r) ==
    /\ deliver[r] = "written"
    /\ At(r, IF CanBeReached(r) THEN "seen" ELSE "over")
    /\ IF CanBeReached(r) THEN AppendEvent(Event(r, "delivered", 0)) ELSE UNCHANGED log
    /\ Quiet /\ UNCHANGED <<resend, copies>>

Look(r) ==
    /\ deliver[r] = "written"
    /\ At(r, IF CanBeReached(r) THEN "seen" ELSE "over")
    /\ Quiet /\ UNCHANGED <<log, resend, copies>>

Send(r) ==
    /\ deliver[r] = "seen"
    /\ \E taken \in BOOLEAN :
          /\ Sending(r, taken)
          /\ At(r, IF taken THEN "sent" ELSE "over")
    /\ Quiet /\ UNCHANGED <<log, resend>>

MarkDelivered(r) ==
    /\ deliver[r] = "sent"
    /\ \/ AppendEvent(Event(r, "delivered", 0))
       \/ StoreMayFail /\ UNCHANGED log
    /\ At(r, "over")
    /\ Quiet /\ UNCHANGED <<resend, copies>>

-----------------------------------------------------------------------------
\* Resend, once in the life of the program, from Guard.Start.

Due == resend.todo[1]

Resending(step) == resend' = [resend EXCEPT !.at = step]

\* On to the next reply; the loop ends when there is none.
NextReply == resend' = [at |-> "next", todo |-> Tail(resend.todo)]

\* Guard.Start comes to Resend, unless it met an error before that.
ReadTheLog ==
    /\ resend.at = "reading"
    /\ LET read == WholeLog IN
       \/ ~read.tooMany /\ resend' = [at |-> "next", todo |-> Undelivered(read)]
       \/ read.tooMany /\ Resending("failed")
    /\ Quiet /\ UNCHANGED <<log, deliver, copies>>

StartFails ==
    /\ StoreMayFail
    /\ resend.at \in {"reading", "next", "sent"}
    /\ Resending("failed")
    /\ Quiet /\ UNCHANGED <<log, deliver, copies>>

ResendReturns ==
    /\ resend.at = "next"
    /\ resend.todo = <<>>
    /\ Resending("returned")
    /\ Quiet /\ UNCHANGED <<log, deliver, copies>>

\* Mutant of HasHadItsChances: one attempt too many.
HasHadItsChancesLate == Due.attempts > MaxAttempts \/ Due.reply <= oldUpTo

HasHadItsChances == Due.attempts >= MaxAttempts \/ Due.reply <= oldUpTo

\* giveUpOn writes the line that says so.
GiveUp ==
    /\ resend.at = "next"
    /\ resend.todo # <<>>
    /\ HasHadItsChances
    /\ AppendEvent(Event(Due.reply, "givenUp", Due.attempts))
    /\ NextReply
    /\ Quiet /\ UNCHANGED <<deliver, copies>>

\* Mutant of CountTheAttempt: the attempt is counted in memory alone.
CountTheAttemptInMemory ==
    /\ resend.at = "next"
    /\ resend.todo # <<>>
    /\ ~HasHadItsChances
    /\ resend' = [at |-> "counted",
                  todo |-> [resend.todo EXCEPT ![1].attempts = @ + 1]]
    /\ Quiet /\ UNCHANGED <<log, deliver, copies>>

\* The attempt is counted in the log before it is made.
CountTheAttempt ==
    /\ resend.at = "next"
    /\ resend.todo # <<>>
    /\ ~HasHadItsChances
    /\ AppendEvent(Event(Due.reply, "pending", Due.attempts + 1))
    /\ resend' = [at |-> "counted",
                  todo |-> [resend.todo EXCEPT ![1].attempts = @ + 1]]
    /\ Quiet /\ UNCHANGED <<deliver, copies>>

LookAgain ==
    /\ resend.at = "counted"
    /\ IF CanBeReached(Due.reply) THEN Resending("seen") ELSE NextReply
    /\ Quiet /\ UNCHANGED <<log, deliver, copies>>

SendAgain ==
    /\ resend.at = "seen"
    /\ \E taken \in BOOLEAN :
          /\ Sending(Due.reply, taken)
          /\ IF taken THEN Resending("sent") ELSE NextReply
    /\ Quiet /\ UNCHANGED <<log, deliver>>

MarkResent ==
    /\ resend.at = "sent"
    /\ AppendEvent(Event(Due.reply, "delivered", Due.attempts))
    /\ NextReply
    /\ Quiet /\ UNCHANGED <<deliver, copies>>

-----------------------------------------------------------------------------
\* The life of the process, its channels, and the clock.

\* serve begins once Guard.Start has returned, with an error or without one.
Serve ==
    /\ life = "starting"
    /\ resend.at \in {"returned", "failed"}
    /\ life' = "serving"
    /\ UNCHANGED <<log, oldUpTo, open, deliver, resend, for, cap, copies>>

\* The socket closes on every screen; tasks go on for a little while.
Stop ==
    /\ life = "serving"
    /\ life' = "stopping"
    /\ open' = open \ {"terminal"}
    /\ UNCHANGED <<log, oldUpTo, deliver, resend, for, cap, copies>>

\* A kill at any moment, or the last act of a clean exit.  A Deliver that was
\* under way is not taken up again by anybody.
Die ==
    /\ life \in KilledDuring
    /\ life' = "down"
    /\ open' = {}
    /\ deliver' = [r \in Replies |-> IF deliver[r] = "none" THEN "none" ELSE "over"]
    /\ resend' = NoResend
    /\ UNCHANGED <<log, oldUpTo, for, cap, copies>>

Start ==
    /\ life = "down"
    /\ life' = "starting"
    /\ resend' = [at |-> "reading", todo |-> <<>>]
    /\ UNCHANGED <<log, oldUpTo, open, deliver, for, cap, copies>>

\* A screen attaches, or Signal comes up.
Opens(channel) ==
    /\ PeopleComeAndGo
    /\ life \in OpenDuring
    /\ open' = open \cup {channel}
    /\ UNCHANGED <<log, oldUpTo, life, deliver, resend, for, cap, copies>>

Closes(channel) ==
    /\ PeopleComeAndGo
    /\ open' = open \ {channel}
    /\ UNCHANGED <<log, oldUpTo, life, deliver, resend, for, cap, copies>>

\* A day goes by for the replies written so far, or for the older of them.
DayPasses ==
    /\ oldUpTo' \in oldUpTo + 1 .. Cardinality(Written)
    /\ UNCHANGED <<log, life, open, deliver, resend, for, cap, copies>>

-----------------------------------------------------------------------------

ResendStep ==
    \/ ReadTheLog
    \/ ResendReturns
    \/ GiveUp
    \/ CountTheAttempt
    \/ LookAgain
    \/ SendAgain
    \/ MarkResent

DeliverStep(r) == Record(r) \/ Look(r) \/ Send(r) \/ MarkDelivered(r)

Next ==
    \/ \E r \in Replies : DeliverStep(r)
    \/ ResendStep
    \/ StartFails
    \/ Serve
    \/ Stop
    \/ Die
    \/ Start
    \/ \E channel \in Channels : Opens(channel) \/ Closes(channel)
    \/ DayPasses

Spec == Init /\ [][Next]_vars

\* runServe goes on to serve when Guard.Start has returned.  Nothing else is
\* owed: not a restart, not a screen, and not the end of a Resend.
FairSpec == Spec /\ WF_vars(Serve)

-----------------------------------------------------------------------------

LastEventOf(r) ==
    log[CHOOSE i \in DOMAIN log :
            log[i].reply = r /\ \A j \in i + 1 .. Len(log) : log[j].reply # r]

\* The types of the log and of everything in memory.
LedgerTypeOK ==
    /\ log \in Seq([reply : Replies, state : {"pending", "delivered", "givenUp"},
                    attempts : 0 .. MaxAttempts])
    /\ oldUpTo \in 0 .. MaxReplies
    /\ life \in Lives
    /\ open \subseteq Channels
    /\ deliver \in [Replies -> DeliverSteps]
    /\ resend.at \in ResendSteps
    /\ resend.todo \in Seq([reply : Replies, attempts : 0 .. MaxAttempts])
    /\ for \in [Replies -> Channels]
    /\ cap \in 1 .. MaxUndelivered
    /\ copies \in [Replies -> Nat]

\* Undelivered's one pass over the log, with a map it adds to and deletes from,
\* finds exactly the replies whose last event says pending, each of them once,
\* oldest first, with the attempts that event counted.
UndeliveredIsWhatIsOwed ==
    LET read == WholeLog
        found == Undelivered(read)
        owed == {r \in Written : LastEventOf(r).state = "pending"}
    IN  ~read.tooMany =>
            /\ {found[i].reply : i \in DOMAIN found} = owed
            /\ \A i, j \in DOMAIN found : i < j => found[i].reply < found[j].reply
            /\ \A i \in DOMAIN found :
                  found[i].attempts = LastEventOf(found[i].reply).attempts

\* Through any number of crashes, one reply costs the user at most one plain
\* copy and one marked copy for each attempt the log counted: the count goes in
\* before the send, so a crash in between can lose a copy and never adds one.
CopiesWereCounted ==
    \A r \in Written : copies[r] <= 1 + LastEventOf(r).attempts

StatusOf(r) ==
    IF r \notin Written THEN "unwritten"
    ELSE [pending |-> "owed", delivered |-> "told", givenUp |-> "letGo"][LastEventOf(r).state]

\* The log keeps the ledger's promise: nothing is sent that was not written
\* down first, nothing is sent after it was marked or given up, and what was
\* settled stays settled, however Deliver, Resend and crashes interleave.
Promise == INSTANCE OwedReplies WITH
    MaxCopies <- 1 + MaxAttempts,
    status    <- [r \in Replies |-> StatusOf(r)],
    shown     <- copies

LedgerKeepsItsPromise == Promise!Spec

\* If Resend gets to its end again and again, every reply that was written down
\* is marked delivered or given up on in the end: a reply nobody can deliver
\* does not spin for ever.
EveryReplySettles ==
    []<>(life = "starting" /\ resend.at = "returned") =>
        \A r \in Replies : StatusOf(r) = "owed" ~> StatusOf(r) # "owed"
=============================================================================
