------------------------ MODULE DeliveryLedger_proofs ------------------------
(***************************************************************************)
(* That the delivery ledger finds what is owed, counts every copy it may   *)
(* cost the user, and keeps the promise of OwedReplies, for any number of  *)
(* replies, attempts and lives.                                            *)
(***************************************************************************)
EXTENDS DeliveryLedger, RecursiveFunctions, TLAPS, FiniteSetTheorems

-----------------------------------------------------------------------------
(* The values of the pass over the log.                                      *)

Events == [reply : Replies, state : {"pending", "delivered", "givenUp"}, attempts : 0 .. MaxAttempts]

Reads == [waiting : SUBSET Replies, order : Seq(Replies),
          tries : [Replies -> 0 .. MaxAttempts], tooMany : BOOLEAN]

LEMMA Bounds ==
    MaxReplies \in Nat \ {0} /\ MaxAttempts \in Nat \ {0} /\ MaxUndelivered \in Nat \ {0}
  BY LedgerAssumption

LEMMA ReadingIsARead ==
    ASSUME NEW read \in Reads, NEW event \in Events
    PROVE  Reading(read, event) \in Reads
<1>1. event.reply \in Replies /\ event.attempts \in 0 .. MaxAttempts
  BY DEF Events
<1>2. Append(read.order, event.reply) \in Seq(Replies)
  BY <1>1 DEF Reads
<1>3. [read.tries EXCEPT ![event.reply] = event.attempts] \in [Replies -> 0 .. MaxAttempts]
  BY <1>1 DEF Reads
<1> QED BY <1>1, <1>2, <1>3 DEF Reading, Waiting, Reads

LEMMA ReadUpToIs ==
    ASSUME log \in Seq(Events)
    PROVE  /\ ReadUpTo \in [0 .. Len(log) -> Reads]
           /\ ReadUpTo[0] = NothingRead
           /\ \A n \in 1 .. Len(log) : ReadUpTo[n] = Reading(ReadUpTo[n - 1], log[n])
<1> DEFINE step == [n \in 1 .. Len(log) |-> [read \in Reads |-> Reading(read, log[n])]]
           Is(g) == g = [n \in 0 .. Len(log) |->
                           IF n = 0 THEN NothingRead ELSE Reading(g[n - 1], log[n])]
<1>1. Len(log) \in Nat /\ \A n \in 1 .. Len(log) : log[n] \in Events
  OBVIOUS
<1>2. NothingRead \in Reads
  BY Bounds DEF NothingRead, Reads
<1>3. step \in StepsOn(Reads, Len(log))
  BY <1>1, ReadingIsARead DEF StepsOn
<1>4. PICK g : Made(g, Reads, NothingRead, Len(log), step)
  <2> HIDE DEF step
  <2> QED BY <1>1, <1>2, <1>3, Recursion
<1>5. \A m \in 1 .. Len(log) : g[m] = Reading(g[m - 1], log[m])
  <2> TAKE m \in 1 .. Len(log)
  <2>1. g[m - 1] \in Reads
    BY <1>1, <1>4 DEF Made
  <2>2. g[m] = step[m][g[m - 1]]
    BY <1>4 DEF Made
  <2> QED BY <2>1, <2>2
<1>6. Is(g)
  BY <1>1, <1>4, <1>5 DEF Made
<1>7. Is(ReadUpTo)
  <2>1. \E h : Is(h)
    BY <1>6
  <2> QED BY <2>1, Zenon DEF ReadUpTo
<1>8. ReadUpTo[0] = NothingRead
  BY <1>1, <1>7
<1>9. \A n \in 1 .. Len(log) : ReadUpTo[n] = Reading(ReadUpTo[n - 1], log[n])
  BY <1>1, <1>7
<1>10. ReadUpTo = g
  <2> DEFINE T == {n \in Nat : n <= Len(log) => ReadUpTo[n] = g[n]}
  <2>1. 0 \in T
    BY <1>4, <1>8 DEF Made
  <2>2. ASSUME NEW n \in Nat, n \in T
        PROVE  n + 1 \in T
    BY <1>5, <1>9, <2>2
  <2>3. Nat \subseteq T
    <3> HIDE DEF T
    <3> QED BY <2>1, <2>2, Inductive
  <2>4. \A n \in 0 .. Len(log) : ReadUpTo[n] = g[n]
    BY <1>1, <2>3
  <2> QED BY <1>1, <1>6, <1>7, <2>4
<1> QED BY <1>4, <1>8, <1>9, <1>10 DEF Made

-----------------------------------------------------------------------------
(* The last event of a reply.                                                *)

IsLast(l, i, r) ==
    i \in DOMAIN l /\ l[i].reply = r /\ \A j \in i + 1 .. Len(l) : l[j].reply # r

LastIn(l, r) ==
    l[CHOOSE i \in DOMAIN l : l[i].reply = r /\ \A j \in i + 1 .. Len(l) : l[j].reply # r]

LEMMA LastExists ==
    ASSUME NEW l \in Seq(Events), NEW r, NEW i \in DOMAIN l, l[i].reply = r
    PROVE  \E m : IsLast(l, m, r)
<1>1. Len(l) \in Nat /\ DOMAIN l = 1 .. Len(l)
  OBVIOUS
<1> DEFINE S == {k \in 1 .. Len(l) : l[k].reply = r}
<1>2. PICK m \in S : \A k \in S : k <= m
  <2>1. S \in SUBSET (1 .. Len(l)) /\ S # {}
    BY <1>1
  <2> HIDE DEF S
  <2> QED BY <1>1, <2>1, LastOfSome
<1>3. ASSUME NEW j \in m + 1 .. Len(l)
      PROVE  l[j].reply # r
  <2>1. m \in Nat /\ j \in 1 .. Len(l)
    BY <1>1
  <2>2. ~(j <= m)
    BY <2>1
  <2> QED BY <1>2, <2>1, <2>2
<1> QED BY <1>1, <1>3 DEF IsLast

LEMMA OneIsLast ==
    ASSUME NEW l \in Seq(Events), NEW r, NEW i, NEW j, IsLast(l, i, r), IsLast(l, j, r)
    PROVE  i = j
<1>1. i \in 1 .. Len(l) /\ j \in 1 .. Len(l) /\ Len(l) \in Nat
  BY DEF IsLast
<1>2. ~(i < j) /\ ~(j < i)
  BY <1>1 DEF IsLast
<1> QED BY <1>1, <1>2

LEMMA LastInIs ==
    ASSUME NEW l \in Seq(Events), NEW r, NEW i, IsLast(l, i, r)
    PROVE  LastIn(l, r) = l[i] /\ l[i] \in Events
<1> DEFINE last == CHOOSE j \in DOMAIN l : l[j].reply = r /\ \A k \in j + 1 .. Len(l) : l[k].reply # r
<1>1. IsLast(l, last, r)
  BY DEF IsLast
<1>2. LastIn(l, r) = l[last]
  BY DEF LastIn
<1> HIDE DEF last
<1>3. last = i
  BY <1>1, OneIsLast
<1> QED BY <1>2, <1>3 DEF IsLast

LEMMA LastEventIs ==
    ASSUME log \in Seq(Events), NEW r \in Written
    PROVE  LastEventOf(r) \in Events /\ LastEventOf(r).reply = r
<1>1. PICK i \in DOMAIN log : log[i].reply = r
  BY DEF Written
<1>2. PICK m : IsLast(log, m, r)
  BY <1>1, LastExists
<1>3. LastEventOf(r) = log[m]
  <2>1. LastIn(log, r) = log[m]
    BY <1>2, LastInIs
  <2> QED BY <2>1 DEF LastEventOf, LastIn
<1> QED BY <1>2, <1>3, LastInIs DEF IsLast

\* What an append does to the last events.
LEMMA Appending ==
    ASSUME log \in Seq(Events), NEW event \in Events, AppendEvent(event)
    PROVE  /\ log' \in Seq(Events)
           /\ Written' = Written \cup {event.reply}
           /\ LastEventOf(event.reply)' = event
           /\ \A r \in Written \ {event.reply} : LastEventOf(r)' = LastEventOf(r)
<1> DEFINE n == Len(log)
<1>1. /\ n \in Nat /\ DOMAIN log = 1 .. n
      /\ log' \in Seq(Events) /\ Len(log') = n + 1 /\ DOMAIN log' = 1 .. n + 1
      /\ log'[n + 1] = event
      /\ \A i \in 1 .. n : log'[i] = log[i]
      /\ event.reply \in Replies
  BY DEF AppendEvent, Events
<1> HIDE DEF n
<1>2. Written' = Written \cup {event.reply}
  <2>1. ASSUME NEW r \in Replies
        PROVE  r \in Written' <=> r \in Written \cup {event.reply}
    BY <1>1 DEF Written
  <2>2. Written \subseteq Replies /\ Written' \subseteq Replies
    BY DEF Written
  <2> QED BY <1>1, <2>1, <2>2
<1>3. LastEventOf(event.reply)' = event
  <2>1. IsLast(log', n + 1, event.reply)
    BY <1>1 DEF IsLast
  <2>2. LastIn(log', event.reply) = event
    BY <1>1, <2>1, LastInIs
  <2> QED BY <2>2 DEF LastEventOf, LastIn
<1>4. ASSUME NEW r \in Written \ {event.reply}
      PROVE  LastEventOf(r)' = LastEventOf(r)
  <2>1. PICK i \in DOMAIN log : log[i].reply = r
    BY DEF Written
  <2>2. PICK m : IsLast(log, m, r)
    BY <2>1, LastExists
  <2>3. IsLast(log', m, r)
    BY <1>1, <2>2 DEF IsLast
  <2>4. LastIn(log, r) = log[m]
    BY <2>2, LastInIs
  <2>5. LastIn(log', r) = log'[m]
    BY <1>1, <2>3, LastInIs
  <2>6. log'[m] = log[m]
    BY <1>1, <2>2 DEF IsLast
  <2> QED BY <2>4, <2>5, <2>6 DEF LastEventOf, LastIn
<1> QED BY <1>1, <1>2, <1>3, <1>4

-----------------------------------------------------------------------------
(* What the pass finds.                                                      *)

\* How the log is written: replies are written down in order, and nothing
\* about a reply follows the event that settled it.
Occurs(l, n, r) == \E i \in 1 .. n : l[i].reply = r
AllPending(l, n, r) == \A i \in 1 .. n : l[i].reply = r => l[i].state = "pending"

WrittenInOrder(l) == \A i \in DOMAIN l : \A q \in 1 .. l[i].reply - 1 : Occurs(l, i - 1, q)
SettledIsLast(l) ==
    \A i, j \in DOMAIN l : i < j /\ l[i].reply = l[j].reply => l[i].state = "pending"

\* What the pass knows after n events of such a log.
WaitingInv(l, n, read) ==
    \A r \in Replies : r \in read.waiting <=> Occurs(l, n, r) /\ AllPending(l, n, r)
TriesInv(l, n, read) ==
    \A r \in read.waiting : \A i \in 1 .. n :
        l[i].reply = r /\ ~(\E j \in i + 1 .. n : l[j].reply = r) => read.tries[r] = l[i].attempts
OrderInv(l, n, read) ==
    /\ \A r \in read.waiting : \E k \in DOMAIN read.order : read.order[k] = r
    /\ \A k \in DOMAIN read.order : Occurs(l, n, read.order[k])
    /\ \A j, k \in DOMAIN read.order : j < k => read.order[j] < read.order[k]
PassInv(l, n, read) ==
    ~read.tooMany => WaitingInv(l, n, read) /\ TriesInv(l, n, read) /\ OrderInv(l, n, read)

LEMMA ReadingKeepsIt ==
    ASSUME NEW l \in Seq(Events), WrittenInOrder(l), SettledIsLast(l),
           NEW n \in 0 .. Len(l) - 1, NEW read \in Reads, PassInv(l, n, read)
    PROVE  PassInv(l, n + 1, Reading(read, l[n + 1]))
<1> DEFINE event == l[n + 1]
           r == event.reply
           after == Reading(read, event)
<1>1. /\ n \in Nat /\ n + 1 \in 1 .. Len(l) /\ Len(l) \in Nat /\ DOMAIN l = 1 .. Len(l)
      /\ \A i \in 1 .. n : i \in DOMAIN l
      /\ event \in Events /\ r \in Replies
  <2>1. /\ n \in Nat /\ n + 1 \in 1 .. Len(l) /\ Len(l) \in Nat /\ DOMAIN l = 1 .. Len(l)
        /\ \A i \in 1 .. n : i \in DOMAIN l
    OBVIOUS
  <2>2. event \in Events
    BY <2>1
  <2>3. r \in Replies
    BY <2>2 DEF Events
  <2> QED BY <2>1, <2>2, <2>3
<1>2. \A q : Occurs(l, n + 1, q) <=> Occurs(l, n, q) \/ q = r
  BY <1>1 DEF Occurs
<1>3. \A q : AllPending(l, n + 1, q) <=> AllPending(l, n, q) /\ (q = r => event.state = "pending")
  BY <1>1 DEF AllPending
<1>4. \A i \in 1 .. n : l[i].reply = r => l[i].state = "pending"
  BY <1>1 DEF SettledIsLast
<1> SUFFICES ASSUME ~after.tooMany
             PROVE  WaitingInv(l, n + 1, after) /\ TriesInv(l, n + 1, after) /\ OrderInv(l, n + 1, after)
  BY DEF PassInv
<1>5. CASE read.tooMany
  BY <1>5 DEF Reading
<1>6. CASE ~read.tooMany /\ event.state # "pending"
  <2>1. after = [read EXCEPT !.waiting = @ \ {r}]
    BY <1>6 DEF Reading
  <2>2. WaitingInv(l, n, read) /\ TriesInv(l, n, read) /\ OrderInv(l, n, read)
    BY <1>6 DEF PassInv
  <2> HIDE DEF event, r, after
  <2>3. after.waiting = read.waiting \ {r} /\ after.order = read.order /\ after.tries = read.tries
    BY <2>1 DEF Reads
  <2>4. WaitingInv(l, n + 1, after)
    BY <1>2, <1>3, <1>6, <2>2, <2>3 DEF WaitingInv
  <2>5. TriesInv(l, n + 1, after)
    <3> SUFFICES ASSUME NEW q \in after.waiting, NEW i \in 1 .. n + 1, l[i].reply = q,
                        ~(\E j \in i + 1 .. n + 1 : l[j].reply = q)
                 PROVE  after.tries[q] = l[i].attempts
      BY DEF TriesInv
    <3>1. q \in read.waiting /\ q # r
      BY <2>3
    <3>2. i \in 1 .. n
      BY <1>1, <3>1 DEF r, event
    <3>3. ~(\E j \in i + 1 .. n : l[j].reply = q)
      BY <1>1, <3>2
    <3> QED BY <2>2, <2>3, <3>1, <3>2, <3>3 DEF TriesInv
  <2>6. OrderInv(l, n + 1, after)
    BY <1>2, <2>2, <2>3 DEF OrderInv
  <2> QED BY <2>4, <2>5, <2>6
<1>7. CASE ~read.tooMany /\ event.state = "pending" /\ r \in read.waiting
  <2>1. after = [read EXCEPT !.tries[r] = event.attempts]
    BY <1>7 DEF Reading, Waiting
  <2>2. WaitingInv(l, n, read) /\ TriesInv(l, n, read) /\ OrderInv(l, n, read)
    BY <1>7 DEF PassInv
  <2> HIDE DEF event, r, after
  <2>3. /\ after.waiting = read.waiting /\ after.order = read.order
        /\ after.tries = [read.tries EXCEPT ![r] = event.attempts]
        /\ read.tries \in [Replies -> 0 .. MaxAttempts]
    BY <2>1 DEF Reads
  <2>4. WaitingInv(l, n + 1, after)
    BY <1>2, <1>3, <1>7, <2>2, <2>3 DEF WaitingInv
  <2>5. TriesInv(l, n + 1, after)
    BY <1>1, <2>2, <2>3 DEF TriesInv, r, event
  <2>6. OrderInv(l, n + 1, after)
    BY <1>2, <2>2, <2>3 DEF OrderInv
  <2> QED BY <2>4, <2>5, <2>6
<1>8. CASE ~read.tooMany /\ event.state = "pending" /\ r \notin read.waiting
  <2>1. after = [read EXCEPT !.waiting = @ \cup {r}, !.order = Append(@, r),
                             !.tries[r] = event.attempts]
    BY <1>8 DEF Reading, Waiting
  <2>2. WaitingInv(l, n, read) /\ TriesInv(l, n, read) /\ OrderInv(l, n, read)
    BY <1>8 DEF PassInv
  <2>3. AllPending(l, n, r)
    BY <1>4 DEF AllPending
  <2>4. ~Occurs(l, n, r)
    BY <1>1, <1>8, <2>2, <2>3 DEF WaitingInv
  <2>5. \A k \in DOMAIN read.order : read.order[k] < r
    <3> TAKE k \in DOMAIN read.order
    <3>1. PICK i \in 1 .. n : l[i].reply = read.order[k]
      BY <2>2 DEF OrderInv, Occurs
    <3>2. read.order[k] \in Nat /\ r \in Nat /\ l[i].reply # r /\ r >= 1
      <4>1. read.order \in Seq(Replies)
        BY DEF Reads
      <4>2. read.order[k] \in Replies
        BY <4>1
      <4>3. l[i].reply # r
        BY <2>4 DEF Occurs
      <4> QED BY <1>1, <4>2, <4>3, Bounds DEF Replies
    <3>3. ~(r < l[i].reply)
      <4> SUFFICES ASSUME r < l[i].reply
                   PROVE  FALSE
        OBVIOUS
      <4>1. r \in 1 .. l[i].reply - 1
        BY <3>1, <3>2
      <4>2. Occurs(l, i - 1, r)
        BY <1>1, <4>1 DEF WrittenInOrder
      <4> QED BY <1>1, <2>4, <4>2 DEF Occurs
    <3> QED BY <3>1, <3>2, <3>3
  <2> HIDE DEF event, r, after
  <2>6. /\ after.waiting = read.waiting \cup {r} /\ after.order = Append(read.order, r)
        /\ after.tries = [read.tries EXCEPT ![r] = event.attempts]
        /\ read.tries \in [Replies -> 0 .. MaxAttempts]
        /\ read.order \in Seq(Replies)
    BY <2>1 DEF Reads
  <2>7. WaitingInv(l, n + 1, after)
    BY <1>2, <1>3, <1>8, <2>2, <2>3, <2>6 DEF WaitingInv
  <2>8. TriesInv(l, n + 1, after)
    <3> SUFFICES ASSUME NEW q \in after.waiting, NEW i \in 1 .. n + 1, l[i].reply = q,
                        ~(\E j \in i + 1 .. n + 1 : l[j].reply = q)
                 PROVE  after.tries[q] = l[i].attempts
      BY DEF TriesInv
    <3>1. CASE q = r
      <4>1. i = n + 1
        BY <1>1, <3>1 DEF r, event
      <4> QED BY <1>1, <2>6, <3>1, <4>1 DEF event
    <3>2. CASE q # r
      <4>1. q \in read.waiting
        BY <2>6, <3>2
      <4>2. i \in 1 .. n
        BY <1>1, <3>2 DEF r, event
      <4>3. ~(\E j \in i + 1 .. n : l[j].reply = q)
        BY <1>1, <4>2
      <4>4. after.tries[q] = read.tries[q]
        BY <2>6, <3>2
      <4> QED BY <2>2, <4>1, <4>2, <4>3, <4>4 DEF TriesInv
    <3> QED BY <3>1, <3>2
  <2>9. OrderInv(l, n + 1, after)
    <3>1. /\ DOMAIN after.order = DOMAIN read.order \cup {Len(read.order) + 1}
          /\ after.order[Len(read.order) + 1] = r
          /\ \A k \in DOMAIN read.order : after.order[k] = read.order[k]
          /\ DOMAIN read.order = 1 .. Len(read.order) /\ Len(read.order) \in Nat
      BY <1>1, <2>6
    <3>2. \A q \in after.waiting : \E k \in DOMAIN after.order : after.order[k] = q
      BY <2>2, <2>6, <3>1 DEF OrderInv
    <3>3. \A k \in DOMAIN after.order : Occurs(l, n + 1, after.order[k])
      BY <1>2, <2>2, <3>1 DEF OrderInv
    <3>4. \A j, k \in DOMAIN after.order : j < k => after.order[j] < after.order[k]
      BY <2>2, <2>5, <3>1 DEF OrderInv
    <3> QED BY <3>2, <3>3, <3>4 DEF OrderInv
  <2> QED BY <2>7, <2>8, <2>9
<1> QED BY <1>5, <1>6, <1>7, <1>8

LEMMA ThePass ==
    ASSUME log \in Seq(Events), WrittenInOrder(log), SettledIsLast(log)
    PROVE  WholeLog \in Reads /\ PassInv(log, Len(log), WholeLog)
<1> DEFINE T == {n \in Nat : n <= Len(log) => PassInv(log, n, ReadUpTo[n])}
<1>1. Len(log) \in Nat
  OBVIOUS
<1>2. PassInv(log, 0, NothingRead)
  BY DEF PassInv, NothingRead, WaitingInv, TriesInv, OrderInv, Occurs
<1>3. 0 \in T
  BY <1>2, ReadUpToIs
<1>4. ASSUME NEW n \in Nat, n \in T
      PROVE  n + 1 \in T
  <2> SUFFICES ASSUME n + 1 <= Len(log)
               PROVE  PassInv(log, n + 1, ReadUpTo[n + 1])
    OBVIOUS
  <2>1. n \in 0 .. Len(log) - 1 /\ PassInv(log, n, ReadUpTo[n])
    BY <1>1, <1>4
  <2>2. ReadUpTo[n] \in Reads
    BY <1>1, <2>1, ReadUpToIs
  <2>3. ReadUpTo[n + 1] = Reading(ReadUpTo[n], log[n + 1])
    <3>1. n + 1 \in 1 .. Len(log) /\ (n + 1) - 1 = n
      BY <1>1
    <3> QED BY <3>1, ReadUpToIs
  <2> QED BY <2>1, <2>2, <2>3, ReadingKeepsIt
<1>5. Nat \subseteq T
  <2> HIDE DEF T
  <2> QED BY <1>3, <1>4, Inductive
<1>6. WholeLog \in Reads
  <2>1. ReadUpTo[Len(log)] \in Reads
    BY <1>1, ReadUpToIs
  <2> QED BY <2>1 DEF WholeLog
<1>7. PassInv(log, Len(log), ReadUpTo[Len(log)])
  BY <1>1, <1>5
<1> QED BY <1>6, <1>7 DEF WholeLog

-----------------------------------------------------------------------------
(* The list of what is undelivered.                                          *)

Dues == [reply : Replies, attempts : 0 .. MaxAttempts]

\* The list after n entries of the order, and one entry more.
DueOf(read, n) == [reply |-> read.order[n], attempts |-> read.tries[read.order[n]]]
Taking(read, n, found) ==
    IF read.order[n] \notin read.waiting THEN found ELSE Append(found, DueOf(read, n))

LEMMA TakingIsAList ==
    ASSUME NEW read \in Reads, NEW n \in 1 .. Len(read.order), NEW found \in Seq(Dues)
    PROVE  DueOf(read, n) \in Dues /\ Taking(read, n, found) \in Seq(Dues)
<1>1. read.order \in Seq(Replies) /\ read.tries \in [Replies -> 0 .. MaxAttempts]
  BY DEF Reads
<1>2. read.order[n] \in Replies
  BY <1>1
<1>3. DueOf(read, n) \in Dues
  BY <1>1, <1>2 DEF DueOf, Dues
<1> QED BY <1>3 DEF Taking

IsTheListing(read, f) ==
    /\ f \in [0 .. Len(read.order) -> Seq(Dues)]
    /\ f[0] = <<>>
    /\ \A n \in 1 .. Len(read.order) : f[n] = Taking(read, n, f[n - 1])
    /\ Undelivered(read) = f[Len(read.order)]

LEMMA UndeliveredIs ==
    ASSUME NEW read \in Reads
    PROVE  \E f : IsTheListing(read, f)
<1> DEFINE last == Len(read.order)
           step == [n \in 1 .. last |-> [found \in Seq(Dues) |-> Taking(read, n, found)]]
           Is(g) == g = [n \in 0 .. last |->
                IF n = 0 THEN <<>>
                ELSE IF read.order[n] \notin read.waiting THEN g[n - 1]
                ELSE Append(g[n - 1], [reply    |-> read.order[n],
                                       attempts |-> read.tries[read.order[n]]])]
           Short(g) == g = [n \in 0 .. last |-> IF n = 0 THEN <<>> ELSE Taking(read, n, g[n - 1])]
           f == CHOOSE g : Is(g)
<1>1. last \in Nat
  BY DEF Reads
<1>2. step \in StepsOn(Seq(Dues), last)
  BY <1>1, TakingIsAList DEF StepsOn
<1>3. PICK g : Made(g, Seq(Dues), <<>>, last, step)
  <2>1. <<>> \in Seq(Dues)
    OBVIOUS
  <2> HIDE DEF step, last
  <2> QED BY <1>1, <1>2, <2>1, Recursion
<1>4. \A m \in 1 .. last : g[m] = Taking(read, m, g[m - 1])
  <2> TAKE m \in 1 .. last
  <2>1. g[m - 1] \in Seq(Dues)
    BY <1>1, <1>3 DEF Made
  <2>2. g[m] = step[m][g[m - 1]]
    BY <1>3 DEF Made
  <2> QED BY <2>1, <2>2
<1>5. Short(g)
  <2> HIDE DEF step
  <2> QED BY <1>1, <1>3, <1>4 DEF Made
<1>6. Short(f)
  <2>1. \A h : Is(h) <=> Short(h)
    BY Zenon DEF Taking, DueOf
  <2>2. \E h : Is(h)
    BY <1>5, <2>1, Zenon
  <2>3. Is(f)
    BY <2>2, Zenon
  <2> QED BY <2>1, <2>3, Zenon
<1>7. Undelivered(read) = f[last]
  BY DEF Undelivered
<1> HIDE DEF f
<1>8. f[0] = <<>>
  BY <1>1, <1>6
<1>9. \A n \in 1 .. last : f[n] = Taking(read, n, f[n - 1])
  <2> HIDE DEF Is, step
  <2> QED BY <1>1, <1>6
<1>10. f = g
  <2> DEFINE T == {n \in Nat : n <= last => f[n] = g[n]}
  <2>1. 0 \in T
    BY <1>3, <1>8 DEF Made
  <2>2. ASSUME NEW n \in Nat, n \in T
        PROVE  n + 1 \in T
    <3> HIDE DEF Is, last
    <3> QED BY <1>1, <1>4, <1>9, <2>2
  <2>3. Nat \subseteq T
    <3> HIDE DEF T
    <3> QED BY <2>1, <2>2, Inductive
  <2>4. \A n \in 0 .. last : f[n] = g[n]
    BY <1>1, <2>3
  <2> QED BY <1>1, <1>5, <1>6, <2>4
<1> QED BY <1>3, <1>7, <1>8, <1>9, <1>10 DEF Made, IsTheListing

\* What is in the list after n entries of the order.
Found(read, n, found) ==
    /\ \A r : (\E i \in DOMAIN found : found[i].reply = r)
                <=> r \in read.waiting /\ \E k \in 1 .. n : read.order[k] = r
    /\ \A i, j \in DOMAIN found : i < j => found[i].reply < found[j].reply
    /\ \A i \in DOMAIN found : found[i].attempts = read.tries[found[i].reply]

Ascending(order) == \A j, k \in DOMAIN order : j < k => order[j] < order[k]

LEMMA TakingKeepsIt ==
    ASSUME NEW read \in Reads, Ascending(read.order), NEW n \in 0 .. Len(read.order) - 1,
           NEW found \in Seq(Dues), Found(read, n, found)
    PROVE  Found(read, n + 1, Taking(read, n + 1, found))
<1> DEFINE r == read.order[n + 1]
           after == Taking(read, n + 1, found)
<1>1. /\ read.order \in Seq(Replies) /\ Len(read.order) \in Nat
      /\ DOMAIN read.order = 1 .. Len(read.order)
  BY DEF Reads
<1>2. n \in Nat /\ n + 1 \in 1 .. Len(read.order) /\ r \in Replies
  BY <1>1
<1>3. \A q : (\E k \in 1 .. n + 1 : read.order[k] = q) <=> (\E k \in 1 .. n : read.order[k] = q) \/ q = r
  BY <1>2
<1>4. CASE r \notin read.waiting
  <2>1. after = found
    BY <1>4 DEF Taking
  <2>2. Found(read, n + 1, found)
    BY <1>3, <1>4 DEF Found
  <2> QED BY <2>1, <2>2
<1>5. CASE r \in read.waiting
  <2> DEFINE due == DueOf(read, n + 1)
  <2>1. after = Append(found, due)
    BY <1>5 DEF Taking
  <2>2. due.reply = r /\ due.attempts = read.tries[r]
    BY DEF DueOf
  <2> HIDE DEF r, after, due
  <2>3. /\ DOMAIN after = DOMAIN found \cup {Len(found) + 1}
        /\ after[Len(found) + 1] = due
        /\ \A i \in DOMAIN found : after[i] = found[i]
        /\ DOMAIN found = 1 .. Len(found) /\ Len(found) \in Nat
    <3>1. due \in Dues
      BY <1>2, TakingIsAList DEF due
    <3> QED BY <2>1, <3>1
  <2>4. \A q : (\E i \in DOMAIN after : after[i].reply = q)
                 <=> (\E i \in DOMAIN found : found[i].reply = q) \/ q = r
    BY <2>2, <2>3
  <2>5. \A q : (\E i \in DOMAIN after : after[i].reply = q)
                 <=> q \in read.waiting /\ \E k \in 1 .. n + 1 : read.order[k] = q
    BY <1>3, <1>5, <2>4 DEF Found
  <2>6. \A i \in DOMAIN found : found[i].reply < r
    <3> TAKE i \in DOMAIN found
    <3>1. PICK k \in 1 .. n : read.order[k] = found[i].reply
      BY DEF Found
    <3>2. k \in DOMAIN read.order /\ n + 1 \in DOMAIN read.order /\ k < n + 1
      BY <1>1, <1>2
    <3> QED BY <3>1, <3>2 DEF Ascending, r
  <2>7. \A i, j \in DOMAIN after : i < j => after[i].reply < after[j].reply
    <3> TAKE i, j \in DOMAIN after
    <3> SUFFICES ASSUME i < j
                 PROVE  after[i].reply < after[j].reply
      OBVIOUS
    <3>1. i \in DOMAIN found
      BY <2>3
    <3>2. CASE j \in DOMAIN found
      BY <2>3, <3>1, <3>2 DEF Found
    <3>3. CASE j = Len(found) + 1
      BY <2>2, <2>3, <2>6, <3>1, <3>3
    <3> QED BY <2>3, <3>2, <3>3
  <2>8. \A i \in DOMAIN after : after[i].attempts = read.tries[after[i].reply]
    BY <2>2, <2>3 DEF Found
  <2> QED BY <2>5, <2>7, <2>8 DEF Found, after
<1> QED BY <1>4, <1>5

LEMMA TheListing ==
    ASSUME NEW read \in Reads, Ascending(read.order)
    PROVE  Undelivered(read) \in Seq(Dues) /\ Found(read, Len(read.order), Undelivered(read))
<1> DEFINE last == Len(read.order)
<1>1. last \in Nat
  BY DEF Reads
<1>2. PICK f : IsTheListing(read, f)
  BY UndeliveredIs
<1>3. \A n \in 0 .. last : f[n] \in Seq(Dues)
  BY <1>2 DEF IsTheListing
<1> DEFINE T == {n \in Nat : n <= last => Found(read, n, f[n])}
<1>4. 0 \in T
  <2>1. f[0] = <<>>
    BY <1>2 DEF IsTheListing
  <2>2. Found(read, 0, <<>>)
    BY DEF Found
  <2> QED BY <2>1, <2>2
<1>5. ASSUME NEW n \in Nat, n \in T
      PROVE  n + 1 \in T
  <2> SUFFICES ASSUME n + 1 <= last
               PROVE  Found(read, n + 1, f[n + 1])
    OBVIOUS
  <2>1. n \in 0 .. last - 1 /\ f[n] \in Seq(Dues) /\ Found(read, n, f[n])
    BY <1>1, <1>3, <1>5
  <2>2. f[n + 1] = Taking(read, n + 1, f[n])
    <3>1. n + 1 \in 1 .. last /\ (n + 1) - 1 = n
      BY <1>1
    <3> QED BY <1>2, <3>1 DEF IsTheListing
  <2> QED BY <2>1, <2>2, TakingKeepsIt
<1>6. Nat \subseteq T
  <2> HIDE DEF T
  <2> QED BY <1>4, <1>5, Inductive
<1>7. f[last] \in Seq(Dues) /\ Found(read, last, f[last])
  BY <1>1, <1>3, <1>6
<1> QED BY <1>2, <1>7 DEF IsTheListing

-----------------------------------------------------------------------------
(* What is owed, and that it is what is found.                               *)

Owed == {r \in Written : LastEventOf(r).state = "pending"}

\* Of a log in which settling comes last, a reply is owed when all its events
\* say pending.
LEMMA OwedIs ==
    ASSUME log \in Seq(Events), SettledIsLast(log), NEW r \in Replies
    PROVE  r \in Owed <=> Occurs(log, Len(log), r) /\ AllPending(log, Len(log), r)
<1>1. Len(log) \in Nat /\ DOMAIN log = 1 .. Len(log)
  OBVIOUS
<1>2. r \in Written <=> Occurs(log, Len(log), r)
  BY <1>1 DEF Written, Occurs
<1>3. ASSUME r \in Written
      PROVE  LastEventOf(r).state = "pending" <=> AllPending(log, Len(log), r)
  <2>1. PICK i \in DOMAIN log : log[i].reply = r
    BY <1>3 DEF Written
  <2>2. PICK m : IsLast(log, m, r)
    BY <2>1, LastExists
  <2>3. LastEventOf(r) = log[m]
    <3>1. LastIn(log, r) = log[m]
      BY <2>2, LastInIs
    <3> QED BY <3>1 DEF LastEventOf, LastIn
  <2>4. m \in 1 .. Len(log) /\ log[m].reply = r
    BY <1>1, <2>2 DEF IsLast
  <2>5. \A k \in 1 .. Len(log) : log[k].reply = r /\ k # m => k < m
    BY <1>1, <2>2, <2>4 DEF IsLast
  <2>6. \A k \in 1 .. Len(log) : log[k].reply = r /\ k # m => log[k].state = "pending"
    BY <1>1, <2>4, <2>5 DEF SettledIsLast
  <2> QED BY <2>3, <2>4, <2>6 DEF AllPending
<1> QED BY <1>2, <1>3 DEF Owed

LEMMA WhatIsFound ==
    ASSUME log \in Seq(Events), WrittenInOrder(log), SettledIsLast(log)
    PROVE  /\ UndeliveredIsWhatIsOwed
           /\ ~WholeLog.tooMany => Undelivered(WholeLog) \in Seq(Dues)
<1> DEFINE read == WholeLog
           found == Undelivered(read)
<1>1. read \in Reads /\ PassInv(log, Len(log), read)
  BY ThePass
<1>2. Len(log) \in Nat /\ DOMAIN log = 1 .. Len(log)
  OBVIOUS
<1>3. ASSUME ~read.tooMany
      PROVE  /\ found \in Seq(Dues)
             /\ {found[i].reply : i \in DOMAIN found} = Owed
             /\ \A i, j \in DOMAIN found : i < j => found[i].reply < found[j].reply
             /\ \A i \in DOMAIN found :
                   found[i].attempts = LastEventOf(found[i].reply).attempts
  <2> HIDE DEF read
  <2>1. WaitingInv(log, Len(log), read) /\ TriesInv(log, Len(log), read) /\ OrderInv(log, Len(log), read)
    BY <1>1, <1>3 DEF PassInv
  <2>2. Ascending(read.order)
    BY <2>1 DEF OrderInv, Ascending
  <2>3. found \in Seq(Dues) /\ Found(read, Len(read.order), found)
    BY <1>1, <2>2, TheListing
  <2> HIDE DEF found
  <2>4. read.waiting = Owed
    <3>1. \A r \in Replies : r \in read.waiting <=> r \in Owed
      BY <2>1, OwedIs DEF WaitingInv
    <3>2. read.waiting \subseteq Replies /\ Owed \subseteq Replies
      BY <1>1 DEF Reads, Owed, Written
    <3> QED BY <3>1, <3>2
  <2>5. \A r : (\E i \in DOMAIN found : found[i].reply = r) <=> r \in Owed
    <3>1. DOMAIN read.order = 1 .. Len(read.order)
      BY <1>1 DEF Reads
    <3>2. \A r \in read.waiting : \E k \in 1 .. Len(read.order) : read.order[k] = r
      BY <2>1, <3>1 DEF OrderInv
    <3> QED BY <2>3, <2>4, <3>2 DEF Found
  <2>6. \A r \in Owed : read.tries[r] = LastEventOf(r).attempts
    <3> TAKE r \in Owed
    <3>1. PICK i \in DOMAIN log : log[i].reply = r
      BY DEF Owed, Written
    <3>2. PICK m : IsLast(log, m, r)
      BY <3>1, LastExists
    <3>3. LastEventOf(r) = log[m]
      <4>1. LastIn(log, r) = log[m]
        BY <3>2, LastInIs
      <4> QED BY <4>1 DEF LastEventOf, LastIn
    <3>4. /\ m \in 1 .. Len(log) /\ log[m].reply = r
          /\ ~(\E j \in m + 1 .. Len(log) : log[j].reply = r)
      BY <1>2, <3>2 DEF IsLast
    <3> QED BY <2>1, <2>4, <3>3, <3>4 DEF TriesInv
  <2>7. \A i \in DOMAIN found : found[i].attempts = LastEventOf(found[i].reply).attempts
    BY <2>3, <2>5, <2>6 DEF Found
  <2> QED BY <2>3, <2>5, <2>7 DEF Found
<1> QED BY <1>3 DEF UndeliveredIsWhatIsOwed, Owed

-----------------------------------------------------------------------------
(* The inductive invariant.                                                  *)

UnderWay == {"written", "seen", "sent"}
AtWork == {"reading", "next", "counted", "seen", "sent"}

Typed ==
    /\ log \in Seq(Events)
    /\ oldUpTo \in 0 .. MaxReplies
    /\ life \in Lives
    /\ open \subseteq Channels
    /\ deliver \in [Replies -> DeliverSteps]
    /\ resend \in [at : ResendSteps, todo : Seq(Dues)]
    /\ for \in [Replies -> Channels]
    /\ cap \in 1 .. MaxUndelivered
    /\ copies \in [Replies -> Nat]

LogInv == WrittenInOrder(log) /\ SettledIsLast(log)

\* A Deliver that is under way is the first and only one of its reply, and
\* nothing of it is under way before the process serves.
DeliverInv ==
    \A r \in Replies :
        /\ deliver[r] = "none" <=> r \notin Written
        /\ life \in {"down", "starting"} => deliver[r] \notin UnderWay
        /\ deliver[r] \in UnderWay =>
              /\ r \in Owed
              /\ LastEventOf(r).attempts = 0
              /\ deliver[r] # "sent" => copies[r] = 0

\* What Resend has left to do is still owed, as it was read from the log, and
\* at the attempt that was counted there is a copy to spare.
TodoInv ==
    /\ resend.at \in AtWork => life = "starting"
    /\ resend.at \in AtWork \ {"reading"} =>
          /\ \A i, j \in DOMAIN resend.todo :
                i < j => resend.todo[i].reply < resend.todo[j].reply
          /\ \A r \in Replies : \A i \in DOMAIN resend.todo :
                resend.todo[i].reply = r =>
                    r \in Owed /\ resend.todo[i].attempts = LastEventOf(r).attempts
    /\ resend.at \in {"counted", "seen", "sent"} => resend.todo # <<>>
    /\ resend.at \in {"counted", "seen"} => copies[Due.reply] <= Due.attempts

CopiesInv ==
    /\ CopiesWereCounted
    /\ \A r \in Replies \ Written : copies[r] = 0

LedgerInv == Typed /\ LogInv /\ DeliverInv /\ TodoInv /\ CopiesInv

\* An append about a reply that is owed, or about the next one to be written,
\* keeps the log in its shape.
LEMMA TheLogKeepsItsShape ==
    ASSUME log \in Seq(Events), LogInv, NEW event \in Events, AppendEvent(event),
           \/ event.reply \in Owed
           \/ Written = 1 .. event.reply - 1
    PROVE  LogInv'
<1> DEFINE n == Len(log)
           r == event.reply
<1>1. /\ n \in Nat /\ DOMAIN log = 1 .. n
      /\ log' \in Seq(Events) /\ Len(log') = n + 1 /\ DOMAIN log' = 1 .. n + 1
      /\ log'[n + 1] = event
      /\ \A i \in 1 .. n : log'[i] = log[i]
  BY DEF AppendEvent
<1>2. r \in Nat
  BY Bounds DEF Events, Replies
<1> HIDE DEF n
<1>3. ASSUME NEW m \in 0 .. n, NEW q
      PROVE  Occurs(log', m, q) <=> Occurs(log, m, q)
  BY <1>1 DEF Occurs
<1>4. \A q \in 1 .. r - 1 : Occurs(log, n, q)
  <2>1. CASE r \in Owed
    <3>1. PICK i \in 1 .. n : log[i].reply = r
      BY <1>1, <2>1 DEF Owed, Written
    <3>2. \A q \in 1 .. r - 1 : Occurs(log, i - 1, q)
      BY <1>1, <3>1 DEF LogInv, WrittenInOrder
    <3> QED BY <1>1, <3>2 DEF Occurs
  <2>2. CASE Written = 1 .. r - 1
    BY <1>1, <2>2 DEF Written, Occurs
  <2> QED BY <2>1, <2>2
<1>5. \A i \in 1 .. n : log[i].reply = r => log[i].state = "pending"
  <2>1. CASE r \in Owed
    <3>1. r \in Replies
      BY <2>1 DEF Owed, Written
    <3>2. AllPending(log, n, r)
      BY <2>1, <3>1, OwedIs DEF LogInv, n
    <3> QED BY <3>2 DEF AllPending
  <2>2. CASE Written = 1 .. r - 1
    <3>1. r \notin Written /\ r \in Replies
      BY <1>2, <2>2 DEF Events
    <3> QED BY <1>1, <3>1 DEF Written
  <2> QED BY <2>1, <2>2
<1>6. WrittenInOrder(log')
  <2> SUFFICES ASSUME NEW i \in 1 .. n + 1, NEW q \in 1 .. log'[i].reply - 1
               PROVE  Occurs(log', i - 1, q)
    BY <1>1 DEF WrittenInOrder
  <2>1. i - 1 \in 0 .. n
    BY <1>1
  <2>2. CASE i = n + 1
    BY <1>1, <1>3, <1>4, <2>1, <2>2
  <2>3. CASE i \in 1 .. n
    <3>1. Occurs(log, i - 1, q)
      BY <1>1, <2>3 DEF LogInv, WrittenInOrder
    <3> QED BY <1>3, <2>1, <3>1
  <2> QED BY <1>1, <2>2, <2>3
<1>7. SettledIsLast(log')
  <2> SUFFICES ASSUME NEW i \in 1 .. n + 1, NEW j \in 1 .. n + 1, i < j,
                      log'[i].reply = log'[j].reply
               PROVE  log'[i].state = "pending"
    BY <1>1 DEF SettledIsLast
  <2>1. i \in 1 .. n
    BY <1>1
  <2>2. CASE j = n + 1
    BY <1>1, <1>5, <2>1, <2>2
  <2>3. CASE j \in 1 .. n
    BY <1>1, <2>1, <2>3 DEF LogInv, SettledIsLast
  <2> QED BY <1>1, <2>2, <2>3
<1> QED BY <1>6, <1>7 DEF LogInv

\* Who is owed a reply after an append.
LEMMA AppendingOwes ==
    ASSUME log \in Seq(Events), NEW event \in Events, AppendEvent(event)
    PROVE  /\ event.state = "pending" => Owed' = Owed \cup {event.reply}
           /\ event.state # "pending" => Owed' = Owed \ {event.reply}
<1>1. /\ Written' = Written \cup {event.reply}
      /\ LastEventOf(event.reply)' = event
      /\ \A r \in Written \ {event.reply} : LastEventOf(r)' = LastEventOf(r)
  BY Appending
<1>2. Owed' = {r \in Written' : LastEventOf(r)'.state = "pending"}
  BY DEF Owed
<1>3. \A r : r # event.reply => (r \in Owed' <=> r \in Owed)
  BY <1>1, <1>2 DEF Owed
<1>4. event.reply \in Owed' <=> event.state = "pending"
  BY <1>1, <1>2
<1> QED BY <1>3, <1>4

LEMMA TheLogStays ==
    ASSUME log' = log
    PROVE  /\ Written' = Written
           /\ Owed' = Owed
           /\ \A r : LastEventOf(r)' = LastEventOf(r)
           /\ LogInv => LogInv'
<1>1. Written' = Written
  BY DEF Written
<1>2. \A r : LastEventOf(r)' = LastEventOf(r)
  BY DEF LastEventOf
<1>3. Owed' = Owed
  BY <1>1, <1>2 DEF Owed
<1>4. LogInv => LogInv'
  BY DEF LogInv
<1> QED BY <1>1, <1>2, <1>3, <1>4

LEMMA TypesAgree == Typed => LedgerTypeOK
  BY DEF Typed, LedgerTypeOK, Events, Dues

-----------------------------------------------------------------------------
(* Deliver keeps the invariant.                                              *)

\* Resend is not at work while a Deliver is.
LEMMA ResendIsOver ==
    ASSUME LedgerInv, NEW r \in Replies, Running \/ deliver[r] \in UnderWay
    PROVE  resend.at \notin AtWork /\ life \notin {"down", "starting"}
<1>1. life \notin {"down", "starting"}
  BY DEF LedgerInv, DeliverInv, Running
<1> QED BY <1>1 DEF LedgerInv, TodoInv

LEMMA TodoIdles ==
    ASSUME resend' = resend, resend.at \notin AtWork
    PROVE  TodoInv'
  BY DEF TodoInv, AtWork

LEMMA RecordKeeps ==
    ASSUME LedgerInv, NEW r \in Replies, Record(r)
    PROVE  LedgerInv'
<1> DEFINE event == Event(r, "pending", 0)
<1>1. event \in Events /\ event.reply = r /\ event.state = "pending" /\ event.attempts = 0
  BY Bounds DEF Event, Events
<1> HIDE DEF event
<1>2. AppendEvent(event) /\ Written = 1 .. r - 1 /\ deliver[r] = "none" /\ r \notin Written
  BY DEF Record, event, LedgerInv, DeliverInv
<1>3. log \in Seq(Events)
  BY DEF Typed, LedgerInv
<1>4. /\ log' \in Seq(Events)
      /\ Written' = Written \cup {r} /\ LastEventOf(r)' = event /\ Owed' = Owed \cup {r}
      /\ \A q \in Written \ {r} : LastEventOf(q)' = LastEventOf(q)
  BY <1>1, <1>2, <1>3, Appending, AppendingOwes
<1>5. /\ deliver' = [deliver EXCEPT ![r] = "written"]
      /\ deliver \in [Replies -> DeliverSteps]
      /\ UNCHANGED <<oldUpTo, life, open, for, cap, resend, copies>>
  BY DEF Typed, LedgerInv, Record, At, Quiet
<1>6. Typed'
  <2>1. deliver' \in [Replies -> DeliverSteps]
    BY <1>5 DEF DeliverSteps
  <2> QED BY <1>4, <1>5, <2>1 DEF Typed, LedgerInv
<1>7. LogInv'
  BY <1>1, <1>2, <1>3, TheLogKeepsItsShape DEF LedgerInv
<1>8. Running
  BY DEF Record
<1>9. DeliverInv'
  <2> SUFFICES ASSUME NEW q \in Replies
               PROVE  /\ deliver'[q] = "none" <=> q \notin Written'
                      /\ life' \in {"down", "starting"} => deliver'[q] \notin UnderWay
                      /\ deliver'[q] \in UnderWay =>
                            /\ q \in Owed'
                            /\ LastEventOf(q)'.attempts = 0
                            /\ deliver'[q] # "sent" => copies'[q] = 0
    BY DEF DeliverInv
  <2>1. CASE q = r
    <3>1. deliver'[q] = "written" /\ life' \notin {"down", "starting"}
      BY <1>5, <1>8, <2>1 DEF Running
    <3>2. copies'[q] = 0
      BY <1>2, <1>5, <2>1 DEF LedgerInv, CopiesInv
    <3> QED BY <1>1, <1>4, <2>1, <3>1, <3>2
  <2>2. CASE q # r
    <3>1. deliver'[q] = deliver[q]
      BY <1>5, <2>2
    <3>2. q \in Owed => q \in Written \ {r}
      BY <2>2 DEF Owed
    <3> QED BY <1>4, <1>5, <2>2, <3>1, <3>2 DEF LedgerInv, DeliverInv
  <2> QED BY <2>1, <2>2
<1>10. TodoInv'
  BY <1>5, <1>8, ResendIsOver, TodoIdles
<1>11. CopiesInv'
  <2>1. copies[r] = 0
    BY <1>2 DEF LedgerInv, CopiesInv
  <2>2. \A q \in Written' : copies'[q] <= 1 + LastEventOf(q)'.attempts
    BY <1>1, <1>4, <1>5, <2>1 DEF LedgerInv, CopiesInv, CopiesWereCounted
  <2>3. \A q \in Replies \ Written' : copies'[q] = 0
    BY <1>4, <1>5 DEF LedgerInv, CopiesInv
  <2> QED BY <2>2, <2>3 DEF CopiesInv, CopiesWereCounted
<1> QED BY <1>6, <1>7, <1>9, <1>10, <1>11 DEF LedgerInv

\* A step of Deliver that leaves the log alone: the reply of this Deliver goes
\* one step on, and its copies stay within what was counted.
LEMMA DeliverGoesOn ==
    ASSUME LedgerInv, NEW r \in Replies, log' = log, deliver[r] \in UnderWay,
           NEW step \in {"seen", "sent", "over"}, At(r, step), Quiet, UNCHANGED resend,
           copies' \in [Replies -> Nat], \A q \in Replies \ {r} : copies'[q] = copies[q],
           copies'[r] <= 1, step = "seen" => copies'[r] = 0
    PROVE  LedgerInv'
<1>1. /\ Written' = Written /\ Owed' = Owed /\ LogInv'
      /\ \A q : LastEventOf(q)' = LastEventOf(q)
  BY TheLogStays DEF LedgerInv
<1>2. /\ deliver' = [deliver EXCEPT ![r] = step]
      /\ deliver \in [Replies -> DeliverSteps]
      /\ UNCHANGED <<oldUpTo, life, open, for, cap, resend>>
  BY DEF Typed, LedgerInv, At, Quiet
<1>3. r \in Owed /\ r \in Written /\ LastEventOf(r).attempts = 0
  BY DEF LedgerInv, DeliverInv, Owed
<1>4. Typed'
  <2>1. deliver' \in [Replies -> DeliverSteps]
    BY <1>2 DEF DeliverSteps
  <2> QED BY <1>2, <2>1 DEF Typed, LedgerInv
<1>5. DeliverInv'
  <2> SUFFICES ASSUME NEW q \in Replies
               PROVE  /\ deliver'[q] = "none" <=> q \notin Written'
                      /\ life' \in {"down", "starting"} => deliver'[q] \notin UnderWay
                      /\ deliver'[q] \in UnderWay =>
                            /\ q \in Owed'
                            /\ LastEventOf(q)'.attempts = 0
                            /\ deliver'[q] # "sent" => copies'[q] = 0
    BY DEF DeliverInv
  <2>1. CASE q = r
    <3>1. deliver'[q] = step
      BY <1>2, <2>1
    <3>2. life' \notin {"down", "starting"}
      BY <1>2, ResendIsOver
    <3>3. step \in UnderWay /\ step # "sent" => copies'[r] = 0
      BY DEF UnderWay
    <3> QED BY <1>1, <1>3, <2>1, <3>1, <3>2, <3>3
  <2>2. CASE q # r
    <3>1. deliver'[q] = deliver[q] /\ copies'[q] = copies[q]
      BY <1>2, <2>2
    <3> QED BY <1>1, <1>2, <3>1 DEF LedgerInv, DeliverInv
  <2> QED BY <2>1, <2>2
<1>6. TodoInv'
  BY <1>2, ResendIsOver, TodoIdles
<1>7. CopiesInv'
  <2>1. \A q \in Written' : copies'[q] <= 1 + LastEventOf(q)'.attempts
    <3> TAKE q \in Written'
    <3>1. q \in Written /\ q \in Replies
      BY <1>1 DEF Written
    <3>2. CASE q = r
      BY <1>1, <1>3, <3>2
    <3>3. CASE q # r
      BY <1>1, <3>1, <3>3 DEF LedgerInv, CopiesInv, CopiesWereCounted
    <3> QED BY <3>2, <3>3
  <2>2. \A q \in Replies \ Written' : copies'[q] = 0
    BY <1>1, <1>3 DEF LedgerInv, CopiesInv
  <2> QED BY <2>1, <2>2 DEF CopiesInv, CopiesWereCounted
<1> QED BY <1>1, <1>4, <1>5, <1>6, <1>7 DEF LedgerInv

\* How many copies a reply has reached its user with, when nothing was sent yet
\* and when it was.
LEMMA CopiesOfADeliver ==
    ASSUME LedgerInv, NEW r \in Replies, deliver[r] \in UnderWay
    PROVE  /\ copies \in [Replies -> Nat]
           /\ copies[r] <= 1
           /\ deliver[r] # "sent" => copies[r] = 0
<1>1. /\ r \in Owed /\ LastEventOf(r).attempts = 0
      /\ deliver[r] # "sent" => copies[r] = 0
  BY DEF LedgerInv, DeliverInv
<1>2. copies[r] <= 1 + LastEventOf(r).attempts
  BY <1>1 DEF Owed, LedgerInv, CopiesInv, CopiesWereCounted
<1> QED BY <1>1, <1>2 DEF Typed, LedgerInv

LEMMA SendingAddsOneAtMost ==
    ASSUME copies \in [Replies -> Nat], NEW r \in Replies, NEW taken, Sending(r, taken)
    PROVE  /\ copies' \in [Replies -> Nat]
           /\ copies'[r] = copies[r] \/ copies'[r] = copies[r] + 1
           /\ copies' = [copies EXCEPT ![r] = copies'[r]]
<1>1. PICK copy \in {0, 1} : copies' = [copies EXCEPT ![r] = @ + copy]
  BY DEF Sending
<1> QED BY <1>1

LEMMA LookKeeps ==
    ASSUME LedgerInv, NEW r \in Replies, Look(r)
    PROVE  LedgerInv'
<1>1. /\ deliver[r] = "written" /\ log' = log /\ copies' = copies /\ Quiet /\ UNCHANGED resend
      /\ \E step \in {"seen", "over"} : At(r, step)
  BY DEF Look
<1>2. deliver[r] \in UnderWay
  BY <1>1 DEF UnderWay
<1> QED BY <1>1, <1>2, CopiesOfADeliver, DeliverGoesOn

LEMMA SendKeeps ==
    ASSUME LedgerInv, NEW r \in Replies, Send(r)
    PROVE  LedgerInv'
<1>1. /\ deliver[r] = "seen" /\ log' = log /\ Quiet /\ UNCHANGED resend
      /\ \E taken \in BOOLEAN : Sending(r, taken) /\ At(r, IF taken THEN "sent" ELSE "over")
  BY DEF Send
<1>2. deliver[r] \in UnderWay
  BY <1>1 DEF UnderWay
<1>3. copies \in [Replies -> Nat] /\ copies[r] = 0
  BY <1>1, <1>2, CopiesOfADeliver
<1>4. PICK taken \in BOOLEAN : Sending(r, taken) /\ At(r, IF taken THEN "sent" ELSE "over")
  BY <1>1
<1>5. /\ copies' \in [Replies -> Nat] /\ copies'[r] <= 1
      /\ \A q \in Replies \ {r} : copies'[q] = copies[q]
  BY <1>3, <1>4, SendingAddsOneAtMost
<1>6. \E step \in {"sent", "over"} : At(r, step)
  BY <1>4
<1> QED BY <1>1, <1>2, <1>5, <1>6, DeliverGoesOn

LEMMA MarkDeliveredKeeps ==
    ASSUME LedgerInv, NEW r \in Replies, MarkDelivered(r)
    PROVE  LedgerInv'
<1>1. deliver[r] = "sent" /\ At(r, "over") /\ Quiet /\ UNCHANGED <<resend, copies>>
  BY DEF MarkDelivered
<1>2. deliver[r] \in UnderWay
  BY <1>1 DEF UnderWay
<1>3. CASE log' = log
  BY <1>1, <1>2, <1>3, CopiesOfADeliver, DeliverGoesOn
<1>4. CASE AppendEvent(Event(r, "delivered", 0))
  <2> DEFINE event == Event(r, "delivered", 0)
  <2>1. event \in Events /\ event.reply = r /\ event.state = "delivered" /\ event.attempts = 0
    BY Bounds DEF Event, Events
  <2> HIDE DEF event
  <2>2. AppendEvent(event)
    BY <1>4 DEF event
  <2>3. r \in Owed /\ r \in Written /\ copies[r] <= 1
    BY <1>2, CopiesOfADeliver DEF LedgerInv, DeliverInv, Owed
  <2>4. log \in Seq(Events)
    BY DEF Typed, LedgerInv
  <2>5. /\ log' \in Seq(Events)
        /\ Written' = Written /\ LastEventOf(r)' = event /\ Owed' = Owed \ {r}
        /\ \A q \in Written \ {r} : LastEventOf(q)' = LastEventOf(q)
    <3>1. /\ log' \in Seq(Events) /\ Written' = Written \cup {r} /\ LastEventOf(r)' = event
          /\ \A q \in Written \ {r} : LastEventOf(q)' = LastEventOf(q)
      BY <2>1, <2>2, <2>4, Appending
    <3>2. Owed' = Owed \ {r}
      BY <2>1, <2>2, <2>4, AppendingOwes
    <3> QED BY <2>3, <3>1, <3>2
  <2>6. /\ deliver' = [deliver EXCEPT ![r] = "over"]
        /\ deliver \in [Replies -> DeliverSteps]
        /\ UNCHANGED <<oldUpTo, life, open, for, cap, resend, copies>>
    BY <1>1 DEF Typed, LedgerInv, At, Quiet
  <2>7. Typed'
    <3>1. deliver' \in [Replies -> DeliverSteps]
      BY <2>6 DEF DeliverSteps
    <3> QED BY <2>5, <2>6, <3>1 DEF Typed, LedgerInv
  <2>8. LogInv'
    BY <2>1, <2>2, <2>3, <2>4, TheLogKeepsItsShape DEF LedgerInv
  <2>9. DeliverInv'
    <3> SUFFICES ASSUME NEW q \in Replies
                 PROVE  /\ deliver'[q] = "none" <=> q \notin Written'
                        /\ life' \in {"down", "starting"} => deliver'[q] \notin UnderWay
                        /\ deliver'[q] \in UnderWay =>
                              /\ q \in Owed'
                              /\ LastEventOf(q)'.attempts = 0
                              /\ deliver'[q] # "sent" => copies'[q] = 0
      BY DEF DeliverInv
    <3>1. CASE q = r
      <4>1. deliver'[q] = "over" /\ "over" \notin UnderWay
        BY <2>6, <3>1 DEF UnderWay
      <4> QED BY <2>3, <2>5, <3>1, <4>1
    <3>2. CASE q # r
      <4>1. deliver'[q] = deliver[q]
        BY <2>6, <3>2
      <4>2. q \in Owed => q \in Written \ {r}
        BY <3>2 DEF Owed
      <4> QED BY <2>5, <2>6, <3>2, <4>1, <4>2 DEF LedgerInv, DeliverInv
    <3> QED BY <3>1, <3>2
  <2>10. TodoInv'
    BY <1>2, <2>6, ResendIsOver, TodoIdles
  <2>11. CopiesInv'
    <3>1. \A q \in Written' : copies'[q] <= 1 + LastEventOf(q)'.attempts
      BY <2>1, <2>3, <2>5, <2>6 DEF LedgerInv, CopiesInv, CopiesWereCounted
    <3>2. \A q \in Replies \ Written' : copies'[q] = 0
      BY <2>5, <2>6 DEF LedgerInv, CopiesInv
    <3> QED BY <3>1, <3>2 DEF CopiesInv, CopiesWereCounted
  <2> QED BY <2>7, <2>8, <2>9, <2>10, <2>11 DEF LedgerInv
<1> QED BY <1>3, <1>4 DEF MarkDelivered

-----------------------------------------------------------------------------
(* Resend keeps the invariant.                                               *)

\* While Resend is at work no Deliver is.
LEMMA DeliverIsIdle ==
    ASSUME LedgerInv, resend.at \in AtWork
    PROVE  life = "starting" /\ \A q \in Replies : deliver[q] \notin UnderWay
  BY DEF LedgerInv, TodoInv, DeliverInv

LEMMA DeliverIdles ==
    ASSUME LedgerInv, deliver' = deliver, Written' = Written,
           \A q \in Replies : deliver[q] \notin UnderWay
    PROVE  DeliverInv'
  BY DEF LedgerInv, DeliverInv

\* The reply Resend has come to.
LEMMA TheDueReply ==
    ASSUME LedgerInv, resend.at \in AtWork \ {"reading"}, resend.todo # <<>>
    PROVE  /\ 1 \in DOMAIN resend.todo /\ Due \in Dues
           /\ Due.reply \in Replies /\ Due.reply \in Owed /\ Due.reply \in Written
           /\ Due.attempts \in 0 .. MaxAttempts
           /\ \A r : r = Due.reply => Due.attempts = LastEventOf(r).attempts
<1>1. resend.todo \in Seq(Dues)
  BY DEF LedgerInv, Typed
<1>2. 1 \in DOMAIN resend.todo /\ Due \in Dues
  BY <1>1 DEF Due
<1>3. Due.reply \in Replies /\ Due.attempts \in 0 .. MaxAttempts
  BY <1>2 DEF Dues
<1> DEFINE r == Due.reply
<1>4. r \in Owed /\ Due.attempts = LastEventOf(r).attempts
  BY <1>2, <1>3 DEF LedgerInv, TodoInv, Due
<1> QED BY <1>2, <1>3, <1>4 DEF Owed

\* Going on to the next reply: what happened to this one says nothing of the
\* others, for each is in the list once.
LEMMA GoingOn ==
    ASSUME LedgerInv, resend.at \in AtWork \ {"reading"}, resend.todo # <<>>,
           NextReply, life' = life,
           \A q \in Owed \ {Due.reply} : q \in Owed' /\ LastEventOf(q)' = LastEventOf(q)
    PROVE  TodoInv' /\ resend' \in [at : ResendSteps, todo : Seq(Dues)]
<1>1. resend.todo \in Seq(Dues) /\ life = "starting"
  BY DEF LedgerInv, Typed, TodoInv
<1>2. resend' = [at |-> "next", todo |-> Tail(resend.todo)]
  BY DEF NextReply
<1>3. /\ Tail(resend.todo) \in Seq(Dues)
      /\ \A i \in DOMAIN Tail(resend.todo) :
            i + 1 \in DOMAIN resend.todo /\ 1 < i + 1 /\ Tail(resend.todo)[i] = resend.todo[i + 1]
      /\ 1 \in DOMAIN resend.todo
      /\ \A i \in DOMAIN Tail(resend.todo) : i \in Nat
  BY <1>1
<1> DEFINE rest == resend'.todo
<1>4. rest = Tail(resend.todo) /\ resend'.at = "next"
  BY <1>2
<1>5. \A i, j \in DOMAIN rest : i < j => rest[i].reply < rest[j].reply
  <2> TAKE i, j \in DOMAIN rest
  <2> SUFFICES ASSUME i < j
               PROVE  rest[i].reply < rest[j].reply
    OBVIOUS
  <2>1. i + 1 < j + 1 /\ i + 1 \in DOMAIN resend.todo /\ j + 1 \in DOMAIN resend.todo
    BY <1>3, <1>4
  <2> QED BY <1>3, <1>4, <2>1 DEF LedgerInv, TodoInv
<1>6. \A r \in Replies : \A i \in DOMAIN rest :
            rest[i].reply = r => r \in Owed' /\ rest[i].attempts = LastEventOf(r)'.attempts
  <2> SUFFICES ASSUME NEW r \in Replies, NEW i \in DOMAIN rest, rest[i].reply = r
               PROVE  r \in Owed' /\ rest[i].attempts = LastEventOf(r)'.attempts
    OBVIOUS
  <2>1. /\ i + 1 \in DOMAIN resend.todo /\ 1 < i + 1 /\ 1 \in DOMAIN resend.todo
        /\ rest[i] = resend.todo[i + 1]
    BY <1>3, <1>4
  <2>2. r \in Owed /\ rest[i].attempts = LastEventOf(r).attempts
    BY <2>1 DEF LedgerInv, TodoInv
  <2>3. resend.todo[1].reply < resend.todo[i + 1].reply
    BY <2>1 DEF LedgerInv, TodoInv
  <2>4. r # Due.reply
    <3>1. r \in Nat
      BY Bounds DEF Replies
    <3> QED BY <2>1, <2>3, <3>1 DEF Due
  <2> QED BY <2>2, <2>4
<1>7. TodoInv'
  BY <1>1, <1>4, <1>5, <1>6 DEF TodoInv
<1>8. resend' \in [at : ResendSteps, todo : Seq(Dues)]
  BY <1>2, <1>3 DEF ResendSteps
<1> QED BY <1>7, <1>8

\* A step of Resend that leaves the log alone and changes no more than where it
\* is and the copies of the reply it has come to.
LEMMA ResendGoesOn ==
    ASSUME LedgerInv, resend.at \in AtWork, log' = log, Quiet, UNCHANGED deliver,
           resend' \in [at : ResendSteps, todo : Seq(Dues)], TodoInv',
           copies' \in [Replies -> Nat],
           \A q \in Written : copies'[q] <= 1 + LastEventOf(q).attempts,
           \A q \in Replies \ Written : copies'[q] = copies[q]
    PROVE  LedgerInv'
<1>1. /\ Written' = Written /\ Owed' = Owed /\ LogInv'
      /\ \A q : LastEventOf(q)' = LastEventOf(q)
  BY TheLogStays DEF LedgerInv
<1>2. Typed'
  BY DEF LedgerInv, Typed, Quiet
<1>3. DeliverInv'
  BY <1>1, DeliverIsIdle, DeliverIdles
<1>4. CopiesInv'
  <2>1. \A q \in Written' : copies'[q] <= 1 + LastEventOf(q)'.attempts
    BY <1>1
  <2>2. \A q \in Replies \ Written' : copies'[q] = 0
    BY <1>1 DEF LedgerInv, CopiesInv
  <2> QED BY <2>1, <2>2 DEF CopiesInv, CopiesWereCounted
<1> QED BY <1>1, <1>2, <1>3, <1>4 DEF LedgerInv

LEMMA ReadTheLogKeeps ==
    ASSUME LedgerInv, ReadTheLog
    PROVE  LedgerInv'
<1> DEFINE todo == Undelivered(WholeLog)
<1>1. /\ resend.at = "reading" /\ resend.at \in AtWork
      /\ log' = log /\ Quiet /\ UNCHANGED <<deliver, copies>>
      /\ life' = life
  BY DEF ReadTheLog, AtWork, Quiet
<1>2. log \in Seq(Events) /\ resend \in [at : ResendSteps, todo : Seq(Dues)]
  BY DEF LedgerInv, Typed
<1>3. life = "starting"
  BY <1>1 DEF LedgerInv, TodoInv
<1>4. /\ Owed' = Owed
      /\ \A q : LastEventOf(q)' = LastEventOf(q)
  BY <1>1, TheLogStays
<1>5. CASE ~WholeLog.tooMany /\ resend' = [at |-> "next", todo |-> todo]
  <2>1. UndeliveredIsWhatIsOwed /\ todo \in Seq(Dues)
    BY <1>2, <1>5, WhatIsFound DEF LedgerInv, LogInv
  <2>2. /\ {todo[i].reply : i \in DOMAIN todo} = Owed
        /\ \A i, j \in DOMAIN todo : i < j => todo[i].reply < todo[j].reply
        /\ \A i \in DOMAIN todo : todo[i].attempts = LastEventOf(todo[i].reply).attempts
    BY <1>5, <2>1 DEF UndeliveredIsWhatIsOwed, Owed
  <2> HIDE DEF todo
  <2>3. resend' \in [at : ResendSteps, todo : Seq(Dues)]
    BY <1>5, <2>1 DEF ResendSteps
  <2>4. TodoInv'
    <3>1. resend'.at = "next" /\ resend'.todo = todo
      BY <1>5
    <3>2. \A r \in Replies : \A i \in DOMAIN todo :
              todo[i].reply = r => r \in Owed' /\ todo[i].attempts = LastEventOf(r)'.attempts
      BY <1>4, <2>2
    <3> QED BY <1>1, <1>3, <2>2, <3>1, <3>2 DEF TodoInv
  <2> QED BY <1>1, <2>3, <2>4, ResendGoesOn DEF LedgerInv, Typed, CopiesInv, CopiesWereCounted
<1>6. CASE Resending("failed")
  <2>1. resend' = [resend EXCEPT !.at = "failed"]
    BY <1>6 DEF Resending
  <2>2. resend' \in [at : ResendSteps, todo : Seq(Dues)] /\ resend'.at = "failed"
    BY <1>2, <2>1 DEF ResendSteps
  <2>3. TodoInv'
    BY <2>2 DEF TodoInv, AtWork
  <2> QED BY <1>1, <2>2, <2>3, ResendGoesOn DEF LedgerInv, Typed, CopiesInv, CopiesWereCounted
<1> QED BY <1>5, <1>6 DEF ReadTheLog

LEMMA ResendEndsKeeps ==
    ASSUME LedgerInv, StartFails \/ ResendReturns
    PROVE  LedgerInv'
<1>1. /\ resend.at \in AtWork /\ log' = log /\ Quiet /\ UNCHANGED <<deliver, copies>>
      /\ \E step \in {"failed", "returned"} : Resending(step)
  BY DEF StartFails, ResendReturns, AtWork
<1>2. PICK step \in {"failed", "returned"} : resend' = [resend EXCEPT !.at = step]
  BY <1>1 DEF Resending
<1>3. resend' \in [at : ResendSteps, todo : Seq(Dues)] /\ resend'.at = step
  BY <1>2 DEF LedgerInv, Typed, ResendSteps
<1>4. TodoInv'
  BY <1>3 DEF TodoInv, AtWork
<1> QED BY <1>1, <1>3, <1>4, ResendGoesOn DEF LedgerInv, Typed, CopiesInv, CopiesWereCounted

LEMMA LookAgainKeeps ==
    ASSUME LedgerInv, LookAgain
    PROVE  LedgerInv'
<1>1. /\ resend.at = "counted" /\ resend.at \in AtWork \ {"reading"}
      /\ log' = log /\ Quiet /\ UNCHANGED <<deliver, copies>> /\ life' = life
      /\ resend.todo # <<>>
  BY DEF LookAgain, AtWork, Quiet, LedgerInv, TodoInv
<1>2. /\ Owed' = Owed
      /\ \A q : LastEventOf(q)' = LastEventOf(q)
  BY <1>1, TheLogStays
<1>3. resend \in [at : ResendSteps, todo : Seq(Dues)]
  BY DEF LedgerInv, Typed
<1>4. CASE Resending("seen")
  <2>1. resend' = [resend EXCEPT !.at = "seen"]
    BY <1>4 DEF Resending
  <2>2. /\ resend' \in [at : ResendSteps, todo : Seq(Dues)]
        /\ resend'.at = "seen" /\ resend'.todo = resend.todo
    BY <1>3, <2>1 DEF ResendSteps
  <2>3. TodoInv'
    BY <1>1, <1>2, <2>2 DEF LedgerInv, TodoInv, AtWork, Due
  <2> QED BY <1>1, <2>2, <2>3, ResendGoesOn DEF LedgerInv, Typed, CopiesInv, CopiesWereCounted
<1>5. CASE NextReply
  <2>1. TodoInv' /\ resend' \in [at : ResendSteps, todo : Seq(Dues)]
    BY <1>1, <1>2, <1>5, GoingOn
  <2> QED BY <1>1, <2>1, ResendGoesOn DEF LedgerInv, Typed, CopiesInv, CopiesWereCounted
<1> QED BY <1>4, <1>5 DEF LookAgain

LEMMA SendAgainKeeps ==
    ASSUME LedgerInv, SendAgain
    PROVE  LedgerInv'
<1>1. /\ resend.at = "seen" /\ resend.at \in AtWork \ {"reading"}
      /\ log' = log /\ Quiet /\ UNCHANGED deliver /\ life' = life
      /\ resend.todo # <<>> /\ copies[Due.reply] <= Due.attempts
  BY DEF SendAgain, AtWork, Quiet, LedgerInv, TodoInv
<1>2. /\ Owed' = Owed
      /\ \A q : LastEventOf(q)' = LastEventOf(q)
  BY <1>1, TheLogStays
<1>3. resend \in [at : ResendSteps, todo : Seq(Dues)] /\ copies \in [Replies -> Nat]
  BY DEF LedgerInv, Typed
<1>4. PICK taken \in BOOLEAN :
          Sending(Due.reply, taken) /\ IF taken THEN Resending("sent") ELSE NextReply
  BY DEF SendAgain
<1>5. PICK r \in Replies : /\ r = Due.reply /\ r \in Written
                           /\ Due.attempts = LastEventOf(r).attempts
  BY <1>1, TheDueReply
<1>6. Due.attempts \in Nat
  BY <1>1, TheDueReply, Bounds
<1>7. Sending(r, taken)
  BY <1>4, <1>5
<1>8. /\ copies' \in [Replies -> Nat]
      /\ copies'[r] <= 1 + copies[r]
      /\ \A q \in Replies \ {r} : copies'[q] = copies[q]
  BY <1>3, <1>7, SendingAddsOneAtMost
<1>9. \A q \in Written : copies'[q] <= 1 + LastEventOf(q).attempts
  <2> TAKE q \in Written
  <2>1. CASE q = r
    <3>1. copies[r] \in Nat /\ copies'[r] \in Nat /\ copies[r] <= Due.attempts
      BY <1>1, <1>3, <1>5, <1>8
    <3> QED BY <1>5, <1>6, <1>8, <2>1, <3>1
  <2>2. CASE q # r
    BY <1>8, <2>2 DEF LedgerInv, CopiesInv, CopiesWereCounted, Written
  <2> QED BY <2>1, <2>2
<1>10. \A q \in Replies \ Written : copies'[q] = copies[q]
  BY <1>5, <1>8
<1>11. TodoInv' /\ resend' \in [at : ResendSteps, todo : Seq(Dues)]
  <2>1. CASE Resending("sent")
    <3>1. resend' = [resend EXCEPT !.at = "sent"]
      BY <2>1 DEF Resending
    <3>2. /\ resend' \in [at : ResendSteps, todo : Seq(Dues)]
          /\ resend'.at = "sent" /\ resend'.todo = resend.todo
      BY <1>3, <3>1 DEF ResendSteps
    <3>3. TodoInv'
      BY <1>1, <1>2, <3>2 DEF LedgerInv, TodoInv, AtWork
    <3> QED BY <3>2, <3>3
  <2>2. CASE NextReply
    BY <1>1, <1>2, <2>2, GoingOn
  <2> QED BY <1>4, <2>1, <2>2
<1> QED BY <1>1, <1>8, <1>9, <1>10, <1>11, ResendGoesOn

\* What Resend writes about the reply it has come to.
LEMMA ResendWrites ==
    ASSUME LedgerInv, resend.at \in AtWork \ {"reading"}, resend.todo # <<>>,
           NEW event \in Events, event.reply = Due.reply, AppendEvent(event)
    PROVE  /\ log' \in Seq(Events) /\ LogInv' /\ Written' = Written
           /\ \A r : r = Due.reply => LastEventOf(r)' = event
           /\ Due.reply \in Owed' <=> event.state = "pending"
           /\ \A q \in Written \ {Due.reply} :
                 /\ LastEventOf(q)' = LastEventOf(q)
                 /\ q \in Owed' <=> q \in Owed
<1>1. log \in Seq(Events) /\ LogInv
  BY DEF LedgerInv, Typed
<1>2. PICK r \in Replies : r = Due.reply /\ r \in Written /\ r \in Owed
  BY TheDueReply
<1>3. /\ log' \in Seq(Events) /\ Written' = Written \cup {event.reply}
      /\ LastEventOf(event.reply)' = event
      /\ \A q \in Written \ {event.reply} : LastEventOf(q)' = LastEventOf(q)
  BY <1>1, Appending
<1>4. /\ event.state = "pending" => Owed' = Owed \cup {event.reply}
      /\ event.state # "pending" => Owed' = Owed \ {event.reply}
  BY <1>1, AppendingOwes
<1>5. LogInv'
  BY <1>1, <1>2, TheLogKeepsItsShape
<1> QED BY <1>2, <1>3, <1>4, <1>5

LEMMA WritingKeeps ==
    ASSUME LedgerInv, resend.at \in AtWork \ {"reading"}, resend.todo # <<>>,
           NEW event \in Events, event.reply = Due.reply, event.attempts >= Due.attempts,
           AppendEvent(event), Quiet, UNCHANGED <<deliver, copies>>,
           resend' \in [at : ResendSteps, todo : Seq(Dues)], TodoInv'
    PROVE  LedgerInv'
<1>1. /\ log' \in Seq(Events) /\ LogInv' /\ Written' = Written
      /\ \A r : r = Due.reply => LastEventOf(r)' = event
      /\ \A q \in Written \ {Due.reply} : LastEventOf(q)' = LastEventOf(q)
  BY ResendWrites
<1>2. Typed'
  BY <1>1 DEF LedgerInv, Typed, Quiet
<1>3. DeliverInv'
  BY <1>1, DeliverIsIdle, DeliverIdles
<1>4. CopiesInv'
  <2>1. PICK r \in Replies : r = Due.reply /\ r \in Written /\ Due.attempts = LastEventOf(r).attempts
    BY TheDueReply
  <2>2. /\ Due.attempts \in Nat /\ event.attempts \in Nat
        /\ copies[r] <= 1 + Due.attempts /\ copies[r] \in Nat
    BY <2>1, TheDueReply, Bounds DEF Events, LedgerInv, CopiesInv, CopiesWereCounted, Typed
  <2>3. \A q \in Written' : copies'[q] <= 1 + LastEventOf(q)'.attempts
    <3> TAKE q \in Written'
    <3>1. CASE q = r
      <4>1. copies'[q] = copies[r] /\ LastEventOf(q)' = event
        BY <1>1, <2>1, <3>1
      <4> QED BY <2>2, <4>1
    <3>2. CASE q # r
      BY <1>1, <2>1, <3>2 DEF LedgerInv, CopiesInv, CopiesWereCounted
    <3> QED BY <3>1, <3>2
  <2>4. \A q \in Replies \ Written' : copies'[q] = 0
    BY <1>1 DEF LedgerInv, CopiesInv
  <2> QED BY <2>3, <2>4 DEF CopiesInv, CopiesWereCounted
<1> QED BY <1>1, <1>2, <1>3, <1>4 DEF LedgerInv

\* Resend settles a reply: it is marked delivered, or given up on.
LEMMA SettlingKeeps ==
    ASSUME LedgerInv, GiveUp \/ MarkResent
    PROVE  LedgerInv'
<1>1. /\ resend.at \in AtWork \ {"reading"} /\ resend.todo # <<>>
      /\ NextReply /\ Quiet /\ UNCHANGED <<deliver, copies>> /\ life' = life
      /\ \E state \in {"delivered", "givenUp"} : AppendEvent(Event(Due.reply, state, Due.attempts))
  BY DEF GiveUp, MarkResent, AtWork, Quiet, LedgerInv, TodoInv
<1>2. PICK state \in {"delivered", "givenUp"} : AppendEvent(Event(Due.reply, state, Due.attempts))
  BY <1>1
<1> DEFINE event == Event(Due.reply, state, Due.attempts)
<1>3. /\ event \in Events /\ event.reply = Due.reply
      /\ event.attempts = Due.attempts /\ event.attempts >= Due.attempts
  <2>1. Due.reply \in Replies /\ Due.attempts \in 0 .. MaxAttempts
    BY <1>1, TheDueReply
  <2> QED BY <2>1, Bounds DEF Event, Events
<1> HIDE DEF event
<1>4. AppendEvent(event)
  BY <1>2 DEF event
<1>5. \A q \in Owed \ {Due.reply} : q \in Owed' /\ LastEventOf(q)' = LastEventOf(q)
  BY <1>1, <1>3, <1>4, ResendWrites DEF Owed
<1>6. TodoInv' /\ resend' \in [at : ResendSteps, todo : Seq(Dues)]
  BY <1>1, <1>5, GoingOn
<1> QED BY <1>1, <1>3, <1>4, <1>6, WritingKeeps

LEMMA CountTheAttemptKeeps ==
    ASSUME LedgerInv, CountTheAttempt
    PROVE  LedgerInv'
<1>1. /\ resend.at = "next" /\ resend.at \in AtWork \ {"reading"} /\ resend.todo # <<>>
      /\ Quiet /\ UNCHANGED <<deliver, copies>> /\ life' = life
      /\ ~HasHadItsChances /\ AppendEvent(Event(Due.reply, "pending", Due.attempts + 1))
      /\ resend' = [at |-> "counted", todo |-> [resend.todo EXCEPT ![1].attempts = @ + 1]]
  BY DEF CountTheAttempt, AtWork, Quiet
<1>2. PICK r \in Replies : /\ r = Due.reply /\ r \in Written
                           /\ Due.attempts = LastEventOf(r).attempts
  BY <1>1, TheDueReply
<1>3. Due \in Dues /\ Due.attempts \in 0 .. MaxAttempts /\ 1 \in DOMAIN resend.todo
  BY <1>1, TheDueReply
<1>4. Due.attempts + 1 \in 0 .. MaxAttempts
  BY <1>1, <1>3, Bounds DEF HasHadItsChances
<1> DEFINE event == Event(Due.reply, "pending", Due.attempts + 1)
           todo == [resend.todo EXCEPT ![1].attempts = @ + 1]
<1>5. /\ event \in Events /\ event.reply = Due.reply /\ event.state = "pending"
      /\ event.attempts = Due.attempts + 1 /\ event.attempts >= Due.attempts
  BY <1>2, <1>3, <1>4 DEF Event, Events
<1>6. resend.todo \in Seq(Dues)
  BY DEF LedgerInv, Typed
<1>7. /\ todo \in Seq(Dues) /\ DOMAIN todo = DOMAIN resend.todo
      /\ todo[1].reply = r /\ todo[1].attempts = Due.attempts + 1
      /\ \A i \in DOMAIN resend.todo \ {1} : todo[i] = resend.todo[i]
  <2> DEFINE due == [Due EXCEPT !.attempts = @ + 1]
  <2>1. due \in Dues /\ due.reply = r /\ due.attempts = Due.attempts + 1
    BY <1>2, <1>3, <1>4 DEF Dues
  <2>2. todo = [resend.todo EXCEPT ![1] = due]
    BY <1>3 DEF Due
  <2> HIDE DEF due, todo
  <2> QED BY <1>3, <1>6, <2>1, <2>2
<1> HIDE DEF event, todo
<1>8. AppendEvent(event) /\ resend' = [at |-> "counted", todo |-> todo]
  BY <1>1 DEF event, todo
<1>9. /\ LastEventOf(r)' = event /\ r \in Owed'
      /\ \A q \in Written \ {r} : LastEventOf(q)' = LastEventOf(q) /\ (q \in Owed' <=> q \in Owed)
  BY <1>1, <1>2, <1>5, <1>8, ResendWrites
<1>10. resend' \in [at : ResendSteps, todo : Seq(Dues)]
  BY <1>7, <1>8 DEF ResendSteps
<1>11. TodoInv'
  <2>1. resend'.at = "counted" /\ resend'.todo = todo /\ life' = "starting"
    BY <1>1, <1>8 DEF LedgerInv, TodoInv
  <2>2. \A i \in DOMAIN todo : todo[i].reply = resend.todo[i].reply
    BY <1>2, <1>7 DEF Due
  <2>3. \A i, j \in DOMAIN todo : i < j => todo[i].reply < todo[j].reply
    BY <1>1, <1>7, <2>2 DEF LedgerInv, TodoInv
  <2>4. \A i \in DOMAIN todo \ {1} : todo[i].reply # r
    <3> TAKE i \in DOMAIN todo \ {1}
    <3>1. i \in Nat /\ 1 < i
      BY <1>6, <1>7
    <3>2. todo[1].reply < todo[i].reply
      BY <1>3, <1>7, <2>3, <3>1
    <3>3. r \in Nat
      BY Bounds DEF Replies
    <3> QED BY <1>7, <3>2, <3>3
  <2>5. \A q \in Replies : \A i \in DOMAIN todo :
            todo[i].reply = q => q \in Owed' /\ todo[i].attempts = LastEventOf(q)'.attempts
    <3> SUFFICES ASSUME NEW q \in Replies, NEW i \in DOMAIN todo, todo[i].reply = q
                 PROVE  q \in Owed' /\ todo[i].attempts = LastEventOf(q)'.attempts
      OBVIOUS
    <3>1. CASE i = 1
      BY <1>5, <1>7, <1>9, <3>1
    <3>2. CASE i # 1
      <4>1. q # r /\ todo[i] = resend.todo[i] /\ i \in DOMAIN resend.todo
        BY <1>7, <2>4, <3>2
      <4>2. q \in Owed /\ todo[i].attempts = LastEventOf(q).attempts
        BY <1>1, <4>1 DEF LedgerInv, TodoInv
      <4> QED BY <1>9, <4>1, <4>2 DEF Owed
    <3> QED BY <3>1, <3>2
  <2>6. todo # <<>>
    BY <1>3, <1>7
  <2>7. copies'[todo[1].reply] <= todo[1].attempts
    BY <1>1, <1>2, <1>3, <1>7 DEF LedgerInv, CopiesInv, CopiesWereCounted
  <2> QED BY <2>1, <2>3, <2>5, <2>6, <2>7 DEF TodoInv, Due
<1> QED BY <1>1, <1>5, <1>8, <1>10, <1>11, WritingKeeps

-----------------------------------------------------------------------------
(* The life of the process keeps the invariant.                              *)

LEMMA LivingKeeps ==
    ASSUME LedgerInv,
           \/ Serve \/ Stop \/ Die \/ Start \/ DayPasses
           \/ \E channel \in Channels : Opens(channel) \/ Closes(channel)
    PROVE  LedgerInv'
<1>1. log' = log /\ copies' = copies /\ for' = for /\ cap' = cap
  BY DEF Serve, Stop, Die, Start, DayPasses, Opens, Closes
<1>2. /\ Written' = Written /\ Owed' = Owed /\ LogInv'
      /\ \A q : LastEventOf(q)' = LastEventOf(q)
  BY <1>1, TheLogStays DEF LedgerInv
<1>3. CopiesInv'
  <2>1. \A q \in Written' : copies'[q] <= 1 + LastEventOf(q)'.attempts
    BY <1>1, <1>2 DEF LedgerInv, CopiesInv, CopiesWereCounted
  <2>2. \A q \in Replies \ Written' : copies'[q] = 0
    BY <1>1, <1>2 DEF LedgerInv, CopiesInv
  <2> QED BY <2>1, <2>2 DEF CopiesInv, CopiesWereCounted
<1>4. ASSUME resend' = resend, deliver' = deliver,
             life' = life \/ (resend.at \notin AtWork /\ life' \in {"serving", "stopping"})
      PROVE  DeliverInv' /\ TodoInv'
  <2>1. DeliverInv'
    BY <1>1, <1>2, <1>4 DEF LedgerInv, DeliverInv
  <2>2. TodoInv'
    <3>1. CASE resend.at \notin AtWork
      BY <1>4, <3>1, TodoIdles
    <3>2. CASE life' = life
      BY <1>1, <1>2, <1>4, <3>2 DEF LedgerInv, TodoInv, Due
    <3> QED BY <1>4, <3>1, <3>2
  <2> QED BY <2>1, <2>2
<1>5. CASE Serve
  <2>1. Typed'
    BY <1>5 DEF LedgerInv, Typed, Serve, Lives
  <2> QED BY <1>2, <1>3, <1>4, <1>5, <2>1 DEF LedgerInv, Serve, AtWork
<1>6. CASE Stop
  <2>1. Typed'
    BY <1>6 DEF LedgerInv, Typed, Stop, Lives
  <2>2. resend.at \notin AtWork
    BY <1>6 DEF Stop, LedgerInv, TodoInv
  <2> QED BY <1>2, <1>3, <1>4, <1>6, <2>1, <2>2 DEF LedgerInv, Stop
<1>7. CASE Die
  <2>1. /\ deliver' = [r \in Replies |-> IF deliver[r] = "none" THEN "none" ELSE "over"]
        /\ resend' = NoResend /\ life' = "down" /\ open' = {} /\ oldUpTo' = oldUpTo
    BY <1>7 DEF Die
  <2>2. Typed'
    <3>1. deliver' \in [Replies -> DeliverSteps]
      BY <2>1 DEF DeliverSteps
    <3>2. resend' \in [at : ResendSteps, todo : Seq(Dues)]
      BY <2>1 DEF NoResend, ResendSteps
    <3> QED BY <1>1, <2>1, <3>1, <3>2 DEF LedgerInv, Typed, Lives
  <2>3. DeliverInv'
    BY <1>2, <2>1 DEF LedgerInv, DeliverInv, UnderWay
  <2>4. TodoInv'
    BY <2>1 DEF TodoInv, NoResend, AtWork
  <2> QED BY <1>2, <1>3, <2>2, <2>3, <2>4 DEF LedgerInv
<1>8. CASE Start
  <2>1. /\ deliver' = deliver /\ resend' = [at |-> "reading", todo |-> <<>>]
        /\ life = "down" /\ life' = "starting" /\ UNCHANGED <<open, oldUpTo>>
    BY <1>8 DEF Start
  <2>2. Typed'
    <3>1. resend' \in [at : ResendSteps, todo : Seq(Dues)]
      BY <2>1 DEF ResendSteps
    <3> QED BY <1>1, <2>1, <3>1 DEF LedgerInv, Typed, Lives
  <2>3. DeliverInv'
    BY <1>1, <1>2, <2>1 DEF LedgerInv, DeliverInv
  <2>4. TodoInv'
    BY <2>1 DEF TodoInv, AtWork
  <2> QED BY <1>2, <1>3, <2>2, <2>3, <2>4 DEF LedgerInv
<1>9. CASE DayPasses
  <2>1. oldUpTo' \in 0 .. MaxReplies
    <3>1. /\ IsFiniteSet(1 .. MaxReplies) /\ Cardinality(1 .. MaxReplies) = MaxReplies
      BY Bounds, FS_Interval
    <3>2. Written \subseteq 1 .. MaxReplies
      BY DEF Written, Replies
    <3>3. Cardinality(Written) \in Nat /\ Cardinality(Written) <= MaxReplies
      BY <3>1, <3>2, FS_Subset, FS_CardinalityType
    <3>4. oldUpTo \in Nat /\ oldUpTo' \in oldUpTo + 1 .. Cardinality(Written)
      BY <1>9, Bounds DEF DayPasses, LedgerInv, Typed
    <3> QED BY <3>3, <3>4, Bounds
  <2>2. Typed'
    BY <1>9, <2>1 DEF LedgerInv, Typed, DayPasses
  <2>3. UNCHANGED <<resend, deliver, life>>
    BY <1>9 DEF DayPasses
  <2>4. DeliverInv' /\ TodoInv'
    BY <1>4, <2>3
  <2> QED BY <1>2, <1>3, <2>2, <2>4 DEF LedgerInv
<1>10. CASE \E channel \in Channels : Opens(channel) \/ Closes(channel)
  <2>1. UNCHANGED <<oldUpTo, life, deliver, resend>>
    BY <1>10 DEF Opens, Closes
  <2>2. open' \subseteq Channels
    BY <1>10 DEF Opens, Closes, LedgerInv, Typed
  <2>3. Typed'
    BY <1>1, <2>1, <2>2 DEF LedgerInv, Typed
  <2>4. DeliverInv' /\ TodoInv'
    BY <1>4, <2>1
  <2> QED BY <1>2, <1>3, <2>3, <2>4 DEF LedgerInv
<1> QED BY <1>5, <1>6, <1>7, <1>8, <1>9, <1>10

-----------------------------------------------------------------------------
(* The invariant holds, and what follows from it.                            *)

LEMMA InitIsInv == Init => LedgerInv
<1> SUFFICES ASSUME Init
             PROVE  LedgerInv
  OBVIOUS
<1>1. log = <<>> /\ copies = [r \in Replies |-> 0] /\ life = "serving" /\ resend = NoResend
  BY DEF Init
<1>2. Written = {}
  BY <1>1 DEF Written
<1>3. Typed
  <2>1. deliver \in [Replies -> DeliverSteps]
    BY DEF Init, DeliverSteps
  <2>2. resend \in [at : ResendSteps, todo : Seq(Dues)]
    BY <1>1 DEF NoResend, ResendSteps
  <2> QED BY <2>1, <2>2, Bounds DEF Init, Typed, Lives
<1>4. LogInv
  BY <1>1 DEF LogInv, WrittenInOrder, SettledIsLast
<1>5. DeliverInv
  BY <1>2 DEF Init, DeliverInv, UnderWay
<1>6. TodoInv
  BY <1>1 DEF TodoInv, NoResend, AtWork
<1>7. CopiesInv
  BY <1>1, <1>2 DEF CopiesInv, CopiesWereCounted
<1> QED BY <1>3, <1>4, <1>5, <1>6, <1>7 DEF LedgerInv

LEMMA NextKeepsInv ==
    ASSUME LedgerInv, [Next]_vars
    PROVE  LedgerInv'
<1>1. CASE \E r \in Replies : DeliverStep(r)
  BY <1>1, RecordKeeps, LookKeeps, SendKeeps, MarkDeliveredKeeps DEF DeliverStep
<1>2. CASE ResendStep \/ StartFails
  BY <1>2, ReadTheLogKeeps, ResendEndsKeeps, SettlingKeeps, CountTheAttemptKeeps,
     LookAgainKeeps, SendAgainKeeps DEF ResendStep
<1>3. CASE \/ Serve \/ Stop \/ Die \/ Start \/ DayPasses
           \/ \E channel \in Channels : Opens(channel) \/ Closes(channel)
  BY <1>3, LivingKeeps
<1>4. CASE UNCHANGED vars
  <2>1. UNCHANGED <<log, oldUpTo, life, open, deliver, resend, for, cap, copies>>
    BY <1>4 DEF vars
  <2>2. Written' = Written /\ Owed' = Owed /\ LogInv' /\ \A q : LastEventOf(q)' = LastEventOf(q)
    BY <2>1, TheLogStays DEF LedgerInv
  <2>3. Typed'
    BY <2>1 DEF LedgerInv, Typed
  <2>4. DeliverInv'
    BY <2>1, <2>2 DEF LedgerInv, DeliverInv
  <2>5. TodoInv'
    BY <2>1, <2>2 DEF LedgerInv, TodoInv, Due
  <2>6. CopiesInv'
    BY <2>1, <2>2 DEF LedgerInv, CopiesInv, CopiesWereCounted
  <2> QED BY <2>2, <2>3, <2>4, <2>5, <2>6 DEF LedgerInv
<1> QED BY <1>1, <1>2, <1>3, <1>4 DEF Next

THEOREM LedgerInvHolds == Spec => []LedgerInv
<1>1. Init => LedgerInv
  BY InitIsInv
<1>2. LedgerInv /\ [Next]_vars => LedgerInv'
  BY NextKeepsInv
<1> QED BY <1>1, <1>2, PTL DEF Spec

\* Everything the ledger keeps, in the log and in memory, has its type: the
\* attempts of ledger.go's Resend never pass MaxDeliveryAttempts.
THEOREM LedgerHasItsTypes == Spec => []LedgerTypeOK
<1>1. LedgerInv => LedgerTypeOK
  BY TypesAgree DEF LedgerInv
<1> QED BY <1>1, LedgerInvHolds, PTL

\* Whatever Deliver, Resend, stops and kills left in the log, the one pass of
\* Undelivered over it finds each reply that is owed, once, oldest first, and
\* with its attempts.
THEOREM WhatIsOwedIsFound == Spec => []UndeliveredIsWhatIsOwed
<1>1. LedgerInv => UndeliveredIsWhatIsOwed
  BY WhatIsFound DEF LedgerInv, Typed, LogInv
<1> QED BY <1>1, LedgerInvHolds, PTL

\* One plain copy, and one more for each attempt that was counted in the log.
THEOREM EveryCopyWasCounted == Spec => []CopiesWereCounted
<1>1. LedgerInv => CopiesWereCounted
  BY DEF LedgerInv, CopiesInv
<1> QED BY <1>1, LedgerInvHolds, PTL

-----------------------------------------------------------------------------
(* The log keeps the promise: every step is one of OwedReplies, or none.     *)

Status == [r \in Replies |-> StatusOf(r)]

\* What an event makes of its reply.
Becomes(state) == [pending |-> "owed", delivered |-> "told", givenUp |-> "letGo"][state]

LEMMA StatusIs ==
    ASSUME log \in Seq(Events), NEW r \in Replies
    PROVE  /\ Status[r] = "unwritten" <=> r \notin Written
           /\ Status[r] = "owed" <=> r \in Owed
<1>1. CASE r \in Written
  <2>1. LastEventOf(r) \in Events
    BY <1>1, LastEventIs
  <2>2. LastEventOf(r).state \in {"pending", "delivered", "givenUp"}
    BY <2>1 DEF Events
  <2>3. Status[r] = StatusOf(r)
    BY DEF Status
  <2> QED BY <1>1, <2>2, <2>3 DEF StatusOf, Owed
<1>2. CASE r \notin Written
  BY <1>2 DEF Status, StatusOf, Owed
<1> QED BY <1>1, <1>2

LEMMA StatusMoves ==
    ASSUME log \in Seq(Events), NEW event \in Events, AppendEvent(event)
    PROVE  Status' = [Status EXCEPT ![event.reply] = Becomes(event.state)]
<1> DEFINE r == event.reply
<1>1. /\ r \in Replies /\ r \in Written' /\ LastEventOf(r)' = event
      /\ \A q : q # r => (q \in Written' <=> q \in Written)
      /\ \A q \in Written \ {r} : LastEventOf(q)' = LastEventOf(q)
  BY Appending DEF Events
<1>2. StatusOf(r)' = Becomes(event.state)
  <2>1. StatusOf(r)' = IF r \notin Written' THEN "unwritten" ELSE Becomes(LastEventOf(r)'.state)
    BY DEF StatusOf, Becomes
  <2> QED BY <1>1, <2>1
<1>3. ASSUME NEW q \in Replies, q # r
      PROVE  StatusOf(q)' = StatusOf(q)
  <2>1. StatusOf(q)' = IF q \notin Written' THEN "unwritten" ELSE Becomes(LastEventOf(q)'.state)
    BY DEF StatusOf, Becomes
  <2>2. StatusOf(q) = IF q \notin Written THEN "unwritten" ELSE Becomes(LastEventOf(q).state)
    BY DEF StatusOf, Becomes
  <2> QED BY <1>1, <1>3, <2>1, <2>2
<1>4. Status' = [q \in Replies |-> StatusOf(q)']
  BY DEF Status
<1>5. Status = [q \in Replies |-> StatusOf(q)]
  BY DEF Status
<1> HIDE DEF r
<1> QED BY <1>1, <1>2, <1>3, <1>4, <1>5 DEF r

\* Nothing happens to the promise.
LEMMA NothingHappens ==
    ASSUME log' = log, copies' = copies
    PROVE  UNCHANGED Promise!vars
<1>1. Status' = Status
  <2>1. \A r \in Replies : StatusOf(r)' = StatusOf(r)
    BY DEF StatusOf, Written, LastEventOf
  <2> QED BY <2>1 DEF Status
<1> QED BY <1>1 DEF Promise!vars, Status

\* An event is written about a reply that is owed, or the first one about a
\* reply that was not written down yet.
LEMMA AnEventIsAStep ==
    ASSUME LedgerInv, NEW event \in Events, AppendEvent(event), copies' = copies,
           \/ event.reply \notin Written /\ event.state = "pending"
           \/ event.reply \in Owed
    PROVE  [Promise!Next]_(Promise!vars)
<1> DEFINE r == event.reply
<1>1. r \in Replies /\ event.state \in {"pending", "delivered", "givenUp"}
  BY DEF Events
<1>2. log \in Seq(Events)
  BY DEF LedgerInv, Typed
<1>3. Status' = [Status EXCEPT ![r] = Becomes(event.state)]
  BY <1>2, StatusMoves
<1>4. /\ Status[r] = "unwritten" <=> r \notin Written
      /\ Status[r] = "owed" <=> r \in Owed
  BY <1>1, <1>2, StatusIs
<1> HIDE DEF r
<1>5. CASE r \notin Written /\ event.state = "pending"
  <2>1. Promise!Write(r)
    BY <1>3, <1>4, <1>5 DEF Promise!Write, Promise!Move, Status, Becomes
  <2> QED BY <1>1, <2>1 DEF Promise!Next
<1>6. CASE r \in Owed /\ event.state = "pending"
  <2>1. Becomes(event.state) = "owed" /\ Status[r] = "owed"
    BY <1>4, <1>6 DEF Becomes
  <2>2. Status' = [Status EXCEPT ![r] = Status[r]]
    BY <1>3, <2>1
  <2>3. Status' = Status
    BY <2>2 DEF Status
  <2> QED BY <2>3 DEF Promise!vars, Status
<1>7. CASE r \in Owed /\ event.state = "delivered"
  <2>1. Promise!Tell(r)
    BY <1>3, <1>4, <1>7 DEF Promise!Tell, Promise!Move, Status, Becomes
  <2> QED BY <1>1, <2>1 DEF Promise!Next
<1>8. CASE r \in Owed /\ event.state = "givenUp"
  <2>1. Promise!LetGo(r)
    BY <1>3, <1>4, <1>8 DEF Promise!LetGo, Promise!Move, Status, Becomes
  <2> QED BY <1>1, <2>1 DEF Promise!Next
<1> QED BY <1>1, <1>5, <1>6, <1>7, <1>8 DEF r

\* A copy reaches the user, or does not.
LEMMA ACopyIsAStep ==
    ASSUME LedgerInv, NEW r \in Owed, log' = log,
           copies[r] < 1 + MaxAttempts,
           copies' = copies \/ copies' = [copies EXCEPT ![r] = @ + 1]
    PROVE  [Promise!Next]_(Promise!vars)
<1>1. r \in Replies /\ log \in Seq(Events)
  BY DEF LedgerInv, Typed, Owed, Written
<1>2. CASE copies' = copies
  BY <1>2, NothingHappens
<1>3. CASE copies' = [copies EXCEPT ![r] = @ + 1]
  <2>1. Status[r] = "owed"
    BY <1>1, StatusIs
  <2>2. Status' = Status
    <3>1. \A q \in Replies : StatusOf(q)' = StatusOf(q)
      BY DEF StatusOf, Written, LastEventOf
    <3> QED BY <3>1 DEF Status
  <2>3. Promise!Show(r)
    BY <1>3, <2>1, <2>2 DEF Promise!Show, Status
  <2> QED BY <1>1, <2>3 DEF Promise!Next
<1> QED BY <1>2, <1>3

LEMMA SendingIsACopyOrNone ==
    ASSUME copies \in [Replies -> Nat], NEW r \in Replies, NEW taken, Sending(r, taken)
    PROVE  copies' = copies \/ copies' = [copies EXCEPT ![r] = @ + 1]
<1>1. /\ copies' = [copies EXCEPT ![r] = copies'[r]]
      /\ copies'[r] = copies[r] \/ copies'[r] = copies[r] + 1
  BY SendingAddsOneAtMost
<1>2. CASE copies'[r] = copies[r]
  BY <1>1, <1>2
<1>3. CASE copies'[r] = copies[r] + 1
  BY <1>1, <1>3
<1> QED BY <1>1, <1>2, <1>3

\* Steps of Deliver.
LEMMA DeliverIsAStep ==
    ASSUME LedgerInv, NEW r \in Replies, DeliverStep(r)
    PROVE  [Promise!Next]_(Promise!vars)
<1>1. CASE Record(r)
  <2> DEFINE event == Event(r, "pending", 0)
  <2>1. event \in Events /\ event.reply = r /\ event.state = "pending"
    BY Bounds DEF Event, Events
  <2> HIDE DEF event
  <2>2. AppendEvent(event) /\ copies' = copies /\ r \notin Written
    BY <1>1 DEF Record, event, LedgerInv, DeliverInv
  <2> QED BY <2>1, <2>2, AnEventIsAStep
<1>2. CASE Look(r)
  BY <1>2, NothingHappens DEF Look
<1>3. CASE Send(r)
  <2>1. deliver[r] = "seen" /\ deliver[r] \in UnderWay /\ log' = log
    BY <1>3 DEF Send, UnderWay
  <2>2. r \in Owed /\ copies[r] = 0
    BY <2>1 DEF LedgerInv, DeliverInv
  <2>3. PICK taken \in BOOLEAN : Sending(r, taken)
    BY <1>3 DEF Send
  <2>4. copies' = copies \/ copies' = [copies EXCEPT ![r] = @ + 1]
    BY <2>3, SendingIsACopyOrNone DEF LedgerInv, Typed
  <2> QED BY <2>1, <2>2, <2>4, Bounds, ACopyIsAStep
<1>4. CASE MarkDelivered(r)
  <2> DEFINE event == Event(r, "delivered", 0)
  <2>1. event \in Events /\ event.reply = r
    BY Bounds DEF Event, Events
  <2> HIDE DEF event
  <2>2. /\ AppendEvent(event) \/ log' = log
        /\ copies' = copies /\ deliver[r] \in UnderWay
    BY <1>4 DEF MarkDelivered, event, UnderWay
  <2>3. r \in Owed
    BY <2>2 DEF LedgerInv, DeliverInv
  <2>4. CASE AppendEvent(event)
    BY <2>1, <2>2, <2>3, <2>4, AnEventIsAStep
  <2>5. CASE log' = log
    BY <2>2, <2>5, NothingHappens
  <2> QED BY <2>2, <2>4, <2>5
<1> QED BY <1>1, <1>2, <1>3, <1>4 DEF DeliverStep

\* Steps of Resend.
LEMMA ResendIsAStep ==
    ASSUME LedgerInv, ResendStep \/ StartFails
    PROVE  [Promise!Next]_(Promise!vars)
<1>1. CASE ReadTheLog \/ ResendReturns \/ StartFails \/ LookAgain
  BY <1>1, NothingHappens DEF ReadTheLog, ResendReturns, StartFails, LookAgain
<1>2. CASE GiveUp \/ MarkResent \/ CountTheAttempt
  <2>1. resend.at \in AtWork \ {"reading"} /\ resend.todo # <<>> /\ copies' = copies
    BY <1>2 DEF GiveUp, MarkResent, CountTheAttempt, AtWork, LedgerInv, TodoInv
  <2>2. Due.reply \in Replies /\ Due.reply \in Owed /\ Due.attempts \in 0 .. MaxAttempts
    BY <2>1, TheDueReply
  <2>3. \E state \in {"pending", "delivered", "givenUp"}, attempts \in 0 .. MaxAttempts :
            AppendEvent(Event(Due.reply, state, attempts))
    <3>1. CASE GiveUp \/ MarkResent
      BY <2>2, <3>1 DEF GiveUp, MarkResent
    <3>2. CASE CountTheAttempt
      <4>1. Due.attempts + 1 \in 0 .. MaxAttempts
        BY <2>2, <3>2, Bounds DEF CountTheAttempt, HasHadItsChances
      <4> QED BY <3>2, <4>1 DEF CountTheAttempt
    <3> QED BY <1>2, <3>1, <3>2
  <2>4. PICK state \in {"pending", "delivered", "givenUp"}, attempts \in 0 .. MaxAttempts :
            AppendEvent(Event(Due.reply, state, attempts))
    BY <2>3
  <2> DEFINE event == Event(Due.reply, state, attempts)
  <2>5. event \in Events /\ event.reply = Due.reply
    BY <2>2 DEF Event, Events
  <2> QED BY <2>1, <2>2, <2>4, <2>5, AnEventIsAStep
<1>3. CASE SendAgain
  <2>1. /\ resend.at = "seen" /\ resend.at \in AtWork \ {"reading"} /\ resend.todo # <<>>
        /\ log' = log /\ copies[Due.reply] <= Due.attempts
    BY <1>3 DEF SendAgain, AtWork, LedgerInv, TodoInv
  <2>2. Due.reply \in Replies /\ Due.reply \in Owed /\ Due.attempts \in 0 .. MaxAttempts
    BY <2>1, TheDueReply
  <2>3. copies[Due.reply] < 1 + MaxAttempts
    <3>1. copies[Due.reply] \in Nat
      BY <2>2 DEF LedgerInv, Typed
    <3> QED BY <2>1, <2>2, <3>1, Bounds
  <2>4. PICK r \in Owed : r = Due.reply
    BY <2>2
  <2>5. PICK taken \in BOOLEAN : Sending(r, taken)
    BY <1>3, <2>4 DEF SendAgain
  <2>6. r \in Replies
    BY <2>2, <2>4
  <2>7. copies' = copies \/ copies' = [copies EXCEPT ![r] = @ + 1]
    BY <2>5, <2>6, SendingIsACopyOrNone DEF LedgerInv, Typed
  <2> QED BY <2>1, <2>3, <2>4, <2>7, ACopyIsAStep
<1> QED BY <1>1, <1>2, <1>3 DEF ResendStep

LEMMA EveryStepIsAStep ==
    ASSUME LedgerInv, [Next]_vars
    PROVE  [Promise!Next]_(Promise!vars)
<1>1. CASE \E r \in Replies : DeliverStep(r)
  BY <1>1, DeliverIsAStep
<1>2. CASE ResendStep \/ StartFails
  BY <1>2, ResendIsAStep
<1>3. CASE \/ Serve \/ Stop \/ Die \/ Start \/ DayPasses
           \/ \E channel \in Channels : Opens(channel) \/ Closes(channel)
  BY <1>3, NothingHappens DEF Serve, Stop, Die, Start, DayPasses, Opens, Closes
<1>4. CASE UNCHANGED vars
  BY <1>4, NothingHappens DEF vars
<1> QED BY <1>1, <1>2, <1>3, <1>4 DEF Next

\* Deliver, Resend and any crashes between their steps do with each reply what
\* OwedReplies promises: written down before a copy is shown, no copy after it
\* was marked or given up on, never more copies than 1 + MaxDeliveryAttempts.
THEOREM ThePromiseIsKept == Spec => LedgerKeepsItsPromise
<1>1. Init => Promise!Init
  <2> SUFFICES ASSUME Init
               PROVE  Promise!Init
    OBVIOUS
  <2>1. Written = {}
    BY DEF Init, Written
  <2>2. \A r \in Replies : StatusOf(r) = "unwritten"
    BY <2>1 DEF StatusOf
  <2> QED BY <2>2 DEF Init, Promise!Init
<1>2. LedgerInv /\ [Next]_vars => [Promise!Next]_(Promise!vars)
  BY EveryStepIsAStep
<1> QED BY <1>1, <1>2, LedgerInvHolds, PTL DEF Spec, LedgerKeepsItsPromise, Promise!Spec
=============================================================================
