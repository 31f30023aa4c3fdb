-------------------------- MODULE RemindersProofs --------------------------
(***************************************************************************)
(* Proofs about Reminders: what the senders, the gates and the pages may   *)
(* hold relative to the table, and what follows of it for any number of    *)
(* pages, reminders, requests, faults and deliveries and any bounds of the *)
(* queues.                                                                 *)
(***************************************************************************)
EXTENDS Reminders, WellFoundedInduction, TLAPS

(***************************************************************************)
(* The inductive invariant.                                                *)
(***************************************************************************)
Numbers == 0 .. MaxDeliveries
Rows == [status : {"absent", "scheduled", "triggered", "missed", "cancelled"},
         due : BOOLEAN, n : Numbers, page : Pages \cup {None},
         dstatus : Delivery, late : BOOLEAN]
Seen == [of : Reminders \cup {None}, status : {"absent", "triggered", "missed"}, dstatus : Delivery]
Entries == [d : Deliveries, status : Statuses]
Frames == [type : {"due", "ended"}, d : Deliveries] \cup [type : {"cancelled"}, r : Reminders]
             \cup [type : {"turn_started", "turn_waiting", "turn_over"}]
Sounds == [d : Deliveries, state : {"loading", "fetched", "playing"}] \cup {Silent}

RowTypes == row \in [Reminders -> Rows]
PageTypes ==
    /\ pages \in Seq(Pages) /\ IsInjective(pages)
    /\ link \in [Pages -> {"new", "open", "closing", "popped", "closed"}]
SenderTypes ==
    /\ pc \in [Senders -> {"idle", "ending", "claim", "read", "due", "sending", "failed"}]
    /\ todo \in [Senders -> SUBSET Items]
    /\ hand \in [Senders -> Items \cup {NoItem}]
    /\ aim \in [Senders -> Pages \cup {None}]
    /\ seen \in [Senders -> Seen]
GateTypes == gate \in [Pages -> SUBSET Deliveries] /\ exempt \in [Pages -> BOOLEAN]
TurnTypes == turn \in [Pages -> {"none", "starting", "waiting", "running"}] /\ busy \in [Pages -> BOOLEAN]
ReceiptTypes ==
    /\ receipts \in [Pages -> Seq(Entries)] /\ \A c \in Pages : Len(receipts[c]) <= MaxReceipts
    /\ ending \in [Pages -> Deliveries \cup {None}]
    /\ said \subseteq Deliveries \X Outcomes
ChanTypes == chan \in [Pages -> Seq(Frames)]
PlayerTypes ==
    /\ waiting \in [Pages -> Seq(Deliveries)] /\ \A c \in Pages : Len(waiting[c]) <= MaxWaiting
    /\ active \in [Pages -> Sounds]
OtherTypes == notices \subseteq Pages \X Reminders /\ faults \in 0 .. MaxFaults

Types == RowTypes /\ PageTypes /\ SenderTypes /\ GateTypes /\ TurnTypes /\ ReceiptTypes
            /\ ChanTypes /\ PlayerTypes /\ OtherTypes

\* A connection is registered from connect() to disconnect(), and the page of one that is not
\* open has nothing left to play, to send or to receive.
LinkShape ==
    \A c \in Pages :
        /\ Registered(c) <=> link[c] \in {"open", "closing"}
        /\ link[c] # "open" => /\ turn[c] = "none" /\ chan[c] = <<>>
                               /\ active[c] = Silent /\ receipts[c] = <<>> /\ ending[c] = None
                               /\ waiting[c] = <<>>

\* A reminder that was delivered has been triggered, for a page that has connected.
RowShape ==
    \A r \in Reminders :
        /\ row[r].n = 0 <=> row[r].dstatus = "none"
        /\ row[r].n = 0 => row[r].status # "triggered"
        /\ row[r].n # 0 => /\ row[r].status \in {"triggered", "cancelled"}
                           /\ row[r].page \in Pages /\ link[row[r].page] # "new"

\* What a sender has chosen is a page that has connected; what a replay handler has read is a
\* row that could be delivered.
SenderShape ==
    \A s \in Senders :
        /\ pc[s] \in {"ending", "claim"} => s = "tick"
        /\ pc[s] \in {"idle", "claim", "read"} => todo[s] = {}
        /\ pc[s] \in {"sending", "failed"} <=> hand[s] \in Items
        /\ aim[s] \in Pages => link[aim[s]] # "new"
        /\ pc[s] = "read" =>
              /\ aim[s] \in Pages /\ seen[s].of \in Reminders
              /\ seen[s].status \in {"triggered", "missed"} /\ seen[s].dstatus \notin Live
              /\ seen[s].status = "triggered" => seen[s].dstatus # "none"

\* Deliveries that have ended stay ended; so a delivery whose end is told is no longer played.
Past(d) == /\ d[2] <= row[d[1]].n
           /\ d[2] = row[d[1]].n => ~IsLive(d[1])

Held(s, i) == i \in todo[s] \/ (i \in Items /\ hand[s] = i)

\* What the senders hold are deliveries that were claimed for the page they tell.
Claims(i) ==
    /\ link[i.to] # "new" /\ i.d[2] <= row[i.d[1]].n
    /\ i.d[2] = row[i.d[1]].n => row[i.d[1]].page = i.to

ItemShape ==
    \A s \in Senders, i \in Items :
        Held(s, i) => Claims(i) /\ (pc[s] = "ending" => Past(i.d))

EndShape == \A c \in Pages : ending[c] # None => Past(ending[c])

\* The notice of a cancellation is about a cancelled reminder.
NoticeShape == \A c \in Pages, r \in Reminders : <<c, r>> \in notices => row[r].status = "cancelled"

\* What waits to be recorded has been reported.
ReceiptShape ==
    \A c \in Pages : \A i \in DOMAIN receipts[c] :
        receipts[c][i].status \in Outcomes => <<receipts[c][i].d, receipts[c][i].status>> \in said

RemindersInv ==
    /\ Types /\ LinkShape /\ RowShape /\ SenderShape /\ ItemShape /\ EndShape
    /\ NoticeShape /\ ReceiptShape
    /\ GateHolds /\ OutcomeIsReported /\ CancelStopsPlayback

(***************************************************************************)
(* Which steps touch what.                                                 *)
(***************************************************************************)
\* The table.
LEMMA RowTouched ==
  ASSUME [Next]_vars
  PROVE  \/ UNCHANGED row
         \/ \E r \in Reminders : Create(r) \/ DueNow(r) \/ Update(r) \/ DeadlinePasses(r) \/ Cancel(r)
         \/ TickExpire \/ TickClaim \/ Restart
         \/ \E k \in Callers : ReplayChange(k)
         \/ \E s \in Senders : GiveUp(s)
         \/ \E c \in Pages : DisconnectExpire(c) \/ Ack(c)
BY DEF Next, vars, senders, runtime, browser, CancelNotice, TickEnded, ReplayRead, Announced, NotAnnounced,
       Announce, Connect, Disconnect, Unregister, AckEnded, AckTimesOut, StartTurn, TurnCheck, TurnWake, TurnEnd,
       ReceiveDue, ReceiveEnded, ReceiveCancelled, ReceiveTurn, PageStart, PageFetch, PagePlay, PageDone,
       PageFails, PageFinish, PageStop, KeepAlive

\* The senders.
LEMMA SendersTouched ==
  ASSUME [Next]_vars
  PROVE  \/ UNCHANGED senders
         \/ TickExpire \/ TickClaim \/ Restart \/ \E i \in todo["tick"] : TickEnded(i)
         \/ \E k \in Callers : ReplayChange(k) \/ \E r \in Reminders : ReplayRead(k, r)
         \/ \E s \in Senders : Announced(s) \/ NotAnnounced(s) \/ GiveUp(s) \/ \E i \in todo[s] : Announce(s, i)
BY DEF Next, vars, senders, runtime, browser, Create, DueNow, Update, DeadlinePasses, Cancel, CancelNotice,
       Connect, Disconnect, Unregister, DisconnectExpire, Ack, AckEnded, AckTimesOut, StartTurn, TurnCheck, TurnWake,
       TurnEnd, ReceiveDue, ReceiveEnded, ReceiveCancelled, ReceiveTurn, PageStart, PageFetch, PagePlay, PageDone,
       PageFails, PageFinish, PageStop, KeepAlive

\* The connections, and the notices of cancellations.
LEMMA LinkTouched ==
  ASSUME [Next]_vars
  PROVE  /\ \/ UNCHANGED <<pages, link>>
            \/ \E c \in Pages : Connect(c) \/ Disconnect(c) \/ Unregister(c) \/ DisconnectExpire(c)
            \/ Restart
         /\ \/ UNCHANGED notices
            \/ \E r \in Reminders : Cancel(r) \/ \E c \in Pages : CancelNotice(c, r)
            \/ Restart
BY DEF Next, vars, senders, runtime, browser, Create, DueNow, Update, DeadlinePasses, Cancel, CancelNotice,
       TickExpire, TickEnded, TickClaim, ReplayRead, ReplayChange, Announced, NotAnnounced, Announce, GiveUp,
       Connect, Disconnect, Unregister, DisconnectExpire,
       Ack, AckEnded, AckTimesOut, StartTurn, TurnCheck, TurnWake,
       TurnEnd, ReceiveDue, ReceiveEnded, ReceiveCancelled, ReceiveTurn, PageStart, PageFetch, PagePlay, PageDone,
       PageFails, PageFinish, PageStop, KeepAlive

\* The gates.
LEMMA GateTouched ==
  ASSUME [Next]_vars
  PROVE  \/ UNCHANGED gate
         \/ \E r \in Reminders, c \in Pages : CancelNotice(c, r)
         \/ \E i \in todo["tick"] : TickEnded(i)
         \/ \E s \in Senders : NotAnnounced(s) \/ \E i \in todo[s] : Announce(s, i)
         \/ \E c \in Pages : AckEnded(c)
         \/ Restart
BY DEF Next, vars, senders, runtime, browser, Create, DueNow, Update, DeadlinePasses, Cancel,
       TickExpire, TickClaim, ReplayRead, ReplayChange, Announced, GiveUp,
       Connect, Disconnect, Unregister, DisconnectExpire,
       Ack, AckTimesOut, StartTurn, TurnCheck, TurnWake,
       TurnEnd, ReceiveDue, ReceiveEnded, ReceiveCancelled, ReceiveTurn, PageStart, PageFetch, PagePlay, PageDone,
       PageFails, PageFinish, PageStop, KeepAlive

\* The turns and what the page knows of them, and the deliveries exempt from the gate.
LEMMA TurnTouched ==
  ASSUME [Next]_vars
  PROVE  \/ UNCHANGED <<turn, busy>>
         \/ \E c \in Pages : Disconnect(c) \/ StartTurn(c) \/ TurnCheck(c) \/ TurnWake(c) \/ TurnEnd(c) \/ ReceiveTurn(c)
         \/ Restart
BY DEF Next, vars, senders, runtime, browser, Create, DueNow, Update, DeadlinePasses, Cancel, CancelNotice,
       TickExpire, TickEnded, TickClaim, ReplayRead, ReplayChange, Announced, NotAnnounced, Announce, GiveUp,
       Connect, Unregister, DisconnectExpire,
       Ack, AckEnded, AckTimesOut, ReceiveDue, ReceiveEnded, ReceiveCancelled, PageStart, PageFetch, PagePlay, PageDone,
       PageFails, PageFinish, PageStop, KeepAlive

\* The gates together with what is exempt from them.
LEMMA ExemptTouched ==
  ASSUME [Next]_vars
  PROVE  \/ UNCHANGED <<gate, exempt>>
         \/ \E r \in Reminders, c \in Pages : CancelNotice(c, r)
         \/ \E i \in todo["tick"] : TickEnded(i)
         \/ \E s \in Senders : NotAnnounced(s) \/ \E i \in todo[s] : Announce(s, i)
         \/ \E c \in Pages : AckEnded(c) \/ Disconnect(c) \/ StartTurn(c) \/ TurnEnd(c)
         \/ Restart
BY DEF Next, vars, senders, runtime, browser, Create, DueNow, Update, DeadlinePasses, Cancel,
       TickExpire, TickClaim, ReplayRead, ReplayChange, Announced, GiveUp,
       Connect, Unregister, DisconnectExpire,
       Ack, AckTimesOut, TurnCheck, TurnWake,
       ReceiveDue, ReceiveEnded, ReceiveCancelled, ReceiveTurn, PageStart, PageFetch, PagePlay, PageDone,
       PageFails, PageFinish, PageStop, KeepAlive

\* The receipts.
LEMMA ReceiptsTouched ==
  ASSUME [Next]_vars
  PROVE  \/ UNCHANGED <<receipts, said>>
         \/ \E c \in Pages : \/ Disconnect(c) \/ Ack(c) \/ AckTimesOut(c) \/ ReceiveDue(c) \/ ReceiveCancelled(c)
                             \/ PagePlay(c) \/ PageDone(c) \/ PageFails(c) \/ PageStop(c)
                             \/ \E d \in Deliveries : KeepAlive(c, d)
         \/ Restart
BY DEF Next, vars, senders, runtime, browser, Create, DueNow, Update, DeadlinePasses, Cancel, CancelNotice,
       TickExpire, TickEnded, TickClaim, ReplayRead, ReplayChange, Announced, NotAnnounced, Announce, GiveUp,
       Connect, Unregister, DisconnectExpire,
       AckEnded, StartTurn, TurnCheck, TurnWake,
       TurnEnd, ReceiveEnded, ReceiveTurn, PageStart, PageFetch

\* The ends that receipts bring about.
LEMMA EndingTouched ==
  ASSUME [Next]_vars
  PROVE  \/ UNCHANGED ending
         \/ \E c \in Pages : Disconnect(c) \/ Ack(c) \/ AckEnded(c) \/ AckTimesOut(c)
         \/ Restart
BY DEF Next, vars, senders, runtime, browser, Create, DueNow, Update, DeadlinePasses, Cancel, CancelNotice,
       TickExpire, TickEnded, TickClaim, ReplayRead, ReplayChange, Announced, NotAnnounced, Announce, GiveUp,
       Connect, Unregister, DisconnectExpire,
       StartTurn, TurnCheck, TurnWake,
       TurnEnd, ReceiveDue, ReceiveEnded, ReceiveCancelled, ReceiveTurn, PageStart, PageFetch, PagePlay, PageDone,
       PageFails, PageFinish, PageStop, KeepAlive

\* What is under way to a page.
LEMMA ChanTouched ==
  ASSUME [Next]_vars
  PROVE  \/ UNCHANGED chan
         \/ \E r \in Reminders, c \in Pages : CancelNotice(c, r)
         \/ \E i \in todo["tick"] : TickEnded(i)
         \/ \E s \in Senders : \E i \in todo[s] : Announce(s, i)
         \/ \E c \in Pages : \/ AckEnded(c) \/ Disconnect(c) \/ StartTurn(c) \/ TurnCheck(c) \/ TurnEnd(c)
                             \/ ReceiveDue(c) \/ ReceiveEnded(c) \/ ReceiveCancelled(c) \/ ReceiveTurn(c)
         \/ Restart
BY DEF Next, vars, senders, runtime, browser, Create, DueNow, Update, DeadlinePasses, Cancel,
       TickExpire, TickClaim, ReplayRead, ReplayChange, Announced, NotAnnounced, GiveUp,
       Connect, Unregister, DisconnectExpire, Ack, AckTimesOut, TurnWake,
       PageStart, PageFetch, PagePlay, PageDone, PageFails, PageFinish, PageStop, KeepAlive

\* The page's player.
LEMMA PlayerTouched ==
  ASSUME [Next]_vars
  PROVE  \/ UNCHANGED <<waiting, active>>
         \/ \E c \in Pages : \/ Disconnect(c) \/ ReceiveDue(c) \/ ReceiveEnded(c) \/ ReceiveCancelled(c)
                             \/ PageStart(c) \/ PageFetch(c) \/ PagePlay(c) \/ PageDone(c) \/ PageFails(c) \/ PageStop(c)
         \/ Restart
BY DEF Next, vars, senders, runtime, browser, Create, DueNow, Update, DeadlinePasses, Cancel, CancelNotice,
       TickExpire, TickEnded, TickClaim, ReplayRead, ReplayChange, Announced, NotAnnounced, Announce, GiveUp,
       Connect, Unregister, DisconnectExpire,
       Ack, AckEnded, AckTimesOut, StartTurn, TurnCheck, TurnWake,
       TurnEnd, ReceiveTurn,        KeepAlive

\* The timeouts and restarts so far.
LEMMA FaultsTouched ==
  ASSUME [Next]_vars
  PROVE  \/ UNCHANGED faults
         \/ \E s \in Senders : NotAnnounced(s)
         \/ \E c \in Pages : DisconnectExpire(c) \/ AckTimesOut(c)
         \/ Restart
BY DEF Next, vars, senders, runtime, browser, Create, DueNow, Update, DeadlinePasses, Cancel, CancelNotice,
       TickExpire, TickEnded, TickClaim, ReplayRead, ReplayChange, Announced, Announce, GiveUp,
       Connect, Disconnect, Unregister,        Ack, AckEnded, StartTurn, TurnCheck, TurnWake,
       TurnEnd, ReceiveDue, ReceiveEnded, ReceiveCancelled, ReceiveTurn, PageStart, PageFetch, PagePlay, PageDone,
       PageFails, PageFinish, PageStop, KeepAlive

(***************************************************************************)
(* Sequences.                                                              *)
(***************************************************************************)
\* A set of numbers has a least member: what the inductions below rest on.
LEMMA Least ==
  ASSUME NEW T, T \subseteq Nat, T # {}
  PROVE  \E n \in T : \A m \in T : n <= m
<1> DEFINE R == {ss \in Nat \X Nat : ss[1] < ss[2]}
<1>1. IsWellFoundedOn(R, Nat)
  BY NatLessThanWellFounded DEF OpToRel
<1> HIDE DEF R
<1>2. \E n \in T : \A m \in T : ~(<<m, n>> \in R)
  BY <1>1, WFMin
<1>3. PICK n \in T : \A m \in T : ~(<<m, n>> \in R)
  BY <1>2
<1>4. ASSUME NEW m \in T PROVE n <= m
  <2>1. m \in Nat /\ n \in Nat /\ <<m, n>> \notin R
    BY <1>3
  <2>2. ~(m < n)
    BY <2>1 DEF R
  <2> QED BY <2>1, <2>2
<1> QED BY <1>4

\* The function by which Without is defined, for the first n elements of s.
Left(s, xs, f, n) == f = [i \in 0 .. n |-> IF i = 0 THEN <<>>
                        ELSE IF s[i] \in xs THEN f[i - 1] ELSE Append(f[i - 1], s[i])]

\* If there is such a function for all of s, Without is its last value.
LEMMA Unfold ==
  ASSUME NEW s, NEW xs, NEW g, Left(s, xs, g, Len(s))
  PROVE  \E f : Left(s, xs, f, Len(s)) /\ Without(s, xs) = f[Len(s)]
<1>1. Left(s, xs, CHOOSE f : Left(s, xs, f, Len(s)), Len(s))
  OBVIOUS
<1>2. Without(s, xs) = (CHOOSE f : Left(s, xs, f, Len(s)))[Len(s)]
  BY DEF Without, Left
<1> QED BY <1>1, <1>2

\* There is one: that of the first n - 1 elements can be extended.
LEMMA Exists ==
  ASSUME NEW S, NEW s \in Seq(S), NEW xs
  PROVE  \E f : Left(s, xs, f, Len(s))
<1> DEFINE T == {n \in 0 .. Len(s) : ~\E f : Left(s, xs, f, n)}
<1>1. ASSUME T # {} PROVE FALSE
  <2>1. PICK n \in T : \A m \in T : n <= m
    <3> HIDE DEF T
    <3>1. T \subseteq Nat BY DEF T
    <3> QED BY <1>1, <3>1, Least
  <2>2. n # 0
    <3>1. Left(s, xs, [i \in 0 .. 0 |-> <<>>], 0)
      BY DEF Left
    <3> QED BY <3>1
  <2>3. n \in 1 .. Len(s) /\ n - 1 \in 0 .. Len(s) /\ n - 1 \notin T
    BY <2>1, <2>2
  <2>4. PICK f : Left(s, xs, f, n - 1)
    BY <2>3
  <2> DEFINE x == IF s[n] \in xs THEN f[n - 1] ELSE Append(f[n - 1], s[n])
  <2> DEFINE g == [i \in 0 .. n |-> IF i = n THEN x ELSE f[i]]
  <2>5. Left(s, xs, g, n)
    <3>1. \A i \in 0 .. n : i # n => i \in 0 .. (n - 1)
      BY <2>3
    <3>2. \A i \in 0 .. (n - 1) : f[i] = IF i = 0 THEN <<>>
                        ELSE IF s[i] \in xs THEN f[i - 1] ELSE Append(f[i - 1], s[i])
      BY <2>4 DEF Left
    <3>3. \A i \in 0 .. n : g[i] = IF i = 0 THEN <<>>
                        ELSE IF s[i] \in xs THEN g[i - 1] ELSE Append(g[i - 1], s[i])
      BY <3>1, <3>2, <2>3
    <3>4. g = [i \in 0 .. n |-> g[i]]
      OBVIOUS
    <3> QED BY <3>3, <3>4 DEF Left
  <2> QED BY <2>1, <2>5
<1> QED
  <2>1. Len(s) \in 0 .. Len(s)
    OBVIOUS
  <2> QED BY <1>1, <2>1

\* What Without leaves: the elements that are not removed, in a sequence that repeats none if s
\* does not (Array.prototype.filter in reminder-queue.js, dict.pop in ReminderService).
LEMMA WithoutIs ==
  ASSUME NEW S, NEW s \in Seq(S), NEW xs
  PROVE  /\ Without(s, xs) \in Seq(S) /\ Len(Without(s, xs)) <= Len(s)
         /\ \A x : (\E i \in DOMAIN Without(s, xs) : Without(s, xs)[i] = x) <=> (x \notin xs /\ \E i \in DOMAIN s : s[i] = x)
         /\ (\A i, j \in DOMAIN s : s[i] = s[j] => i = j) => 
               \A i, j \in DOMAIN Without(s, xs) : Without(s, xs)[i] = Without(s, xs)[j] => i = j
<1>1. PICK f : Left(s, xs, f, Len(s)) /\ Without(s, xs) = f[Len(s)]
  BY Exists, Unfold
<1> DEFINE Inj(t) == \A i, j \in DOMAIN t : t[i] = t[j] => i = j
<1> DEFINE Has(t, x) == \E i \in DOMAIN t : t[i] = x
<1> DEFINE P(n) == /\ f[n] \in Seq(S) /\ Len(f[n]) <= n
                   /\ \A x : Has(f[n], x) <=> (x \notin xs /\ \E i \in 1 .. n : s[i] = x)
                   /\ Inj(s) => Inj(f[n])
<1> DEFINE T == {n \in 0 .. Len(s) : ~P(n)}
<1>2. f[0] = <<>>
  BY <1>1 DEF Left
<1>3. \A n \in 1 .. Len(s) : f[n] = IF s[n] \in xs THEN f[n - 1] ELSE Append(f[n - 1], s[n])
  <2> TAKE n \in 1 .. Len(s)
  <2>1. n \in 0 .. Len(s) /\ n # 0
    OBVIOUS
  <2>2. f = [i \in 0 .. Len(s) |-> IF i = 0 THEN <<>>
                        ELSE IF s[i] \in xs THEN f[i - 1] ELSE Append(f[i - 1], s[i])]
    BY <1>1 DEF Left
  <2> QED BY <2>1, <2>2
<1> HIDE DEF P
<1>4. ASSUME T # {} PROVE FALSE
  <2>1. PICK n \in T : \A m \in T : n <= m
    <3> HIDE DEF T
    <3>1. T \subseteq Nat BY DEF T
    <3> QED BY <1>4, <3>1, Least
  <2>2. n # 0
    <3>1. P(0)
      BY <1>2 DEF P
    <3> QED BY <3>1
  <2>3. n \in 1 .. Len(s) /\ n - 1 \in 0 .. Len(s) /\ n - 1 \notin T
    BY <2>1, <2>2
  <2>4. P(n - 1)
    BY <2>3
  <2>5. s[n] \in S
    BY <2>3
  <2>6. CASE s[n] \in xs
    <3>1. f[n] = f[n - 1]
      BY <2>3, <1>3, <2>6
    <3>2. \A x : (x \notin xs /\ \E i \in 1 .. n : s[i] = x) <=> (x \notin xs /\ \E i \in 1 .. (n - 1) : s[i] = x)
      BY <2>3, <2>6
    <3>3. P(n)
      BY <2>3, <2>4, <3>1, <3>2 DEF P
    <3> QED BY <3>3, <2>1
  <2>7. CASE s[n] \notin xs
    <3> DEFINE g == f[n - 1]
    <3>1. f[n] = Append(g, s[n])
      BY <2>3, <1>3, <2>7
    <3>2. /\ g \in Seq(S) /\ Len(g) <= n - 1
          /\ \A x : Has(g, x) <=> (x \notin xs /\ \E i \in 1 .. (n - 1) : s[i] = x)
          /\ Inj(s) => Inj(g)
      BY <2>4 DEF P
    <3> HIDE DEF g
    <3>3. f[n] \in Seq(S) /\ Len(f[n]) <= n
      BY <3>1, <3>2, <2>3, <2>5
    <3>4. /\ DOMAIN g = 1 .. Len(g) /\ DOMAIN f[n] = 1 .. (Len(g) + 1) /\ Len(g) \in Nat
          /\ \A i \in DOMAIN g : f[n][i] = g[i]
          /\ f[n][Len(g) + 1] = s[n]
      BY <3>1, <3>2, <2>5
    <3>5. ASSUME NEW x PROVE Has(f[n], x) <=> (Has(g, x) \/ x = s[n])
      BY <3>4
    <3>6. \A x : (\E i \in 1 .. n : s[i] = x) <=> (x = s[n] \/ \E i \in 1 .. (n - 1) : s[i] = x)
      BY <2>3
    <3>7. \A x : Has(f[n], x) <=> (x \notin xs /\ \E i \in 1 .. n : s[i] = x)
      BY <3>5, <3>6, <3>2, <2>7
    <3>8. ASSUME Inj(s) PROVE Inj(f[n])
      <4>1. \A i \in 1 .. (n - 1) : s[i] # s[n]
        BY <2>3, <3>8
      <4>2. ~Has(g, s[n])
        BY <4>1, <3>2
      <4> QED BY <4>2, <3>2, <3>4, <3>8
    <3>9. P(n)
      BY <3>3, <3>7, <3>8 DEF P
    <3> QED BY <3>9, <2>1
  <2> QED BY <2>6, <2>7
<1>5. P(Len(s))
  BY <1>4
<1>6. DOMAIN s = 1 .. Len(s)
  OBVIOUS
<1> QED BY <1>1, <1>5, <1>6 DEF P

\* A queue that grows by one, and one that loses its first.
LEMMA QueueGrows ==
  ASSUME NEW S, NEW q \in Seq(S), NEW e \in S
  PROVE  /\ Append(q, e) \in Seq(S) /\ DOMAIN Append(q, e) = 1 .. Len(q) + 1 /\ DOMAIN q = 1 .. Len(q)
         /\ Len(q) \in Nat /\ Len(Append(q, e)) = Len(q) + 1
         /\ \A i \in DOMAIN q : Append(q, e)[i] = q[i]
         /\ Append(q, e)[Len(q) + 1] = e
OBVIOUS

\* A queue that loses its first.
LEMMA QueueShrinks ==
  ASSUME NEW S, NEW q \in Seq(S), q # <<>>
  PROVE  /\ Tail(q) \in Seq(S) /\ Head(q) \in S /\ Head(q) = q[1] /\ 1 \in DOMAIN q /\ DOMAIN q = 1 .. Len(q)
         /\ Len(q) \in Nat /\ Len(Tail(q)) = Len(q) - 1 /\ DOMAIN Tail(q) = 1 .. Len(q) - 1
         /\ \A i \in DOMAIN Tail(q) : Tail(q)[i] = q[i + 1] /\ i + 1 \in DOMAIN q
OBVIOUS

\* A queue that takes what it has room for.
LEMMA QueueFills ==
  ASSUME NEW S, NEW q \in Seq(S), NEW p \in Seq(S), NEW max \in Nat
  PROVE  LET all == q \o p
             kept == IF Len(all) <= max THEN all ELSE SubSeq(all, 1, max) IN
         /\ kept \in Seq(S) /\ Len(kept) <= max
         /\ \A i \in DOMAIN kept : kept[i] \in Range(q) \cup Range(p)
<1> DEFINE all == q \o p
<1>1. all \in Seq(S) /\ Len(all) \in Nat /\ DOMAIN all = 1 .. Len(all)
  OBVIOUS
<1>2. \A i \in DOMAIN all : all[i] \in Range(q) \cup Range(p)
  BY DEF Range
<1> HIDE DEF all
<1>3. CASE Len(all) <= max
  BY <1>1, <1>2, <1>3 DEF all
<1>4. CASE ~(Len(all) <= max)
  <2>1. /\ SubSeq(all, 1, max) \in Seq(S) /\ Len(SubSeq(all, 1, max)) = max
        /\ DOMAIN SubSeq(all, 1, max) = 1 .. max
        /\ \A i \in 1 .. max : SubSeq(all, 1, max)[i] = all[i] /\ i \in DOMAIN all
    BY <1>1, <1>4
  <2> QED BY <2>1, <1>2, <1>4 DEF all
<1> QED BY <1>3, <1>4

(***************************************************************************)
(* The table: how the row of a reminder moves on.                          *)
(***************************************************************************)
\* The delivery of r stays the one it was; it may go on or end.
Stays(r) ==
    /\ row'[r].n = row[r].n /\ row'[r].page = row[r].page
    /\ row'[r].dstatus # row[r].dstatus =>
          /\ IsLive(r) /\ row'[r].dstatus # "none"
          /\ row[r].dstatus = "playing" => row'[r].dstatus # "pending"
    /\ row'[r].dstatus \in Outcomes =>
          row'[r].dstatus = row[r].dstatus \/ <<<<r, row[r].n>>, row'[r].dstatus>> \in said
    /\ row'[r].status = "triggered" => row[r].status = "triggered"
    /\ row[r].status = "cancelled" => row'[r].status = "cancelled"
    /\ row[r].status # "cancelled" /\ row'[r].status = "cancelled" =>
          \A c \in Pages : Registered(c) => <<c, r>> \in notices'
    /\ row[r].n # 0 => row'[r].status \in {"triggered", "cancelled"}

\* A new delivery of r is claimed, for a sender to announce.
Renewed(r) ==
    /\ ~IsLive(r) /\ row[r].status # "cancelled"
    /\ row'[r].n = row[r].n + 1 /\ row'[r].status = "triggered" /\ row'[r].dstatus = "pending"
    /\ row'[r].page \in Pages /\ link'[row'[r].page] # "new"
    /\ \E s \in Senders : pc'[s] = "due" /\ [d |-> <<r, row'[r].n>>, to |-> row'[r].page] \in todo'[s]

Moves == row' \in [Reminders -> Rows] /\ \A r \in Reminders : Stays(r) \/ Renewed(r)

\* What the constants are.
LEMMA Constants ==
  /\ MaxDeliveries \in Nat \ {0} /\ MaxReceipts \in Nat \ {0} /\ MaxWaiting \in Nat \ {0}
  /\ MaxFrames \in Nat /\ MaxFaults \in Nat
  /\ None \notin Pages /\ "tick" \notin Callers /\ "tick" \in Senders /\ Callers \subseteq Senders
  /\ Numbers \subseteq Nat /\ 0 \in Numbers
BY ConstantsAssumption DEF Senders, Numbers

\* A delivery number, and the next one.
LEMMA NumberIs ==
  ASSUME NEW n
  PROVE  /\ n \in Numbers => n \in Nat /\ (n < MaxDeliveries => n + 1 \in Numbers)
         /\ n \in Numbers /\ n # 0 <=> n \in 1 .. MaxDeliveries
BY Constants DEF Numbers

\* A row that is left alone.
LEMMA RowIsKept ==
  ASSUME RowTypes, UNCHANGED row, RowShape
  PROVE  Moves
BY DEF RowTypes, Moves, Stays, RowShape

\* What a device does with its reminders.
LEMMA RowOfDevice ==
  ASSUME RowTypes, RowShape, NEW r \in Reminders, Create(r) \/ DueNow(r) \/ Update(r) \/ DeadlinePasses(r) \/ Cancel(r)
  PROVE  Moves
<1>1. row[r] \in Rows
  BY DEF RowTypes
<1>2. CASE Create(r)
  BY <1>1, <1>2 DEF RowTypes, RowShape, Moves, Stays, Create, Rows
<1>3. CASE DueNow(r)
  BY <1>1, <1>3 DEF RowTypes, RowShape, Moves, Stays, DueNow, Rows
<1>4. CASE Update(r)
  BY <1>1, <1>4 DEF RowTypes, RowShape, Moves, Stays, Update, Rows
<1>5. CASE DeadlinePasses(r)
  BY <1>1, <1>5 DEF RowTypes, RowShape, Moves, Stays, DeadlinePasses, Rows
<1>6. CASE Cancel(r)
  <2>1. row' = [row EXCEPT ![r] = [row[r] EXCEPT !.status = "cancelled"]] /\ notices' = notices \cup (Range(pages) \X {r})
    BY <1>6 DEF Cancel
  <2>2. \A c \in Pages : Registered(c) => <<c, r>> \in notices'
    BY <2>1 DEF Registered
  <2>3. row'[r] = [row[r] EXCEPT !.status = "cancelled"] /\ \A x \in Reminders : x # r => row'[x] = row[x]
    BY <2>1 DEF RowTypes
  <2>4. row'[r] \in Rows /\ Stays(r)
    BY <1>1, <2>2, <2>3 DEF Rows, Stays, RowShape
  <2>5. \A x \in Reminders : x # r => Stays(x) /\ row'[x] \in Rows
    BY <2>3 DEF Stays, RowTypes, RowShape
  <2>6. row' = [x \in Reminders |-> row'[x]]
    BY <2>1 DEF RowTypes
  <2> QED BY <2>4, <2>5, <2>6 DEF Moves
<1> QED BY <1>2, <1>3, <1>4, <1>5, <1>6

\* Live deliveries that run out.
LEMMA RowsExpire ==
  ASSUME RowTypes, RowShape, NEW rs, Expire(rs), \A r \in rs \cap Reminders : IsLive(r)
  PROVE  Moves /\ \A r \in Reminders : Stays(r) /\ (r \in rs => row'[r].dstatus = "unknown" /\ row'[r].status = row[r].status)
<1>1. ASSUME NEW r \in Reminders
      PROVE  row'[r] \in Rows /\ Stays(r) /\ (r \in rs => row'[r].dstatus = "unknown" /\ row'[r].status = row[r].status)
  <2>1. row[r] \in Rows
    BY DEF RowTypes
  <2>2. CASE r \in rs
    <3>1. row'[r] = [row[r] EXCEPT !.dstatus = "unknown", !.late = FALSE]
      BY <2>2 DEF Expire
    <3>2. IsLive(r)
      BY <2>2
    <3> HIDE DEF Expire
    <3> QED BY <3>1, <3>2, <2>1 DEF Rows, Stays, RowShape, Delivery, Outcomes
  <2>3. CASE r \notin rs
    <3>1. row'[r] = row[r]
      BY <2>3 DEF Expire
    <3> QED BY <3>1, <2>1, <2>3 DEF Stays, RowShape
  <2> QED BY <2>2, <2>3
<1>2. row' = [r \in Reminders |-> row'[r]]
  BY DEF Expire
<1> QED BY <1>1, <1>2 DEF Moves

\* A row that is claimed for the page c, or found missed.
LEMMA ClaimMoves ==
  ASSUME RowTypes, RowShape, NEW r \in Reminders, NEW c \in Pages \cup {None},
         row'[r] = Claimed(r, c), row[r].n < MaxDeliveries, ~IsLive(r),
         row[r].status # "cancelled", c = None => row[r].status = "scheduled",
         c # None => /\ link'[c] # "new"
                     /\ \E s \in Senders : pc'[s] = "due" /\ [d |-> <<r, row[r].n + 1>>, to |-> c] \in todo'[s]
  PROVE  row'[r] \in Rows /\ (Stays(r) \/ Renewed(r))
<1>1. row[r] \in Rows /\ row[r].n + 1 \in Numbers
  BY NumberIs DEF RowTypes, Rows
<1>2. CASE c = None
  <2>1. row'[r] = [row[r] EXCEPT !.status = "missed"]
    BY <1>2 DEF Claimed
  <2>2. row[r].n = 0 /\ row[r].status = "scheduled"
    BY <1>2 DEF RowShape
  <2> QED BY <2>1, <2>2, <1>1 DEF Rows, Stays
<1>3. CASE c # None
  <2>1. row'[r] = [row[r] EXCEPT !.status = "triggered", !.dstatus = "pending", !.n = row[r].n + 1, !.page = c, !.late = FALSE]
    BY <1>3 DEF Claimed
  <2>2. row'[r] \in Rows /\ row'[r].n = row[r].n + 1 /\ row'[r].status = "triggered" /\ row'[r].dstatus = "pending" /\ row'[r].page = c
    BY <2>1, <1>1, <1>3 DEF Rows, Delivery, Live
  <2>3. Renewed(r)
    BY <2>2, <1>3 DEF Renewed
  <2> QED BY <2>2, <2>3
<1> QED BY <1>2, <1>3

\* The worker claims what is due.
LEMMA RowOfWorker ==
  ASSUME Types, RowShape, SenderShape, TickClaim
  PROVE  Moves
<1>0. PICK c : c = aim["tick"]
  OBVIOUS
<1>1. c \in Pages \cup {None} /\ (c # None => link'[c] # "new")
  BY <1>0, Constants DEF Types, SenderTypes, SenderShape, TickClaim, runtime
<1>2. row' = [r \in Reminders |-> IF r \in DueRows THEN Claimed(r, c) ELSE row[r]]
  BY <1>0 DEF TickClaim
<1>3. ASSUME NEW r \in Reminders PROVE row'[r] \in Rows /\ (Stays(r) \/ Renewed(r))
  <2>0. row[r] \in Rows
    BY DEF Types, RowTypes
  <2>1. CASE r \notin DueRows
    <3>1. row'[r] = row[r]
      BY <1>2, <2>1
    <3> QED BY <2>0, <3>1 DEF Stays, RowShape
  <2>2. CASE r \in DueRows
    <3>1. row'[r] = Claimed(r, c)
      BY <1>2, <2>2
    <3>2. row[r].status = "scheduled"
      BY <2>2 DEF DueRows
    <3>3. row[r].n = 0 /\ row[r].dstatus = "none" /\ ~IsLive(r)
      BY <3>2, <2>0 DEF RowShape, IsLive, Live
    <3>4. ASSUME c # None PROVE pc'["tick"] = "due" /\ [d |-> <<r, row[r].n + 1>>, to |-> c] \in todo'["tick"]
      <4>1. pc'["tick"] = "due"
        BY <1>0, <3>4, <2>2, Constants DEF TickClaim, Types, SenderTypes
      <4>2. todo'["tick"] = {[d |-> <<x, row[x].n + 1>>, to |-> c] : x \in DueRows}
        BY <1>0, <3>4, Constants DEF TickClaim, Types, SenderTypes
      <4> QED BY <4>1, <4>2, <2>2
    <3>5. row[r].n < MaxDeliveries /\ row[r].status # "cancelled"
      BY <3>2, <3>3, Constants
    <3>6. c # None => \E s \in Senders : pc'[s] = "due" /\ [d |-> <<r, row[r].n + 1>>, to |-> c] \in todo'[s]
      BY <3>4, Constants
    <3>7. RowTypes
      BY DEF Types
    <3> QED BY <3>1, <3>2, <3>3, <3>5, <3>6, <1>1, <3>7, ClaimMoves
  <2> QED BY <2>1, <2>2
<1> QED BY <1>2, <1>3 DEF Moves

\* A replay handler changes the row it has read, if it still is as it was read.
LEMMA RowOfReplay ==
  ASSUME Types, RowShape, SenderShape, NEW k \in Callers, ReplayChange(k)
  PROVE  Moves
<1>1. CASE UNCHANGED row
  BY <1>1, RowIsKept DEF Types
<1>2. CASE row' # row
  <2> DEFINE r == seen[k].of
  <2> DEFINE c == aim[k]
  <2>1. /\ pc[k] = "read" /\ AsRead(k) /\ row[r].n < MaxDeliveries
        /\ row' = [row EXCEPT ![r] = Claimed(r, c)]
        /\ todo' = [todo EXCEPT ![k] = {[d |-> <<r, row[r].n + 1>>, to |-> c]}]
        /\ pc' = [pc EXCEPT ![k] = "due"] /\ link' = link
    BY <1>2 DEF ReplayChange, runtime
  <2>2. k \in Senders
    BY Constants
  <2>3. /\ c \in Pages /\ link[c] # "new" /\ r \in Reminders /\ seen[k].status \in {"triggered", "missed"}
        /\ seen[k].dstatus \notin Live /\ (seen[k].status = "triggered" => seen[k].dstatus # "none")
    BY <2>1, <2>2 DEF SenderShape
  <2>4. row[r] \in Rows
    BY <2>3 DEF Types, RowTypes
  <2>5. row[r].status \in {"triggered", "missed"} /\ ~IsLive(r)
    <3>1. row[r].status = seen[k].status /\ (seen[k].dstatus # "none" => row[r].dstatus = seen[k].dstatus)
      BY <2>1 DEF AsRead
    <3>2. CASE seen[k].dstatus # "none"
      BY <3>1, <3>2, <2>3 DEF IsLive
    <3>3. CASE seen[k].dstatus = "none"
      <4>1. row[r].status = "missed"
        BY <3>1, <3>3, <2>3
      <4>2. row[r].dstatus = "none"
        BY <4>1, <2>3, <2>4 DEF RowShape
      <4> QED BY <4>1, <4>2 DEF IsLive, Live
    <3> QED BY <3>1, <3>2, <3>3, <2>3
  <2>6. row'[r] = Claimed(r, c)
    BY <2>1, <2>3 DEF Types, RowTypes
  <2>7. c # None
    BY <2>3, Constants
  <2>8. pc'[k] = "due" /\ [d |-> <<r, row[r].n + 1>>, to |-> c] \in todo'[k]
    BY <2>1, <2>2 DEF Types, SenderTypes
  <2> HIDE DEF r, c
  <2>9. row'[r] \in Rows /\ (Stays(r) \/ Renewed(r))
    BY <2>1, <2>2, <2>3, <2>5, <2>6, <2>7, <2>8, ClaimMoves DEF Types
  <2>10. \A x \in Reminders : x # r => row'[x] = row[x] /\ row'[x] \in Rows
    BY <2>1 DEF Types, RowTypes
  <2>11. \A x \in Reminders : x # r => Stays(x)
    BY <2>10 DEF Stays, RowShape
  <2>12. row' = [x \in Reminders |-> row'[x]]
    BY <2>1 DEF Types, RowTypes
  <2> QED BY <2>3, <2>9, <2>10, <2>11, <2>12 DEF Moves
<1> QED BY <1>1, <1>2

\* A receipt that is accepted is about the delivery it was reported for.
LEMMA RowOfAck ==
  ASSUME Types, RowShape, LinkShape, ReceiptShape, NEW c \in Pages, Ack(c)
  PROVE  Moves
<1> DEFINE e == Head(receipts[c])
<1>0. receipts[c] \in Seq(Entries) /\ receipts[c] # <<>>
  BY DEF Types, ReceiptTypes, Ack
<1>1. e \in Entries /\ 1 \in DOMAIN receipts[c] /\ e = receipts[c][1]
  BY <1>0, QueueShrinks
<1>2. CASE UNCHANGED row
  BY <1>2, RowIsKept DEF Types
<1>3. CASE row' # row
  <2> DEFINE r == e.d[1]
  <2>1. Accepts(c, e) /\ row' = [row EXCEPT ![r] = Acked(r, e.status)]
    BY <1>3 DEF Ack
  <2>2. e.d \in Deliveries /\ e.status \in Statuses /\ r \in Reminders /\ e.d = <<r, e.d[2]>>
    BY <1>1 DEF Entries, Deliveries
  <2>3. e.status \in Outcomes => <<e.d, e.status>> \in said
    BY <1>1 DEF ReceiptShape
  <2>4. /\ row[r].status = "triggered" /\ row[r].page = c /\ row[r].n = e.d[2]
        /\ row[r].dstatus \in CASE e.status \in {"interrupted", "failed"} -> Live
                                [] e.status = "completed" -> {"playing"}
                                [] OTHER -> {"pending"}
    BY <2>1 DEF Accepts
  <2>5. row[r].dstatus \in Live /\ (e.status = "waiting" \/ e.status = "playing" => row[r].dstatus = "pending")
    <3>1. CASE e.status \in {"interrupted", "failed"}
      BY <3>1, <2>4
    <3>2. CASE e.status = "completed"
      BY <3>2, <2>4 DEF Live
    <3>3. CASE e.status \notin {"interrupted", "failed", "completed"}
      <4>1. row[r].dstatus \in {"pending"}
        BY <3>3, <2>4
      <4> QED BY <3>3, <4>1 DEF Live
    <3> QED BY <3>1, <3>2, <3>3
  <2> HIDE DEF e
  <2>6. row[r] \in Rows /\ row'[r] = [row[r] EXCEPT !.dstatus = IF e.status = "waiting" THEN "pending" ELSE e.status, !.late = FALSE]
    BY <2>1, <2>2 DEF Types, RowTypes, Acked
  <2> HIDE DEF r
  <2>9. \A x \in Reminders : x # r => row'[x] = row[x] /\ row'[x] \in Rows
    BY <2>1 DEF Types, RowTypes
  <2>10. \A x \in Reminders : x # r => Stays(x)
    BY <2>9 DEF Stays, RowShape
  <2>11. row' = [x \in Reminders |-> row'[x]]
    BY <2>1 DEF Types, RowTypes
  <2>7. CASE e.status = "waiting"
    <3>1. row'[r] = [row[r] EXCEPT !.dstatus = "pending", !.late = FALSE] /\ row[r].dstatus = "pending"
      BY <2>5, <2>6, <2>7
    <3>2. row'[r] \in Rows /\ row'[r].n = row[r].n /\ row'[r].page = row[r].page
             /\ row'[r].dstatus = row[r].dstatus /\ row'[r].status = row[r].status
      BY <3>1, <2>6 DEF Rows
    <3>3. Stays(r)
      BY <3>2, <2>4 DEF Stays
    <3> QED BY <2>2, <3>2, <3>3, <2>9, <2>10, <2>11 DEF Moves
  <2>8. CASE e.status # "waiting"
    <3>1. row'[r] = [row[r] EXCEPT !.dstatus = e.status, !.late = FALSE]
      BY <2>6, <2>8
    <3>2. e.status \in Outcomes \cup {"playing"} /\ e.status # "none" /\ e.status # "pending" /\ e.status \in Delivery
      BY <2>2, <2>8 DEF Statuses, Outcomes, Delivery, Live
    <3>3. row'[r] \in Rows /\ row'[r].n = row[r].n /\ row'[r].page = row[r].page
             /\ row'[r].dstatus = e.status /\ row'[r].status = row[r].status
      BY <3>1, <3>2, <2>6 DEF Rows
    <3>4. e.status \in Outcomes => <<<<r, row[r].n>>, e.status>> \in said
      BY <2>2, <2>3, <2>4 DEF r
    <3>5. Stays(r)
      BY <3>2, <3>3, <3>4, <2>4, <2>5 DEF Stays, IsLive
    <3> QED BY <2>2, <3>3, <3>5, <2>9, <2>10, <2>11 DEF Moves
  <2> QED BY <2>7, <2>8
<1> QED BY <1>2, <1>3

\* Whatever expires is live.
LEMMA RowOfExpiry ==
  ASSUME Types, RowShape,
         TickExpire \/ Restart \/ (\E s \in Senders : GiveUp(s)) \/ \E c \in Pages : DisconnectExpire(c)
  PROVE  Moves
<1>1. \A c : \A r \in Overdue \cup {r \in Reminders : IsLive(r) /\ row[r].page = c} : IsLive(r)
  BY DEF Overdue
<1>2. CASE TickExpire
  BY <1>1, <1>2, RowsExpire DEF TickExpire, Types
<1>3. CASE Restart
  BY <1>3, RowsExpire DEF Restart, Types
<1>4. CASE \E s \in Senders : GiveUp(s)
  BY <1>1, <1>4, RowsExpire DEF GiveUp, ExpireConnection, Types
<1>5. CASE \E c \in Pages : DisconnectExpire(c)
  BY <1>1, <1>5, RowsExpire, RowIsKept DEF DisconnectExpire, ExpireConnection, Types
<1> QED BY <1>2, <1>3, <1>4, <1>5

\* In every step, each delivery stays the one it was or gives way to a new one after its end.
LEMMA RowMoves ==
  ASSUME RemindersInv, [Next]_vars
  PROVE  Moves
<1>0. Types /\ RowShape /\ SenderShape /\ LinkShape /\ ReceiptShape /\ RowTypes
  BY DEF RemindersInv, Types
<1> QED BY <1>0, RowTouched, RowIsKept, RowOfDevice, RowOfWorker, RowOfReplay, RowOfAck, RowOfExpiry

(***************************************************************************)
(* Types.                                                                  *)
(***************************************************************************)
\* What a page reports is recorded as said, dropped or not, and joins the receipts if there is room.
LEMMA Reported ==
  ASSUME ReceiptTypes, ReceiptShape, NEW c \in Pages, NEW es \in Seq(Entries), Report(c, es)
  PROVE  /\ receipts' \in [Pages -> Seq(Entries)] /\ \A x \in Pages : Len(receipts'[x]) <= MaxReceipts
         /\ said' \subseteq Deliveries \X Outcomes /\ said \subseteq said'
         /\ ReceiptShape'
         /\ \A x \in Pages : x # c => receipts'[x] = receipts[x]
<1> DEFINE q == receipts[c]
<1> DEFINE kept == IF Len(q \o es) <= MaxReceipts THEN q \o es ELSE SubSeq(q \o es, 1, MaxReceipts)
<1>1. receipts' = [receipts EXCEPT ![c] = kept] /\ q \in Seq(Entries)
  BY DEF Report, ReceiptTypes
<1>2. /\ kept \in Seq(Entries) /\ Len(kept) <= MaxReceipts
      /\ \A i \in DOMAIN kept : kept[i] \in Range(q) \cup Range(es)
  BY <1>1, QueueFills, Constants
<1>3. Range(es) \subseteq Entries
  BY DEF Range
<1>4. said' = said \cup {<<e.d, e.status>> : e \in {e \in Range(es) : e.status \in Outcomes}}
  BY DEF Report
<1>5. said' \subseteq Deliveries \X Outcomes /\ said \subseteq said'
  BY <1>3, <1>4 DEF ReceiptTypes, Entries
<1> HIDE DEF kept
<1>6. receipts'[c] = kept /\ \A x \in Pages : x # c => receipts'[x] = receipts[x]
  BY <1>1 DEF ReceiptTypes
<1>7. ASSUME NEW i \in DOMAIN kept, kept[i].status \in Outcomes PROVE <<kept[i].d, kept[i].status>> \in said'
  <2>1. CASE kept[i] \in Range(q)
    <3>1. PICK j \in DOMAIN q : q[j] = kept[i]
      BY <2>1 DEF Range
    <3>2. <<q[j].d, q[j].status>> \in said
      BY <3>1, <1>7 DEF ReceiptShape
    <3> QED BY <3>1, <3>2, <1>5
  <2>2. CASE kept[i] \in Range(es)
    BY <2>2, <1>7, <1>4
  <2> QED BY <2>1, <2>2, <1>2
<1>8. ReceiptShape'
  <2> SUFFICES ASSUME NEW x \in Pages, NEW i \in DOMAIN receipts'[x], receipts'[x][i].status \in Outcomes
               PROVE  <<receipts'[x][i].d, receipts'[x][i].status>> \in said'
    BY DEF ReceiptShape
  <2>1. CASE x = c
    BY <2>1, <1>6, <1>7
  <2>2. CASE x # c
    BY <2>2, <1>6, <1>5 DEF ReceiptShape
  <2> QED BY <2>1, <2>2
<1> QED BY <1>1, <1>2, <1>5, <1>6, <1>8 DEF ReceiptTypes

\* One receipt.
LEMMA ReceiptIs ==
  ASSUME NEW d \in Deliveries, NEW s \in Statuses
  PROVE  Receipt(d, s) \in Seq(Entries)
BY DEF Receipt, Entries

\* What a frame carries.
LEMMA FrameIs ==
  ASSUME NEW f \in Frames
  PROVE  /\ f.type \in {"due", "ended"} => f.d \in Deliveries
         /\ f.type = "cancelled" => f.r \in Reminders
BY DEF Frames

\* The first frame under way to a page is taken.
LEMMA FrameTaken ==
  ASSUME ChanTypes, NEW c \in Pages, NEW type, Next1(c, type)
  PROVE  /\ chan[c] \in Seq(Frames) /\ chan[c] # <<>> /\ Head(chan[c]) \in Frames /\ Head(chan[c]).type = type
         /\ chan' = [chan EXCEPT ![c] = Tail(chan[c])] /\ chan' \in [Pages -> Seq(Frames)]
<1>1. chan[c] \in Seq(Frames) /\ chan[c] # <<>> /\ Head(chan[c]).type = type /\ chan' = [chan EXCEPT ![c] = Tail(chan[c])]
  BY DEF ChanTypes, Next1
<1>2. Head(chan[c]) \in Frames /\ Tail(chan[c]) \in Seq(Frames)
  BY <1>1, QueueShrinks
<1> QED BY <1>1, <1>2 DEF ChanTypes

\* What a page plays, or is about to, is a delivery.
LEMMA SoundIs ==
  ASSUME PlayerTypes, NEW c \in Pages
  PROVE  /\ active[c] \in Sounds
         /\ active[c] # Silent => active[c].d \in Deliveries /\ active[c].state \in {"loading", "fetched", "playing"}
         /\ active[c].state \in {"loading", "fetched", "playing"} => active[c] # Silent
         /\ active[c] = [d |-> active[c].d, state |-> active[c].state]
BY DEF PlayerTypes, Sounds, Silent

\* The reports of a page, whatever it reports.
LEMMA PageReports ==
  ASSUME Types, ReceiptShape, NEW c \in Pages,
         \/ ReceiveDue(c) \/ ReceiveCancelled(c)
         \/ PagePlay(c) \/ PageDone(c) \/ PageFails(c) \/ PageStop(c)
         \/ \E d \in Deliveries : KeepAlive(c, d)
  PROVE  \/ UNCHANGED <<receipts, said>>
         \/ /\ waiting[c] # <<>> \/ active[c] # Silent \/ chan[c] # <<>>
            /\ \E es \in Seq(Entries) : Report(c, es)
<1>0. PlayerTypes /\ ChanTypes
  BY DEF Types
<1>1. CASE ReceiveDue(c)
  <2>1. Next1(c, "due")
    BY <1>1 DEF ReceiveDue
  <2>2. chan[c] # <<>> /\ Head(chan[c]).d \in Deliveries
    BY <2>1, <1>0, FrameTaken, FrameIs
  <2>3. Receipt(Head(chan[c]).d, "expired") \in Seq(Entries)
    BY <2>2, ReceiptIs DEF Statuses, Outcomes
  <2> QED BY <1>1, <2>2, <2>3 DEF ReceiveDue
<1>2. CASE ReceiveCancelled(c)
  <2>1. chan[c] # <<>>
    BY <1>2 DEF ReceiveCancelled, Next1
  <2>2. active[c] # Silent => Receipt(active[c].d, "interrupted") \in Seq(Entries)
    BY <1>0, SoundIs, ReceiptIs DEF Statuses, Outcomes
  <2>3. <<>> \in Seq(Entries)
    OBVIOUS
  <2> QED BY <1>2, <2>1, <2>2, <2>3 DEF ReceiveCancelled
<1>3. CASE PagePlay(c)
  <2>1. active[c] # Silent /\ Receipt(active[c].d, "playing") \in Seq(Entries)
    BY <1>0, <1>3, SoundIs, ReceiptIs DEF PagePlay, Statuses
  <2> QED BY <1>3, <2>1 DEF PagePlay
<1>4. CASE PageDone(c)
  <2>1. active[c] # Silent /\ Receipt(active[c].d, "completed") \in Seq(Entries)
    BY <1>0, <1>4, SoundIs, ReceiptIs DEF PageDone, Statuses, Outcomes
  <2> QED BY <1>4, <2>1 DEF PageDone, PageFinish
<1>5. CASE PageFails(c)
  <2>1. active[c] # Silent /\ Receipt(active[c].d, "failed") \in Seq(Entries)
    BY <1>0, <1>5, SoundIs, ReceiptIs DEF PageFails, Statuses, Outcomes
  <2> QED BY <1>5, <2>1 DEF PageFails, PageFinish
<1>6. CASE PageStop(c)
  <2> DEFINE last == IF active[c] = Silent THEN <<>> ELSE <<active[c].d>>
  <2> DEFINE all == waiting[c] \o last
  <2>1. last \in Seq(Deliveries)
    <3>1. CASE active[c] = Silent
      BY <3>1
    <3>2. CASE active[c] # Silent
      <4>1. active[c].d \in Deliveries
        BY <1>0, <3>2, SoundIs
      <4> QED BY <3>2, <4>1
    <3> QED BY <3>1, <3>2
  <2>2. waiting[c] \in Seq(Deliveries)
    BY <1>0 DEF PlayerTypes
  <2>3. all \in Seq(Deliveries)
    BY <2>1, <2>2
  <2>4. waiting[c] # <<>> \/ active[c] # Silent
    <3>1. all # <<>>
      BY <1>6 DEF PageStop
    <3> QED BY <3>1
  <2> DEFINE es == [i \in DOMAIN all |-> [d |-> all[i], status |-> "interrupted"]]
  <2>5. Report(c, es)
    BY <1>6 DEF PageStop
  <2> HIDE DEF all
  <2>6. es \in Seq(Entries)
    <3>1. DOMAIN all = 1 .. Len(all) /\ Len(all) \in Nat /\ \A i \in 1 .. Len(all) : all[i] \in Deliveries
      BY <2>3
    <3>2. \A i \in 1 .. Len(all) : [d |-> all[i], status |-> "interrupted"] \in Entries
      BY <3>1 DEF Entries, Statuses, Outcomes
    <3> QED BY <3>1, <3>2
  <2> QED BY <2>4, <2>5, <2>6
<1>7. ASSUME NEW d \in Deliveries, KeepAlive(c, d)
      PROVE  (waiting[c] # <<>> \/ active[c] # Silent) /\ \E es \in Seq(Entries) : Report(c, es)
  <2>1. Receipt(d, "waiting") \in Seq(Entries)
    BY ReceiptIs DEF Statuses
  <2>2. waiting[c] # <<>> \/ active[c] # Silent
    <3>1. CASE d \in Range(waiting[c])
      BY <3>1 DEF Range
    <3>2. CASE d \notin Range(waiting[c])
      <4>1. active[c].state \in {"loading", "fetched"}
        BY <1>7, <3>2 DEF KeepAlive
      <4> QED BY <1>0, <4>1, SoundIs
    <3> QED BY <3>1, <3>2
  <2> QED BY <1>7, <2>1, <2>2 DEF KeepAlive
<1> QED BY <1>1, <1>2, <1>3, <1>4, <1>5, <1>6, <1>7

(***************************************************************************)
(* The connections.                                                        *)
(***************************************************************************)
\* The newest page is one that is registered.
LEMMA NewestIs ==
  ASSUME PageTypes, LinkShape
  PROVE  /\ Newest \in Pages \cup {None} /\ (pages # <<>> => Newest \in Pages)
         /\ Newest \in Pages => link[Newest] \in {"open", "closing"}
<1>1. CASE pages = <<>>
  BY <1>1, Constants DEF Newest
<1>2. CASE pages # <<>>
  <2>1. Len(pages) \in DOMAIN pages /\ pages[Len(pages)] \in Pages
    BY <1>2 DEF PageTypes
  <2>2. Newest = pages[Len(pages)]
    BY <1>2 DEF Newest, Last
  <2>3. Registered(Newest)
    BY <2>1, <2>2 DEF Registered, Range
  <2> QED BY <2>1, <2>2, <2>3 DEF LinkShape
<1> QED BY <1>1, <1>2

\* A page that has connected has for good; what is registered is what has connected and has
\* not been unregistered.
LEMMA LinkStep ==
  ASSUME RemindersInv, [Next]_vars
  PROVE  /\ PageTypes'
         /\ \A c \in Pages : link[c] # "new" => link'[c] # "new"
         /\ \A c \in Pages : link'[c] = "open" => link[c] \in {"open", "new"}
         /\ \A c \in Pages : Registered(c)' <=> link'[c] \in {"open", "closing"}
<1>0. PageTypes /\ LinkShape
  BY DEF RemindersInv, Types
<1>1. CASE UNCHANGED <<pages, link>>
  BY <1>0, <1>1 DEF PageTypes, LinkShape, Registered
<1>2. ASSUME NEW c \in Pages, Connect(c)
      PROVE  /\ PageTypes'
             /\ \A x \in Pages : link[x] # "new" => link'[x] # "new"
             /\ \A x \in Pages : link'[x] = "open" => link[x] \in {"open", "new"}
             /\ \A x \in Pages : Registered(x)' <=> link'[x] \in {"open", "closing"}
  <2>1. link[c] = "new" /\ link' = [link EXCEPT ![c] = "open"] /\ pages' = Append(pages, c)
    BY <1>2 DEF Connect
  <2>2. /\ pages' \in Seq(Pages) /\ DOMAIN pages' = 1 .. Len(pages) + 1 /\ DOMAIN pages = 1 .. Len(pages)
        /\ Len(pages) \in Nat
        /\ \A i \in DOMAIN pages : pages'[i] = pages[i]
        /\ pages'[Len(pages) + 1] = c
    BY <1>0, <2>1, QueueGrows DEF PageTypes
  <2>3. \A i \in DOMAIN pages : pages[i] # c
    BY <1>0, <2>1 DEF LinkShape, Registered, Range
  <2>4. IsInjective(pages')
    BY <1>0, <2>2, <2>3 DEF PageTypes, IsInjective
  <2>5. \A x \in Pages : Registered(x)' <=> Registered(x) \/ x = c
    BY <2>2 DEF Registered, Range
  <2> QED BY <1>0, <2>1, <2>2, <2>4, <2>5 DEF PageTypes, LinkShape
<1>3. ASSUME NEW c \in Pages, Disconnect(c)
      PROVE  /\ PageTypes'
             /\ \A x \in Pages : link[x] # "new" => link'[x] # "new"
             /\ \A x \in Pages : link'[x] = "open" => link[x] \in {"open", "new"}
             /\ \A x \in Pages : Registered(x)' <=> link'[x] \in {"open", "closing"}
  BY <1>0, <1>3 DEF Disconnect, PageTypes, LinkShape, Registered
<1>4. ASSUME NEW c \in Pages, Unregister(c)
      PROVE  /\ PageTypes'
             /\ \A x \in Pages : link[x] # "new" => link'[x] # "new"
             /\ \A x \in Pages : link'[x] = "open" => link[x] \in {"open", "new"}
             /\ \A x \in Pages : Registered(x)' <=> link'[x] \in {"open", "closing"}
  <2>1. link[c] = "closing" /\ link' = [link EXCEPT ![c] = "popped"] /\ pages' = Without(pages, {c})
    BY <1>4 DEF Unregister
  <2>2. pages \in Seq(Pages) /\ \A i, j \in DOMAIN pages : pages[i] = pages[j] => i = j
    BY <1>0 DEF PageTypes, IsInjective
  <2>3. /\ pages' \in Seq(Pages)
        /\ \A x : (\E i \in DOMAIN pages' : pages'[i] = x) <=> (x \notin {c} /\ \E i \in DOMAIN pages : pages[i] = x)
        /\ \A i, j \in DOMAIN pages' : pages'[i] = pages'[j] => i = j
    <3>1. /\ Without(pages, {c}) \in Seq(Pages)
          /\ \A x : (\E i \in DOMAIN Without(pages, {c}) : Without(pages, {c})[i] = x)
                      <=> (x \notin {c} /\ \E i \in DOMAIN pages : pages[i] = x)
          /\ \A i, j \in DOMAIN Without(pages, {c}) : Without(pages, {c})[i] = Without(pages, {c})[j] => i = j
      BY <2>2, WithoutIs, Zenon
    <3> QED BY <2>1, <3>1
  <2>4. IsInjective(pages')
    BY <2>3 DEF IsInjective
  <2>5. \A x \in Pages : Registered(x)' <=> Registered(x) /\ x # c
    BY <2>3 DEF Registered, Range
  <2> QED BY <1>0, <2>1, <2>3, <2>4, <2>5 DEF PageTypes, LinkShape
<1>5. ASSUME NEW c \in Pages, DisconnectExpire(c)
      PROVE  /\ PageTypes'
             /\ \A x \in Pages : link[x] # "new" => link'[x] # "new"
             /\ \A x \in Pages : link'[x] = "open" => link[x] \in {"open", "new"}
             /\ \A x \in Pages : Registered(x)' <=> link'[x] \in {"open", "closing"}
  BY <1>0, <1>5 DEF DisconnectExpire, PageTypes, LinkShape, Registered
<1>6. CASE Restart
  <2>1. pages' = <<>> /\ link' = [c \in Pages |-> IF link[c] = "new" THEN "new" ELSE "closed"]
    BY <1>6 DEF Restart
  <2>2. \A x \in Pages : ~Registered(x)'
    BY <2>1 DEF Registered, Range
  <2>3. pages' \in Seq(Pages) /\ IsInjective(pages')
    BY <2>1 DEF IsInjective
  <2> QED BY <1>0, <2>1, <2>2, <2>3 DEF PageTypes
<1> QED BY <1>1, <1>2, <1>3, <1>4, <1>5, <1>6, LinkTouched

\* What has been claimed stays claimed for that page, and what has ended stays ended.
LEMMA ClaimsStay ==
  ASSUME RowTypes, Moves, NEW i \in Items,
         \A c \in Pages : link[c] # "new" => link'[c] # "new"
  PROVE  (Claims(i) => Claims(i)') /\ (Past(i.d) => Past(i.d)')
<1>1. i.d \in Deliveries /\ i.to \in Pages /\ i.d[1] \in Reminders /\ i.d[2] \in 1 .. MaxDeliveries
  BY DEF Items, Deliveries
<1>2. i.d[2] \in Nat /\ row[i.d[1]].n \in Nat
  BY <1>1, NumberIs DEF RowTypes, Rows, Numbers
<1>3. CASE Stays(i.d[1])
  BY <1>1, <1>2, <1>3 DEF Claims, Past, Stays, IsLive
<1>4. CASE Renewed(i.d[1])
  BY <1>1, <1>2, <1>4 DEF Claims, Past, Renewed
<1> QED BY <1>1, <1>3, <1>4 DEF Moves

\* An end that is about to be told stays one.
LEMMA PastStays ==
  ASSUME RowTypes, Moves, NEW d \in Deliveries, Past(d)
  PROVE  Past(d)'
<1>1. d[1] \in Reminders /\ d[2] \in 1 .. MaxDeliveries
  BY DEF Deliveries
<1>2. d[2] \in Nat /\ row[d[1]].n \in Nat
  BY <1>1, NumberIs DEF RowTypes, Rows, Numbers
<1>3. CASE Stays(d[1])
  BY <1>1, <1>2, <1>3 DEF Past, Stays, IsLive
<1>4. CASE Renewed(d[1])
  BY <1>1, <1>2, <1>4 DEF Past, Renewed
<1> QED BY <1>1, <1>3, <1>4 DEF Moves

(***************************************************************************)
(* The senders.                                                            *)
(***************************************************************************)
\* What holds of one sender.
SenderOK(s) ==
    /\ pc[s] \in {"idle", "ending", "claim", "read", "due", "sending", "failed"}
    /\ todo[s] \subseteq Items /\ hand[s] \in Items \cup {NoItem}
    /\ aim[s] \in Pages \cup {None} /\ seen[s] \in Seen
    /\ pc[s] \in {"ending", "claim"} => s = "tick"
    /\ pc[s] \in {"idle", "claim", "read"} => todo[s] = {}
    /\ pc[s] \in {"sending", "failed"} <=> hand[s] \in Items
    /\ aim[s] \in Pages => link[aim[s]] # "new"
    /\ pc[s] = "read" =>
          /\ aim[s] \in Pages /\ seen[s].of \in Reminders
          /\ seen[s].status \in {"triggered", "missed"} /\ seen[s].dstatus \notin Live
          /\ seen[s].status = "triggered" => seen[s].dstatus # "none"
    /\ \A i \in Items : Held(s, i) => Claims(i) /\ (pc[s] = "ending" => Past(i.d))

\* Only s moves.
Only(s) ==
    /\ pc' = [pc EXCEPT ![s] = pc'[s]] /\ todo' = [todo EXCEPT ![s] = todo'[s]]
    /\ hand' = [hand EXCEPT ![s] = hand'[s]] /\ aim' = [aim EXCEPT ![s] = aim'[s]]
    /\ seen' = [seen EXCEPT ![s] = seen'[s]]

\* The invariant says this of each.
LEMMA EachSender ==
  ASSUME SenderTypes, SenderShape, ItemShape, NEW s \in Senders
  PROVE  SenderOK(s)
BY DEF SenderTypes, SenderShape, ItemShape, SenderOK

\* A sender that does not move stays as it is, whatever the others do.
LEMMA OthersRest ==
  ASSUME RowTypes, Moves, SenderTypes, SenderShape, ItemShape, NEW s \in Senders,
         \A c \in Pages : link[c] # "new" => link'[c] # "new",
         pc'[s] = pc[s], todo'[s] = todo[s], hand'[s] = hand[s], aim'[s] = aim[s], seen'[s] = seen[s]
  PROVE  SenderOK(s)'
<1>1. SenderOK(s)
  BY EachSender
<1>2. ASSUME NEW i \in Items, Held(s, i)' PROVE Claims(i)' /\ (pc'[s] = "ending" => Past(i.d)')
  <2>1. Held(s, i)
    BY <1>2 DEF Held
  <2> QED BY <1>1, <2>1, ClaimsStay DEF SenderOK
<1> QED BY <1>1, <1>2 DEF SenderOK

\* So it is enough to look at the one that moves.
LEMMA OneMoves ==
  ASSUME RowTypes, Moves, SenderTypes, SenderShape, ItemShape, NEW s \in Senders, Only(s), SenderOK(s)',
         \A c \in Pages : link[c] # "new" => link'[c] # "new"
  PROVE  SenderTypes' /\ SenderShape' /\ ItemShape'
<1>1. ASSUME NEW x \in Senders PROVE SenderOK(x)'
  <2>1. CASE x = s
    BY <2>1
  <2>2. CASE x # s
    <3>1. pc'[x] = pc[x] /\ todo'[x] = todo[x] /\ hand'[x] = hand[x] /\ aim'[x] = aim[x] /\ seen'[x] = seen[x]
      BY <2>2 DEF Only, SenderTypes
    <3> QED BY <3>1, OthersRest
  <2> QED BY <2>1, <2>2
<1>2. /\ pc' = [x \in Senders |-> pc'[x]] /\ todo' = [x \in Senders |-> todo'[x]] /\ hand' = [x \in Senders |-> hand'[x]]
      /\ aim' = [x \in Senders |-> aim'[x]] /\ seen' = [x \in Senders |-> seen'[x]]
  BY DEF Only, SenderTypes
<1>3. SenderTypes'
  BY <1>1, <1>2 DEF SenderTypes, SenderOK
<1>4. SenderShape'
  BY <1>1 DEF SenderShape, SenderOK
<1>5. ItemShape'
  BY <1>1 DEF ItemShape, SenderOK
<1> QED BY <1>3, <1>4, <1>5

\* A live delivery of a row is an item.
LEMMA ItemIs ==
  ASSUME RowTypes, RowShape, NEW r \in Reminders, IsLive(r)
  PROVE  Item(r) \in Items /\ Item(r).d = <<r, row[r].n>> /\ Item(r).to = row[r].page /\ link[row[r].page] # "new"
<1>1. row[r] \in Rows /\ row[r].n # 0 /\ row[r].page \in Pages /\ link[row[r].page] # "new"
  BY DEF RowTypes, RowShape, IsLive, Live
<1>2. <<r, row[r].n>> \in Deliveries
  BY <1>1, NumberIs DEF Rows, Deliveries
<1> QED BY <1>1, <1>2 DEF Item, Items

\* The worker looks for deliveries that have run out.
LEMMA TickExpireSender ==
  ASSUME RemindersInv, Moves, TickExpire
  PROVE  Only("tick") /\ SenderOK("tick")'
<1>0. RowTypes /\ RowShape /\ SenderTypes /\ SenderShape /\ ItemShape /\ PageTypes /\ LinkShape /\ "tick" \in Senders
  BY Constants DEF RemindersInv, Types
<1>1. SenderOK("tick") /\ pc["tick"] = "idle"
  BY <1>0, EachSender DEF TickExpire
<1>2. todo' = [todo EXCEPT !["tick"] = {Item(r) : r \in Overdue}] /\ hand' = hand /\ seen' = seen /\ link' = link
  BY DEF TickExpire, runtime
<1>3. \/ Overdue = {} /\ pc' = [pc EXCEPT !["tick"] = "claim"] /\ aim' = [aim EXCEPT !["tick"] = Newest]
      \/ Overdue # {} /\ pc' = [pc EXCEPT !["tick"] = "ending"] /\ aim' = aim
  BY DEF TickExpire
<1>4. Only("tick") /\ todo'["tick"] = {Item(r) : r \in Overdue}
  BY <1>0, <1>2, <1>3 DEF Only, SenderTypes
<1>5. \A r \in Reminders : Stays(r) /\ (r \in Overdue => row'[r].dstatus = "unknown")
  BY <1>0, RowsExpire DEF TickExpire, Overdue
<1>6. ASSUME NEW r \in Overdue, NEW i, i = Item(r) PROVE i \in Items /\ Claims(i)' /\ Past(i.d)'
  <2>1. r \in Reminders /\ IsLive(r)
    BY DEF Overdue
  <2>2. Item(r) \in Items /\ Item(r).d = <<r, row[r].n>> /\ Item(r).to = row[r].page /\ link[row[r].page] # "new"
    BY <1>0, <2>1, ItemIs
  <2>3. row'[r].n = row[r].n /\ row'[r].page = row[r].page /\ row'[r].dstatus = "unknown"
    BY <1>5, <2>1 DEF Stays
  <2>4. row[r].n \in Nat
    BY <1>0, <2>1, NumberIs DEF RowTypes, Rows
  <2>6. Claims(i)'
    BY <2>2, <2>3, <2>4, <1>6, <1>2 DEF Claims
  <2>7. Past(i.d)'
    BY <2>2, <2>3, <2>4, <1>6 DEF Past, IsLive, Live
  <2> QED BY <2>2, <1>6, <2>6, <2>7
<1>7. ASSUME NEW i \in Items, Held("tick", i)' PROVE Claims(i)' /\ Past(i.d)'
  <2>1. i \in todo'["tick"]
    BY <1>1, <1>2, <1>7 DEF Held, SenderOK
  <2> QED BY <1>4, <1>6, <2>1
<1>8. Newest \in Pages \cup {None} /\ (Newest \in Pages => link'[Newest] # "new")
  BY <1>0, <1>2, NewestIs
<1>9. todo'["tick"] \subseteq Items /\ (Overdue = {} => todo'["tick"] = {})
  BY <1>4, <1>6
<1>10. CASE Overdue = {}
  <2>1. pc'["tick"] = "claim" /\ aim'["tick"] = Newest
    BY <1>0, <1>3, <1>10 DEF SenderTypes
  <2> QED BY <1>1, <1>2, <1>4, <1>7, <1>8, <1>9, <1>10, <2>1 DEF SenderOK
<1>11. CASE Overdue # {}
  <2>1. pc'["tick"] = "ending" /\ aim'["tick"] = aim["tick"]
    BY <1>0, <1>3, <1>11 DEF SenderTypes
  <2> QED BY <1>1, <1>2, <1>4, <1>7, <1>9, <1>11, <2>1 DEF SenderOK
<1> QED BY <1>10, <1>11

\* It tells an end.
LEMMA TickEndedSender ==
  ASSUME RemindersInv, Moves, NEW e \in todo["tick"], TickEnded(e)
  PROVE  Only("tick") /\ SenderOK("tick")'
<1>0. RowTypes /\ RowShape /\ SenderTypes /\ SenderShape /\ ItemShape /\ PageTypes /\ LinkShape /\ "tick" \in Senders
  BY Constants DEF RemindersInv, Types
<1>1. SenderOK("tick") /\ pc["tick"] = "ending"
  BY <1>0, EachSender DEF TickEnded
<1>2. /\ todo' = [todo EXCEPT !["tick"] = @ \ {e}] /\ hand' = hand /\ seen' = seen /\ link' = link /\ row' = row
      /\ \/ todo["tick"] = {e} /\ pc' = [pc EXCEPT !["tick"] = "claim"] /\ aim' = [aim EXCEPT !["tick"] = Newest]
         \/ todo["tick"] # {e} /\ pc' = pc /\ aim' = aim
  BY DEF TickEnded
<1>3. Only("tick") /\ todo'["tick"] = todo["tick"] \ {e}
  BY <1>0, <1>2 DEF Only, SenderTypes
<1>4. Newest \in Pages \cup {None} /\ (Newest \in Pages => link'[Newest] # "new")
  BY <1>0, <1>2, NewestIs
<1>5. ASSUME NEW i \in Items, Held("tick", i)' PROVE Claims(i)' /\ Past(i.d)'
  <2>1. Held("tick", i)
    BY <1>5, <1>2, <1>3 DEF Held
  <2> QED BY <1>1, <1>2, <2>1, ClaimsStay, <1>0 DEF SenderOK
<1>6. CASE todo["tick"] = {e}
  <2>1. pc'["tick"] = "claim" /\ aim'["tick"] = Newest /\ todo'["tick"] = {}
    BY <1>0, <1>2, <1>3, <1>6 DEF SenderTypes
  <2> QED BY <1>1, <1>2, <1>3, <1>4, <1>5, <2>1 DEF SenderOK
<1>7. CASE todo["tick"] # {e}
  <2>1. pc'["tick"] = "ending" /\ aim'["tick"] = aim["tick"] /\ todo'["tick"] \subseteq Items
    BY <1>1, <1>2, <1>3, <1>7 DEF SenderOK
  <2> QED BY <1>1, <1>2, <1>3, <1>5, <2>1 DEF SenderOK
<1> QED BY <1>6, <1>7

\* It claims what is due.
LEMMA TickClaimSender ==
  ASSUME RemindersInv, Moves, TickClaim
  PROVE  Only("tick") /\ SenderOK("tick")'
<1>0. RowTypes /\ RowShape /\ SenderTypes /\ SenderShape /\ ItemShape /\ PageTypes /\ LinkShape /\ "tick" \in Senders
  BY Constants DEF RemindersInv, Types
<1>1. SenderOK("tick") /\ pc["tick"] = "claim"
  BY <1>0, EachSender DEF TickClaim
<1>c. PICK c : c = aim["tick"]
  OBVIOUS
<1>2. /\ row' = [r \in Reminders |-> IF r \in DueRows THEN Claimed(r, c) ELSE row[r]]
      /\ todo' = [todo EXCEPT !["tick"] = IF c = None THEN {} ELSE {[d |-> <<r, row[r].n + 1>>, to |-> c] : r \in DueRows}]
      /\ pc' = [pc EXCEPT !["tick"] = IF c = None \/ DueRows = {} THEN "idle" ELSE "due"]
      /\ aim' = [aim EXCEPT !["tick"] = None] /\ hand' = hand /\ seen' = seen /\ link' = link
  BY <1>c DEF TickClaim, runtime
<1>3. /\ Only("tick") /\ todo'["tick"] = IF c = None THEN {} ELSE {[d |-> <<r, row[r].n + 1>>, to |-> c] : r \in DueRows}
      /\ pc'["tick"] = (IF c = None \/ DueRows = {} THEN "idle" ELSE "due") /\ aim'["tick"] = None
  BY <1>0, <1>2 DEF Only, SenderTypes
<1>4. c \in Pages \cup {None} /\ (c # None => c \in Pages /\ link'[c] # "new")
  BY <1>1, <1>c, <1>2 DEF SenderOK
<1>5. ASSUME c # None, NEW r \in DueRows, NEW i, i = [d |-> <<r, row[r].n + 1>>, to |-> c]
      PROVE  i \in Items /\ Claims(i)'
  <2>1. r \in Reminders /\ row[r].n = 0 /\ row[r] \in Rows
    BY <1>0 DEF DueRows, RowShape, RowTypes
  <2>2. <<r, row[r].n + 1>> \in Deliveries
    BY <2>1, Constants DEF Deliveries
  <2>3. row'[r] = [row[r] EXCEPT !.status = "triggered", !.dstatus = "pending", !.n = row[r].n + 1, !.page = c, !.late = FALSE]
    BY <1>2, <1>5, <2>1 DEF Claimed
  <2>4. row'[r].n = row[r].n + 1 /\ row'[r].page = c
    BY <2>1, <2>3 DEF Rows
  <2>5. i \in Items
    BY <2>2, <1>4, <1>5 DEF Items
  <2> QED BY <2>1, <2>4, <2>5, <1>4, <1>5 DEF Claims
<1>6. todo'["tick"] \subseteq Items
  BY <1>3, <1>5
<1>7. ASSUME NEW i \in Items, Held("tick", i)' PROVE Claims(i)'
  <2>1. i \in todo'["tick"]
    BY <1>1, <1>2, <1>7 DEF Held, SenderOK
  <2> QED BY <1>3, <1>5, <2>1
<1>8. pc'["tick"] \in {"idle", "due"} /\ (pc'["tick"] = "idle" => todo'["tick"] = {})
  BY <1>3
<1> QED BY <1>1, <1>2, <1>3, <1>6, <1>7, <1>8, Constants DEF SenderOK

\* A replay handler reads a row.
LEMMA ReplayReadSender ==
  ASSUME RemindersInv, Moves, NEW k \in Callers, NEW r \in Reminders, ReplayRead(k, r)
  PROVE  Only(k) /\ SenderOK(k)'
<1>0. RowTypes /\ RowShape /\ SenderTypes /\ SenderShape /\ ItemShape /\ PageTypes /\ LinkShape /\ k \in Senders
  BY Constants DEF RemindersInv, Types
<1>1. SenderOK(k) /\ pc[k] = "idle"
  BY <1>0, EachSender DEF ReplayRead
<1>2. /\ seen' = [seen EXCEPT ![k] = [of |-> r, status |-> row[r].status, dstatus |-> row[r].dstatus]]
      /\ aim' = [aim EXCEPT ![k] = Newest] /\ pc' = [pc EXCEPT ![k] = "read"]
      /\ todo' = todo /\ hand' = hand /\ link' = link /\ row' = row /\ pages # <<>>
      /\ row[r].status \in {"triggered", "missed"} /\ ~IsLive(r)
  BY DEF ReplayRead, runtime
<1>3. /\ Only(k) /\ seen'[k] = [of |-> r, status |-> row[r].status, dstatus |-> row[r].dstatus]
      /\ aim'[k] = Newest /\ pc'[k] = "read"
  BY <1>0, <1>2 DEF Only, SenderTypes
<1>4. Newest \in Pages /\ link'[Newest] # "new"
  BY <1>0, <1>2, NewestIs
<1>5. row[r].dstatus \in Delivery /\ row[r].dstatus \notin Live /\ (row[r].status = "triggered" => row[r].dstatus # "none")
  BY <1>0, <1>2 DEF RowTypes, Rows, RowShape, IsLive
<1>6. seen'[k] \in Seen
  BY <1>2, <1>3, <1>5 DEF Seen
<1>7. ASSUME NEW i \in Items, Held(k, i)' PROVE FALSE
  BY <1>1, <1>2, <1>7 DEF Held, SenderOK
<1> QED BY <1>1, <1>2, <1>3, <1>4, <1>5, <1>6, <1>7 DEF SenderOK

\* It changes the row, or finds it changed.
LEMMA ReplayChangeSender ==
  ASSUME RemindersInv, Moves, NEW k \in Callers, ReplayChange(k)
  PROVE  Only(k) /\ SenderOK(k)'
<1>0. RowTypes /\ RowShape /\ SenderTypes /\ SenderShape /\ ItemShape /\ PageTypes /\ LinkShape /\ k \in Senders
  BY Constants DEF RemindersInv, Types
<1>1. SenderOK(k) /\ pc[k] = "read"
  BY <1>0, EachSender DEF ReplayChange
<1>c. PICK c, r : c = aim[k] /\ r = seen[k].of
  OBVIOUS
<1>2. c \in Pages /\ link[c] # "new" /\ r \in Reminders /\ todo[k] = {} /\ hand[k] \notin Items
  BY <1>1, <1>c DEF SenderOK
<1>3. seen' = [seen EXCEPT ![k] = NoRow] /\ aim' = [aim EXCEPT ![k] = None] /\ hand' = hand /\ link' = link
  BY DEF ReplayChange, runtime
<1>4. NoRow \in Seen
  BY DEF NoRow, Seen, Delivery
<1>5. CASE pc' = [pc EXCEPT ![k] = "idle"] /\ todo' = todo
  <2>1. Only(k) /\ pc'[k] = "idle" /\ seen'[k] = NoRow /\ aim'[k] = None
    BY <1>0, <1>3, <1>5 DEF Only, SenderTypes
  <2>2. ASSUME NEW i \in Items, Held(k, i)' PROVE FALSE
    BY <1>2, <1>3, <1>5, <2>2 DEF Held
  <2> QED BY <1>1, <1>2, <1>3, <1>4, <1>5, <2>1, <2>2, Constants DEF SenderOK
<1>6. CASE /\ row' = [row EXCEPT ![r] = Claimed(r, c)] /\ row[r].n < MaxDeliveries
           /\ todo' = [todo EXCEPT ![k] = {[d |-> <<r, row[r].n + 1>>, to |-> c]}]
           /\ pc' = [pc EXCEPT ![k] = "due"]
  <2>1. /\ Only(k) /\ pc'[k] = "due" /\ seen'[k] = NoRow /\ aim'[k] = None
        /\ todo'[k] = {[d |-> <<r, row[r].n + 1>>, to |-> c]}
    BY <1>0, <1>3, <1>6 DEF Only, SenderTypes
  <2>2. PICK i : i = [d |-> <<r, row[r].n + 1>>, to |-> c]
    OBVIOUS
  <2>3. row[r] \in Rows /\ row[r].n + 1 \in 1 .. MaxDeliveries /\ row[r].n + 1 \in Nat
    BY <1>0, <1>2, <1>6, Constants, NumberIs DEF RowTypes, Rows
  <2>4. row'[r] = [row[r] EXCEPT !.status = "triggered", !.dstatus = "pending", !.n = row[r].n + 1, !.page = c, !.late = FALSE]
    BY <1>0, <1>2, <1>6, Constants DEF Claimed, RowTypes
  <2>5. row'[r].n = row[r].n + 1 /\ row'[r].page = c
    BY <2>3, <2>4 DEF Rows
  <2>6. i \in Items /\ i.d = <<r, row[r].n + 1>> /\ i.to = c
    BY <1>2, <2>2, <2>3 DEF Items, Deliveries
  <2>7. Claims(i)'
    BY <1>2, <1>3, <2>3, <2>5, <2>6 DEF Claims
  <2>8. ASSUME NEW x \in Items, Held(k, x)' PROVE x = i
    BY <1>2, <1>3, <2>1, <2>2, <2>8 DEF Held
  <2> QED BY <1>1, <1>2, <1>3, <1>4, <2>1, <2>2, <2>6, <2>7, <2>8, Constants DEF SenderOK
<1>7. \/ pc' = [pc EXCEPT ![k] = "idle"] /\ todo' = todo
      \/ /\ row' = [row EXCEPT ![r] = Claimed(r, c)] /\ row[r].n < MaxDeliveries
         /\ todo' = [todo EXCEPT ![k] = {[d |-> <<r, row[r].n + 1>>, to |-> c]}]
         /\ pc' = [pc EXCEPT ![k] = "due"]
  BY <1>c DEF ReplayChange
<1> QED BY <1>5, <1>6, <1>7

\* A sender tells the page of an item.
LEMMA AnnounceSender ==
  ASSUME RemindersInv, Moves, NEW s \in Senders, NEW e \in todo[s], Announce(s, e)
  PROVE  Only(s) /\ SenderOK(s)'
<1>0. RowTypes /\ RowShape /\ SenderTypes /\ SenderShape /\ ItemShape /\ PageTypes /\ LinkShape
  BY DEF RemindersInv, Types
<1>1. SenderOK(s) /\ pc[s] = "due"
  BY <1>0, EachSender DEF Announce
<1>2. /\ hand' = [hand EXCEPT ![s] = e] /\ todo' = [todo EXCEPT ![s] = @ \ {e}]
      /\ aim' = aim /\ seen' = seen /\ link' = link /\ row' = row
      /\ pc' = [pc EXCEPT ![s] = "sending"] \/ pc' = [pc EXCEPT ![s] = "failed"]
  BY DEF Announce
<1>3. Only(s) /\ hand'[s] = e /\ todo'[s] = todo[s] \ {e} /\ pc'[s] \in {"sending", "failed"}
  BY <1>0, <1>2 DEF Only, SenderTypes
<1>4. ASSUME NEW i \in Items, Held(s, i)' PROVE Claims(i)'
  <2>1. i \in todo[s]
    BY <1>3, <1>4 DEF Held
  <2>2. Held(s, i)
    BY <2>1 DEF Held
  <2> QED BY <1>1, <1>2, <2>2, ClaimsStay, <1>0 DEF SenderOK
<1>5. todo'[s] \subseteq Items /\ hand'[s] \in Items
  BY <1>1, <1>3 DEF SenderOK
<1> QED BY <1>1, <1>2, <1>3, <1>4, <1>5 DEF SenderOK

\* The page has been told.
LEMMA AnnouncedSender ==
  ASSUME RemindersInv, Moves, NEW s \in Senders, Announced(s)
  PROVE  Only(s) /\ SenderOK(s)'
<1>0. RowTypes /\ RowShape /\ SenderTypes /\ SenderShape /\ ItemShape /\ PageTypes /\ LinkShape
  BY DEF RemindersInv, Types
<1>1. SenderOK(s) /\ pc[s] = "sending"
  BY <1>0, EachSender DEF Announced
<1>2. /\ hand' = [hand EXCEPT ![s] = NoItem] /\ pc' = [pc EXCEPT ![s] = Rest(s)]
      /\ todo' = todo /\ aim' = aim /\ seen' = seen /\ link' = link /\ row' = row
  BY DEF Announced, runtime
<1>3. Only(s) /\ hand'[s] = NoItem /\ pc'[s] = Rest(s)
  BY <1>0, <1>2 DEF Only, SenderTypes
<1>4. NoItem \notin Items
  BY Constants DEF NoItem, Items
<1>5. pc'[s] \in {"idle", "due"} /\ (pc'[s] = "idle" => todo[s] = {})
  BY <1>3 DEF Rest
<1>6. ASSUME NEW i \in Items, Held(s, i)' PROVE Claims(i)'
  <2>1. Held(s, i)
    BY <1>2, <1>3, <1>4, <1>6 DEF Held
  <2> QED BY <1>1, <1>2, <2>1, ClaimsStay, <1>0 DEF SenderOK
<1> QED BY <1>1, <1>2, <1>3, <1>4, <1>5, <1>6 DEF SenderOK

\* It could not be told.
LEMMA NotAnnouncedSender ==
  ASSUME RemindersInv, Moves, NEW s \in Senders, NotAnnounced(s)
  PROVE  Only(s) /\ SenderOK(s)'
<1>0. RowTypes /\ RowShape /\ SenderTypes /\ SenderShape /\ ItemShape /\ PageTypes /\ LinkShape
  BY DEF RemindersInv, Types
<1>1. SenderOK(s) /\ pc[s] = "sending"
  BY <1>0, EachSender DEF NotAnnounced
<1>2. /\ pc' = [pc EXCEPT ![s] = "failed"]
      /\ hand' = hand /\ todo' = todo /\ aim' = aim /\ seen' = seen /\ link' = link /\ row' = row
  BY DEF NotAnnounced
<1>3. Only(s) /\ pc'[s] = "failed"
  BY <1>0, <1>2 DEF Only, SenderTypes
<1>6. ASSUME NEW i \in Items, Held(s, i)' PROVE Claims(i)'
  <2>1. Held(s, i)
    BY <1>2, <1>6 DEF Held
  <2> QED BY <1>1, <1>2, <2>1, ClaimsStay, <1>0 DEF SenderOK
<1> QED BY <1>1, <1>2, <1>3, <1>6 DEF SenderOK

\* It is given up.
LEMMA GiveUpSender ==
  ASSUME RemindersInv, Moves, NEW s \in Senders, GiveUp(s)
  PROVE  Only(s) /\ SenderOK(s)'
<1>0. RowTypes /\ RowShape /\ SenderTypes /\ SenderShape /\ ItemShape /\ PageTypes /\ LinkShape
  BY DEF RemindersInv, Types
<1>1. SenderOK(s) /\ pc[s] = "failed"
  BY <1>0, EachSender DEF GiveUp
<1>2. /\ hand' = [hand EXCEPT ![s] = NoItem] /\ pc' = [pc EXCEPT ![s] = Rest(s)]
      /\ todo' = todo /\ aim' = aim /\ seen' = seen /\ link' = link
  BY DEF GiveUp, runtime
<1>3. Only(s) /\ hand'[s] = NoItem /\ pc'[s] = Rest(s)
  BY <1>0, <1>2 DEF Only, SenderTypes
<1>4. NoItem \notin Items
  BY Constants DEF NoItem, Items
<1>5. pc'[s] \in {"idle", "due"} /\ (pc'[s] = "idle" => todo[s] = {})
  BY <1>3 DEF Rest
<1>6. ASSUME NEW i \in Items, Held(s, i)' PROVE Claims(i)'
  <2>1. Held(s, i)
    BY <1>2, <1>3, <1>4, <1>6 DEF Held
  <2> QED BY <1>1, <1>2, <2>1, ClaimsStay, <1>0 DEF SenderOK
<1> QED BY <1>1, <1>2, <1>3, <1>4, <1>5, <1>6 DEF SenderOK

\* After a restart nobody holds anything.
LEMMA RestartSenders ==
  ASSUME Restart
  PROVE  SenderTypes' /\ SenderShape' /\ ItemShape'
<1>1. /\ pc' = [s \in Senders |-> "idle"] /\ todo' = [s \in Senders |-> {}]
      /\ hand' = [s \in Senders |-> NoItem] /\ aim' = [s \in Senders |-> None]
      /\ seen' = [s \in Senders |-> NoRow]
  BY DEF Restart
<1>2. NoItem \notin Items /\ NoRow \in Seen /\ None \notin Pages
  BY Constants DEF NoItem, Items, NoRow, Seen, Delivery
<1>3. SenderTypes'
  BY <1>1, <1>2 DEF SenderTypes
<1>4. SenderShape'
  BY <1>1, <1>2 DEF SenderShape
<1>5. ItemShape'
  BY <1>1, <1>2 DEF ItemShape, Held
<1> QED BY <1>3, <1>4, <1>5

\* So the senders keep to the table in every step.
LEMMA SendersStep ==
  ASSUME RemindersInv, [Next]_vars
  PROVE  SenderTypes' /\ SenderShape' /\ ItemShape'
<1>0. RowTypes /\ SenderTypes /\ SenderShape /\ ItemShape
  BY DEF RemindersInv, Types
<1>1. Moves /\ \A c \in Pages : link[c] # "new" => link'[c] # "new"
  BY RowMoves, LinkStep
<1>2. ASSUME NEW s \in Senders, Only(s) /\ SenderOK(s)' PROVE SenderTypes' /\ SenderShape' /\ ItemShape'
  BY <1>0, <1>1, <1>2, OneMoves
<1>3. CASE UNCHANGED senders
  <2>1. Only("tick") /\ "tick" \in Senders
    BY <1>0, <1>3, Constants DEF senders, Only, SenderTypes
  <2>2. SenderOK("tick")'
    BY <1>0, <1>1, <1>3, <2>1, OthersRest DEF senders
  <2> QED BY <1>2, <2>1, <2>2
<1>4. CASE TickExpire \/ TickClaim \/ \E i \in todo["tick"] : TickEnded(i)
  <2>1. Only("tick") /\ SenderOK("tick")' /\ "tick" \in Senders
    BY <1>1, <1>4, TickExpireSender, TickClaimSender, TickEndedSender, Constants
  <2> QED BY <1>2, <2>1
<1>5. ASSUME NEW k \in Callers, ReplayChange(k) \/ \E r \in Reminders : ReplayRead(k, r)
      PROVE  SenderTypes' /\ SenderShape' /\ ItemShape'
  <2>1. Only(k) /\ SenderOK(k)' /\ k \in Senders
    BY <1>1, <1>5, ReplayChangeSender, ReplayReadSender, Constants
  <2> QED BY <1>2, <2>1
<1>6. ASSUME NEW s \in Senders, Announced(s) \/ NotAnnounced(s) \/ GiveUp(s) \/ \E i \in todo[s] : Announce(s, i)
      PROVE  SenderTypes' /\ SenderShape' /\ ItemShape'
  <2>1. Only(s) /\ SenderOK(s)'
    BY <1>1, <1>6, AnnouncedSender, NotAnnouncedSender, GiveUpSender, AnnounceSender
  <2> QED BY <1>2, <2>1
<1> QED BY <1>3, <1>4, <1>5, <1>6, RestartSenders, SendersTouched

(***************************************************************************)
(* The rest of the types, and the shapes that follow.                      *)
(***************************************************************************)
\* Rows.
LEMMA RowShapeStep ==
  ASSUME RemindersInv, [Next]_vars
  PROVE  RowShape' /\ RowTypes'
<1>0. RowTypes /\ RowShape /\ Moves /\ \A c \in Pages : link[c] # "new" => link'[c] # "new"
  BY RowMoves, LinkStep DEF RemindersInv, Types
<1>1. ASSUME NEW r \in Reminders
      PROVE  /\ row'[r].n = 0 <=> row'[r].dstatus = "none"
             /\ row'[r].n = 0 => row'[r].status # "triggered"
             /\ row'[r].n # 0 => /\ row'[r].status \in {"triggered", "cancelled"}
                                 /\ row'[r].page \in Pages /\ link'[row'[r].page] # "new"
  <2>1. row[r].n \in Nat
    BY <1>0, NumberIs DEF RowTypes, Rows
  <2>2. CASE Stays(r)
    BY <1>0, <2>2 DEF Stays, RowShape, IsLive, Live
  <2>3. CASE Renewed(r)
    BY <2>1, <2>3 DEF Renewed
  <2> QED BY <1>0, <2>2, <2>3 DEF Moves
<1> QED BY <1>0, <1>1 DEF RowShape, RowTypes, Moves

\* What is released or held of a gate.
LEMMA GateIs ==
  ASSUME GateTypes, NEW c \in Pages, NEW ds
  PROVE  /\ ReleaseReminder(c, ds) => GateTypes' /\ gate'[c] = gate[c] \ ds /\ \A x \in Pages : x # c => gate'[x] = gate[x]
         /\ \A d \in Deliveries : HoldReminder(d, c) =>
                GateTypes' /\ gate'[c] = gate[c] \cup {d} /\ \A x \in Pages : x # c => gate'[x] = gate[x]
<1>1. gate[c] \in SUBSET Deliveries /\ exempt[c] \in BOOLEAN
  BY DEF GateTypes
<1>2. ASSUME ReleaseReminder(c, ds) PROVE GateTypes' /\ gate'[c] = gate[c] \ ds /\ \A x \in Pages : x # c => gate'[x] = gate[x]
  <2>1. PICK b \in BOOLEAN : b = (exempt[c] /\ gate[c] \ ds # {})
    OBVIOUS
  <2>2. gate' = [gate EXCEPT ![c] = gate[c] \ ds] /\ exempt' = [exempt EXCEPT ![c] = b]
    BY <1>2, <2>1 DEF ReleaseReminder
  <2> QED BY <1>1, <2>1, <2>2 DEF GateTypes
<1>3. ASSUME NEW d \in Deliveries, HoldReminder(d, c)
      PROVE  GateTypes' /\ gate'[c] = gate[c] \cup {d} /\ \A x \in Pages : x # c => gate'[x] = gate[x]
  <2>1. PICK b \in BOOLEAN : b = IF gate[c] = {} THEN turn[c] # "none" ELSE exempt[c]
    BY <1>1
  <2>2. gate' = [gate EXCEPT ![c] = gate[c] \cup {d}] /\ exempt' = [exempt EXCEPT ![c] = b]
    BY <1>3, <2>1 DEF HoldReminder
  <2> QED BY <1>1, <2>1, <2>2, <1>3 DEF GateTypes
<1> QED BY <1>2, <1>3

\* Telling an end releases that delivery and no other.
LEMMA EndIs ==
  ASSUME GateTypes, NEW c \in Pages, NEW d, DeliveryEnded(d, c)
  PROVE  /\ GateTypes'
         /\ \A x \in Pages : x # c => gate'[x] = gate[x]
         /\ gate'[c] \in {gate[c], gate[c] \ {d}}
<1>1. CASE Registered(c)
  <2>1. ReleaseReminder(c, {d})
    BY <1>1 DEF DeliveryEnded
  <2> QED BY <2>1, GateIs
<1>2. CASE ~Registered(c)
  BY <1>2 DEF DeliveryEnded, GateTypes
<1> QED BY <1>1, <1>2

\* An item that a sender holds is one.
LEMMA HeldIs ==
  ASSUME SenderTypes, SenderShape, NEW s \in Senders
  PROVE  /\ \A i \in todo[s] : i \in Items /\ i.d \in Deliveries /\ i.to \in Pages
         /\ pc[s] \in {"sending", "failed"} => hand[s] \in Items /\ hand[s].d \in Deliveries /\ hand[s].to \in Pages
BY DEF SenderTypes, SenderShape, Items

\* Gates.
LEMMA GateTypesStep ==
  ASSUME RemindersInv, [Next]_vars
  PROVE  GateTypes'
<1>0. GateTypes /\ SenderTypes /\ SenderShape /\ ReceiptTypes /\ "tick" \in Senders
  BY Constants DEF RemindersInv, Types
<1>1. CASE UNCHANGED <<gate, exempt>>
  BY <1>0, <1>1 DEF GateTypes
<1>2. ASSUME NEW r \in Reminders, NEW c \in Pages, CancelNotice(c, r) PROVE GateTypes'
  BY <1>0, <1>2, GateIs DEF CancelNotice
<1>3. ASSUME NEW i \in todo["tick"], TickEnded(i) PROVE GateTypes'
  BY <1>0, <1>3, EndIs, HeldIs DEF TickEnded
<1>4. ASSUME NEW s \in Senders, NotAnnounced(s) PROVE GateTypes'
  BY <1>0, <1>4, GateIs, HeldIs DEF NotAnnounced
<1>5. ASSUME NEW s \in Senders, NEW i \in todo[s], Announce(s, i) PROVE GateTypes'
  <2>1. CASE HoldReminder(i.d, i.to)
    BY <1>0, <2>1, GateIs, HeldIs
  <2>2. CASE UNCHANGED <<gate, exempt>>
    BY <1>0, <2>2 DEF GateTypes
  <2> QED BY <1>5, <2>1, <2>2 DEF Announce
<1>6. ASSUME NEW c \in Pages, AckEnded(c) PROVE GateTypes'
  BY <1>0, <1>6, EndIs DEF AckEnded
<1>7. ASSUME NEW c \in Pages, Disconnect(c) \/ StartTurn(c) \/ TurnEnd(c) PROVE GateTypes'
  <2>1. gate' = gate /\ exempt' = [exempt EXCEPT ![c] = FALSE]
    BY <1>7 DEF Disconnect, StartTurn, TurnEnd
  <2> QED BY <1>0, <2>1 DEF GateTypes
<1>8. CASE Restart
  BY <1>8 DEF Restart, GateTypes
<1> QED BY <1>1, <1>2, <1>3, <1>4, <1>5, <1>6, <1>7, <1>8, ExemptTouched

\* Turns, and what the page knows of them.
LEMMA TurnTypesStep ==
  ASSUME RemindersInv, [Next]_vars
  PROVE  TurnTypes'
<1>0. TurnTypes
  BY DEF RemindersInv, Types
<1>1. CASE UNCHANGED <<turn, busy>>
  BY <1>0, <1>1 DEF TurnTypes
<1>2. ASSUME NEW c \in Pages, Disconnect(c) PROVE TurnTypes'
  BY <1>0, <1>2 DEF TurnTypes, Disconnect
<1>3. ASSUME NEW c \in Pages, StartTurn(c) \/ TurnCheck(c) \/ TurnWake(c) \/ TurnEnd(c) PROVE TurnTypes'
  <2>1. busy' = busy /\ \E v \in {"none", "starting", "waiting", "running"} : turn' = [turn EXCEPT ![c] = v]
    BY <1>3 DEF StartTurn, TurnCheck, TurnWake, TurnEnd, browser
  <2> QED BY <1>0, <2>1 DEF TurnTypes
<1>4. ASSUME NEW c \in Pages, ReceiveTurn(c) PROVE TurnTypes'
  <2>1. turn' = turn /\ \E type : busy' = [busy EXCEPT ![c] = (type = "turn_started")]
    BY <1>4 DEF ReceiveTurn, runtime
  <2>2. PICK b \in BOOLEAN : busy' = [busy EXCEPT ![c] = b]
    BY <2>1
  <2> QED BY <1>0, <2>1, <2>2 DEF TurnTypes
<1>5. CASE Restart
  BY <1>5 DEF Restart, TurnTypes
<1> QED BY <1>1, <1>2, <1>3, <1>4, <1>5, TurnTouched

\* Ends to be told, notices and faults.
LEMMA OtherTypesStep ==
  ASSUME RemindersInv, [Next]_vars
  PROVE  OtherTypes' /\ NoticeShape'
<1>0. OtherTypes /\ NoticeShape /\ RowTypes /\ PageTypes
  BY DEF RemindersInv, Types
<1>1. faults' \in 0 .. MaxFaults
  <2>1. faults \in Nat /\ faults <= MaxFaults
    BY <1>0, Constants DEF OtherTypes
  <2>2. faults' = faults \/ (faults < MaxFaults /\ faults' = faults + 1)
    BY FaultsTouched DEF NotAnnounced, DisconnectExpire, AckTimesOut, Restart
  <2> QED BY <2>1, <2>2, Constants
<1>2. \A r \in Reminders : row[r].status = "cancelled" => row'[r].status = "cancelled"
  BY RowMoves DEF Moves, Stays, Renewed
<1>3. CASE UNCHANGED notices
  BY <1>0, <1>1, <1>2, <1>3 DEF OtherTypes, NoticeShape
<1>4. ASSUME NEW r \in Reminders, Cancel(r) PROVE OtherTypes' /\ NoticeShape'
  <2>1. notices' = notices \cup (Range(pages) \X {r}) /\ row' = [row EXCEPT ![r].status = "cancelled"]
    BY <1>4 DEF Cancel
  <2>2. Range(pages) \subseteq Pages
    BY <1>0 DEF PageTypes, Range
  <2>3. row[r] \in Rows
    BY <1>0 DEF RowTypes
  <2>4. row'[r].status = "cancelled"
    BY <1>0, <2>1, <2>3 DEF RowTypes, Rows
  <2> QED BY <1>0, <1>1, <1>2, <2>1, <2>2, <2>4 DEF OtherTypes, NoticeShape
<1>5. ASSUME NEW r \in Reminders, NEW c \in Pages, CancelNotice(c, r) PROVE OtherTypes' /\ NoticeShape'
  <2>1. notices' \subseteq notices
    BY <1>5 DEF CancelNotice
  <2> QED BY <1>0, <1>1, <1>2, <2>1 DEF OtherTypes, NoticeShape
<1>6. CASE Restart
  BY <1>1, <1>6 DEF Restart, OtherTypes, NoticeShape
<1> QED BY <1>3, <1>4, <1>5, <1>6, LinkTouched

\* The end that a receipt brings about is one.
LEMMA EndStep ==
  ASSUME RemindersInv, [Next]_vars
  PROVE  EndShape' /\ ending' \in [Pages -> Deliveries \cup {None}]
<1>0. EndShape /\ ReceiptTypes /\ RowTypes /\ Moves
  BY RowMoves DEF RemindersInv, Types
<1>1. ASSUME NEW c \in Pages, ending'[c] = ending[c] PROVE (ending'[c] # None => Past(ending[c])') /\ ending[c] \in Deliveries \cup {None}
  BY <1>0, <1>1, PastStays DEF EndShape, ReceiptTypes
<1>2. CASE UNCHANGED ending
  <2>1. \A c \in Pages : ending[c] # None => Past(ending[c])'
    BY <1>1, <1>2
  <2> QED BY <1>0, <1>2, <2>1 DEF EndShape, ReceiptTypes, Past, IsLive
<1>3. ASSUME NEW c \in Pages, ending' = [ending EXCEPT ![c] = None] PROVE EndShape' /\ ending' \in [Pages -> Deliveries \cup {None}]
  <2>1. ending'[c] = None /\ \A x \in Pages : x # c => ending'[x] = ending[x]
    BY <1>0, <1>3 DEF ReceiptTypes
  <2>2. ASSUME NEW x \in Pages, ending'[x] # None PROVE Past(ending[x])'
    <3>1. ending'[x] = ending[x] /\ ending[x] # None
      BY <2>1, <2>2
    <3>2. PICK d : d = ending[x]
      OBVIOUS
    <3>3. d \in Deliveries /\ Past(d)
      BY <1>0, <3>1, <3>2 DEF EndShape, ReceiptTypes
    <3>4. Past(d)'
      BY <1>0, <3>3, PastStays
    <3> QED BY <3>1, <3>2, <3>4
  <2> QED BY <1>0, <1>3, <2>2 DEF EndShape, ReceiptTypes
<1>4. ASSUME NEW c \in Pages, Disconnect(c) \/ AckEnded(c) \/ AckTimesOut(c) PROVE EndShape' /\ ending' \in [Pages -> Deliveries \cup {None}]
  BY <1>2, <1>3, <1>4 DEF Disconnect, AckEnded, AckTimesOut
<1>5. ASSUME NEW c \in Pages, Ack(c) PROVE EndShape' /\ ending' \in [Pages -> Deliveries \cup {None}]
  <2>1. PICK e : e = Head(receipts[c])
    OBVIOUS
  <2>2. e \in Entries
    BY <1>0, <1>5, <2>1, QueueShrinks DEF Ack, ReceiptTypes
  <2>3. CASE UNCHANGED ending
    BY <1>2, <2>3
  <2>4. CASE ending' # ending
    <3>1. /\ Accepts(c, e) /\ row' = [row EXCEPT ![e.d[1]] = Acked(e.d[1], e.status)]
          /\ ending' = [ending EXCEPT ![c] = IF e.status \in Outcomes THEN e.d ELSE None]
      BY <1>5, <2>1, <2>4 DEF Ack
    <3>2. CASE e.status \notin Outcomes
      BY <1>3, <3>1, <3>2
    <3>3. CASE e.status \in Outcomes
      <4>1. ending' = [ending EXCEPT ![c] = e.d]
        BY <3>1, <3>3
      <4>2. PICK d : d = e.d
        OBVIOUS
      <4>3. d \in Deliveries /\ d[1] \in Reminders /\ row[d[1]].n = d[2] /\ row[d[1]] \in Rows
        BY <1>0, <2>2, <3>1, <4>2 DEF Entries, Deliveries, Accepts, RowTypes
      <4>4. row'[d[1]] = [row[d[1]] EXCEPT !.dstatus = IF e.status = "waiting" THEN "pending" ELSE e.status, !.late = FALSE]
        BY <1>0, <3>1, <4>2, <4>3 DEF Acked, RowTypes
      <4>5. row'[d[1]].n = d[2] /\ row'[d[1]].dstatus = e.status
        BY <3>3, <4>3, <4>4 DEF Rows, Outcomes
      <4>6. Past(d)'
        <5>1. d[2] \in Nat
          BY <4>3, NumberIs DEF Rows
        <5>2. e.status \notin Live
          BY <3>3 DEF Outcomes, Live
        <5> QED BY <4>5, <5>1, <5>2 DEF Past, IsLive
      <4>7. ending'[c] = d /\ \A x \in Pages : x # c => ending'[x] = ending[x]
        BY <1>0, <4>1, <4>2 DEF ReceiptTypes
      <4>8. ASSUME NEW x \in Pages, ending'[x] # None PROVE Past(ending[x])'
        <5>1. CASE x = c
          BY <4>6, <4>7, <5>1
        <5>2. CASE x # c
          <6>1. PICK y : y = ending[x]
            OBVIOUS
          <6>2. y \in Deliveries /\ Past(y) /\ ending'[x] = y
            BY <1>0, <4>7, <4>8, <5>2, <6>1 DEF EndShape, ReceiptTypes
          <6>3. Past(y)'
            BY <1>0, <6>2, PastStays
          <6> QED BY <6>2, <6>3
        <5> QED BY <5>1, <5>2
      <4> QED BY <1>0, <4>1, <4>2, <4>3, <4>8 DEF EndShape, ReceiptTypes
    <3> QED BY <3>2, <3>3
  <2> QED BY <2>3, <2>4
<1>6. CASE Restart
  BY <1>6 DEF Restart, EndShape
<1> QED BY <1>2, <1>4, <1>5, <1>6, EndingTouched

\* The receipts.
LEMMA ReceiptsStep ==
  ASSUME RemindersInv, [Next]_vars
  PROVE  ReceiptTypes' /\ ReceiptShape' /\ said \subseteq said'
<1>0. ReceiptTypes /\ ReceiptShape /\ Types
  BY DEF RemindersInv, Types
<1> DEFINE Goal == /\ receipts' \in [Pages -> Seq(Entries)] /\ \A x \in Pages : Len(receipts'[x]) <= MaxReceipts
                   /\ said' \subseteq Deliveries \X Outcomes /\ said \subseteq said'
                   /\ ReceiptShape'
<1>1. ASSUME UNCHANGED <<receipts, said>> PROVE Goal
  BY <1>0, <1>1 DEF ReceiptTypes, ReceiptShape
<1>2. ASSUME NEW c \in Pages, said' = said, receipts' = [receipts EXCEPT ![c] = <<>>] PROVE Goal
  <2>1. receipts'[c] = <<>> /\ \A x \in Pages : x # c => receipts'[x] = receipts[x]
    BY <1>0, <1>2 DEF ReceiptTypes
  <2> QED BY <1>0, <1>2, <2>1, Constants DEF ReceiptTypes, ReceiptShape
<1>3. ASSUME NEW c \in Pages, said' = said, receipts[c] # <<>>, receipts' = [receipts EXCEPT ![c] = Tail(@)] PROVE Goal
  <2>1. receipts[c] \in Seq(Entries) /\ Len(receipts[c]) <= MaxReceipts
    BY <1>0 DEF ReceiptTypes
  <2>2. /\ Tail(receipts[c]) \in Seq(Entries) /\ Len(Tail(receipts[c])) <= MaxReceipts
        /\ \A i \in DOMAIN Tail(receipts[c]) : i + 1 \in DOMAIN receipts[c] /\ Tail(receipts[c])[i] = receipts[c][i + 1]
    <3>1. /\ Tail(receipts[c]) \in Seq(Entries) /\ Len(Tail(receipts[c])) = Len(receipts[c]) - 1
          /\ Len(receipts[c]) \in Nat
          /\ \A i \in DOMAIN Tail(receipts[c]) : Tail(receipts[c])[i] = receipts[c][i + 1] /\ i + 1 \in DOMAIN receipts[c]
      BY <1>3, <2>1, QueueShrinks
    <3> QED BY <2>1, <3>1, Constants
  <2>3. receipts'[c] = Tail(receipts[c]) /\ \A x \in Pages : x # c => receipts'[x] = receipts[x]
    BY <1>0, <1>3 DEF ReceiptTypes
  <2>4. \A x \in Pages : receipts'[x] \in Seq(Entries) /\ Len(receipts'[x]) <= MaxReceipts
    BY <1>0, <2>2, <2>3 DEF ReceiptTypes
  <2>5. ReceiptShape'
    <3> SUFFICES ASSUME NEW x \in Pages, NEW i \in DOMAIN receipts'[x], receipts'[x][i].status \in Outcomes
                 PROVE  <<receipts'[x][i].d, receipts'[x][i].status>> \in said'
      BY DEF ReceiptShape
    <3>1. CASE x = c
      BY <1>0, <1>3, <2>2, <2>3, <3>1 DEF ReceiptShape
    <3>2. CASE x # c
      BY <1>0, <1>3, <2>3, <3>2 DEF ReceiptShape
    <3> QED BY <3>1, <3>2
  <2> QED BY <1>0, <1>3, <2>4, <2>5 DEF ReceiptTypes
<1>4. ASSUME NEW c \in Pages, Disconnect(c) PROVE Goal
  BY <1>2, <1>4 DEF Disconnect
<1>5. ASSUME NEW c \in Pages, Ack(c) PROVE Goal
  BY <1>3, <1>5 DEF Ack, browser
<1>6. ASSUME NEW c \in Pages, AckTimesOut(c) PROVE Goal
  <2>1. said' = said /\ (receipts' = receipts \/ (receipts[c] # <<>> /\ receipts' = [receipts EXCEPT ![c] = Tail(@)]))
    BY <1>6 DEF AckTimesOut
  <2>2. CASE receipts' = receipts
    BY <1>0, <2>1, <2>2 DEF ReceiptTypes, ReceiptShape
  <2>3. CASE receipts[c] # <<>> /\ receipts' = [receipts EXCEPT ![c] = Tail(@)]
    BY <1>3, <2>1, <2>3
  <2> QED BY <2>1, <2>2, <2>3
<1>7. ASSUME NEW c \in Pages,
             \/ ReceiveDue(c) \/ ReceiveCancelled(c) \/ PagePlay(c) \/ PageDone(c) \/ PageFails(c) \/ PageStop(c)
             \/ \E d \in Deliveries : KeepAlive(c, d)
      PROVE Goal
  <2>1. UNCHANGED <<receipts, said>> \/ \E es \in Seq(Entries) : Report(c, es)
    BY <1>0, <1>7, PageReports
  <2>2. CASE UNCHANGED <<receipts, said>>
    BY <1>0, <2>2 DEF ReceiptTypes, ReceiptShape
  <2>3. ASSUME NEW es \in Seq(Entries), Report(c, es) PROVE Goal
    BY <1>0, <2>3, Reported
  <2> QED BY <2>1, <2>2, <2>3
<1>8. ASSUME Restart PROVE Goal
  <2>1. receipts' = [c \in Pages |-> <<>>] /\ said' = said
    BY <1>8 DEF Restart
  <2> QED BY <1>0, <2>1, Constants DEF ReceiptTypes, ReceiptShape
<1>9. Goal
  BY <1>1, <1>4, <1>5, <1>6, <1>7, <1>8, ReceiptsTouched
<1> QED BY <1>9, EndStep DEF ReceiptTypes

\* A frame joins those under way to c.
LEMMA FrameSent ==
  ASSUME ChanTypes, NEW c \in Pages, NEW f \in Frames, chan' = [chan EXCEPT ![c] = Append(@, f)]
  PROVE  ChanTypes'
BY DEF ChanTypes

\* The ends and cancellations a page is told, if it is still open.
LEMMA ChanTells ==
  ASSUME ChanTypes, NEW c \in Pages
  PROVE  /\ \A d \in Deliveries : DeliveryEnded(d, c) \/ HoldReminder(d, c) =>
                ChanTypes' /\ \A x \in Pages : link[x] # "open" => chan'[x] = chan[x]
         /\ \A r \in Reminders : CancelNotice(c, r) =>
                ChanTypes' /\ \A x \in Pages : link[x] # "open" => chan'[x] = chan[x]
<1> DEFINE Told(f) == chan' = [chan EXCEPT ![c] = IF link[c] = "open" THEN Append(@, f) ELSE @]
<1>1. ASSUME NEW f \in Frames, Told(f) PROVE ChanTypes' /\ \A x \in Pages : link[x] # "open" => chan'[x] = chan[x]
  BY <1>1 DEF ChanTypes
<1>2. ASSUME UNCHANGED chan PROVE ChanTypes' /\ \A x \in Pages : link[x] # "open" => chan'[x] = chan[x]
  BY <1>2 DEF ChanTypes
<1>3. ASSUME NEW d \in Deliveries, DeliveryEnded(d, c) \/ HoldReminder(d, c)
      PROVE  ChanTypes' /\ \A x \in Pages : link[x] # "open" => chan'[x] = chan[x]
  <2>1. [type |-> "ended", d |-> d] \in Frames /\ [type |-> "due", d |-> d] \in Frames
    BY DEF Frames
  <2>2. Told([type |-> "ended", d |-> d]) \/ Told([type |-> "due", d |-> d]) \/ UNCHANGED chan
    BY <1>3 DEF DeliveryEnded, HoldReminder
  <2> HIDE DEF Told
  <2> QED BY <2>1, <2>2, <1>1, <1>2
<1>4. ASSUME NEW r \in Reminders, CancelNotice(c, r)
      PROVE  ChanTypes' /\ \A x \in Pages : link[x] # "open" => chan'[x] = chan[x]
  <2>1. [type |-> "cancelled", r |-> r] \in Frames
    BY DEF Frames
  <2>2. Told([type |-> "cancelled", r |-> r])
    BY <1>4 DEF CancelNotice
  <2> HIDE DEF Told
  <2> QED BY <2>1, <2>2, <1>1
<1> QED BY <1>3, <1>4

\* What a connection's turn sends.
LEMMA TurnSends ==
  ASSUME ChanTypes, NEW c \in Pages, NEW type \in {"turn_started", "turn_waiting", "turn_over"}, Send(c, type)
  PROVE  ChanTypes' /\ \A x \in Pages : x # c => chan'[x] = chan[x]
<1>1. [type |-> type] \in Frames
  BY DEF Frames
<1>2. chan' = [chan EXCEPT ![c] = Append(@, [type |-> type])]
  BY DEF Send
<1> QED BY <1>1, <1>2, FrameSent DEF ChanTypes

\* What is under way to the pages, of which only open ones get more.
LEMMA ChanStep ==
  ASSUME RemindersInv, [Next]_vars
  PROVE  ChanTypes' /\ \A x \in Pages : link[x] # "open" => chan'[x] = <<>>
<1>0. Types /\ ChanTypes /\ LinkShape /\ SenderTypes /\ SenderShape /\ ReceiptTypes /\ "tick" \in Senders
  BY Constants DEF RemindersInv, Types
<1>e. \A x \in Pages : link[x] # "open" => chan[x] = <<>> /\ turn[x] = "none"
  BY <1>0 DEF LinkShape
<1> DEFINE Goal == ChanTypes' /\ \A x \in Pages : link[x] # "open" => chan'[x] = chan[x]
<1>1. ASSUME UNCHANGED chan PROVE Goal
  BY <1>0, <1>1 DEF ChanTypes
<1>2. ASSUME NEW r \in Reminders, NEW c \in Pages, CancelNotice(c, r) PROVE Goal
  BY <1>0, <1>2, ChanTells
<1>3. ASSUME NEW i \in todo["tick"], TickEnded(i) PROVE Goal
  <2>1. i.d \in Deliveries /\ i.to \in Pages /\ DeliveryEnded(i.d, i.to)
    BY <1>0, <1>3, HeldIs DEF TickEnded
  <2> QED BY <1>0, <2>1, ChanTells
<1>4. ASSUME NEW s \in Senders, NEW i \in todo[s], Announce(s, i) PROVE Goal
  <2>1. i.d \in Deliveries /\ i.to \in Pages /\ (HoldReminder(i.d, i.to) \/ UNCHANGED chan)
    BY <1>0, <1>4, HeldIs DEF Announce
  <2> QED BY <1>0, <1>1, <2>1, ChanTells
<1>5. ASSUME NEW c \in Pages, AckEnded(c) PROVE Goal
  <2>1. ending[c] \in Deliveries /\ DeliveryEnded(ending[c], c)
    BY <1>0, <1>5 DEF AckEnded, ReceiptTypes
  <2> QED BY <1>0, <2>1, ChanTells
<1>6. ASSUME NEW c \in Pages, Disconnect(c) PROVE Goal
  <2>1. chan' = [chan EXCEPT ![c] = <<>>] /\ link[c] = "open"
    BY <1>6 DEF Disconnect
  <2> QED BY <1>0, <2>1 DEF ChanTypes
<1>7. ASSUME NEW c \in Pages, StartTurn(c) \/ TurnCheck(c) \/ TurnEnd(c) PROVE Goal
  <2>1. link[c] = "open"
    BY <1>7, <1>e DEF StartTurn, TurnCheck, TurnEnd
  <2>2. UNCHANGED chan \/ \E type \in {"turn_started", "turn_waiting", "turn_over"} : Send(c, type)
    BY <1>7 DEF StartTurn, TurnCheck, TurnEnd
  <2> QED BY <1>0, <1>1, <2>1, <2>2, TurnSends
<1>8. ASSUME NEW c \in Pages, ReceiveDue(c) \/ ReceiveEnded(c) \/ ReceiveCancelled(c) \/ ReceiveTurn(c) PROVE Goal
  <2>1. \E type : Next1(c, type)
    BY <1>8 DEF ReceiveDue, ReceiveEnded, ReceiveCancelled, ReceiveTurn
  <2>2. chan[c] # <<>> /\ chan' = [chan EXCEPT ![c] = Tail(chan[c])] /\ ChanTypes'
    BY <1>0, <2>1, FrameTaken DEF ChanTypes
  <2> QED BY <1>0, <1>e, <2>2 DEF ChanTypes
<1>9. ASSUME Restart PROVE Goal
  <2>1. chan' = [c \in Pages |-> <<>>]
    BY <1>9 DEF Restart
  <2> QED BY <1>e, <2>1 DEF ChanTypes
<1>10. Goal
  BY <1>1, <1>2, <1>3, <1>4, <1>5, <1>6, <1>7, <1>8, <1>9, ChanTouched
<1> QED BY <1>10, <1>e

\* The page's queue and what it plays.
LEMMA PlayerStep ==
  ASSUME RemindersInv, [Next]_vars
  PROVE  /\ PlayerTypes'
         /\ \A x \in Pages : link[x] # "open" => waiting'[x] = <<>> /\ active'[x] = Silent
<1>0. PlayerTypes /\ ChanTypes /\ LinkShape
  BY DEF RemindersInv, Types
<1>e. \A x \in Pages : link[x] # "open" => chan[x] = <<>> /\ active[x] = Silent /\ waiting[x] = <<>>
  BY <1>0 DEF LinkShape
<1>s. Silent \in Sounds /\ \A d \in Deliveries : \A st \in {"loading", "fetched", "playing"} : [d |-> d, state |-> st] \in Sounds
  BY DEF Sounds
<1> DEFINE Goal == /\ PlayerTypes'
                   /\ \A x \in Pages : link[x] # "open" => waiting'[x] = <<>> /\ active'[x] = Silent
\* It is enough to look at the page that moves.
<1>p. ASSUME NEW c \in Pages, NEW w \in Seq(Deliveries), Len(w) <= MaxWaiting, NEW a \in Sounds,
             waiting' = [waiting EXCEPT ![c] = w], active' = [active EXCEPT ![c] = a],
             link[c] = "open" \/ (w = <<>> /\ a = Silent)
      PROVE  Goal
  BY <1>0, <1>e, <1>p DEF PlayerTypes
<1>w. \A c \in Pages : /\ waiting[c] \in Seq(Deliveries) /\ Len(waiting[c]) <= MaxWaiting /\ active[c] \in Sounds
                       /\ waiting = [waiting EXCEPT ![c] = waiting[c]] /\ active = [active EXCEPT ![c] = active[c]]
  BY <1>0 DEF PlayerTypes
<1>1. ASSUME UNCHANGED <<waiting, active>> PROVE Goal
  BY <1>0, <1>e, <1>1 DEF PlayerTypes
<1>2. ASSUME NEW c \in Pages, Disconnect(c) \/ PageStop(c) PROVE Goal
  <2>1. waiting' = [waiting EXCEPT ![c] = <<>>] /\ active' = [active EXCEPT ![c] = Silent]
    BY <1>2 DEF Disconnect, PageStop
  <2>2. <<>> \in Seq(Deliveries) /\ Len(<<>>) <= MaxWaiting
    BY Constants
  <2> QED BY <1>p, <1>s, <2>1, <2>2
<1>3. ASSUME NEW c \in Pages, ReceiveDue(c) PROVE Goal
  <2>1. PICK d : d = Head(chan[c]).d
    OBVIOUS
  <2>2. d \in Deliveries /\ chan[c] # <<>>
    BY <1>0, <1>3, <2>1, FrameTaken, FrameIs DEF ReceiveDue
  <2>3. link[c] = "open"
    BY <1>e, <2>2
  <2>4. active' = active /\ (waiting' = waiting \/ (Len(waiting[c]) < MaxWaiting /\ waiting' = [waiting EXCEPT ![c] = Append(@, d)]))
    BY <1>3, <2>1 DEF ReceiveDue, browser
  <2>5. CASE Len(waiting[c]) < MaxWaiting /\ waiting' = [waiting EXCEPT ![c] = Append(@, d)]
    <3>1. Append(waiting[c], d) \in Seq(Deliveries) /\ Len(Append(waiting[c], d)) <= MaxWaiting
      BY <1>w, <2>2, <2>5, Constants
    <3>2. waiting' = [waiting EXCEPT ![c] = Append(waiting[c], d)] /\ active' = [active EXCEPT ![c] = active[c]]
      BY <1>w, <2>4, <2>5
    <3> QED BY <1>p, <1>w, <2>3, <3>1, <3>2
  <2> QED BY <1>1, <2>4, <2>5
<1>4. ASSUME NEW c \in Pages, ReceiveEnded(c) \/ ReceiveCancelled(c) PROVE Goal
  <2>1. chan[c] # <<>>
    BY <1>4 DEF ReceiveEnded, ReceiveCancelled, Next1
  <2>2. \E xs : \E a \in {Silent, active[c]} : waiting' = [waiting EXCEPT ![c] = Without(waiting[c], xs)] /\ active' = [active EXCEPT ![c] = a]
    BY <1>4 DEF ReceiveEnded, ReceiveCancelled
  <2>3. PICK xs : \E a \in {Silent, active[c]} : waiting' = [waiting EXCEPT ![c] = Without(waiting[c], xs)] /\ active' = [active EXCEPT ![c] = a]
    BY <2>2
  <2>4. PICK a \in {Silent, active[c]} : waiting' = [waiting EXCEPT ![c] = Without(waiting[c], xs)] /\ active' = [active EXCEPT ![c] = a]
    BY <2>3
  <2>5. Without(waiting[c], xs) \in Seq(Deliveries) /\ Len(Without(waiting[c], xs)) <= Len(waiting[c])
    BY <1>w, WithoutIs
  <2>6. Len(Without(waiting[c], xs)) <= MaxWaiting
    <3>1. Len(waiting[c]) \in Nat /\ Len(Without(waiting[c], xs)) \in Nat
      BY <1>w, <2>5
    <3> QED BY <1>w, <2>5, <3>1, Constants
  <2>7. a \in Sounds /\ link[c] = "open"
    BY <1>w, <1>s, <1>e, <2>1
  <2> QED BY <1>p, <2>4, <2>5, <2>6, <2>7
<1>5. ASSUME NEW c \in Pages, PageStart(c) PROVE Goal
  <2>1. /\ waiting[c] # <<>> /\ waiting' = [waiting EXCEPT ![c] = Tail(waiting[c])]
        /\ active' = [active EXCEPT ![c] = [d |-> Head(waiting[c]), state |-> "loading"]]
    BY <1>5 DEF PageStart
  <2>2. Tail(waiting[c]) \in Seq(Deliveries) /\ Len(Tail(waiting[c])) <= MaxWaiting /\ Head(waiting[c]) \in Deliveries
    <3>1. Len(waiting[c]) \in Nat /\ Tail(waiting[c]) \in Seq(Deliveries) /\ Head(waiting[c]) \in Deliveries
             /\ Len(Tail(waiting[c])) = Len(waiting[c]) - 1
      BY <1>w, <2>1, QueueShrinks
    <3> QED BY <1>w, <3>1, Constants
  <2> QED BY <1>p, <1>s, <1>e, <2>1, <2>2
<1>6. ASSUME NEW c \in Pages, PageFetch(c) \/ PagePlay(c) \/ PageDone(c) \/ PageFails(c) PROVE Goal
  <2>1. active[c].state \in {"loading", "fetched", "playing"} \/ active[c] # Silent
    BY <1>6 DEF PageFetch, PagePlay, PageDone, PageFails
  <2>2. active[c] # Silent /\ active[c].d \in Deliveries /\ active[c] = [d |-> active[c].d, state |-> active[c].state]
    BY <1>0, <2>1, SoundIs
  <2>3. /\ waiting' = waiting
        /\ \/ active' = [active EXCEPT ![c].state = "fetched"]
           \/ active' = [active EXCEPT ![c].state = "playing"]
           \/ active' = [active EXCEPT ![c] = Silent]
    BY <1>6 DEF PageFetch, PagePlay, PageDone, PageFails, PageFinish, runtime
  <2>4. PICK a \in Sounds : active' = [active EXCEPT ![c] = a]
    <3>1. CASE active' = [active EXCEPT ![c].state = "fetched"]
      <4>1. [active[c] EXCEPT !.state = "fetched"] = [d |-> active[c].d, state |-> "fetched"]
        BY <2>2
      <4>2. active' = [active EXCEPT ![c] = [active[c] EXCEPT !.state = "fetched"]]
        BY <3>1, Zenon
      <4>3. active' = [active EXCEPT ![c] = [d |-> active[c].d, state |-> "fetched"]]
        BY <4>1, <4>2
      <4> QED BY <1>s, <2>2, <4>3
    <3>2. CASE active' = [active EXCEPT ![c].state = "playing"]
      <4>1. [active[c] EXCEPT !.state = "playing"] = [d |-> active[c].d, state |-> "playing"]
        BY <2>2
      <4>2. active' = [active EXCEPT ![c] = [active[c] EXCEPT !.state = "playing"]]
        BY <3>2, Zenon
      <4>3. active' = [active EXCEPT ![c] = [d |-> active[c].d, state |-> "playing"]]
        BY <4>1, <4>2
      <4> QED BY <1>s, <2>2, <4>3
    <3>3. CASE active' = [active EXCEPT ![c] = Silent]
      BY <1>s, <3>3
    <3> QED BY <2>3, <3>1, <3>2, <3>3
  <2>5. link[c] = "open" /\ waiting' = [waiting EXCEPT ![c] = waiting[c]]
    BY <1>e, <1>w, <2>2, <2>3
  <2> QED BY <1>p, <1>w, <2>4, <2>5
<1>7. ASSUME Restart PROVE Goal
  <2>1. waiting' = [c \in Pages |-> <<>>] /\ active' = [c \in Pages |-> Silent]
    BY <1>7 DEF Restart
  <2> QED BY <1>s, <2>1, Constants DEF PlayerTypes
<1> QED BY <1>1, <1>2, <1>3, <1>4, <1>5, <1>6, <1>7, PlayerTouched

\* A page that is not open has nothing left to do.
LEMMA LinkShapeStep ==
  ASSUME RemindersInv, [Next]_vars
  PROVE  LinkShape'
<1>0. Types /\ LinkShape /\ ReceiptShape /\ ReceiptTypes /\ TurnTypes
  BY DEF RemindersInv, Types
<1>1. \A c \in Pages : Registered(c)' <=> link'[c] \in {"open", "closing"}
  BY LinkStep
<1>2. ASSUME NEW c \in Pages, link[c] # "open"
      PROVE  /\ turn'[c] = "none" /\ chan'[c] = <<>> /\ waiting'[c] = <<>>
             /\ active'[c] = Silent /\ receipts'[c] = <<>> /\ ending'[c] = None
  <2>0. /\ turn[c] = "none" /\ chan[c] = <<>> /\ waiting[c] = <<>>
        /\ active[c] = Silent /\ receipts[c] = <<>> /\ ending[c] = None
    BY <1>0, <1>2 DEF LinkShape
  <2>1. chan'[c] = <<>> /\ waiting'[c] = <<>> /\ active'[c] = Silent
    BY <1>2, ChanStep, PlayerStep
  <2>2. turn'[c] = "none"
    <3>1. ASSUME NEW x \in Pages, Disconnect(x) \/ StartTurn(x) \/ TurnCheck(x) \/ TurnWake(x) \/ TurnEnd(x) \/ ReceiveTurn(x)
          PROVE  turn'[c] = "none"
      <4>1. turn' = turn \/ \E v : turn' = [turn EXCEPT ![x] = v]
        BY <3>1 DEF Disconnect, StartTurn, TurnCheck, TurnWake, TurnEnd, ReceiveTurn, runtime
      <4>2. CASE x # c
        BY <1>0, <2>0, <4>1, <4>2 DEF TurnTypes
      <4>3. CASE x = c
        BY <1>2, <2>0, <3>1, <4>3 DEF Disconnect, StartTurn, TurnCheck, TurnWake, TurnEnd, ReceiveTurn, runtime
      <4> QED BY <4>2, <4>3
    <3>2. CASE Restart
      BY <3>2 DEF Restart
    <3> QED BY <2>0, <3>1, <3>2, TurnTouched
  <2>3. receipts'[c] = <<>>
    <3>1. ASSUME NEW x \in Pages, Disconnect(x) \/ Ack(x) \/ AckTimesOut(x)
          PROVE  receipts'[c] = <<>>
      <4>1. x # c /\ \E q : receipts' = [receipts EXCEPT ![x] = q]
        BY <1>0, <1>2, <3>1 DEF Disconnect, Ack, AckTimesOut, ReceiptTypes
      <4> QED BY <1>0, <2>0, <4>1 DEF ReceiptTypes
    <3>2. ASSUME NEW x \in Pages,
                 \/ ReceiveDue(x) \/ ReceiveCancelled(x) \/ PagePlay(x) \/ PageDone(x) \/ PageFails(x) \/ PageStop(x)
                 \/ \E d \in Deliveries : KeepAlive(x, d)
          PROVE  receipts'[c] = <<>>
      <4>1. \/ UNCHANGED <<receipts, said>>
            \/ (waiting[x] # <<>> \/ active[x] # Silent \/ chan[x] # <<>>) /\ \E es \in Seq(Entries) : Report(x, es)
        BY <1>0, <3>2, PageReports
      <4>2. ASSUME NEW es \in Seq(Entries), Report(x, es), x # c PROVE receipts'[c] = <<>>
        BY <1>0, <2>0, <4>2, Reported
      <4> QED BY <2>0, <4>1, <4>2
    <3>3. CASE Restart
      BY <3>3 DEF Restart
    <3> QED BY <2>0, <3>1, <3>2, <3>3, ReceiptsTouched
  <2>4. ending'[c] = None
    <3>1. ASSUME NEW x \in Pages, Disconnect(x) \/ Ack(x) \/ AckEnded(x) \/ AckTimesOut(x)
          PROVE  ending'[c] = None
      <4>1. x # c /\ (ending' = ending \/ \E q : ending' = [ending EXCEPT ![x] = q])
        BY <1>2, <3>1 DEF Disconnect, Ack, AckEnded, AckTimesOut
      <4> QED BY <1>0, <2>0, <4>1 DEF ReceiptTypes
    <3>2. CASE Restart
      BY <3>2 DEF Restart
    <3> QED BY <2>0, <3>1, <3>2, EndingTouched
  <2> QED BY <2>1, <2>2, <2>3, <2>4
<1>3. ASSUME NEW c \in Pages, link[c] = "open", link'[c] # "open"
      PROVE  /\ turn'[c] = "none" /\ chan'[c] = <<>> /\ waiting'[c] = <<>>
             /\ active'[c] = Silent /\ receipts'[c] = <<>> /\ ending'[c] = None
  <2>0. PageTypes /\ ChanTypes /\ PlayerTypes
    BY <1>0 DEF Types
  <2>1. Disconnect(c) \/ Restart
    <3>1. ASSUME NEW x \in Pages, Connect(x) \/ Unregister(x) \/ DisconnectExpire(x) PROVE FALSE
      <4>1. x # c /\ \E v : link' = [link EXCEPT ![x] = v]
        BY <1>3, <2>0, <3>1 DEF Connect, Unregister, DisconnectExpire, PageTypes
      <4> QED BY <1>3, <2>0, <4>1 DEF PageTypes
    <3>2. ASSUME NEW x \in Pages, Disconnect(x) PROVE x = c
      BY <1>3, <2>0, <3>2 DEF Disconnect, PageTypes
    <3> QED BY <1>3, <3>1, <3>2, LinkTouched
  <2>2. CASE Disconnect(c)
    BY <1>0, <2>0, <2>2 DEF Disconnect, TurnTypes, ReceiptTypes, ChanTypes, PlayerTypes
  <2>3. CASE Restart
    BY <2>3 DEF Restart
  <2> QED BY <2>1, <2>2, <2>3
<1> QED BY <1>1, <1>2, <1>3 DEF LinkShape

(***************************************************************************)
(* The properties.                                                         *)
(***************************************************************************)
\* Outcomes come of reports.
LEMMA OutcomeStep ==
  ASSUME RemindersInv, [Next]_vars
  PROVE  OutcomeIsReported'
<1>0. OutcomeIsReported /\ Moves /\ said \subseteq said'
  BY RowMoves, ReceiptsStep DEF RemindersInv
<1>1. ASSUME NEW r \in Reminders, row'[r].dstatus \in Outcomes
      PROVE  <<<<r, row'[r].n>>, row'[r].dstatus>> \in said'
  <2>1. CASE Stays(r)
    <3>1. row'[r].n = row[r].n
      BY <2>1 DEF Stays
    <3>2. row'[r].dstatus = row[r].dstatus \/ <<<<r, row[r].n>>, row'[r].dstatus>> \in said
      BY <1>1, <2>1 DEF Stays
    <3>3. row[r].dstatus \in Outcomes => <<<<r, row[r].n>>, row[r].dstatus>> \in said
      BY <1>0 DEF OutcomeIsReported, Item
    <3> QED BY <1>0, <1>1, <3>1, <3>2, <3>3
  <2>2. CASE Renewed(r)
    BY <1>1, <2>2 DEF Renewed, Outcomes
  <2> QED BY <1>0, <2>1, <2>2 DEF Moves
<1> QED BY <1>1 DEF OutcomeIsReported, Item

\* What a page sounds it has sounded or been about to before, or it has just been given the
\* sound of a reminder that is still on.
LEMMA SoundStep ==
  ASSUME RemindersInv, [Next]_vars, NEW c \in Pages, active'[c] # Silent, active'[c].state # "loading"
  PROVE  \/ active[c] # Silent /\ active[c].state # "loading" /\ active[c].d = active'[c].d
         \/ row' = row /\ row[active'[c].d[1]].status = "triggered"
<1>0. PlayerTypes
  BY DEF RemindersInv, Types
<1>1. ASSUME NEW x \in Pages, x # c,
             \/ Disconnect(x) \/ ReceiveDue(x) \/ ReceiveEnded(x) \/ ReceiveCancelled(x)
             \/ PageStart(x) \/ PageFetch(x) \/ PagePlay(x) \/ PageDone(x) \/ PageFails(x) \/ PageStop(x)
      PROVE  active'[c] = active[c]
  BY <1>0, <1>1 DEF PlayerTypes, Disconnect, ReceiveDue, ReceiveEnded, ReceiveCancelled, browser,
       PageStart, PageFetch, PagePlay, PageDone, PageFails, PageFinish, PageStop
<1>2. CASE Disconnect(c) \/ PageDone(c) \/ PageFails(c) \/ PageStop(c)
  <2>1. active' = [active EXCEPT ![c] = Silent]
    BY <1>2 DEF Disconnect, PageDone, PageFails, PageFinish, PageStop
  <2> QED BY <1>0, <2>1 DEF PlayerTypes
<1>3. CASE ReceiveDue(c)
  BY <1>3 DEF ReceiveDue
<1>4. CASE ReceiveEnded(c) \/ ReceiveCancelled(c)
  <2>1. \E a \in {Silent, active[c]} : active' = [active EXCEPT ![c] = a]
    BY <1>4 DEF ReceiveEnded, ReceiveCancelled
  <2> QED BY <1>0, <2>1 DEF PlayerTypes
<1>5. CASE PageStart(c)
  <2>1. active' = [active EXCEPT ![c] = [d |-> Head(waiting[c]), state |-> "loading"]]
    BY <1>5 DEF PageStart
  <2>2. active'[c] = [d |-> Head(waiting[c]), state |-> "loading"]
    BY <1>0, <2>1 DEF PlayerTypes
  <2>3. active'[c].state = "loading"
    BY <2>2
  <2> QED BY <2>3
<1>6. CASE PageFetch(c)
  <2>1. row' = row /\ row[active[c].d[1]].status = "triggered" /\ active' = [active EXCEPT ![c].state = "fetched"]
    BY <1>6 DEF PageFetch, AudioServed
  <2>2. active[c] = [d |-> active[c].d, state |-> active[c].state]
    BY <1>0, SoundIs
  <2>3. active'[c] = [active[c] EXCEPT !.state = "fetched"]
    BY <1>0, <2>1, Zenon DEF PlayerTypes
  <2>4. active'[c].d = active[c].d
    BY <2>2, <2>3
  <2> QED BY <2>1, <2>4
<1>7. CASE PagePlay(c)
  <2>1. active[c].state = "fetched" /\ active' = [active EXCEPT ![c].state = "playing"]
    BY <1>7 DEF PagePlay
  <2>2. active[c] = [d |-> active[c].d, state |-> active[c].state] /\ active[c] # Silent
    BY <1>0, <2>1, SoundIs
  <2>3. active'[c] = [active[c] EXCEPT !.state = "playing"]
    BY <1>0, <2>1, Zenon DEF PlayerTypes
  <2>4. active'[c].d = active[c].d
    BY <2>2, <2>3
  <2> QED BY <2>1, <2>2, <2>4
<1>8. CASE Restart
  BY <1>8 DEF Restart
<1>9. CASE UNCHANGED <<waiting, active>>
  BY <1>9
<1> QED BY <1>1, <1>2, <1>3, <1>4, <1>5, <1>6, <1>7, <1>8, <1>9, PlayerTouched

\* The notice that stops a reminder stays under way until the page no longer sounds it.
Warned(c, r) == \/ <<c, r>> \in notices
                \/ Contains(chan[c], [type |-> "cancelled", r |-> r])

\* It does so as long as the page goes on with that reminder.
LEMMA WarningStays ==
  ASSUME RemindersInv, [Next]_vars, NEW c \in Pages, NEW r \in Reminders, Warned(c, r),
         active'[c] # Silent, active'[c].d[1] = r
  PROVE  Warned(c, r)'
<1>0. ChanTypes /\ PlayerTypes /\ LinkShape /\ SenderTypes /\ SenderShape /\ "tick" \in Senders
  BY Constants DEF RemindersInv, Types
<1> DEFINE f == [type |-> "cancelled", r |-> r]
<1>1. link[c] = "open"
  BY PlayerStep
<1>2. CASE <<c, r>> \in notices
  <2>1. CASE <<c, r>> \in notices'
    BY <2>1 DEF Warned
  <2>2. CASE <<c, r>> \notin notices'
    <3>1. CancelNotice(c, r)
      <4>1. ASSUME NEW x \in Reminders, Cancel(x) PROVE FALSE
        BY <1>2, <2>2, <4>1 DEF Cancel
      <4>2. ASSUME NEW x \in Reminders, NEW y \in Pages, CancelNotice(y, x) PROVE x = r /\ y = c
        BY <1>2, <2>2, <4>2 DEF CancelNotice
      <4>3. ~Restart
        BY DEF Restart
      <4> QED BY <1>2, <2>2, <4>1, <4>2, <4>3, LinkTouched
    <3>2. chan'[c] = Append(chan[c], f) /\ chan[c] \in Seq(Frames)
      BY <1>0, <1>1, <3>1 DEF CancelNotice, ChanTypes
    <3>3. f \in Frames
      BY DEF Frames
    <3> HIDE DEF f
    <3>4. Len(chan[c]) + 1 \in 1 .. Len(chan'[c]) /\ chan'[c][Len(chan[c]) + 1] = f
      BY <3>2, <3>3, QueueGrows
    <3>5. Contains(chan', f) \/ Contains(chan'[c], f)
      BY <3>4 DEF Contains
    <3>6. Contains(chan'[c], f)
      BY <3>4 DEF Contains
    <3> QED BY <3>6 DEF Warned, f
  <2> QED BY <2>1, <2>2
<1>3. CASE Contains(chan[c], f)
  <2>0. chan[c] \in Seq(Frames) /\ \E i \in 1 .. Len(chan[c]) : chan[c][i] = f
    BY <1>0, <1>3 DEF ChanTypes, Contains
  <2> DEFINE Goal == \E i \in 1 .. Len(chan'[c]) : chan'[c][i] = f
  <2> HIDE DEF f
  <2>1. ASSUME NEW g \in Frames, chan'[c] = Append(chan[c], g) PROVE Goal
    BY <2>0, <2>1
  <2>2. ASSUME chan'[c] = chan[c] PROVE Goal
    BY <2>0, <2>2
  <2>3. ASSUME NEW x \in Pages, NEW type, Next1(x, type), x # c \/ Head(chan[c]) # f PROVE Goal
    <3>1. chan' = [chan EXCEPT ![x] = Tail(chan[x])] /\ chan[x] # <<>>
      BY <1>0, <2>3, FrameTaken
    <3>2. CASE x # c
      BY <1>0, <2>2, <3>1, <3>2 DEF ChanTypes
    <3>3. CASE x = c
      <4>1. chan'[c] = Tail(chan[c]) /\ Head(chan[c]) # f
        BY <1>0, <2>3, <3>1, <3>3 DEF ChanTypes
      <4>2. PICK i \in 1 .. Len(chan[c]) : chan[c][i] = f
        BY <2>0
      <4>3. i # 1
        BY <2>0, <4>1, <4>2
      <4>4. i - 1 \in 1 .. Len(Tail(chan[c])) /\ Tail(chan[c])[i - 1] = f
        BY <2>0, <4>2, <4>3
      <4> QED BY <4>1, <4>4
    <3> QED BY <3>2, <3>3
  <2>4. ASSUME NEW x \in Pages, NEW g \in Frames,
               chan' = [chan EXCEPT ![x] = Append(@, g)] \/ chan' = [chan EXCEPT ![x] = IF link[x] = "open" THEN Append(@, g) ELSE @]
        PROVE  Goal
    <3>1. chan'[c] = chan[c] \/ chan'[c] = Append(chan[c], g)
      BY <1>0, <2>4 DEF ChanTypes
    <3> QED BY <2>1, <2>2, <3>1
  <2>5. ASSUME NEW x \in Pages, NEW y \in Reminders, CancelNotice(x, y) PROVE Goal
    <3>1. [type |-> "cancelled", r |-> y] \in Frames
      BY DEF Frames
    <3> QED BY <2>4, <2>5, <3>1 DEF CancelNotice
  <2>6. ASSUME NEW x \in Pages, NEW d \in Deliveries, DeliveryEnded(d, x) \/ HoldReminder(d, x) PROVE Goal
    <3>1. [type |-> "ended", d |-> d] \in Frames /\ [type |-> "due", d |-> d] \in Frames
      BY DEF Frames
    <3>2. CASE UNCHANGED chan
      BY <2>2, <3>2
    <3> QED BY <2>4, <2>6, <3>1, <3>2 DEF DeliveryEnded, HoldReminder
  <2>7. ASSUME NEW i \in todo["tick"], TickEnded(i) PROVE Goal
    BY <1>0, <2>6, <2>7, HeldIs DEF TickEnded
  <2>8. ASSUME NEW s \in Senders, NEW i \in todo[s], Announce(s, i) PROVE Goal
    <3>1. i.d \in Deliveries /\ i.to \in Pages /\ (HoldReminder(i.d, i.to) \/ UNCHANGED chan)
      BY <1>0, <2>8, HeldIs DEF Announce
    <3> QED BY <2>2, <2>6, <3>1
  <2>9. ASSUME NEW x \in Pages, AckEnded(x) PROVE Goal
    <3>1. ending[x] \in Deliveries /\ DeliveryEnded(ending[x], x)
      BY <2>9 DEF AckEnded, RemindersInv, Types, ReceiptTypes
    <3> QED BY <2>6, <3>1
  <2>10. ASSUME NEW x \in Pages, StartTurn(x) \/ TurnCheck(x) \/ TurnEnd(x) PROVE Goal
    <3>1. UNCHANGED chan \/ \E type \in {"turn_started", "turn_waiting", "turn_over"} : Send(x, type)
      BY <2>10 DEF StartTurn, TurnCheck, TurnEnd
    <3>2. \A type \in {"turn_started", "turn_waiting", "turn_over"} : [type |-> type] \in Frames
      BY DEF Frames
    <3>3. UNCHANGED chan \/ \E g \in Frames : chan' = [chan EXCEPT ![x] = Append(@, g)]
      BY <3>1, <3>2 DEF Send
    <3> QED BY <2>2, <2>4, <3>3
  <2>11. ASSUME NEW x \in Pages, ReceiveDue(x) \/ ReceiveEnded(x) \/ ReceiveTurn(x) PROVE Goal
    <3>1. \E type \in {"due", "ended", "turn_started", "turn_waiting", "turn_over"} : Next1(x, type)
      BY <2>11 DEF ReceiveDue, ReceiveEnded, ReceiveTurn
    <3>2. PICK type \in {"due", "ended", "turn_started", "turn_waiting", "turn_over"} : Next1(x, type)
      BY <3>1
    <3>3. Head(chan[x]).type # "cancelled" /\ f.type = "cancelled"
      BY <3>2 DEF Next1, f
    <3>4. x # c \/ Head(chan[c]) # f
      BY <3>3
    <3> QED BY <2>3, <3>2, <3>4
  <2>12. ASSUME NEW x \in Pages, ReceiveCancelled(x) PROVE Goal
    <3>1. CASE x = c
      <4>1. Head(chan[c]).r # r
        <5>1. CASE active[c] # Silent /\ active[c].d[1] = Head(chan[c]).r
          BY <1>0, <2>12, <3>1, <5>1 DEF ReceiveCancelled, PlayerTypes
        <5>2. CASE ~(active[c] # Silent /\ active[c].d[1] = Head(chan[c]).r)
          <6>1. active'[c] = active[c]
            BY <1>0, <2>12, <3>1, <5>2 DEF ReceiveCancelled, PlayerTypes
          <6> QED BY <5>2, <6>1
        <5> QED BY <5>1, <5>2
      <4>2. f.r = r
        BY DEF f
      <4>3. Next1(c, "cancelled") /\ Head(chan[c]) # f
        BY <2>12, <3>1, <4>1, <4>2 DEF ReceiveCancelled
      <4> QED BY <2>3, <4>3
    <3>2. CASE x # c
      BY <2>3, <2>12, <3>2 DEF ReceiveCancelled
    <3> QED BY <3>1, <3>2
  <2>13. ASSUME NEW x \in Pages, Disconnect(x) PROVE Goal
    <3>1. x # c
      BY <1>0, <2>13 DEF Disconnect, PlayerTypes
    <3>2. chan' = [chan EXCEPT ![x] = <<>>]
      BY <2>13 DEF Disconnect
    <3> QED BY <1>0, <2>2, <3>1, <3>2 DEF ChanTypes
  <2>14. ~Restart
    BY DEF Restart
  <2>15. Goal
    BY <2>2, <2>5, <2>7, <2>8, <2>9, <2>10, <2>11, <2>12, <2>13, <2>14, ChanTouched
  <2> QED BY <2>15 DEF Warned, Contains, f
<1> QED BY <1>2, <1>3 DEF Warned

\* So a page that sounds a cancelled reminder is going to be told.
LEMMA CancelStep ==
  ASSUME RemindersInv, [Next]_vars
  PROVE  CancelStopsPlayback'
<1>0. CancelStopsPlayback /\ Moves /\ LinkShape /\ PlayerTypes'
  BY RowMoves, PlayerStep DEF RemindersInv
<1>1. ASSUME NEW c \in Pages, NEW r \in Reminders, row'[r].status = "cancelled",
             active'[c] # Silent, active'[c].d[1] = r, active'[c].state # "loading"
      PROVE  Warned(c, r)'
  <2>1. active[c] # Silent /\ active[c].state # "loading" /\ active[c].d = active'[c].d
    BY <1>1, SoundStep
  <2>2. CASE row[r].status = "cancelled"
    <3>1. Warned(c, r)
      BY <1>0, <1>1, <2>1, <2>2 DEF CancelStopsPlayback, Warned
    <3> QED BY <1>1, <3>1, WarningStays
  <2>3. CASE row[r].status # "cancelled"
    <3>1. Registered(c)
      BY <1>0, <2>1 DEF LinkShape
    <3>2. <<c, r>> \in notices'
      BY <1>0, <1>1, <2>3, <3>1 DEF Moves, Stays, Renewed
    <3> QED BY <3>2 DEF Warned
  <2> QED BY <2>2, <2>3
<1> QED BY <1>1 DEF CancelStopsPlayback, Warned
\* What has run out is no longer live.
LEMMA RunsOut ==
  ASSUME RowTypes, NEW r \in Reminders, NEW rs, r \in rs, Expire(rs)
  PROVE  row'[r].dstatus \notin Live
<1>1. row[r] \in Rows
  BY DEF RowTypes
<1>2. row'[r] = [row[r] EXCEPT !.dstatus = "unknown", !.late = FALSE]
  BY DEF Expire
<1>3. row'[r].dstatus = "unknown"
  BY <1>1, <1>2 DEF Rows
<1> QED BY <1>3 DEF Live

\* What a sender has still to announce it announces, or it gives the delivery up.
LEMMA AnnouncedIsHeld ==
  ASSUME RemindersInv, [Next]_vars, NEW r \in Reminders, NEW i \in Items, i = Item(r), InHand(i),
         IsLive(r), row'[r].dstatus \in Live, link[i.to] = "open"
  PROVE  InHand(i)' \/ i.d \in gate'[i.to]
<1>0. RowTypes /\ SenderTypes /\ SenderShape /\ GateTypes /\ LinkShape /\ "tick" \in Senders /\ Callers \subseteq Senders
  BY Constants DEF RemindersInv, Types
<1>1. PICK s \in Senders : (pc[s] # "ending" /\ i \in todo[s]) \/ (pc[s] = "failed" /\ hand[s] = i)
  BY DEF InHand
<1>2. ASSUME pc'[s] = pc[s], todo'[s] = todo[s], hand'[s] = hand[s] PROVE InHand(i)'
  BY <1>1, <1>2 DEF InHand
<1>3. ASSUME TickExpire \/ TickClaim \/ \E j \in todo["tick"] : TickEnded(j) PROVE InHand(i)'
  <2>1. s # "tick"
    BY <1>0, <1>1, <1>3 DEF TickExpire, TickClaim, TickEnded, SenderShape
  <2>2. pc'[s] = pc[s] /\ todo'[s] = todo[s] /\ hand'[s] = hand[s]
    BY <1>0, <1>3, <2>1 DEF TickExpire, TickClaim, TickEnded, SenderTypes
  <2> QED BY <1>2, <2>2
<1>4. ASSUME NEW k \in Callers, ReplayChange(k) \/ \E x \in Reminders : ReplayRead(k, x) PROVE InHand(i)'
  <2>1. s # k
    BY <1>0, <1>1, <1>4 DEF ReplayChange, ReplayRead, SenderShape
  <2>2. pc'[s] = pc[s] /\ todo'[s] = todo[s] /\ hand'[s] = hand[s]
    BY <1>0, <1>4, <2>1 DEF ReplayChange, ReplayRead, SenderTypes
  <2> QED BY <1>2, <2>2
<1>5. ASSUME NEW x \in Senders, Announced(x) \/ NotAnnounced(x) \/ GiveUp(x) PROVE InHand(i)'
  <2>1. CASE x # s
    <3>1. pc'[s] = pc[s] /\ todo'[s] = todo[s] /\ hand'[s] = hand[s]
      BY <1>0, <1>5, <2>1 DEF Announced, NotAnnounced, GiveUp, SenderTypes
    <3> QED BY <1>2, <3>1
  <2>2. CASE x = s
    <3>1. i \in todo[s]
      <4>1. CASE GiveUp(s) /\ hand[s] = i
        <5>1. r \in Overdue \cup {q \in Reminders : IsLive(q) /\ row[q].page = hand[s].to}
          BY <4>1 DEF Item, Items
        <5> QED BY <1>0, <4>1, <5>1, RunsOut DEF GiveUp, ExpireConnection
      <4> QED BY <1>1, <1>5, <2>2, <4>1 DEF Announced, NotAnnounced
    <3>2. todo' = todo /\ pc'[s] # "ending"
      BY <1>0, <1>5, <2>2 DEF Announced, NotAnnounced, GiveUp, SenderTypes, Rest
    <3> QED BY <3>1, <3>2 DEF InHand
  <2> QED BY <2>1, <2>2
<1>6. ASSUME NEW x \in Senders, NEW j \in todo[x], Announce(x, j) PROVE InHand(i)' \/ i.d \in gate'[i.to]
  <2>1. CASE x # s
    <3>1. pc'[s] = pc[s] /\ todo'[s] = todo[s] /\ hand'[s] = hand[s]
      BY <1>0, <1>6, <2>1 DEF Announce, SenderTypes
    <3> QED BY <1>2, <3>1
  <2>2. CASE x = s /\ j # i
    <3>1. i \in todo'[s] /\ pc'[s] # "ending"
      BY <1>0, <1>1, <1>6, <2>2 DEF Announce, SenderTypes
    <3> QED BY <3>1 DEF InHand
  <2>3. CASE x = s /\ j = i
    <3>1. i.to \in Pages /\ i.d \in Deliveries /\ Registered(i.to)
      BY <1>0 DEF Items, LinkShape
    <3>2. HoldReminder(i.d, i.to)
      BY <1>6, <2>3, <3>1 DEF Announce
    <3> QED BY <1>0, <3>1, <3>2, GateIs
  <2> QED BY <2>1, <2>2, <2>3
<1>7. CASE Restart
  BY <1>0, <1>7, RunsOut DEF Restart
<1>8. CASE UNCHANGED senders
  BY <1>2, <1>8 DEF senders
<1> QED BY <1>3, <1>4, <1>5, <1>6, <1>7, <1>8, SendersTouched

\* What a gate holds it holds until the delivery has ended, or its notice has failed.
LEMMA HeldIsKept ==
  ASSUME RemindersInv, [Next]_vars, NEW r \in Reminders, NEW i \in Items, i = Item(r), i.d \in gate[i.to],
         row[r].status = "triggered", IsLive(r), row'[r].dstatus \in Live
  PROVE  InHand(i)' \/ i.d \in gate'[i.to]
<1>0. RowTypes /\ SenderTypes /\ SenderShape /\ GateTypes /\ "tick" \in Senders
  BY Constants DEF RemindersInv, Types
<1>1. i.to \in Pages /\ i.d = <<r, row[r].n>> /\ i.d[1] = r /\ ~Past(i.d)
  BY DEF Items, Item, Past
<1>2. ASSUME NEW c \in Pages, NEW d, Past(d), DeliveryEnded(d, c) PROVE i.d \in gate'[i.to]
  <2>1. d # i.d
    BY <1>1, <1>2
  <2> QED BY <1>0, <1>1, <1>2, <2>1, EndIs
<1>3. ASSUME NEW q \in Reminders, NEW c \in Pages, CancelNotice(c, q) PROVE i.d \in gate'[i.to]
  <2>1. q # r
    BY <1>3 DEF CancelNotice, RemindersInv, NoticeShape
  <2>2. PICK ds : ds = {d \in gate[c] : d[1] = q}
    OBVIOUS
  <2>3. ReleaseReminder(c, ds) /\ i.d \notin ds
    BY <1>1, <1>3, <2>1, <2>2 DEF CancelNotice
  <2> QED BY <1>0, <1>1, <2>3, GateIs
<1>4. ASSUME NEW j \in todo["tick"], TickEnded(j) PROVE i.d \in gate'[i.to]
  <2>1. j \in Items /\ j.to \in Pages /\ Past(j.d) /\ DeliveryEnded(j.d, j.to)
    BY <1>0, <1>4, HeldIs DEF TickEnded, RemindersInv, ItemShape, Held
  <2> QED BY <1>2, <2>1
<1>5. ASSUME NEW s \in Senders, NotAnnounced(s) PROVE InHand(i)' \/ i.d \in gate'[i.to]
  <2>1. PICK j \in Items : j = hand[s]
    BY <1>0, <1>5, HeldIs DEF NotAnnounced
  <2>2. j.to \in Pages /\ ReleaseReminder(j.to, {j.d})
    BY <1>5, <2>1 DEF NotAnnounced, Items
  <2>3. CASE j = i
    BY <1>0, <1>5, <2>1, <2>3 DEF NotAnnounced, InHand, SenderTypes
  <2>4. CASE j # i
    <3>1. j.to # i.to \/ j.d # i.d
      BY <2>4 DEF Items
    <3> QED BY <1>0, <1>1, <2>2, <3>1, GateIs
  <2> QED BY <2>3, <2>4
<1>6. ASSUME NEW s \in Senders, NEW j \in todo[s], Announce(s, j) PROVE i.d \in gate'[i.to]
  <2>1. j.d \in Deliveries /\ j.to \in Pages /\ (HoldReminder(j.d, j.to) \/ UNCHANGED gate)
    BY <1>0, <1>6, HeldIs DEF Announce
  <2> QED BY <1>0, <1>1, <2>1, GateIs
<1>7. ASSUME NEW c \in Pages, AckEnded(c) PROVE i.d \in gate'[i.to]
  <2>1. Past(ending[c]) /\ DeliveryEnded(ending[c], c)
    BY <1>7 DEF AckEnded, RemindersInv, EndShape
  <2> QED BY <1>2, <2>1
<1>8. CASE Restart
  BY <1>0, <1>8, RunsOut DEF Restart
<1> QED BY <1>1, <1>3, <1>4, <1>5, <1>6, <1>7, <1>8, GateTouched

\* So no gate is opened early.
LEMMA GateStep ==
  ASSUME RemindersInv, [Next]_vars
  PROVE  GateHolds'
<1>0. GateHolds /\ Moves /\ RowTypes /\ RowShape /\ PageTypes /\ SenderTypes
  BY RowMoves DEF RemindersInv, Types
<1>1. ASSUME NEW r \in Reminders, row'[r].status = "triggered", row'[r].dstatus \in Live,
             link'[row'[r].page] = "open", NEW i, i = [d |-> <<r, row'[r].n>>, to |-> row'[r].page],
             ~InHand(i)'
      PROVE  <<r, row'[r].n>> \in gate'[row'[r].page]
  <2>1. CASE Renewed(r)
    BY <1>1, <2>1 DEF Renewed, InHand
  <2>2. CASE Stays(r)
    <3>1. IsLive(r) /\ row[r].status = "triggered" /\ row'[r].n = row[r].n /\ row'[r].page = row[r].page
      BY <1>1, <2>2 DEF Stays, IsLive
    <3>2. i \in Items /\ i = Item(r) /\ i.d = <<r, row[r].n>> /\ i.to = row[r].page /\ i.to \in Pages /\ link[i.to] # "new"
      BY <1>0, <1>1, <3>1, ItemIs DEF Item, Items
    <3>3. link[i.to] = "open"
      BY <1>0, <1>1, <3>1, <3>2, LinkStep
    <3>4. InHand(i)' \/ i.d \in gate'[i.to]
      <4>1. CASE InHand(i)
        BY <1>1, <3>1, <3>2, <3>3, <4>1, AnnouncedIsHeld
      <4>2. CASE ~InHand(i)
        <5>1. i.d \in gate[i.to]
          BY <1>0, <3>1, <3>2, <3>3, <4>2, Zenon DEF GateHolds
        <5> QED BY <1>1, <3>1, <3>2, <5>1, HeldIsKept
      <4> QED BY <4>1, <4>2
    <3> QED BY <1>1, <3>1, <3>2, <3>4
  <2> QED BY <1>0, <2>1, <2>2 DEF Moves
<1>2. ASSUME NEW r \in Reminders, row'[r].status = "triggered", row'[r].dstatus \in Live,
             link'[row'[r].page] = "open", ~InHand(Item(r))'
      PROVE  <<r, row'[r].n>> \in gate'[row'[r].page]
  <2>1. PICK i : i = [d |-> <<r, row'[r].n>>, to |-> row'[r].page]
    OBVIOUS
  <2>2. ~InHand(i)'
    BY <1>2, <2>1 DEF InHand, Item
  <2> QED BY <1>1, <1>2, <2>1, <2>2
<1> QED BY <1>2, Zenon DEF GateHolds, IsLive
(***************************************************************************)
(* The theorems.                                                           *)
(***************************************************************************)
\* The invariant holds at the start.
LEMMA RemindersInit ==
  ASSUME Init
  PROVE  RemindersInv
<1>1. RowTypes
  <2>1. [status |-> "absent", due |-> FALSE, n |-> 0, page |-> None, dstatus |-> "none", late |-> FALSE] \in Rows
    BY Constants DEF Rows, Delivery
  <2> QED BY <2>1 DEF Init, RowTypes
<1>2. PageTypes
  BY DEF Init, PageTypes, IsInjective
<1>3. SenderTypes
  <2>1. NoRow \in Seen
    BY DEF NoRow, Seen, Delivery
  <2> QED BY <2>1 DEF Init, SenderTypes
<1>4. GateTypes /\ TurnTypes /\ ChanTypes /\ OtherTypes
  BY Constants DEF Init, GateTypes, TurnTypes, ChanTypes, OtherTypes
<1>5. ReceiptTypes /\ PlayerTypes
  <2>1. \A c \in Pages : Len(receipts[c]) = 0 /\ Len(waiting[c]) = 0
    BY DEF Init
  <2>2. 0 <= MaxReceipts /\ 0 <= MaxWaiting
    BY Constants
  <2>3. Silent \in Sounds
    BY DEF Sounds
  <2> QED BY <2>1, <2>2, <2>3 DEF Init, ReceiptTypes, PlayerTypes
<1>6. LinkShape
  BY DEF Init, LinkShape, Registered, Range
<1>7. RowShape
  BY DEF Init, RowShape
<1>8. NoItem \notin Items
  BY Constants DEF NoItem, Items
<1>9. SenderShape /\ ItemShape /\ EndShape /\ NoticeShape
  BY <1>8, Constants DEF Init, SenderShape, ItemShape, Held, EndShape, NoticeShape
<1>10. ReceiptShape
  BY DEF Init, ReceiptShape
<1>11. GateHolds /\ OutcomeIsReported /\ CancelStopsPlayback
  BY DEF Init, GateHolds, IsLive, Live, OutcomeIsReported, Outcomes, CancelStopsPlayback
<1> QED BY <1>1, <1>2, <1>3, <1>4, <1>5, <1>6, <1>7, <1>9, <1>10, <1>11 DEF RemindersInv, Types

\* Every step preserves it.
LEMMA RemindersStep ==
  ASSUME RemindersInv, [Next]_vars
  PROVE  RemindersInv'
<1>1. PageTypes' /\ SenderTypes' /\ SenderShape' /\ ItemShape'
  BY LinkStep, SendersStep
<1>2. RowTypes' /\ RowShape' /\ GateTypes' /\ TurnTypes' /\ OtherTypes' /\ NoticeShape'
  BY RowShapeStep, GateTypesStep, TurnTypesStep, OtherTypesStep
<1>3. ReceiptTypes' /\ ReceiptShape' /\ EndShape' /\ ChanTypes' /\ PlayerTypes' /\ LinkShape'
  BY ReceiptsStep, EndStep, ChanStep, PlayerStep, LinkShapeStep
<1>4. GateHolds' /\ OutcomeIsReported' /\ CancelStopsPlayback'
  BY GateStep, OutcomeStep, CancelStep
<1> QED BY <1>1, <1>2, <1>3, <1>4 DEF RemindersInv, Types

\* The invariant of the reminders: the table, the senders, the gates and the pages always fit
\* together.
THEOREM RemindersInvariant == Spec => []RemindersInv
<1>1. Init => RemindersInv
  BY RemindersInit
<1>2. RemindersInv /\ [Next]_vars => RemindersInv'
  BY RemindersStep
<1> QED BY <1>1, <1>2, PTL DEF Spec

\* The invariant includes the types.
LEMMA TypesHold ==
  ASSUME RemindersInv
  PROVE  TypeOK
<1>0. Types
  BY DEF RemindersInv
<1>1. row \in [Reminders ->
          [status : {"absent", "scheduled", "triggered", "missed", "cancelled"},
           due : BOOLEAN, n : 0 .. MaxDeliveries, page : Pages \cup {None},
           dstatus : Delivery, late : BOOLEAN]]
  BY <1>0 DEF Types, RowTypes, Rows, Numbers
<1>2. IsInjective(pages) /\ Range(pages) \subseteq Pages
  BY <1>0 DEF Types, PageTypes, Range
<1>3. \A s \in Senders : seen[s].of \in Reminders \cup {None}
  BY <1>0 DEF Types, SenderTypes, Seen
<1>4. ASSUME NEW c \in Pages
      PROVE  /\ Len(receipts[c]) <= MaxReceipts
             /\ Range(receipts[c]) \subseteq [d : Deliveries, status : Statuses]
             /\ Len(waiting[c]) <= MaxWaiting
             /\ Range(waiting[c]) \subseteq Deliveries
             /\ active[c] \in [d : Deliveries, state : {"loading", "fetched", "playing"}]
                              \cup {Silent}
  <2>1. receipts[c] \in Seq(Entries) /\ waiting[c] \in Seq(Deliveries) /\ active[c] \in Sounds
    BY <1>0 DEF Types, ReceiptTypes, PlayerTypes
  <2>2. Range(receipts[c]) \subseteq Entries /\ Range(waiting[c]) \subseteq Deliveries
    BY <2>1 DEF Range
  <2> QED BY <1>0, <2>1, <2>2 DEF Types, ReceiptTypes, PlayerTypes, Entries, Sounds
<1> QED BY <1>0, <1>1, <1>2, <1>3, <1>4
    DEF Types, TypeOK, PageTypes, SenderTypes, GateTypes, TurnTypes, ReceiptTypes, OtherTypes

\* The reminders keep their types; in particular no receipt queue and no waiting list of a page
\* outgrows its bound.
THEOREM ReminderTypes == Spec => []TypeOK
BY RemindersInvariant, TypesHold, PTL

\* The gate of a connection is never opened early.
THEOREM GatesHold == Spec => []GateHolds
<1>1. RemindersInv => GateHolds
  BY DEF RemindersInv
<1> QED BY <1>1, RemindersInvariant, PTL

\* The table never invents an outcome.
THEOREM OutcomesAreReported == Spec => []OutcomeIsReported
<1>1. RemindersInv => OutcomeIsReported
  BY DEF RemindersInv
<1> QED BY <1>1, RemindersInvariant, PTL

\* Cancelling a reminder stops it on the page.
THEOREM CancelledIsStopped == Spec => []CancelStopsPlayback
<1>1. RemindersInv => CancelStopsPlayback
  BY DEF RemindersInv
<1> QED BY <1>1, RemindersInvariant, PTL

\* What a step does to the delivery of a reminder.
LEMMA DeliveryMoves ==
  ASSUME RemindersInv, [Next]_vars, NEW r \in Reminders
  PROVE  /\ row'[r].n # row[r].n => ~IsLive(r)
         /\ row'[r].n = row[r].n /\ row[r].n > 0 /\ ~IsLive(r)
               => row'[r].dstatus = row[r].dstatus
         /\ row'[r].n = row[r].n /\ row[r].dstatus = "playing"
               => row'[r].dstatus # "pending"
         /\ row[r].status = "cancelled"
               => row'[r].status = "cancelled" /\ row'[r].n = row[r].n
<1>1. row[r].n \in Nat /\ (Stays(r) \/ Renewed(r))
  BY RowMoves, NumberIs DEF RemindersInv, Types, RowTypes, Rows, Moves
<1>2. CASE Stays(r)
  BY <1>2 DEF Stays
<1>3. CASE Renewed(r)
  BY <1>1, <1>3 DEF Renewed
<1> QED BY <1>1, <1>2, <1>3

\* A delivery only moves on, for every order of the worker, the replays, the receipts and the
\* disconnections.
THEOREM DeliveriesMoveOn == Spec => DeliveryOnlyMovesOn
<1>1. RemindersInv /\ [Next]_vars =>
        [\A r \in Reminders :
            /\ row'[r].n # row[r].n => ~IsLive(r)
            /\ row'[r].n = row[r].n /\ row[r].n > 0 /\ ~IsLive(r)
                  => row'[r].dstatus = row[r].dstatus
            /\ row'[r].n = row[r].n /\ row[r].dstatus = "playing"
                  => row'[r].dstatus # "pending"
            /\ row[r].status = "cancelled"
                  => row'[r].status = "cancelled" /\ row'[r].n = row[r].n]_vars
  BY DeliveryMoves
<1> QED BY <1>1, RemindersInvariant, PTL DEF Spec, DeliveryOnlyMovesOn


=============================================================================
