----------------------------- MODULE Reminders -----------------------------
(***************************************************************************)
(* One-shot reminders of one device: the table, ReminderService with its   *)
(* polling worker and its replay handlers, the part of the WebSocket       *)
(* connection that holds replies back while a reminder is due, and the     *)
(* page's player queue.                                                    *)
(*                                                                         *)
(* A due row is claimed for the newest connection and gets a delivery id;  *)
(* the connection is told (its gate holds the delivery from then on), the  *)
(* page queues it, fetches its audio, plays it and reports back through    *)
(* the connection's receipt queue.  Four writers change a row's delivery:  *)
(* the worker, the replay handlers, the receipts and a disconnection.      *)
(*                                                                         *)
(* A delivery id is <<r, n>>, the n-th delivery of reminder r.  `due' and  *)
(* `late' stand for due_at and delivery_deadline having passed.            *)
(***************************************************************************)
EXTENDS Naturals, Sequences, FiniteSets, SequencesExt

CONSTANTS
    Pages,          \* WebSocket connections of the device; each connects once
    Reminders,      \* reminder ids
    Callers,        \* HTTP requests to replay a reminder, one at a time each
    None,
    MaxDeliveries,  \* bound: deliveries of one reminder
    MaxReceipts,    \* _reminder_receipts (32 in the code)
    MaxWaiting,     \* the page's waiting list (50 in the code)
    MaxFrames,      \* bound: frames on their way to a page when a turn begins
    MaxFaults       \* bound: timeouts of a notice or a receipt, and restarts

ASSUME ConstantsAssumption ==
    /\ None \notin Pages
    /\ {MaxDeliveries, MaxReceipts, MaxWaiting} \subseteq Nat \ {0}
    /\ {MaxFrames, MaxFaults} \subseteq Nat
    /\ "tick" \notin Callers

VARIABLES
    row,      \* the reminders table
    pages,    \* ReminderService._connections of the device, oldest first
    notices,  \* reminder_cancelled events still to be sent: <<page, r>>
    \* per sender of reminder_due: the polling worker and the replay handlers
    pc,       \* where it is
    todo,     \* items it has still to tell somebody about
    hand,     \* the item it is telling about
    aim,      \* the connection it has chosen for new deliveries
    seen,     \* the row a replay handler has read
    \* per connection (ConnectionRuntime)
    link,     \* "new", "open", "closing", "popped" or "closed"
    gate,     \* _reminder_deliveries
    exempt,   \* _reminder_current_turn is the active turn
    turn,     \* "none", "starting", "waiting" or "running"
    receipts, \* _reminder_receipts
    ending,   \* the delivery whose end ack is about to tell
    \* per page (the browser)
    chan,     \* frames on their way to the page
    busy,     \* setBusy('generation', ...)
    waiting,  \* deliveries the page has queued
    active,   \* the delivery it is playing, and how far it is
    \* history: the outcomes each page has reported, and faults so far
    said, faults

senders == <<pc, todo, hand, aim, seen>>
runtime == <<link, gate, exempt, turn, receipts, ending>>
browser == <<chan, busy, waiting, active>>
vars == <<row, pages, notices, senders, runtime, browser, said, faults>>

Senders    == {"tick"} \cup Callers
Deliveries == Reminders \X (1 .. MaxDeliveries)
Items      == [d : Deliveries, to : Pages]
Live       == {"pending", "playing"}                 \* PENDING_DELIVERIES
Outcomes   == {"completed", "interrupted", "failed", "expired"}
Statuses   == {"waiting", "playing"} \cup Outcomes   \* what a page may report
Delivery   == Live \cup Outcomes \cup {"none", "unknown"}

NoItem == [d |-> None, to |-> None]
NoRow  == [of |-> None, status |-> "absent", dstatus |-> "none"]
Silent == [d |-> None, state |-> "none"]

IsLive(r)     == row[r].dstatus \in Live
Item(r)       == [d |-> <<r, row[r].n>>, to |-> row[r].page]
Registered(c) == c \in Range(pages)

\* What a filter of the array s by ~(x \in xs) leaves of it.
Without(s, xs) ==
    LET left[i \in 0 .. Len(s)] ==
            IF i = 0 THEN <<>>
            ELSE IF s[i] \in xs THEN left[i - 1] ELSE Append(left[i - 1], s[i])
    IN left[Len(s)]

\* Mutant: a delivery that has begun to play never runs out.
OverduePending == {r \in Reminders : row[r].dstatus = "pending" /\ row[r].late}
Overdue       == {r \in Reminders : IsLive(r) /\ row[r].late}

TypeOK ==
    /\ row \in [Reminders ->
          [status : {"absent", "scheduled", "triggered", "missed", "cancelled"},
           due : BOOLEAN, n : 0 .. MaxDeliveries, page : Pages \cup {None},
           dstatus : Delivery, late : BOOLEAN]]
    /\ IsInjective(pages) /\ Range(pages) \subseteq Pages
    /\ notices \subseteq Pages \X Reminders
    /\ pc \in [Senders -> {"idle", "ending", "claim", "read",
                           "due", "sending", "failed"}]
    /\ todo \in [Senders -> SUBSET Items]
    /\ hand \in [Senders -> Items \cup {NoItem}]
    /\ aim \in [Senders -> Pages \cup {None}]
    /\ \A s \in Senders : seen[s].of \in Reminders \cup {None}
    /\ link \in [Pages -> {"new", "open", "closing", "popped", "closed"}]
    /\ gate \in [Pages -> SUBSET Deliveries]
    /\ exempt \in [Pages -> BOOLEAN] /\ busy \in [Pages -> BOOLEAN]
    /\ turn \in [Pages -> {"none", "starting", "waiting", "running"}]
    /\ ending \in [Pages -> Deliveries \cup {None}]
    /\ \A c \in Pages :
          /\ Len(receipts[c]) <= MaxReceipts
          /\ Range(receipts[c]) \subseteq [d : Deliveries, status : Statuses]
          /\ Len(waiting[c]) <= MaxWaiting
          /\ Range(waiting[c]) \subseteq Deliveries
          /\ active[c] \in [d : Deliveries, state : {"loading", "fetched", "playing"}]
                           \cup {Silent}
    /\ said \subseteq Deliveries \X Outcomes
    /\ faults \in 0 .. MaxFaults

Init ==
    /\ row = [r \in Reminders |-> [status |-> "absent", due |-> FALSE, n |-> 0,
                 page |-> None, dstatus |-> "none", late |-> FALSE]]
    /\ pages = <<>> /\ notices = {}
    /\ pc = [s \in Senders |-> "idle"] /\ todo = [s \in Senders |-> {}]
    /\ hand = [s \in Senders |-> NoItem] /\ aim = [s \in Senders |-> None]
    /\ seen = [s \in Senders |-> NoRow]
    /\ link = [c \in Pages |-> "new"]
    /\ gate = [c \in Pages |-> {}] /\ exempt = [c \in Pages |-> FALSE]
    /\ turn = [c \in Pages |-> "none"] /\ receipts = [c \in Pages |-> <<>>]
    /\ ending = [c \in Pages |-> None]
    /\ chan = [c \in Pages |-> <<>>] /\ busy = [c \in Pages |-> FALSE]
    /\ waiting = [c \in Pages |-> <<>>] /\ active = [c \in Pages |-> Silent]
    /\ said = {} /\ faults = 0

-----------------------------------------------------------------------------
(* Shared steps.                                                           *)

\* ReminderStore.expire: what it touches is left to the caller.
Expire(rs) ==
    row' = [r \in Reminders |->
              IF r \in rs THEN [row[r] EXCEPT !.dstatus = "unknown", !.late = FALSE]
                          ELSE row[r]]

\* expire(now, connection_id=c): the live rows of c, and every overdue one.
ExpireConnection(c) ==
    Expire(Overdue \cup {r \in Reminders : IsLive(r) /\ row[r].page = c})

\* claim: the row of a new delivery to c, or of a missed reminder.
Claimed(r, c) ==
    IF c = None THEN [row[r] EXCEPT !.status = "missed"]
    ELSE [row[r] EXCEPT !.status = "triggered", !.dstatus = "pending",
                        !.n = @ + 1, !.page = c, !.late = FALSE]

\* Mutant: what is released is looked up by reminder, not by delivery.
ReleaseReminderById(c, ds) ==
    LET kept == {d \in gate[c] : \A x \in ds : x[1] # d[1]} IN
    /\ gate' = [gate EXCEPT ![c] = kept]
    /\ exempt' = [exempt EXCEPT ![c] = @ /\ kept # {}]

\* _release_reminder for each delivery in ds.
ReleaseReminder(c, ds) ==
    /\ gate' = [gate EXCEPT ![c] = @ \ ds]
    /\ exempt' = [exempt EXCEPT ![c] = @ /\ gate[c] \ ds # {}]

\* _delivery_ended through _send_reminder_event.
DeliveryEnded(d, c) ==
    IF Registered(c)
    THEN /\ ReleaseReminder(c, {d})
         /\ chan' = [chan EXCEPT ![c] = IF link[c] = "open"
                       THEN Append(@, [type |-> "ended", d |-> d]) ELSE @]
    ELSE UNCHANGED <<gate, exempt, chan>>

\* _send_reminder_event for reminder_due, up to the wait in send_json.
HoldReminder(d, c) ==
    /\ exempt' = [exempt EXCEPT ![c] = IF gate[c] = {} THEN turn[c] # "none" ELSE @]
    /\ gate' = [gate EXCEPT ![c] = @ \cup {d}]
    /\ chan' = [chan EXCEPT ![c] = IF link[c] = "open"
                  THEN Append(@, [type |-> "due", d |-> d]) ELSE @]

Rest(s) == IF todo[s] = {} THEN "idle" ELSE "due"

-----------------------------------------------------------------------------
(* The service: the table's other operations, the worker, the handlers.    *)

Create(r) ==
    /\ row[r].status = "absent"
    /\ row' = [row EXCEPT ![r].status = "scheduled"]
    /\ UNCHANGED <<pages, notices, senders, runtime, browser, said, faults>>

DueNow(r) ==
    /\ row[r].status = "scheduled" /\ ~row[r].due
    /\ row' = [row EXCEPT ![r].due = TRUE]
    /\ UNCHANGED <<pages, notices, senders, runtime, browser, said, faults>>

\* A scheduled reminder is put off.
Update(r) ==
    /\ row[r].status = "scheduled" /\ row[r].due
    /\ row' = [row EXCEPT ![r].due = FALSE]
    /\ UNCHANGED <<pages, notices, senders, runtime, browser, said, faults>>

\* The notices of a batch (at most 50, of a second each) are sent well within
\* the 90 seconds of a delivery.
DeadlinePasses(r) ==
    /\ IsLive(r) /\ ~row[r].late
    /\ \A s \in Senders : Item(r) \notin todo[s] \cup {hand[s]}
    /\ row' = [row EXCEPT ![r].late = TRUE]
    /\ UNCHANGED <<pages, notices, senders, runtime, browser, said, faults>>

\* Whatever state the row is in; its delivery is left as it is.  Cancelling
\* again would only repeat the notices.
Cancel(r) ==
    /\ row[r].status \notin {"absent", "cancelled"}
    /\ row' = [row EXCEPT ![r].status = "cancelled"]
    /\ notices' = notices \cup (Range(pages) \X {r})
    /\ UNCHANGED <<pages, senders, runtime, browser, said, faults>>

CancelNotice(c, r) ==
    /\ <<c, r>> \in notices
    /\ notices' = notices \ {<<c, r>>}
    /\ ReleaseReminder(c, {d \in gate[c] : d[1] = r})
    /\ chan' = [chan EXCEPT ![c] = IF link[c] = "open"
                  THEN Append(@, [type |-> "cancelled", r |-> r]) ELSE @]
    /\ UNCHANGED <<row, pages, senders, link, turn, receipts, ending,
                   busy, waiting, active, said, faults>>

\* connections = {device: next(reversed(pages))}
Newest == IF pages = <<>> THEN None ELSE Last(pages)

\* Mutant: nobody is told that a delivery has run out.
TickExpireSilent ==
    /\ pc["tick"] = "idle"
    /\ Expire(Overdue)
    /\ pc' = [pc EXCEPT !["tick"] = "claim"]
    /\ aim' = [aim EXCEPT !["tick"] = Newest]
    /\ UNCHANGED <<pages, notices, todo, hand, seen, runtime, browser, said, faults>>

\* The connection to claim for is chosen once all ends have been told.
TickExpire ==
    /\ pc["tick"] = "idle"
    /\ Expire(Overdue)
    /\ todo' = [todo EXCEPT !["tick"] = {Item(r) : r \in Overdue}]
    /\ \/ Overdue = {} /\ pc' = [pc EXCEPT !["tick"] = "claim"]
                       /\ aim' = [aim EXCEPT !["tick"] = Newest]
       \/ Overdue # {} /\ pc' = [pc EXCEPT !["tick"] = "ending"] /\ aim' = aim
    /\ UNCHANGED <<pages, notices, hand, seen, runtime, browser, said, faults>>

TickEnded(i) ==
    /\ pc["tick"] = "ending" /\ i \in todo["tick"]
    /\ DeliveryEnded(i.d, i.to)
    /\ todo' = [todo EXCEPT !["tick"] = @ \ {i}]
    /\ \/ todo["tick"] = {i} /\ pc' = [pc EXCEPT !["tick"] = "claim"]
                             /\ aim' = [aim EXCEPT !["tick"] = Newest]
       \/ todo["tick"] # {i} /\ UNCHANGED <<pc, aim>>
    /\ UNCHANGED <<row, pages, notices, hand, seen, link, turn, receipts,
                   ending, busy, waiting, active, said, faults>>

DueRows == {r \in Reminders : row[r].status = "scheduled" /\ row[r].due}

TickClaim ==
    LET to == aim["tick"] IN
    /\ pc["tick"] = "claim"
    /\ row' = [r \in Reminders |-> IF r \in DueRows THEN Claimed(r, to) ELSE row[r]]
    /\ todo' = [todo EXCEPT !["tick"] = IF to = None THEN {} ELSE
                  {[d |-> <<r, row[r].n + 1>>, to |-> to] : r \in DueRows}]
    /\ pc' = [pc EXCEPT !["tick"] = IF to = None \/ DueRows = {} THEN "idle" ELSE "due"]
    /\ aim' = [aim EXCEPT !["tick"] = None]
    /\ UNCHANGED <<pages, notices, hand, seen, runtime, browser, said, faults>>

\* replay, up to the choice of the newest page.
ReplayRead(k, r) ==
    /\ pc[k] = "idle"
    /\ row[r].status \in {"triggered", "missed"} /\ ~IsLive(r)
    /\ pages # <<>>
    /\ row[r].n < MaxDeliveries
    /\ seen' = [seen EXCEPT ![k] = [of |-> r, status |-> row[r].status,
                                    dstatus |-> row[r].dstatus]]
    /\ aim' = [aim EXCEPT ![k] = Newest]
    /\ pc' = [pc EXCEPT ![k] = "read"]
    /\ UNCHANGED <<row, pages, notices, todo, hand, runtime, browser, said, faults>>

\* Mutant: the row is changed whatever has become of it.
AsReadIgnored(k) == row[seen[k].of].status # "absent"

\* change() with what was read as the expected state.
AsRead(k) ==
    LET r == seen[k].of IN
    /\ row[r].status = seen[k].status
    /\ seen[k].dstatus # "none" => row[r].dstatus = seen[k].dstatus

ReplayChange(k) ==
    LET r == seen[k].of IN
    /\ pc[k] = "read"
    /\ \/ /\ AsRead(k) /\ row[r].n < MaxDeliveries
          /\ row' = [row EXCEPT ![r] = Claimed(r, aim[k])]
          /\ todo' = [todo EXCEPT ![k] = {[d |-> <<r, row[r].n + 1>>, to |-> aim[k]]}]
          /\ pc' = [pc EXCEPT ![k] = "due"]
       \/ /\ ~AsRead(k) \/ row[r].n = MaxDeliveries
          /\ pc' = [pc EXCEPT ![k] = "idle"]
          /\ UNCHANGED <<row, todo>>
    /\ seen' = [seen EXCEPT ![k] = NoRow] /\ aim' = [aim EXCEPT ![k] = None]
    /\ UNCHANGED <<pages, notices, hand, runtime, browser, said, faults>>

\* _notify(reminder_due): the connection may be gone by now.
Announce(s, i) ==
    /\ pc[s] = "due" /\ i \in todo[s]
    /\ hand' = [hand EXCEPT ![s] = i]
    /\ todo' = [todo EXCEPT ![s] = @ \ {i}]
    /\ \/ /\ Registered(i.to)
          /\ HoldReminder(i.d, i.to)
          /\ pc' = [pc EXCEPT ![s] = "sending"]
       \/ /\ ~Registered(i.to)
          /\ pc' = [pc EXCEPT ![s] = "failed"]
          /\ UNCHANGED <<gate, exempt, chan>>
    /\ UNCHANGED <<row, pages, notices, aim, seen, link, turn, receipts, ending,
                   busy, waiting, active, said, faults>>

Announced(s) ==
    /\ pc[s] = "sending" /\ link[hand[s].to] = "open"
    /\ pc' = [pc EXCEPT ![s] = Rest(s)]
    /\ hand' = [hand EXCEPT ![s] = NoItem]
    /\ UNCHANGED <<row, pages, notices, todo, aim, seen, runtime, browser, said, faults>>

\* The send fails, or takes longer than a second; a frame already queued may
\* reach the page all the same.
NotAnnounced(s) ==
    /\ pc[s] = "sending"
    /\ \/ link[hand[s].to] # "open" /\ faults' = faults
       \/ link[hand[s].to] = "open" /\ faults < MaxFaults /\ faults' = faults + 1
    /\ ReleaseReminder(hand[s].to, {hand[s].d})
    /\ pc' = [pc EXCEPT ![s] = "failed"]
    /\ UNCHANGED <<row, pages, notices, todo, hand, aim, seen, link, turn, receipts,
                   ending, browser, said>>

GiveUp(s) ==
    /\ pc[s] = "failed"
    /\ ExpireConnection(hand[s].to)
    /\ pc' = [pc EXCEPT ![s] = Rest(s)]
    /\ hand' = [hand EXCEPT ![s] = NoItem]
    /\ UNCHANGED <<pages, notices, todo, aim, seen, runtime, browser, said, faults>>

-----------------------------------------------------------------------------
(* The connection.                                                         *)

Connect(c) ==
    /\ link[c] = "new"
    /\ link' = [link EXCEPT ![c] = "open"]
    /\ pages' = Append(pages, c)
    /\ UNCHANGED <<row, notices, senders, gate, exempt, turn, receipts, ending,
                   browser, said, faults>>

\* close(), up to the cancellation of the receipts task.  The turn is cancelled
\* later in close(); from here on nothing depends on it.
Disconnect(c) ==
    /\ link[c] = "open"
    /\ link' = [link EXCEPT ![c] = "closing"]
    /\ receipts' = [receipts EXCEPT ![c] = <<>>]
    /\ ending' = [ending EXCEPT ![c] = None]
    /\ turn' = [turn EXCEPT ![c] = "none"]
    /\ exempt' = [exempt EXCEPT ![c] = FALSE]
    /\ chan' = [chan EXCEPT ![c] = <<>>] /\ busy' = [busy EXCEPT ![c] = FALSE]
    /\ waiting' = [waiting EXCEPT ![c] = <<>>]
    /\ active' = [active EXCEPT ![c] = Silent]
    /\ UNCHANGED <<row, pages, notices, senders, gate, said, faults>>

Unregister(c) ==
    /\ link[c] = "closing"
    /\ link' = [link EXCEPT ![c] = "popped"]
    /\ pages' = Without(pages, {c})
    /\ UNCHANGED <<row, notices, senders, gate, exempt, turn, receipts, ending,
                   browser, said, faults>>

\* The second half of disconnect(); it may time out.
DisconnectExpire(c) ==
    /\ link[c] = "popped"
    /\ link' = [link EXCEPT ![c] = "closed"]
    /\ \/ ExpireConnection(c) /\ faults' = faults
       \/ faults < MaxFaults /\ faults' = faults + 1 /\ row' = row
    /\ UNCHANGED <<pages, notices, senders, gate, exempt, turn, receipts, ending,
                   browser, said>>

\* Mutant: a receipt is matched to the reminder and the connection only.
AcceptsAnyDelivery(c, e) ==
    LET r == e.d[1] IN
    /\ row[r].status = "triggered"
    /\ row[r].page = c
    /\ row[r].dstatus \in CASE e.status \in {"interrupted", "failed"} -> Live
                            [] e.status = "completed" -> {"playing"}
                            [] OTHER -> {"pending"}

\* _record_reminder_receipts takes the oldest receipt to ReminderService.ack.
Accepts(c, e) ==
    LET r == e.d[1] IN
    /\ row[r].status = "triggered"
    /\ row[r].page = c
    /\ row[r].n = e.d[2]
    /\ row[r].dstatus \in CASE e.status \in {"interrupted", "failed"} -> Live
                            [] e.status = "completed" -> {"playing"}
                            [] OTHER -> {"pending"}

Acked(r, s) ==
    [row[r] EXCEPT !.dstatus = IF s = "waiting" THEN "pending" ELSE s, !.late = FALSE]

Ack(c) ==
    LET e == Head(receipts[c]) IN
    /\ link[c] = "open" /\ receipts[c] # <<>> /\ ending[c] = None
    /\ receipts' = [receipts EXCEPT ![c] = Tail(@)]
    /\ \/ /\ Accepts(c, e)
          /\ row' = [row EXCEPT ![e.d[1]] = Acked(e.d[1], e.status)]
          /\ ending' = [ending EXCEPT ![c] = IF e.status \in Outcomes THEN e.d ELSE None]
       \/ ~Accepts(c, e) /\ UNCHANGED <<row, ending>>
    /\ UNCHANGED <<pages, notices, senders, link, gate, exempt, turn, browser,
                   said, faults>>

AckEnded(c) ==
    /\ link[c] = "open" /\ ending[c] # None
    /\ DeliveryEnded(ending[c], c)
    /\ ending' = [ending EXCEPT ![c] = None]
    /\ UNCHANGED <<row, pages, notices, senders, link, turn, receipts,
                   busy, waiting, active, said, faults>>

\* The five seconds of a receipt run out, before or after its change.
AckTimesOut(c) ==
    /\ link[c] = "open" /\ faults < MaxFaults /\ faults' = faults + 1
    /\ \/ ending[c] # None /\ ending' = [ending EXCEPT ![c] = None] /\ receipts' = receipts
       \/ /\ ending[c] = None /\ receipts[c] # <<>>
          /\ receipts' = [receipts EXCEPT ![c] = Tail(@)] /\ ending' = ending
    /\ UNCHANGED <<row, pages, notices, senders, link, gate, exempt, turn, browser, said>>

Send(c, type) == chan' = [chan EXCEPT ![c] = Append(@, [type |-> type])]

\* start_turn: the page is told before the reply's task exists.
StartTurn(c) ==
    /\ link[c] = "open" /\ turn[c] = "none" /\ Len(chan[c]) < MaxFrames
    /\ turn' = [turn EXCEPT ![c] = "starting"]
    /\ exempt' = [exempt EXCEPT ![c] = FALSE]
    /\ Send(c, "turn_started")
    /\ UNCHANGED <<row, pages, notices, senders, link, gate, receipts, ending,
                   busy, waiting, active, said, faults>>

\* The beginning of _stream_turn.
TurnCheck(c) ==
    /\ turn[c] = "starting"
    /\ \/ /\ gate[c] # {} /\ ~exempt[c]
          /\ turn' = [turn EXCEPT ![c] = "waiting"]
          /\ Send(c, "turn_waiting")
       \/ /\ gate[c] = {} \/ exempt[c]
          /\ turn' = [turn EXCEPT ![c] = "running"]
          /\ UNCHANGED chan
    /\ UNCHANGED <<row, pages, notices, senders, link, gate, exempt, receipts, ending,
                   busy, waiting, active, said, faults>>

TurnWake(c) ==
    /\ turn[c] = "waiting" /\ gate[c] = {}
    /\ turn' = [turn EXCEPT ![c] = "running"]
    /\ UNCHANGED <<row, pages, notices, senders, link, gate, exempt, receipts, ending,
                   browser, said, faults>>

\* The reply ends, or the turn is cancelled or superseded.
TurnEnd(c) ==
    /\ turn[c] # "none"
    /\ turn' = [turn EXCEPT ![c] = "none"]
    /\ exempt' = [exempt EXCEPT ![c] = FALSE]
    /\ Send(c, "turn_over")
    /\ UNCHANGED <<row, pages, notices, senders, link, gate, receipts, ending,
                   busy, waiting, active, said, faults>>

-----------------------------------------------------------------------------
(* The page: web/reminder-queue.js and what feeds it.                      *)

\* Mutant: the bound of the receipt queue is not checked.
ReportUnbounded(c, es) ==
    /\ receipts' = [receipts EXCEPT ![c] = @ \o es]
    /\ said' = said \cup {<<e.d, e.status>> : e \in {e \in Range(es) : e.status \in Outcomes}}

\* report(): a full receipt queue drops the rest.
Report(c, es) ==
    /\ receipts' = [receipts EXCEPT ![c] =
          LET all == @ \o es IN
          IF Len(all) <= MaxReceipts THEN all ELSE SubSeq(all, 1, MaxReceipts)]
    /\ said' = said \cup {<<e.d, e.status>> : e \in {e \in Range(es) : e.status \in Outcomes}}

Receipt(d, s) == <<[d |-> d, status |-> s]>>

Next1(c, type) ==
    /\ chan[c] # <<>> /\ Head(chan[c]).type = type
    /\ chan' = [chan EXCEPT ![c] = Tail(@)]

\* enqueue
ReceiveDue(c) ==
    LET d == Head(chan[c]).d IN
    /\ Next1(c, "due")
    /\ \/ /\ Len(waiting[c]) < MaxWaiting
          /\ waiting' = [waiting EXCEPT ![c] = Append(@, d)]
          /\ UNCHANGED <<receipts, said>>
       \/ /\ Len(waiting[c]) >= MaxWaiting
          /\ Report(c, Receipt(d, "expired"))
          /\ UNCHANGED waiting
    /\ UNCHANGED <<row, pages, notices, senders, link, gate, exempt, turn, ending,
                   busy, active, faults>>

\* deliveryEnded: dropped without a report.
ReceiveEnded(c) ==
    LET d == Head(chan[c]).d IN
    /\ Next1(c, "ended")
    /\ waiting' = [waiting EXCEPT ![c] = Without(@, {d})]
    /\ active' = [active EXCEPT ![c] = IF @.d = d THEN Silent ELSE @]
    /\ UNCHANGED <<row, pages, notices, senders, runtime, busy, said, faults>>

\* cancel: what is queued is dropped, what plays is interrupted.
ReceiveCancelled(c) ==
    LET r == Head(chan[c]).r
        hit == active[c] # Silent /\ active[c].d[1] = r IN
    /\ Next1(c, "cancelled")
    /\ waiting' = [waiting EXCEPT ![c] = Without(@, {x \in Deliveries : x[1] = r})]
    /\ active' = [active EXCEPT ![c] = IF hit THEN Silent ELSE @]
    /\ Report(c, IF hit THEN Receipt(active[c].d, "interrupted") ELSE <<>>)
    /\ UNCHANGED <<row, pages, notices, senders, link, gate, exempt, turn, ending,
                   busy, faults>>

ReceiveTurn(c) ==
    /\ \E type \in {"turn_started", "turn_waiting", "turn_over"} :
          /\ Next1(c, type)
          /\ busy' = [busy EXCEPT ![c] = type = "turn_started"]
    /\ UNCHANGED <<row, pages, notices, senders, runtime, waiting, active, said, faults>>

\* pump
PageStart(c) ==
    /\ ~busy[c] /\ active[c] = Silent /\ waiting[c] # <<>>
    /\ active' = [active EXCEPT ![c] = [d |-> Head(waiting[c]), state |-> "loading"]]
    /\ waiting' = [waiting EXCEPT ![c] = Tail(@)]
    /\ UNCHANGED <<row, pages, notices, senders, runtime, chan, busy, said, faults>>

\* Mutant: the delivery is checked, the reminder itself is not.
AudioServedCancelled(d) ==
    LET r == d[1] IN row[r].n = d[2] /\ IsLive(r)

\* GET /reminders/{id}/audio hands out the sound of a live delivery only.
AudioServed(d) ==
    LET r == d[1] IN row[r].status = "triggered" /\ row[r].n = d[2] /\ IsLive(r)

PageFetch(c) ==
    /\ active[c].state = "loading" /\ AudioServed(active[c].d)
    /\ active' = [active EXCEPT ![c].state = "fetched"]
    /\ UNCHANGED <<row, pages, notices, senders, runtime, chan, busy, waiting, said, faults>>

PagePlay(c) ==
    /\ active[c].state = "fetched"
    /\ active' = [active EXCEPT ![c].state = "playing"]
    /\ Report(c, Receipt(active[c].d, "playing"))
    /\ UNCHANGED <<row, pages, notices, senders, link, gate, exempt, turn, ending,
                   chan, busy, waiting, faults>>

PageFinish(c, s) ==
    /\ active' = [active EXCEPT ![c] = Silent]
    /\ Report(c, Receipt(active[c].d, s))
    /\ UNCHANGED <<row, pages, notices, senders, link, gate, exempt, turn, ending,
                   chan, busy, waiting, faults>>

PageDone(c) == active[c].state = "playing" /\ PageFinish(c, "completed")

\* No audio, autoplay refused, or the watchdog.
PageFails(c) == active[c] # Silent /\ PageFinish(c, "failed")

\* stop(): the user's button.
PageStop(c) ==
    LET all == waiting[c] \o (IF active[c] = Silent THEN <<>> ELSE <<active[c].d>>) IN
    /\ all # <<>>
    /\ Report(c, [i \in DOMAIN all |-> [d |-> all[i], status |-> "interrupted"]])
    /\ waiting' = [waiting EXCEPT ![c] = <<>>]
    /\ active' = [active EXCEPT ![c] = Silent]
    /\ UNCHANGED <<row, pages, notices, senders, link, gate, exempt, turn, ending,
                   chan, busy, faults>>

\* Every 15 seconds until it plays; the previous one has been taken by then.
KeepAlive(c, d) ==
    /\ d \in Range(waiting[c]) \/ (active[c].d = d /\ active[c].state \in {"loading", "fetched"})
    /\ ~Contains(receipts[c], [d |-> d, status |-> "waiting"])
    /\ Report(c, Receipt(d, "waiting"))
    /\ UNCHANGED <<row, pages, notices, senders, link, gate, exempt, turn, ending,
                   browser, faults>>

-----------------------------------------------------------------------------
(* close() or a crash of the process, and the next start().                *)
Restart ==
    /\ faults < MaxFaults /\ faults' = faults + 1
    /\ Expire({r \in Reminders : IsLive(r)})
    /\ pages' = <<>> /\ notices' = {}
    /\ pc' = [s \in Senders |-> "idle"] /\ todo' = [s \in Senders |-> {}]
    /\ hand' = [s \in Senders |-> NoItem] /\ aim' = [s \in Senders |-> None]
    /\ seen' = [s \in Senders |-> NoRow]
    /\ link' = [c \in Pages |-> IF link[c] = "new" THEN "new" ELSE "closed"]
    /\ gate' = [c \in Pages |-> {}] /\ exempt' = [c \in Pages |-> FALSE]
    /\ turn' = [c \in Pages |-> "none"] /\ receipts' = [c \in Pages |-> <<>>]
    /\ ending' = [c \in Pages |-> None]
    /\ chan' = [c \in Pages |-> <<>>] /\ busy' = [c \in Pages |-> FALSE]
    /\ waiting' = [c \in Pages |-> <<>>] /\ active' = [c \in Pages |-> Silent]
    /\ UNCHANGED said

Next ==
    \/ \E r \in Reminders : Create(r) \/ DueNow(r) \/ Update(r) \/ DeadlinePasses(r)
    \/ \E r \in Reminders : Cancel(r) \/ \E c \in Pages : CancelNotice(c, r)
    \/ TickExpire \/ TickClaim \/ \E i \in todo["tick"] : TickEnded(i)
    \/ \E k \in Callers : ReplayChange(k) \/ \E r \in Reminders : ReplayRead(k, r)
    \/ \E s \in Senders : Announced(s) \/ NotAnnounced(s) \/ GiveUp(s)
                          \/ \E i \in todo[s] : Announce(s, i)
    \/ \E c \in Pages : Connect(c) \/ Disconnect(c) \/ Unregister(c) \/ DisconnectExpire(c)
    \/ \E c \in Pages : Ack(c) \/ AckEnded(c) \/ AckTimesOut(c)
    \/ \E c \in Pages : StartTurn(c) \/ TurnCheck(c) \/ TurnWake(c) \/ TurnEnd(c)
    \/ \E c \in Pages : ReceiveDue(c) \/ ReceiveEnded(c) \/ ReceiveCancelled(c)
                        \/ ReceiveTurn(c)
    \/ \E c \in Pages : PageStart(c) \/ PageFetch(c) \/ PagePlay(c) \/ PageDone(c)
                        \/ PageFails(c) \/ PageStop(c)
                        \/ \E d \in Deliveries : KeepAlive(c, d)
    \/ Restart

Spec == Init /\ [][Next]_vars

-----------------------------------------------------------------------------
(* Fairness: the service's tasks, the connection's tasks and the browser's *)
(* event loop go on; time passes, so a delivery nobody renews runs out; a  *)
(* reply ends, its provider calls being bounded by timeouts.  Connecting,  *)
(* disconnecting and what people ask for are under no obligation.  pump()  *)
(* runs at every change of busy, hence SF for PageStart.                   *)
Fairness ==
    /\ \A r \in Reminders : WF_vars(DeadlinePasses(r))
    /\ \A r \in Reminders, c \in Pages : WF_vars(CancelNotice(c, r))
    /\ WF_vars(TickExpire) /\ WF_vars(TickClaim)
    /\ WF_vars(\E i \in todo["tick"] : TickEnded(i))
    /\ \A k \in Callers : WF_vars(ReplayChange(k))
    /\ \A s \in Senders : WF_vars(\/ Announced(s) \/ NotAnnounced(s) \/ GiveUp(s)
                                  \/ \E i \in todo[s] : Announce(s, i))
    /\ \A c \in Pages :
          /\ WF_vars(Unregister(c)) /\ WF_vars(DisconnectExpire(c))
          /\ WF_vars(Ack(c)) /\ WF_vars(AckEnded(c))
          /\ WF_vars(TurnCheck(c)) /\ WF_vars(TurnWake(c))
          /\ WF_vars(turn[c] = "running" /\ TurnEnd(c))
          /\ WF_vars(ReceiveDue(c) \/ ReceiveEnded(c) \/ ReceiveCancelled(c)
                     \/ ReceiveTurn(c))
          /\ SF_vars(PageStart(c))
          /\ WF_vars(PageFetch(c) \/ PagePlay(c) \/ PageDone(c) \/ PageFails(c))

FairSpec == Spec /\ Fairness

-----------------------------------------------------------------------------
(* Properties.                                                             *)

\* The notice of an item is still to be sent, or about to be given up.
InHand(i) == \E s \in Senders : \/ pc[s] # "ending" /\ i \in todo[s]
                                \/ pc[s] = "failed" /\ hand[s] = i

\* The gate is never opened early: as long as a reminder that has been
\* announced to a connection may still be played there, the gate of that
\* connection holds it, whatever receipts, replays, expiries and
\* cancellations of other deliveries do (_release_reminder, _delivery_ended).
GateHolds ==
    \A r \in Reminders :
        /\ row[r].status = "triggered" /\ IsLive(r)
        /\ link[row[r].page] = "open"
        /\ ~InHand(Item(r))
        => <<r, row[r].n>> \in gate[row[r].page]

\* The table never invents an outcome: a delivery recorded as completed,
\* interrupted, failed or expired was reported so, for that very delivery and
\* not for an earlier one of the same reminder (ReminderService.ack).
OutcomeIsReported ==
    \A r \in Reminders :
        row[r].dstatus \in Outcomes => <<Item(r).d, row[r].dstatus>> \in said

\* Cancelling a reminder stops it: a page sounds a cancelled reminder, or is
\* ready to, only while the notice that stops it is on its way (cancel,
\* reminder_audio, reminder-queue.js cancel).
CancelStopsPlayback ==
    \A c \in Pages, r \in Reminders :
        /\ row[r].status = "cancelled"
        /\ active[c] # Silent /\ active[c].d[1] = r /\ active[c].state # "loading"
        => \/ <<c, r>> \in notices
           \/ Contains(chan[c], [type |-> "cancelled", r |-> r])

\* A delivery only moves on: nobody replaces one that may still be played,
\* one that has ended is not reopened or re-labelled, and one that has begun
\* to play does not wait again; a cancelled reminder stays cancelled and is
\* not delivered anew (replay's and ack's conditional updates).
DeliveryOnlyMovesOn ==
    [][\A r \in Reminders :
        /\ row'[r].n # row[r].n => ~IsLive(r)
        /\ row'[r].n = row[r].n /\ row[r].n > 0 /\ ~IsLive(r)
              => row'[r].dstatus = row[r].dstatus
        /\ row'[r].n = row[r].n /\ row[r].dstatus = "playing"
              => row'[r].dstatus # "pending"
        /\ row[r].status = "cancelled"
              => row'[r].status = "cancelled" /\ row'[r].n = row[r].n]_vars

\* A delivery ends, in an outcome or as unknown, whatever is lost.
DeliveryEnds == \A r \in Reminders : IsLive(r) ~> ~IsLive(r)

\* A reply held back for a reminder is generated in the end, or its turn ends,
\* provided no notice or receipt times out (the wait in _stream_turn).
TurnGoesOn ==
    \A c \in Pages : turn[c] = "waiting" /\ faults = 0
                        ~> turn[c] # "waiting" \/ faults > 0

\* "The notice of an end or of a timeout releases the gate of the connection,
\* [...] so that a failed reminder does not hold the chat back for ever"
\* (docs/architecture.md:145): a gate holds a delivery only while it may still
\* be played or while the notice that releases it is still to be sent.
NothingHeldInVain ==
    \A c \in Pages : link[c] = "open" => \A d \in gate[c] :
        \/ row[d[1]].n = d[2] /\ IsLive(d[1])
        \/ ending[c] = d \/ <<c, d[1]>> \in notices
        \/ [d |-> d, to |-> c] \in todo["tick"]

\* "After the current chat has ended the reminder is played"
\* (web/reminder-queue.js:1): no page plays a reminder over a reply that is
\* being generated.
NoReminderOverReply ==
    \A c \in Pages :
        /\ active[c].state = "playing"
        /\ row[active[c].d[1]].status = "triggered" /\ row[active[c].d[1]].n = active[c].d[2]
        /\ IsLive(active[c].d[1])
        => turn[c] # "running"

=============================================================================
