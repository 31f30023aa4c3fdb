----------------------------- MODULE TurnOutput -----------------------------
(***************************************************************************)
(* The replies of one connection on their way to the page: the tasks that  *)
(* replace, cancel and close turns under the transition lock, the turn     *)
(* tasks that stream a reply, the sender that writes one frame at a time,  *)
(* the wire, and the PCM player of the page with its reports.              *)
(*                                                                         *)
(* A turn has at most one audio stream, so the turn's number names both.   *)
(* A step between two awaits is one action.                                *)
(***************************************************************************)
EXTENDS Integers, Sequences, FiniteSets

CONSTANTS
    Loop,       \* the receive loop of the endpoint; it also closes the connection
    Helpers,    \* recognition and device control tasks: they start and cancel turns too
    LastTurn,   \* bound: turns started
    LastCancel, \* bound: cancellations asked for
    MaxWire     \* bound: frames between the sender and the page

ASSUME OutputAssumption ==
    /\ LastTurn \in Nat /\ LastCancel \in Nat /\ MaxWire \in Nat \ {0}
    /\ IsFiniteSet(Helpers) /\ Loop \notin Helpers
    \* names of lock holders and waiters that are nobody else's
    /\ "nobody" \notin Helpers \cup {Loop} /\ \A t \in 1 .. LastTurn : <<"turn", t>> \notin Helpers \cup {Loop}

VARIABLES
    activeTurn, \* _TurnState.turn_id, 0 for None
    attached,   \* _TurnState.task: the turn whose task it is, 0 for None
    playback,   \* _TurnState.playback_turn_id and playback_stream_id, 0 for None
    gen,        \* [Replies -> the last frame of the turn task, or where else it is]
    caller,     \* [Askers -> where its call of start_turn, cancel_turn or close is]
    holder,     \* who holds _turn_transition_lock
    connection, \* open, closing (_closing), closed
    outbox,     \* [Askers \cup Replies -> the frame its send() waits for]
    outQueue,   \* _OutboundSender._queue
    sender,     \* the sender task: running, failed, ended
    started,    \* turns started
    cancels,    \* cancellations asked for
    wire,       \* frames written and not yet seen by the page
    player,     \* PcmPlayer.active of the page
    generating, \* the turn the page is busy generating, 0 for none
    held,       \* history: the turn that turn_waiting took out of generating, 0 for none
    over,       \* history: turns the page was told to be over
    reports     \* playback_drained on its way to the receive loop

Replies == 1 .. LastTurn
Askers == Helpers \cup {Loop}
turnState == <<activeTurn, attached, playback>>
sending == <<outbox, outQueue, sender>>
page == <<player, generating, held, over, reports>>
counts == <<started, cancels>>
outputVars == <<turnState, gen, caller, holder, connection, sending, counts, wire, page>>

Nothing == [state |-> "no", kind |-> "none", turn |-> 0]
Idle == [at |-> "idle", starts |-> FALSE, turn |-> 0, play |-> 0, task |-> 0]
NoStream == [stream |-> 0, state |-> "off"]
Sent(x) == outbox[x].state = "sent"
Failed(x) == outbox[x].state = "error"
ByTurn(t) == <<"turn", t>>
Waiters == Askers \cup {ByTurn(t) : t \in Replies}

OutputInit ==
    /\ activeTurn = 0 /\ attached = 0 /\ playback = 0
    /\ gen = [t \in Replies |-> "none"]
    /\ caller = [c \in Askers |-> Idle]
    /\ holder = "nobody" /\ connection = "open"
    /\ outbox = [x \in Waiters |-> Nothing]
    /\ outQueue = <<>> /\ sender = "running"
    /\ started = 0 /\ cancels = 0
    /\ wire = <<>> /\ player = NoStream /\ generating = 0 /\ held = 0 /\ over = {} /\ reports = {}

(***************************************************************************)
(* _OutboundSender                                                         *)
(***************************************************************************)
\* frames that name a turn for the sender to check; the others always go out
Guarded(f) == f.kind \notin {"turn_cancelled", "audio_stop", "end"}

\* send(): refused by a sender that has stopped; otherwise the put is a task of its own
Sending(x, kind, t) == [outbox EXCEPT ![x] =
    [state |-> IF sender = "running" THEN "putting" ELSE "error", kind |-> kind, turn |-> t]]

\* mutant: a frame put after the sender has drained its queue is waited for
AfterPut_unchecked == "queued"

AfterPut == IF sender = "running" THEN "queued" ELSE "error"

\* the put, and the look at the sender that follows it
Put(x) ==
    /\ outbox[x].state = "putting"
    /\ outbox' = [outbox EXCEPT ![x].state = AfterPut]
    /\ outQueue' = IF sender = "running"
            THEN Append(outQueue, [kind |-> outbox[x].kind, turn |-> outbox[x].turn, from |-> x])
            ELSE outQueue
    /\ UNCHANGED <<turnState, gen, caller, holder, connection, sender, counts, wire, page>>

Waits(x, f) == f.from = x /\ outbox[x] = [state |-> "queued", kind |-> f.kind, turn |-> f.turn]

\* the future of a frame is resolved, if somebody still waits for it
Resolved(f) == [x \in Waiters |->
    IF Waits(x, f) THEN [outbox[x] EXCEPT !.state = "sent"] ELSE outbox[x]]

\* finally of the sender: what is left in the queue fails
Drained == [x \in Waiters |->
    IF outbox[x].state = "queued" THEN [outbox[x] EXCEPT !.state = "error"] ELSE outbox[x]]

\* mutant: frames are written whatever turn is active
Stale_never(f) == FALSE

Stale(f) == Guarded(f) /\ f.turn # activeTurn

Drop ==
    /\ sender = "running" /\ outQueue # <<>> /\ Stale(Head(outQueue))
    /\ outbox' = Resolved(Head(outQueue))
    /\ outQueue' = Tail(outQueue)
    /\ UNCHANGED <<turnState, gen, caller, holder, connection, sender, counts, wire, page>>

Write ==
    /\ sender = "running" /\ outQueue # <<>>
    /\ ~Stale(Head(outQueue)) /\ Head(outQueue).kind # "end"
    /\ Len(wire) < MaxWire
    /\ wire' = Append(wire, [kind |-> Head(outQueue).kind, turn |-> Head(outQueue).turn])
    /\ outbox' = Resolved(Head(outQueue))
    /\ outQueue' = Tail(outQueue)
    /\ UNCHANGED <<turnState, gen, caller, holder, connection, sender, counts, page>>

\* _SEND_END, or a write that raises: the task ends and answers every frame left
SenderStops ==
    /\ sender = "running" /\ outQueue # <<>> /\ ~Stale(Head(outQueue))
    /\ IF Head(outQueue).kind = "end"
         THEN sender' = "ended" /\ outbox' = [x \in Waiters |->
                IF Waits(x, Head(outQueue)) THEN Resolved(Head(outQueue))[x] ELSE Drained[x]]
         ELSE sender' = "failed" /\ outbox' = Drained
    /\ outQueue' = <<>>
    /\ UNCHANGED <<turnState, gen, caller, holder, connection, counts, wire, page>>

(***************************************************************************)
(* The turn task: the frames of a reply in their order, then finally.      *)
(***************************************************************************)
\* The texts of a reply go out among its audio and change nothing here: text_delta is the
\* first of them. A turn that finds reminders being played says turn_waiting and waits.
FirstFrames == {"text_delta", "audio_failed", "controlled", "turn_failed"}
Follow == [
    ready        |-> FirstFrames \cup {"turn_waiting"},
    turn_waiting |-> {},
    resumed      |-> FirstFrames,
    text_delta   |-> {"audio_start", "audio_failed", "turn_completed", "turn_failed"},
    audio_start  |-> {"audio_frame"},
    audio_frame  |-> {"audio_end", "audio_failed"},
    audio_end    |-> {"turn_completed", "turn_failed"},
    audio_failed |-> {"controlled", "turn_completed", "turn_failed"}]
LastFrames == {"controlled", "turn_completed", "turn_failed", "unwinding"}
Streams(t) == gen[t] \in DOMAIN Follow \cup (LastFrames \ {"unwinding"})

\* begin_playback before audio_start, clear_playback before audio_failed
TurnSends(t) ==
    /\ gen[t] \in DOMAIN Follow /\ outbox[ByTurn(t)] = Nothing
    /\ \E kind \in Follow[gen[t]] :
          /\ gen' = [gen EXCEPT ![t] = kind]
          /\ outbox' = Sending(ByTurn(t), kind, t)
          /\ playback' = CASE kind = "audio_start" /\ activeTurn = t -> t
                           [] kind = "audio_failed" /\ playback = t -> 0
                           [] OTHER -> playback
    /\ UNCHANGED <<activeTurn, attached, caller, holder, connection, outQueue, sender, counts, wire, page>>

\* mutant: the task is let go, but its turn stays the active one
ClearActive_task(t) ==
    /\ activeTurn' = activeTurn
    /\ attached' = IF activeTurn = t THEN 0 ELSE attached

ClearActive(t) ==
    /\ activeTurn' = IF activeTurn = t THEN 0 ELSE activeTurn
    /\ attached' = IF activeTurn = t THEN 0 ELSE attached

TurnEnds(t) ==
    /\ gen' = [gen EXCEPT ![t] = "done"]
    /\ ClearActive(t)

\* a frame delivered; a reply that cannot be sent cannot report its failure either
TurnSent(t) ==
    /\ Sent(ByTurn(t)) \/ Failed(ByTurn(t))
    /\ outbox' = [outbox EXCEPT ![ByTurn(t)] = Nothing]
    /\ IF Failed(ByTurn(t)) \/ gen[t] \in LastFrames
         THEN TurnEnds(t)
         ELSE UNCHANGED <<activeTurn, attached, gen>>
    /\ UNCHANGED <<playback, caller, holder, connection, outQueue, sender, counts, wire, page>>

\* the reminders are over (Reminders models them): the turn goes on, if it is still wanted
TurnWakes(t) ==
    /\ gen[t] = "turn_waiting" /\ outbox[ByTurn(t)] = Nothing
    /\ IF connection # "open" \/ activeTurn # t
         THEN TurnEnds(t)
         ELSE gen' = [gen EXCEPT ![t] = "resumed"] /\ UNCHANGED <<activeTurn, attached>>
    /\ UNCHANGED <<playback, caller, holder, connection, sending, counts, wire, page>>

\* a cancelled task ends; when its clean-up raises, it still reports turn_failed
TurnUnwinds(t) ==
    /\ gen[t] = "cancelled"
    /\ \/ TurnEnds(t) /\ UNCHANGED outbox
       \/ /\ gen' = [gen EXCEPT ![t] = "unwinding"]
          /\ outbox' = Sending(ByTurn(t), "turn_failed", t)
          /\ UNCHANGED <<activeTurn, attached>>
    /\ UNCHANGED <<playback, caller, holder, connection, outQueue, sender, counts, wire, page>>

(***************************************************************************)
(* start_turn and cancel_turn.                                             *)
(***************************************************************************)
Moves(c, to) == caller' = [caller EXCEPT ![c].at = to]

\* the call returns; the receive loop of a closing connection goes on with close()
Returns(c) ==
    /\ holder' = IF holder = c THEN "nobody" ELSE holder
    /\ caller' = [caller EXCEPT ![c] =
            [Idle EXCEPT !.at = IF c = Loop /\ connection = "closing" THEN "ending" ELSE "idle"]]

Ask(c) ==
    /\ caller[c].at = "idle" /\ connection = "open"
    /\ \/ /\ started + Cardinality({d \in Askers : caller[d].starts /\ caller[d].at # "begin"}) < LastTurn
          /\ caller' = [caller EXCEPT ![c] = [Idle EXCEPT !.at = "lock", !.starts = TRUE]]
          /\ UNCHANGED cancels
       \/ /\ cancels < LastCancel /\ cancels' = cancels + 1
          /\ caller' = [caller EXCEPT ![c] = [Idle EXCEPT !.at = "lock"]]
    /\ UNCHANGED <<turnState, gen, holder, connection, sending, started, wire, page>>

\* activate the new turn and announce it
Begins(c) ==
    /\ started' = started + 1
    /\ activeTurn' = started' /\ attached' = 0
    /\ outbox' = Sending(c, "turn_started", started')
    /\ caller' = [caller EXCEPT ![c].at = "begin", ![c].turn = started']

\* mutant: the transition lock is not taken
LockFree_always == TRUE

LockFree == holder = "nobody"

TakesPlayback == activeTurn # 0 \/ playback # 0

\* the lock, then take_for_cancellation and task.cancel()
Acquire(c) ==
    /\ caller[c].at = "lock" /\ LockFree
    /\ IF caller[c].starts /\ connection # "open"
       THEN Returns(c) /\ UNCHANGED <<turnState, gen, outbox, started>>
       ELSE IF TakesPlayback
       THEN /\ holder' = c
            /\ activeTurn' = 0 /\ attached' = 0 /\ playback' = 0
            /\ caller' = [caller EXCEPT ![c].at = "reap", ![c].turn = activeTurn,
                                        ![c].play = playback, ![c].task = attached]
            /\ IF attached # 0
                 THEN /\ gen' = [gen EXCEPT ![attached] = "cancelled"]
                      /\ outbox' = [outbox EXCEPT ![ByTurn(attached)] = Nothing]
                 ELSE UNCHANGED <<gen, outbox>>
            /\ UNCHANGED started
       ELSE /\ UNCHANGED <<playback, gen>>
            /\ IF caller[c].starts
                 THEN Begins(c) /\ holder' = c
                 ELSE Returns(c) /\ UNCHANGED <<activeTurn, attached, outbox, started>>
    /\ UNCHANGED <<connection, outQueue, sender, cancels, wire, page>>

Continues(c) == IF caller[c].starts
    THEN Begins(c) /\ UNCHANGED holder
    ELSE /\ outbox' = [outbox EXCEPT ![c] = Nothing]
         /\ Returns(c) /\ UNCHANGED <<activeTurn, attached, started>>

\* the cancelled task has ended: tell the page, unless the connection closes
Reaped(c) ==
    LET v == caller[c]
    IN  /\ v.at = "reap" /\ (v.task # 0 => gen[v.task] = "done")
        /\ IF connection # "open" THEN Continues(c)
             ELSE /\ UNCHANGED <<activeTurn, attached, started, holder>>
                  /\ IF v.turn # 0
                       THEN outbox' = Sending(c, "turn_cancelled", v.turn) /\ Moves(c, "told")
                       ELSE outbox' = Sending(c, "audio_stop", v.play) /\ Moves(c, "stop")
        /\ UNCHANGED <<playback, gen, connection, outQueue, sender, cancels, wire, page>>

Told(c) ==
    /\ caller[c].at = "told" /\ Sent(c)
    /\ outbox' = Sending(c, "audio_stop", IF caller[c].play # 0 THEN caller[c].play ELSE caller[c].turn)
    /\ Moves(c, "stop")
    /\ UNCHANGED <<turnState, gen, holder, connection, outQueue, sender, counts, wire, page>>

Stopped(c) ==
    /\ caller[c].at = "stop" /\ Sent(c)
    /\ Continues(c)
    /\ UNCHANGED <<playback, gen, connection, outQueue, sender, cancels, wire, page>>

\* attach_task
Begun(c) ==
    LET t == caller[c].turn
    IN  /\ caller[c].at = "begin" /\ Sent(c)
        /\ outbox' = [outbox EXCEPT ![c] = Nothing]
        /\ gen' = [gen EXCEPT ![t] = IF activeTurn = t THEN "ready" ELSE "cancelled"]
        /\ attached' = IF activeTurn = t THEN t ELSE attached
        /\ Returns(c)
        /\ UNCHANGED <<activeTurn, playback, connection, outQueue, sender, counts, wire, page>>

\* send() raises, or the task is cancelled by close(): the lock is released
Abandons(c) ==
    /\ outbox' = [outbox EXCEPT ![c] = Nothing]
    /\ IF caller[c].at = "begin" THEN ClearActive(caller[c].turn) ELSE UNCHANGED <<activeTurn, attached>>
    /\ holder' = IF holder = c THEN "nobody" ELSE holder
    /\ UNCHANGED <<playback, gen, outQueue, sender, counts, wire, page>>

SendRaises(c) ==
    /\ Failed(c) /\ caller[c].at # "end"
    /\ Abandons(c)
    /\ caller' = [caller EXCEPT ![c] = IF c = Loop THEN [Idle EXCEPT !.at = "closing"] ELSE Idle]
    /\ connection' = IF c = Loop THEN "closing" ELSE connection

(***************************************************************************)
(* close(): helpers are cancelled and awaited, the turn is cancelled       *)
(* without notice, the sender ends.                                        *)
(***************************************************************************)
LoopEnds ==
    /\ caller[Loop].at = "idle" /\ connection = "open"
    /\ connection' = "closing" /\ Moves(Loop, "closing")
    /\ UNCHANGED <<turnState, gen, holder, sending, counts, wire, page>>

\* a helper in the gather of a cancelled turn is cancelled once that turn has ended
HelperAborted(h) ==
    /\ caller[Loop].at = "closing" /\ h # Loop /\ caller[h].at # "idle"
    /\ caller[h].at = "reap" /\ caller[h].task # 0 => gen[caller[h].task] = "done"
    /\ Abandons(h)
    /\ caller' = [caller EXCEPT ![h] = Idle]
    /\ UNCHANGED connection

CloseCancels ==
    /\ caller[Loop].at = "closing" /\ \A h \in Helpers : caller[h].at = "idle"
    /\ Moves(Loop, "lock")
    /\ UNCHANGED <<turnState, gen, holder, connection, sending, counts, wire, page>>

CloseSender ==
    /\ caller[Loop].at = "ending"
    /\ outbox' = Sending(Loop, "end", 0)
    /\ Moves(Loop, "end")
    /\ UNCHANGED <<turnState, gen, holder, connection, outQueue, sender, counts, wire, page>>

Closed ==
    /\ caller[Loop].at = "end" /\ (Sent(Loop) \/ Failed(Loop))
    /\ outbox' = [outbox EXCEPT ![Loop] = Nothing]
    /\ Moves(Loop, "closed") /\ connection' = "closed"
    /\ UNCHANGED <<turnState, gen, holder, outQueue, sender, counts, wire, page>>

(***************************************************************************)
(* The page.                                                               *)
(***************************************************************************)
\* PcmPlayer.begin, end, fail and stop; stop and fail do not look at the stream
PlayerAfter(f) ==
    CASE f.kind = "audio_start" -> [stream |-> f.turn, state |-> "on"]
      [] f.kind = "audio_end" /\ player = [stream |-> f.turn, state |-> "on"] ->
            [player EXCEPT !.state = "ending"]
      [] f.kind = "audio_end" /\ player = [stream |-> f.turn, state |-> "stopped"] -> NoStream
      [] f.kind \in {"audio_failed", "turn_failed"} -> NoStream
      [] f.kind = "audio_stop" /\ player # NoStream -> [player EXCEPT !.state = "stopped"]
      [] OTHER -> player

Finals == {"turn_cancelled", "controlled", "turn_completed", "turn_failed"}

\* the turns a frame tells the page to be over: its own, or those before a new one
EndsTurns(f) == IF f.kind \in Finals THEN {f.turn}
                ELSE IF f.kind = "turn_started" THEN 1 .. (f.turn - 1) ELSE {}

\* turn_waiting clears the flag like a last frame does; no later frame of the turn sets it
PageReads ==
    /\ wire # <<>>
    /\ wire' = Tail(wire)
    /\ player' = PlayerAfter(Head(wire))
    /\ generating' = IF Head(wire).kind = "turn_started" THEN Head(wire).turn
               ELSE IF Head(wire).kind \in Finals \cup {"turn_waiting"} THEN 0 ELSE generating
    /\ held' = IF Head(wire).kind = "turn_waiting" THEN Head(wire).turn
               ELSE IF Head(wire).kind \in Finals \cup {"turn_started"} THEN 0 ELSE held
    /\ over' = over \cup EndsTurns(Head(wire))
    /\ UNCHANGED <<turnState, gen, caller, holder, connection, sending, counts, reports>>

Audible == player.state \in {"on", "ending"}

\* the stop button silences the page only
UserStops ==
    /\ Audible /\ player' = [player EXCEPT !.state = "stopped"]
    /\ UNCHANGED <<turnState, gen, caller, holder, connection, sending, counts, wire, generating, held, over, reports>>

PlayerDrains ==
    /\ player.state = "ending"
    /\ player' = NoStream
    /\ reports' = reports \cup {player.stream}
    /\ UNCHANGED <<turnState, gen, caller, holder, connection, sending, counts, wire, generating, held, over>>

Cleared(t) == IF playback = t THEN 0 ELSE playback

LoopHears(t) ==
    /\ caller[Loop].at = "idle" /\ t \in reports
    /\ reports' = reports \ {t}
    /\ playback' = Cleared(t)
    /\ UNCHANGED <<activeTurn, attached, gen, caller, holder, connection, sending, counts, wire, player, generating, held, over>>

(***************************************************************************)
(* The environment asks, leaves, presses buttons and lets a turn wait for  *)
(* its reminders; the rest goes on by itself: every send is written or     *)
(* fails, every task is scheduled.                                         *)
(***************************************************************************)
OutputProgress ==
    \/ \E x \in Waiters : Put(x)
    \/ Drop \/ Write \/ SenderStops
    \/ \E t \in Replies : TurnSends(t) \/ TurnSent(t) \/ TurnUnwinds(t)
    \/ \E c \in Askers : \/ Acquire(c) \/ Reaped(c) \/ Told(c) \/ Stopped(c) \/ Begun(c)
                          \/ SendRaises(c)
    \/ \E h \in Helpers : HelperAborted(h)
    \/ CloseCancels \/ CloseSender \/ Closed \/ PageReads

OutputNext ==
    \/ OutputProgress
    \/ \E c \in Askers : Ask(c)
    \/ LoopEnds \/ UserStops \/ PlayerDrains
    \/ \E t \in Replies : TurnWakes(t) \/ LoopHears(t)

OutputSafety == OutputInit /\ [][OutputNext]_outputVars
OutputSpec == OutputSafety /\ WF_outputVars(OutputProgress)

(***************************************************************************)
(* Properties.                                                             *)
(***************************************************************************)
\* What the variables hold.
FrameKinds == (DOMAIN Follow \ {"ready", "resumed"}) \cup (LastFrames \ {"unwinding"})
                 \cup {"none", "turn_started", "turn_cancelled", "audio_stop", "end"}
Turns == 0 .. LastTurn

TurnStateOK == activeTurn \in Turns /\ attached \in Turns /\ playback \in Turns
TaskStepsOK == gen \in [Replies -> DOMAIN Follow \cup LastFrames \cup {"none", "cancelled", "done"}]
CallRecord == [
    at : {"idle", "lock", "reap", "told", "stop", "begin", "closing", "ending", "end", "closed"},
    starts : BOOLEAN, turn : Turns, play : Turns, task : Turns]
CallersOK ==
    /\ caller \in [Askers -> CallRecord]
    /\ holder \in Askers \cup {"nobody"} /\ connection \in {"open", "closing", "closed"}
WaitRecord == [state : {"no", "putting", "queued", "sent", "error"}, kind : FrameKinds, turn : Turns]
QueuedFrame == [kind : FrameKinds, turn : Turns, from : Waiters]
WireFrame == [kind : FrameKinds, turn : Turns]
FramesOK ==
    /\ outbox \in [Waiters -> WaitRecord]
    /\ outQueue \in Seq(QueuedFrame) /\ wire \in Seq(WireFrame)
    /\ sender \in {"running", "failed", "ended"} /\ Len(wire) <= MaxWire
BoundsOK == started \in Turns /\ cancels \in 0 .. LastCancel
PageOK ==
    /\ player \in [stream : Turns, state : {"off", "on", "ending", "stopped"}]
    /\ generating \in Turns /\ held \in Turns /\ over \subseteq Replies /\ reports \subseteq Replies

OutputTypeOK == TurnStateOK /\ TaskStepsOK /\ CallersOK /\ FramesOK /\ BoundsOK /\ PageOK

\* Whatever replaces a turn, at whatever await, no task of an earlier turn streams on:
\* a task that is not cancelled is the one the connection would cancel next.
NoOrphanTask == \A t \in Replies : Streams(t) => t = attached /\ t = activeTurn

\* A frame of a reply never reaches the page after the page was told that the turn is
\* over, by its last frame, by turn_cancelled or by the next turn_started.
NoFrameAfterTheEnd ==
    \A j \in DOMAIN wire : Guarded(wire[j]) /\ wire[j].kind # "turn_started" =>
        wire[j].turn \notin over \cup UNION {EndsTurns(wire[i]) : i \in 1 .. j - 1}

\* With nothing under way, page and connection agree on what generates: the page is busy with
\* the active turn and no other, or with none after it was told that the active turn, and no
\* other, waits for a reminder (it is not told when that turn goes on). The connection
\* knows what plays: the next barge-in will stop it. PcmPlayer looks at no stream
\* when a binary frame or a stop arrives: it is always meant for the one that is on.
Quiet ==
    /\ wire = <<>> /\ outQueue = <<>> /\ holder = "nobody" /\ connection = "open" /\ sender = "running"
    /\ \A x \in Waiters : outbox[x] = Nothing

PageAgrees ==
    /\ Quiet => /\ generating = IF held = activeTurn THEN 0 ELSE activeTurn
                /\ Audible => playback = player.stream
    /\ wire # <<>> /\ Audible /\ Head(wire).kind \in {"audio_frame", "audio_end", "audio_stop"}
          => Head(wire).turn = player.stream

\* A connection that begins to close is closed, whoever held the lock and whatever waited
\* for the sender (a write ends or fails: assumed of the server below).
CloseEnds == connection = "closing" ~> connection = "closed"

=============================================================================
