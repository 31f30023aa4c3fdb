---------------------------- MODULE MediaSession ----------------------------
(***************************************************************************)
(* The media of one connection: operations accepted from the page, from a  *)
(* turn or by voice, the tasks that resolve a track and publish commands,  *)
(* the frames on their way to the page, the page's media player and its    *)
(* reports on their way back.                                              *)
(*                                                                         *)
(* Submissions, and the operation, track and task each makes, are numbered *)
(* alike. A step between two awaits is one action; a task first runs after *)
(* the tasks made before it.                                               *)
(***************************************************************************)
EXTENDS Integers, Sequences, FiniteSets

CONSTANTS
    MaxSubmits,     \* bound: operations submitted
    MaxPendingAcks, \* _MAX_PENDING
    MaxEvents       \* bound: interruptions of the player, errors and ends of its track, results overdue

ASSUME MediaAssumption ==
    MaxSubmits \in Nat /\ MaxPendingAcks \in Nat \ {0} /\ MaxEvents \in Nat

VARIABLES
    revision,   \* _revision
    shutting,   \* _closing
    observed,   \* _observation
    job,        \* [Submits -> its task]
    resolver,   \* _resolver_task, 0 for None
    pending,    \* _pending: [request, op] of the commands without a final result
    requests,   \* requests published; the last is _last_command
    submits,    \* operations submitted
    refused,    \* history: what too many pending commands refused: the last operation, the last track
    down,       \* frames on their way to the page
    up,         \* reports on their way to the server
    deck,       \* the page's player
    events      \* interruptions of the player, errors and ends of its track, results overdue

Submits == 1 .. MaxSubmits
mediaSide == <<revision, shutting, observed, job, resolver, pending, requests, submits, refused>>
pageSide == <<deck, events>>
mediaVars == <<mediaSide, down, up, pageSide>>

NoJob == [act |-> "none", step |-> "none", rev |-> 0, op |-> 0]
NoMedia == [act |-> "none", op |-> 0, state |-> "idle", wanted |-> FALSE, track |-> 0, client |-> "null"]

MediaInit ==
    /\ revision = 0 /\ shutting = FALSE /\ observed = NoMedia
    /\ job = [n \in Submits |-> NoJob] /\ resolver = 0
    /\ pending = {} /\ requests = 0 /\ submits = 0 /\ refused = {}
    /\ down = <<>> /\ up = <<>>
    /\ deck = [status |-> "idle", wants |-> FALSE, pending |-> 0, request |-> 0,
               rev |-> -1, track |-> 0, busy |-> FALSE]
    /\ events = 0

Running(n) == job[n].step \notin {"none", "done"}

Current(rev) == ~shutting /\ rev = revision

StatusFrame(rev, obs) == [type |-> "status", rev |-> rev, state |-> obs.state]

(***************************************************************************)
(* submit: pause and resume keep the operation, play and stop begin one    *)
(* and cancel the resolver.                                                *)
(***************************************************************************)
WithoutResolver == [n \in Submits |-> IF n = resolver THEN [job[n] EXCEPT !.step = "done"] ELSE job[n]]

StateOf(act) ==
    CASE act = "play" -> "resolving" [] act = "stop" -> "stopped" [] OTHER -> observed.state

Submit(act) ==
    LET n == submits + 1
        begins == act \in {"play", "stop"}
        op == IF begins \/ observed.op = 0 THEN n ELSE observed.op
        rev == IF begins THEN revision + 1 ELSE revision
        resolving == observed.state = "resolving"
        work == CASE act = "play" -> "play"
                  [] act \in {"pause", "resume"} /\ resolving /\ (act = "resume" \/ observed.track = 0) -> "status"
                  [] OTHER -> act
    IN  /\ ~shutting /\ submits < MaxSubmits
        /\ submits' = n /\ revision' = rev /\ refused' = refused \ {"operation"}
        /\ job' = [(IF begins THEN WithoutResolver ELSE job) EXCEPT
                ![n] = [act |-> work, step |-> "new", rev |-> rev, op |-> op]]
        /\ resolver' = CASE act = "play" -> n [] act = "stop" -> 0 [] OTHER -> resolver
        /\ observed' = [observed EXCEPT !.act = act, !.op = op, !.wanted = act \in {"play", "resume"},
                                       !.state = StateOf(act)]
        /\ UNCHANGED <<shutting, pending, requests, down, up, pageSide>>

(***************************************************************************)
(* publish_control for the current revision: a request waits for its       *)
(* result, the last one published is the one whose reports count.          *)
(***************************************************************************)
\* obs is the observation the command is published with
Publish(act, track, rev, obs, autoplay) ==
    /\ requests' = requests + 1
    /\ pending' = pending \cup {[request |-> requests', op |-> obs.op]}
    /\ observed' = [obs EXCEPT !.act = act, !.client = "null",
                               !.track = IF track = 0 THEN @ ELSE track]
    /\ down' = Append(down, [type |-> "control", rev |-> rev, request |-> requests', act |-> act,
                             track |-> track, autoplay |-> autoplay])

Step(n, step) == job' = [job EXCEPT ![n].step = step]

\* _fail: the state, the error; the status follows when the error is sent. A track that
\* was resolved and cannot be announced stays in the observation
Fails(n, track) ==
    /\ Step(n, "failed")
    /\ observed' = [observed EXCEPT !.state = "failed", !.track = IF track = 0 THEN @ ELSE track,
                                   !.client = IF track = 0 THEN @ ELSE "null"]
    /\ down' = Append(down, [type |-> "error", rev |-> job[n].rev])
    /\ UNCHANGED <<pending, requests>>

\* mutant: the last track resolved plays, whatever is wanted now
Autoplay_always == TRUE

Autoplay == observed.wanted

\* mutant: one command too many
CanPublish_one_more == Cardinality(pending) <= MaxPendingAcks

CanPublish == Cardinality(pending) < MaxPendingAcks

\* a command that is announced makes up for the ones refused before it
Refuses(n, track) ==
    refused' = CASE job'[n].step = "failed" -> refused \cup {"operation"} \cup track
                 [] job'[n].step = "told" -> refused \ ({"operation"} \cup track)
                 [] OTHER -> refused

\* the first step of a task
Begin(n) ==
    LET obs == observed
        j == job[n]
    IN  /\ j.step = "new" /\ \A m \in 1 .. n - 1 : job[m].step # "new"
        /\ \/ /\ j.act \in {"play", "status"}
              /\ Step(n, IF j.act = "play" THEN "asked" ELSE "done")
              /\ down' = IF Current(j.rev) THEN Append(down, StatusFrame(j.rev, obs)) ELSE down
              /\ UNCHANGED <<observed, pending, requests>>
           \/ /\ j.act \notin {"play", "status"}
              /\ IF ~Current(j.rev) THEN Step(n, "done") /\ UNCHANGED <<observed, pending, requests, down>>
                 ELSE IF CanPublish
                 THEN Publish(j.act, 0, j.rev, obs, TRUE) /\ Step(n, "told")
                 ELSE Fails(n, 0)
        /\ Refuses(n, {})
        /\ UNCHANGED <<revision, shutting, resolver, submits, up, pageSide>>

\* the source answers in time; an answer to an operation replaced meanwhile is dropped
TrackResolved(n) ==
    /\ job[n].act = "play" /\ job[n].step = "asked"
    /\ IF ~Current(job[n].rev) THEN Step(n, "done") /\ UNCHANGED <<observed, pending, requests, down>>
       ELSE IF CanPublish
       THEN /\ Publish("play", n, job[n].rev, [observed EXCEPT !.state = "ready"], Autoplay)
            /\ Step(n, "told")
       ELSE Fails(n, n)
    /\ resolver' = IF resolver = n /\ job'[n].step = "done" THEN 0 ELSE resolver
    /\ Refuses(n, {"track"})
    /\ UNCHANGED <<revision, shutting, submits, up, pageSide>>

\* no track, an error of the source or the timeout
ResolveFails(n) ==
    /\ job[n].act = "play" /\ job[n].step = "asked"
    /\ IF Current(job[n].rev) THEN Fails(n, 0)
       ELSE Step(n, "done") /\ UNCHANGED <<observed, pending, requests, down>>
    /\ resolver' = IF resolver = n /\ job'[n].step = "done" THEN 0 ELSE resolver
    /\ UNCHANGED <<revision, shutting, submits, refused, up, pageSide>>

\* the command or the error has been sent: the status, and the task ends
TaskEnds(n) ==
    /\ job[n].step \in {"told", "failed"}
    /\ Step(n, "done")
    /\ resolver' = IF resolver = n THEN 0 ELSE resolver
    /\ down' = IF Current(job[n].rev) THEN Append(down, StatusFrame(job[n].rev, observed)) ELSE down
    /\ UNCHANGED <<revision, shutting, observed, pending, requests, submits, refused, up, pageSide>>

(***************************************************************************)
(* Reports of the page.                                                    *)
(***************************************************************************)
Applied(status, op) == [observed EXCEPT !.client = status,
    !.state = IF @ = "resolving" \/ op # observed.op THEN @
              ELSE CASE status \in {"playing", "ended", "stopped"} -> "completed"
                     [] status \in {"failed", "no_track"} -> "failed"
                     [] OTHER -> @]

\* mutant: reports of earlier commands count too
IsLast_any(request) == TRUE

IsLast(request) == request = requests /\ requests # 0

Report ==
    LET e == Head(up)
        waiting == {p \in pending : p.request = e.request}
    IN  /\ up # <<>> /\ ~shutting
        /\ up' = Tail(up)
        /\ \/ /\ e.type = "result"
              /\ pending' = IF e.status = "waiting" THEN pending ELSE pending \ waiting
              /\ observed' = IF waiting # {} /\ IsLast(e.request)
                    THEN Applied(e.status, (CHOOSE p \in waiting : TRUE).op) ELSE observed
           \/ /\ e.type = "state"
              /\ observed' = IF IsLast(e.request) THEN Applied(e.status, observed.op) ELSE observed
              /\ UNCHANGED pending
        /\ UNCHANGED <<revision, shutting, job, resolver, requests, submits, refused, down, pageSide>>

\* a result that has not come in _ACK_SECONDS is waited for no more; the next command prunes it
AckExpires ==
    /\ events < MaxEvents /\ events' = events + 1
    /\ \E p \in pending : pending' = pending \ {p}
    /\ UNCHANGED <<revision, shutting, observed, job, resolver, requests, submits, refused, down, up, deck>>

CloseMedia ==
    /\ ~shutting /\ shutting' = TRUE
    /\ revision' = revision + 1 /\ resolver' = 0 /\ pending' = {} /\ observed' = NoMedia
    /\ job' = [n \in Submits |-> IF Running(n) THEN [job[n] EXCEPT !.step = "done"] ELSE job[n]]
    /\ UNCHANGED <<requests, submits, refused, down, up, pageSide>>

(***************************************************************************)
(* The player of the page: what an event makes of it, and the reports.     *)
(***************************************************************************)
Same(d) == [deck |-> d, out |-> <<>>]
Reply(r, v) == IF r.deck.pending = 0 THEN r ELSE
    [deck |-> IF v = "waiting" THEN r.deck ELSE [r.deck EXCEPT !.pending = 0],
     out |-> Append(r.out, [type |-> "result", request |-> r.deck.pending, status |-> v])]
ReportState(r, v) == IF r.deck.request = 0 THEN r ELSE
    [r EXCEPT !.out = Append(@, [type |-> "state", request |-> r.deck.request, status |-> v])]
Show(r, v) == [r EXCEPT !.deck.status = v]
Unwanted(r) == [r EXCEPT !.deck.wants = FALSE]

Interrupt(r) ==
    CASE r.deck.status \notin {"playing", "loading"} -> r
      [] r.deck.status = "loading" /\ r.deck.pending # 0 /\ r.deck.wants -> Show(Reply(r, "waiting"), "waiting")
      [] OTHER -> Show(ReportState(Reply(Unwanted(r), "paused"), "paused"), "paused")

Pump(r) == IF r.deck.wants /\ r.deck.track # 0 /\ ~r.deck.busy /\ r.deck.pending # 0
           THEN Show(r, "loading") ELSE r

\* handle: a command that is not older than the last
Handle(f) ==
    LET r == Reply(Same([deck EXCEPT !.rev = f.rev]), "paused")
        now == [r EXCEPT !.deck.pending = f.request, !.deck.request = f.request]
        go(x) == IF x.deck.busy THEN Show(Reply(x, "waiting"), "waiting") ELSE Pump(x)
    IN  CASE f.act = "play" ->
              LET loaded == [now EXCEPT !.deck.track = f.track, !.deck.wants = f.autoplay]
              IN  IF f.autoplay THEN go(loaded) ELSE Show(Reply(loaded, "paused"), "paused")
          [] f.act = "pause" -> IF deck.track = 0 THEN Show(Reply(Unwanted(now), "no_track"), "idle")
                                ELSE Show(Reply(Unwanted(now), "paused"), "paused")
          [] f.act = "stop" -> Show(Reply(Unwanted(now), "stopped"), "stopped")
          [] f.act = "resume" -> IF deck.track = 0 THEN Show(Reply(now, "no_track"), "idle")
                                 ELSE go([now EXCEPT !.deck.wants = TRUE])

\* operation: a status that is not older
Operation(f) ==
    LET r == Same([deck EXCEPT !.rev = f.rev])
        silenced == IF f.rev > deck.rev THEN ReportState(Reply(Unwanted(r), "paused"), "paused") ELSE r
    IN  CASE f.state = "resolving" -> Show(Interrupt(silenced), "resolving")
          [] f.state = "failed" -> Show(Interrupt(r), "failed")
          [] OTHER -> r

Old(f) == f.rev < deck.rev

Becomes(r) == deck' = r.deck /\ up' = up \o r.out

PageReceives ==
    LET f == Head(down)
    IN  /\ down # <<>> /\ down' = Tail(down)
        /\ IF Old(f) THEN UNCHANGED <<deck, up>>
           ELSE Becomes(CASE f.type = "control" -> Handle(f)
                          [] f.type = "status" -> Operation(f)
                          [] f.type = "error" -> Show(Interrupt(Same([deck EXCEPT !.rev = f.rev])), "failed"))
        /\ UNCHANGED <<mediaSide, events>>

AudioPlays ==
    /\ deck.status = "loading"
    /\ Becomes(ReportState(Reply(Show(Same(deck), "playing"), "playing"), "playing"))
    /\ UNCHANGED <<mediaSide, down, events>>

AudioStops ==
    /\ deck.status \in {"loading", "playing"} /\ events < MaxEvents
    /\ events' = events + 1
    /\ \/ Becomes(Show(ReportState(Reply(Unwanted(Same(deck)), "failed"), "failed"), "failed"))
       \/ /\ deck.status = "playing"
          /\ Becomes(Show(ReportState(Unwanted(Same(deck)), "ended"), "ended"))
    /\ UNCHANGED <<mediaSide, down>>

\* chat audio, the user speaking or a reminder begins or ends
SetBusy ==
    /\ \/ /\ ~deck.busy /\ events < MaxEvents /\ events' = events + 1
          /\ Becomes(Interrupt(Same([deck EXCEPT !.busy = TRUE])))
       \/ /\ deck.busy /\ UNCHANGED events
          /\ Becomes(Pump(Same([deck EXCEPT !.busy = FALSE])))
    /\ UNCHANGED <<mediaSide, down>>

MediaNext ==
    \/ \E act \in {"play", "pause", "resume", "stop"} : Submit(act)
    \/ \E n \in Submits : Begin(n) \/ TrackResolved(n) \/ ResolveFails(n) \/ TaskEnds(n)
    \/ Report \/ AckExpires \/ CloseMedia \/ PageReceives \/ AudioPlays \/ AudioStops \/ SetBusy

MediaSpec == MediaInit /\ [][MediaNext]_mediaVars

(***************************************************************************)
(* Properties.                                                             *)
(***************************************************************************)
MediaActs == {"play", "pause", "resume", "stop"}
MediaStates == {"idle", "resolving", "ready", "stopped", "failed", "completed"}
PlayerStates == {"waiting", "playing", "paused", "stopped", "ended", "failed", "no_track"}

Jobs == [act : MediaActs \cup {"none", "status"}, rev : Nat, op : 0 .. MaxSubmits,
         step : {"none", "new", "asked", "told", "failed", "done"}]
Observations == [act : MediaActs \cup {"none"}, op : 0 .. MaxSubmits, state : MediaStates, wanted : BOOLEAN,
                 track : 0 .. MaxSubmits, client : PlayerStates \cup {"null"}]
Commands == [request : Nat \ {0}, op : 0 .. MaxSubmits]
ControlFrames == [type : {"control"}, rev : Nat, request : Nat \ {0}, act : MediaActs,
                  track : 0 .. MaxSubmits, autoplay : BOOLEAN]
StatusFrames == [type : {"status"}, rev : Nat, state : MediaStates]
ErrorFrames == [type : {"error"}, rev : Nat]
Frames == ControlFrames \cup StatusFrames \cup ErrorFrames
Reports == [type : {"result", "state"}, request : Nat \ {0}, status : PlayerStates]
Decks == [status : (PlayerStates \ {"no_track"}) \cup {"idle", "loading", "resolving"},
          wants : BOOLEAN, pending : Nat, request : Nat, rev : Nat \cup {-1},
          track : 0 .. MaxSubmits, busy : BOOLEAN]

SessionOK ==
    /\ revision \in Nat /\ shutting \in BOOLEAN
    /\ observed \in Observations /\ job \in [Submits -> Jobs]
    /\ resolver \in 0 .. MaxSubmits /\ submits \in 0 .. MaxSubmits /\ requests \in Nat
    /\ refused \subseteq {"operation", "track"}

\* no more commands wait for a result than _MAX_PENDING
PendingOK ==
    pending \subseteq Commands /\ IsFiniteSet(pending) /\ Cardinality(pending) <= MaxPendingAcks

PlayerOK == down \in Seq(Frames) /\ up \in Seq(Reports) /\ deck \in Decks /\ events \in 0 .. MaxEvents

\* What the variables hold.
MediaTypeOK == SessionOK /\ PendingOK /\ PlayerOK

Settled == ~shutting /\ down = <<>> /\ up = <<>> /\ \A n \in Submits : ~Running(n)

\* With nothing under way, nothing plays after the user paused or stopped it, and what
\* plays is the track the session last prepared, unless too many commands were waiting for
\* their result to announce it: such an operation is told to the user as an error and
\* changes nothing on the page, but the session keeps the track (_resolve).
SilentWhenUnwanted ==
    Settled /\ "operation" \notin refused /\ deck.status = "playing" =>
        observed.wanted /\ ("track" \notin refused => deck.track = observed.track)

\* With nothing under way, what the session takes the page to do (whether speech is kept
\* out of the chat depends on it) is what the page does, and no operation is left shown as
\* resolving by whatever replaced, cancelled or failed its resolution.
ClientIsKnown ==
    Settled => /\ observed.state # "resolving"
               /\ (observed.client = "playing") = (deck.status = "playing")

=============================================================================
