------------------------- MODULE MediaSessionProofs -------------------------
(***************************************************************************)
(* Proofs about MediaSession: the inductive invariant that relates the     *)
(* tasks of the session, the frames and reports under way and the player   *)
(* of the page, and what follows of it for any number of operations, any   *)
(* bound of pending commands and any number of interruptions.              *)
(***************************************************************************)
EXTENDS MediaSession, FiniteSetTheorems, TLAPS

Control(f) == f.type = "control"
Play(f) == Control(f) /\ f.act = "play"
Silencing(f) == f.act \in {"pause", "stop"} \/ (f.act = "play" /\ f.autoplay = FALSE)

\* Frames reach the page in the order of the revisions they were sent for: from that of the
\* last it took to that of the session.
FramesInOrder(s, low, high) ==
    /\ low <= high
    /\ \A i \in DOMAIN s : low <= s[i].rev /\ s[i].rev <= high
    /\ \A i, j \in DOMAIN s : i < j => s[i].rev <= s[j].rev

FrameOrder == FramesInOrder(down, deck.rev, revision)

\* So do commands, and the page has taken the last command or it is under way.
CommandsInOrder(s, low, high) ==
    /\ low <= high
    /\ \A i \in DOMAIN s : Control(s[i]) => low < s[i].request /\ s[i].request <= high
    /\ \A i, j \in DOMAIN s : i < j /\ Control(s[i]) /\ Control(s[j]) => s[i].request < s[j].request
    /\ low # high => \E i \in DOMAIN s : Control(s[i]) /\ s[i].request = high

CommandOrder == CommandsInOrder(down, deck.request, requests) /\ deck.pending \in {0, deck.request}

\* Tracks are numbered by the operations that asked for them: the page gets them in order,
\* and the one the session holds is the last, unless it was refused.
TracksInOrder(s, low) ==
    /\ \A i \in DOMAIN s : Play(s[i]) => low < s[i].track
    /\ \A i, j \in DOMAIN s : i < j /\ Play(s[i]) /\ Play(s[j]) => s[i].track < s[j].track

TracksKnown(s, low, last, lost) ==
    /\ low <= last
    /\ \A i \in DOMAIN s : Play(s[i]) => s[i].track <= last
    /\ "track" \notin lost /\ low # last => \E i \in DOMAIN s : Play(s[i]) /\ s[i].track = last

TrackOrder ==
    /\ TracksInOrder(down, deck.track)
    /\ ~shutting => TracksKnown(down, deck.track, observed.track, refused) /\ observed.track <= submits

Pursued(n) == job[n].act = "play" /\ job[n].step \in {"new", "asked"} /\ job[n].rev = revision

\* The tasks: those that still have to begin do so before the last one; an operation shown
\* as resolving has its resolver; a resolution that goes on is the only one of its revision.
TaskOrder ==
    /\ \A n \in Submits : job[n].rev <= revision /\ (n > submits <=> job[n].step = "none")
    /\ \A n \in Submits : job[n].step = "new" => job[n].act # "none"
    /\ \A n \in Submits : job[n].step = "asked" => job[n].act = "play"
    /\ resolver <= submits
    /\ ~shutting =>
          /\ submits # 0 => job[submits].rev = revision
          /\ submits = 0 => requests = 0 /\ observed = NoMedia
          /\ submits # 0 /\ job[submits].step # "new" => \A n \in Submits : job[n].step # "new"
          /\ observed.state = "resolving" => \E n \in Submits : Pursued(n)
          /\ \A n, m \in Submits : Pursued(n) /\ Pursued(m) => n = m
          /\ \A n \in Submits : Pursued(n) => observed.track < n

\* What was submitted last says what is wanted; a resume is carried out for its revision
\* only if nothing was being resolved.
WishShape ==
    ~shutting =>
        /\ observed.wanted = FALSE /\ submits # 0 => job[submits].act \in {"pause", "stop", "status"}
        /\ observed.state = "resolving" \/ (submits # 0 /\ job[submits].act = "status") =>
              \A n \in Submits : job[n].rev = revision => job[n].act # "resume"

\* What loads or plays is wanted by the page, and was asked for by a command.
DeckShape ==
    /\ deck.status \in {"loading", "playing"} =>
          deck.wants = TRUE /\ deck.track # 0 /\ deck.request # 0
    /\ deck.status = "playing" => deck.pending = 0

\* What is not wanted is going to be silent: a task will say so, no track was ever
\* announced, or the last command says so, on its way or taken.
LastSilences(s, d, last) ==
    /\ \A i \in DOMAIN s : Control(s[i]) /\ s[i].request = last => Silencing(s[i])
    /\ d.request = last => d.wants = FALSE

SilenceShape ==
    ~shutting /\ "operation" \notin refused /\ observed.wanted = FALSE =>
        \/ submits # 0 /\ job[submits].step = "new" /\ job[submits].act \in {"pause", "stop"}
        \/ observed.track = 0
        \/ LastSilences(down, deck, requests)

\* Where the result of a pending command is: with the page or on its way.
Located(request, d, s, u) ==
    \/ request = d.pending
    \/ \E i \in DOMAIN s : Control(s[i]) /\ s[i].request = request
    \/ \E i \in DOMAIN u : u[i].type = "result" /\ u[i].request = request /\ u[i].status # "waiting"

PendingShape == ~shutting => \A p \in pending : Located(p.request, deck, down, up)

TellsPlaying(e, last) == e.type = "state" /\ e.request = last /\ e.status = "playing"
TellsSilence(e, last) == e.type = "state" /\ e.request = last /\ e.status # "playing"

\* Reports are about commands the page has taken, and none says that one plays which still
\* waits for its result.
ReportsTrue(d, u) ==
    /\ \A i \in DOMAIN u : u[i].request <= d.request
    /\ d.pending # 0 => \A i \in DOMAIN u : u[i].request = d.pending => u[i].status # "playing"

\* The session knows whether the page plays, or a report that says it is on its way, behind
\* all reports that say something else.
ReportsAgree(d, u, last, client) ==
    /\ d.request # last \/ d.pending # 0 => client # "playing"
    /\ d.request = last /\ d.status = "playing" =>
          /\ client # "playing" => \E j \in DOMAIN u : TellsPlaying(u[j], last)
          /\ \A i \in DOMAIN u : u[i].type = "result" \/ TellsSilence(u[i], last) =>
                \E j \in DOMAIN u : i < j /\ TellsPlaying(u[j], last)
    /\ d.request = last /\ d.status # "playing" =>
          /\ client = "playing" => \E j \in DOMAIN u : TellsSilence(u[j], last)
          /\ \A i \in DOMAIN u : u[i].request = last /\ u[i].status = "playing" =>
                \E j \in DOMAIN u : i < j /\ TellsSilence(u[j], last)

ReportShape == ReportsTrue(deck, up) /\ (~shutting => ReportsAgree(deck, up, requests, observed.client))

MediaInv ==
    /\ MediaTypeOK /\ FrameOrder /\ CommandOrder /\ TrackOrder /\ TaskOrder /\ WishShape
    /\ DeckShape /\ SilenceShape /\ PendingShape /\ ReportShape
(***************************************************************************)
(* The player of the page. What it makes of an event is put together from  *)
(* replies, reports of its state and changes of what it shows.             *)
(***************************************************************************)
Outcomes == [deck : Decks, out : Seq(Reports)]

\* r is what the player has made of an event so far: the command is the same, and one that
\* waited for its result has it.
Telling(r) ==
    /\ r \in Outcomes
    /\ r.deck.request = deck.request /\ r.deck.pending \in {deck.pending, 0}
    /\ r.deck.track = deck.track /\ (r.deck.wants = TRUE => deck.wants = TRUE)
    /\ \A i \in DOMAIN r.out : r.out[i].request = deck.request
    /\ deck.pending # 0 /\ r.deck.pending = 0 =>
          \E i \in DOMAIN r.out : r.out[i].type = "result" /\ r.out[i].status # "waiting"

Hushed(r) == \A i \in DOMAIN r.out : r.out[i].status # "playing"

Closes(r, v) ==
    r.out # <<>> /\ r.out[Len(r.out)].type = "state" /\ r.out[Len(r.out)].status = v

\* What reply, reportState, show and the end of the wish to play change.
LEMMA PlayerParts ==
    ASSUME NEW r \in Outcomes, NEW v \in PlayerStates, NEW w \in (PlayerStates \ {"no_track"}) \cup {"idle", "loading", "resolving"}
    PROVE  /\ Reply(r, v) \in Outcomes
           /\ r.deck.pending = 0 => Reply(r, v) = r
           /\ r.deck.pending # 0 =>
                 /\ Reply(r, v).out = Append(r.out, [type |-> "result", request |-> r.deck.pending, status |-> v])
                 /\ Reply(r, v).deck = IF v = "waiting" THEN r.deck ELSE [r.deck EXCEPT !.pending = 0]
           /\ ReportState(r, v) \in Outcomes /\ ReportState(r, v).deck = r.deck
           /\ ReportState(r, v).out = IF r.deck.request = 0 THEN r.out ELSE
                 Append(r.out, [type |-> "state", request |-> r.deck.request, status |-> v])
           /\ Show(r, w) \in Outcomes /\ Show(r, w).out = r.out /\ Show(r, w).deck = [r.deck EXCEPT !.status = w]
           /\ Unwanted(r) \in Outcomes /\ Unwanted(r).out = r.out
           /\ Unwanted(r).deck = [r.deck EXCEPT !.wants = FALSE]
<1>0. r.deck \in Decks /\ r.out \in Seq(Reports) /\ r = [deck |-> r.deck, out |-> r.out]
    BY DEF Outcomes
<1>1. /\ [r.deck EXCEPT !.status = w] \in Decks /\ [r.deck EXCEPT !.wants = FALSE] \in Decks
      /\ [r.deck EXCEPT !.pending = 0] \in Decks
    BY <1>0 DEF Decks
<1>2. Show(r, w) = [deck |-> [r.deck EXCEPT !.status = w], out |-> r.out]
    BY <1>0 DEF Show, Outcomes
<1>3. Unwanted(r) = [deck |-> [r.deck EXCEPT !.wants = FALSE], out |-> r.out]
  <2>1. ASSUME NEW b PROVE [r EXCEPT !.deck.wants = b] = [deck |-> [r.deck EXCEPT !.wants = b], out |-> r.out]
      BY <1>0 DEF Outcomes
  <2>. QED
      BY <2>1, Zenon DEF Unwanted
<1>4. r.deck.pending # 0 =>
          /\ Reply(r, v) \in Outcomes
          /\ Reply(r, v).out = Append(r.out, [type |-> "result", request |-> r.deck.pending, status |-> v])
          /\ Reply(r, v).deck = IF v = "waiting" THEN r.deck ELSE [r.deck EXCEPT !.pending = 0]
  <2> SUFFICES ASSUME r.deck.pending # 0
               PROVE  /\ Reply(r, v) \in Outcomes
                      /\ Reply(r, v).out = Append(r.out, [type |-> "result", request |-> r.deck.pending, status |-> v])
                      /\ Reply(r, v).deck = IF v = "waiting" THEN r.deck ELSE [r.deck EXCEPT !.pending = 0]
      OBVIOUS
  <2>1. [type |-> "result", request |-> r.deck.pending, status |-> v] \in Reports
      BY <1>0 DEF Decks, Reports
  <2>2. Reply(r, v) = [deck |-> IF v = "waiting" THEN r.deck ELSE [r.deck EXCEPT !.pending = 0],
                       out |-> Append(r.out, [type |-> "result", request |-> r.deck.pending, status |-> v])]
      BY DEF Reply
  <2>. QED
      BY <1>0, <1>1, <2>1, <2>2 DEF Outcomes
<1>5. r.deck.pending = 0 => Reply(r, v) = r
    BY DEF Reply
<1>6. /\ ReportState(r, v) \in Outcomes /\ ReportState(r, v).deck = r.deck
      /\ ReportState(r, v).out = IF r.deck.request = 0 THEN r.out ELSE
            Append(r.out, [type |-> "state", request |-> r.deck.request, status |-> v])
  <2>1. CASE r.deck.request = 0
      BY <2>1 DEF ReportState
  <2>2. CASE r.deck.request # 0
    <3>1. [type |-> "state", request |-> r.deck.request, status |-> v] \in Reports
        BY <1>0, <2>2 DEF Decks, Reports
    <3>2. ReportState(r, v) = [deck |-> r.deck,
                               out |-> Append(r.out, [type |-> "state", request |-> r.deck.request, status |-> v])]
        BY <1>0, <2>2 DEF ReportState, Outcomes
    <3>. QED
        BY <1>0, <2>2, <3>1, <3>2 DEF Outcomes
  <2>. QED
      BY <2>1, <2>2
<1>7. Show(r, w) \in Outcomes /\ Unwanted(r) \in Outcomes
    BY <1>0, <1>1, <1>2, <1>3 DEF Outcomes
<1>. QED
    BY <1>2, <1>3, <1>4, <1>5, <1>6, <1>7

\* A report appended to those before it.
LEMMA Appended ==
    ASSUME NEW S, NEW s \in Seq(S), NEW e \in S
    PROVE  /\ Append(s, e) \in Seq(S) /\ Append(s, e) # <<>>
           /\ Len(Append(s, e)) \in DOMAIN Append(s, e) /\ Append(s, e)[Len(Append(s, e))] = e
           /\ \A i \in DOMAIN s : i \in DOMAIN Append(s, e) /\ Append(s, e)[i] = s[i] /\ i < Len(Append(s, e))
           /\ \A i \in DOMAIN Append(s, e) : (i \in DOMAIN s /\ Append(s, e)[i] = s[i]) \/ Append(s, e)[i] = e
OBVIOUS

\* Each part keeps what Telling says, and what is told is silence if the part tells silence.
LEMMA TellingParts ==
    ASSUME NEW r, Telling(r), deck \in Decks, deck.pending \in {0, deck.request}, NEW v \in PlayerStates,
           NEW w \in (PlayerStates \ {"no_track"}) \cup {"idle", "loading", "resolving"}
    PROVE  /\ Telling(Reply(r, v)) /\ Telling(ReportState(r, v)) /\ Telling(Show(r, w)) /\ Telling(Unwanted(r))
           /\ Hushed(r) /\ v # "playing" => Hushed(Reply(r, v)) /\ Hushed(ReportState(r, v))
           /\ Hushed(r) => Hushed(Show(r, w)) /\ Hushed(Unwanted(r))
           /\ deck.request # 0 => Closes(ReportState(r, v), v)
<1>0. r \in Outcomes /\ r.deck \in Decks /\ r.out \in Seq(Reports)
    BY DEF Telling, Outcomes
<1>1. Telling(Reply(r, v)) /\ (Hushed(r) /\ v # "playing" => Hushed(Reply(r, v)))
  <2>1. CASE r.deck.pending = 0
      BY <1>0, <2>1, PlayerParts
  <2>2. CASE r.deck.pending # 0
    <3> DEFINE e == [type |-> "result", request |-> r.deck.pending, status |-> v]
    <3>0. r.deck.pending = deck.request /\ e \in Reports
        BY <1>0, <2>2 DEF Telling, Decks, Reports
    <3>1. Reply(r, v).out = Append(r.out, e)
        BY <1>0, <2>2, PlayerParts
    <3>2. \A i \in DOMAIN Append(r.out, e) : (i \in DOMAIN r.out /\ Append(r.out, e)[i] = r.out[i]) \/ Append(r.out, e)[i] = e
        BY <1>0, <3>0, Appended
    <3>3. /\ \A i \in DOMAIN r.out : i \in DOMAIN Append(r.out, e) /\ Append(r.out, e)[i] = r.out[i]
          /\ Len(Append(r.out, e)) \in DOMAIN Append(r.out, e) /\ Append(r.out, e)[Len(Append(r.out, e))] = e
        BY <1>0, <3>0, Appended
    <3>4. /\ Reply(r, v).deck = IF v = "waiting" THEN r.deck ELSE [r.deck EXCEPT !.pending = 0]
          /\ Reply(r, v) \in Outcomes
        BY <1>0, <2>2, PlayerParts
    <3>5. /\ Reply(r, v).deck.request = deck.request /\ Reply(r, v).deck.pending \in {deck.pending, 0}
          /\ Reply(r, v).deck.track = deck.track /\ (Reply(r, v).deck.wants = TRUE => deck.wants = TRUE)
          /\ v = "waiting" => Reply(r, v).deck.pending = r.deck.pending
        BY <1>0, <3>4 DEF Telling, Decks
    <3> HIDE DEF e
    <3>6. e.type = "result" /\ e.request = deck.request /\ e.status = v
        BY <3>0 DEF e
    <3>7. \A i \in DOMAIN Reply(r, v).out : Reply(r, v).out[i].request = deck.request
        BY <3>1, <3>2, <3>6 DEF Telling
    <3>8. deck.pending # 0 /\ Reply(r, v).deck.pending = 0 =>
              \E i \in DOMAIN Reply(r, v).out : Reply(r, v).out[i].type = "result" /\ Reply(r, v).out[i].status # "waiting"
        BY <2>2, <3>1, <3>3, <3>5, <3>6
    <3>9. Hushed(r) /\ v # "playing" => Hushed(Reply(r, v))
        BY <3>1, <3>2, <3>6 DEF Hushed
    <3>. QED
        BY <3>4, <3>5, <3>7, <3>8, <3>9 DEF Telling
  <2>. QED
      BY <2>1, <2>2
<1>2. /\ Telling(ReportState(r, v)) /\ (Hushed(r) /\ v # "playing" => Hushed(ReportState(r, v)))
      /\ deck.request # 0 => Closes(ReportState(r, v), v)
  <2>1. CASE r.deck.request = 0
    <3>1. ReportState(r, v).out = r.out /\ ReportState(r, v).deck = r.deck /\ ReportState(r, v) \in Outcomes
        BY <1>0, <2>1, PlayerParts
    <3>. QED
        BY <2>1, <3>1 DEF Telling, Hushed
  <2>2. CASE r.deck.request # 0
    <3> DEFINE e == [type |-> "state", request |-> r.deck.request, status |-> v]
    <3>0. r.deck.request = deck.request /\ e \in Reports
        BY <1>0, <2>2 DEF Telling, Decks, Reports
    <3>1. ReportState(r, v).out = Append(r.out, e) /\ ReportState(r, v).deck = r.deck /\ ReportState(r, v) \in Outcomes
        BY <1>0, <2>2, PlayerParts
    <3>2. \A i \in DOMAIN Append(r.out, e) : (i \in DOMAIN r.out /\ Append(r.out, e)[i] = r.out[i]) \/ Append(r.out, e)[i] = e
        BY <1>0, <3>0, Appended
    <3>3. /\ \A i \in DOMAIN r.out : i \in DOMAIN Append(r.out, e) /\ Append(r.out, e)[i] = r.out[i]
          /\ Append(r.out, e) # <<>> /\ Append(r.out, e)[Len(Append(r.out, e))] = e
        BY <1>0, <3>0, Appended
    <3> HIDE DEF e
    <3>6. e.type = "state" /\ e.request = deck.request /\ e.status = v
        BY <3>0 DEF e
    <3>. QED
        BY <3>1, <3>2, <3>3, <3>6 DEF Telling, Hushed, Closes
  <2>. QED
      BY <2>1, <2>2
<1>3. Telling(Show(r, w)) /\ Telling(Unwanted(r)) /\ (Hushed(r) => Hushed(Show(r, w)) /\ Hushed(Unwanted(r)))
  <2>1. /\ Show(r, w) \in Outcomes /\ Show(r, w).out = r.out /\ Show(r, w).deck = [r.deck EXCEPT !.status = w]
        /\ Unwanted(r) \in Outcomes /\ Unwanted(r).out = r.out /\ Unwanted(r).deck = [r.deck EXCEPT !.wants = FALSE]
      BY <1>0, PlayerParts
  <2>2. /\ Show(r, w).deck.request = r.deck.request /\ Show(r, w).deck.pending = r.deck.pending
        /\ Show(r, w).deck.track = r.deck.track /\ Show(r, w).deck.wants = r.deck.wants
        /\ Unwanted(r).deck.request = r.deck.request /\ Unwanted(r).deck.pending = r.deck.pending
        /\ Unwanted(r).deck.track = r.deck.track /\ Unwanted(r).deck.wants = FALSE
      BY <1>0, <2>1 DEF Decks
  <2>. QED
      BY <2>1, <2>2 DEF Telling, Hushed
<1>. QED
    BY <1>1, <1>2, <1>3
Shown == (PlayerStates \ {"no_track"}) \cup {"idle", "loading", "resolving"}

\* The fields of a player that differ in one of them.
LEMMA DeckFields ==
    ASSUME NEW d \in Decks, NEW w, NEW b
    PROVE  /\ LET e == [d EXCEPT !.status = w] IN
              /\ e.status = w /\ e.wants = d.wants /\ e.request = d.request /\ e.rev = d.rev
              /\ e.track = d.track /\ e.busy = d.busy /\ e.pending = d.pending
           /\ LET e == [d EXCEPT !.wants = b] IN
              /\ e.status = d.status /\ e.wants = b /\ e.request = d.request /\ e.rev = d.rev
              /\ e.track = d.track /\ e.busy = d.busy /\ e.pending = d.pending
           /\ LET e == [d EXCEPT !.pending = 0] IN
              /\ e.status = d.status /\ e.wants = d.wants /\ e.request = d.request /\ e.rev = d.rev
              /\ e.track = d.track /\ e.busy = d.busy /\ e.pending = 0
BY DEF Decks

\* reply tells the result of the command that waits for one.
LEMMA ReplyTells ==
    ASSUME NEW r, Telling(r), deck \in Decks, deck.pending \in {0, deck.request}, NEW v \in PlayerStates
    PROVE  /\ Telling(Reply(r, v)) /\ Reply(r, v) \in Outcomes
           /\ Hushed(r) /\ v # "playing" => Hushed(Reply(r, v))
           /\ LET d == Reply(r, v).deck IN
              /\ d.status = r.deck.status /\ d.wants = r.deck.wants /\ d.request = r.deck.request
              /\ d.rev = r.deck.rev /\ d.track = r.deck.track /\ d.busy = r.deck.busy
              /\ d.pending = IF v = "waiting" THEN r.deck.pending ELSE 0
<1>0. r \in Outcomes /\ r.deck \in Decks /\ "idle" \in Shown
    BY DEF Telling, Outcomes, Shown
<1>1. Telling(Reply(r, v)) /\ (Hushed(r) /\ v # "playing" => Hushed(Reply(r, v)))
    BY <1>0, TellingParts DEF Shown
<1>2. /\ Reply(r, v) \in Outcomes /\ (r.deck.pending = 0 => Reply(r, v) = r)
      /\ r.deck.pending # 0 => Reply(r, v).deck = IF v = "waiting" THEN r.deck ELSE [r.deck EXCEPT !.pending = 0]
    BY <1>0, PlayerParts DEF Shown
<1>3. CASE r.deck.pending = 0
    BY <1>1, <1>2, <1>3
<1>4. CASE r.deck.pending # 0 /\ v = "waiting"
    BY <1>1, <1>2, <1>4
<1>5. CASE r.deck.pending # 0 /\ v # "waiting"
  <2>1. Reply(r, v).deck = [r.deck EXCEPT !.pending = 0]
      BY <1>2, <1>5
  <2>. QED
      BY <1>0, <1>1, <1>2, <1>5, <2>1, DeckFields
<1>. QED
    BY <1>3, <1>4, <1>5

\* reportState tells what the player of the last command does.
LEMMA ReportTells ==
    ASSUME NEW r, Telling(r), deck \in Decks, deck.pending \in {0, deck.request}, NEW v \in PlayerStates
    PROVE  /\ Telling(ReportState(r, v)) /\ ReportState(r, v) \in Outcomes /\ ReportState(r, v).deck = r.deck
           /\ Hushed(r) /\ v # "playing" => Hushed(ReportState(r, v))
           /\ deck.request # 0 => Closes(ReportState(r, v), v)
<1>0. r \in Outcomes /\ r.deck \in Decks /\ "idle" \in Shown
    BY DEF Telling, Outcomes, Shown
<1>1. /\ Telling(ReportState(r, v)) /\ (Hushed(r) /\ v # "playing" => Hushed(ReportState(r, v)))
      /\ deck.request # 0 => Closes(ReportState(r, v), v)
    BY <1>0, TellingParts DEF Shown
<1>2. ReportState(r, v) \in Outcomes /\ ReportState(r, v).deck = r.deck
    BY <1>0, PlayerParts DEF Shown
<1>. QED
    BY <1>1, <1>2

\* show tells nothing.
LEMMA ShowTells ==
    ASSUME NEW r, Telling(r), deck \in Decks, deck.pending \in {0, deck.request}, NEW w \in Shown
    PROVE  /\ Telling(Show(r, w)) /\ Show(r, w) \in Outcomes /\ Show(r, w).out = r.out
           /\ Hushed(r) => Hushed(Show(r, w))
           /\ LET d == Show(r, w).deck IN
              /\ d.status = w /\ d.wants = r.deck.wants /\ d.request = r.deck.request
              /\ d.rev = r.deck.rev /\ d.track = r.deck.track /\ d.busy = r.deck.busy /\ d.pending = r.deck.pending
<1>0. r \in Outcomes /\ r.deck \in Decks /\ "paused" \in PlayerStates
    BY DEF Telling, Outcomes, PlayerStates
<1>1. Telling(Show(r, w)) /\ (Hushed(r) => Hushed(Show(r, w)))
    BY <1>0, TellingParts DEF Shown
<1>2. Show(r, w) \in Outcomes /\ Show(r, w).out = r.out /\ Show(r, w).deck = [r.deck EXCEPT !.status = w]
    BY <1>0, PlayerParts DEF Shown
<1>. QED
    BY <1>0, <1>1, <1>2, DeckFields

\* Nothing is to play any more.
LEMMA UnwantedTells ==
    ASSUME NEW r, Telling(r), deck \in Decks, deck.pending \in {0, deck.request}
    PROVE  /\ Telling(Unwanted(r)) /\ Unwanted(r) \in Outcomes /\ Unwanted(r).out = r.out
           /\ Hushed(r) => Hushed(Unwanted(r))
           /\ LET d == Unwanted(r).deck IN
              /\ d.status = r.deck.status /\ d.wants = FALSE /\ d.request = r.deck.request
              /\ d.rev = r.deck.rev /\ d.track = r.deck.track /\ d.busy = r.deck.busy /\ d.pending = r.deck.pending
<1>0. r \in Outcomes /\ r.deck \in Decks /\ "paused" \in PlayerStates /\ "idle" \in Shown
    BY DEF Telling, Outcomes, PlayerStates, Shown
<1>1. Telling(Unwanted(r)) /\ (Hushed(r) => Hushed(Unwanted(r)))
    BY <1>0, TellingParts DEF Shown
<1>2. Unwanted(r) \in Outcomes /\ Unwanted(r).out = r.out /\ Unwanted(r).deck = [r.deck EXCEPT !.wants = FALSE]
    BY <1>0, PlayerParts DEF Shown
<1>3. ASSUME NEW b, NEW d, d = [r.deck EXCEPT !.wants = b]
      PROVE  /\ d.status = r.deck.status /\ d.wants = b /\ d.request = r.deck.request
             /\ d.rev = r.deck.rev /\ d.track = r.deck.track /\ d.busy = r.deck.busy /\ d.pending = r.deck.pending
    BY <1>0, <1>3, DeckFields
<1>4. /\ Unwanted(r).deck.status = r.deck.status /\ Unwanted(r).deck.wants = FALSE
      /\ Unwanted(r).deck.request = r.deck.request /\ Unwanted(r).deck.rev = r.deck.rev
      /\ Unwanted(r).deck.track = r.deck.track /\ Unwanted(r).deck.busy = r.deck.busy
      /\ Unwanted(r).deck.pending = r.deck.pending
  <2> DEFINE d == Unwanted(r).deck
  <2>1. d = [r.deck EXCEPT !.wants = FALSE]
      BY <1>2
  <2> HIDE DEF d
  <2>2. /\ d.status = r.deck.status /\ d.wants = FALSE /\ d.request = r.deck.request
        /\ d.rev = r.deck.rev /\ d.track = r.deck.track /\ d.busy = r.deck.busy /\ d.pending = r.deck.pending
      BY <1>3, <2>1
  <2>. QED
      BY <2>2, Zenon DEF d
<1>. QED
    BY <1>1, <1>2, <1>4, Zenon

\* What interrupt makes of a player that was telling nothing but silence.
LEMMA InterruptTells ==
    ASSUME NEW r, Telling(r), deck \in Decks, deck.pending \in {0, deck.request},
           r.deck.status \in {"loading", "playing"} => deck.request # 0
    PROVE  /\ Telling(Interrupt(r)) /\ (Hushed(r) => Hushed(Interrupt(r)))
           /\ Interrupt(r).deck.status \notin {"loading", "playing"} /\ Interrupt(r).deck.rev = r.deck.rev
           /\ r.deck.status = "playing" => Closes(Interrupt(r), "paused")
           /\ r.deck.status \notin {"loading", "playing"} => Interrupt(r) = r
<1>0. r \in Outcomes
    BY DEF Telling
<1>1. CASE r.deck.status \notin {"playing", "loading"}
    BY <1>1 DEF Interrupt
<1>2. CASE r.deck.status = "loading" /\ r.deck.pending # 0 /\ r.deck.wants
  <2>1. Interrupt(r) = Show(Reply(r, "waiting"), "waiting")
      BY <1>2 DEF Interrupt
  <2>2. "waiting" \in PlayerStates /\ "waiting" \in PlayerStates \ {"no_track"}
      BY DEF PlayerStates
  <2>3. Telling(Reply(r, "waiting")) /\ (Hushed(r) => Hushed(Reply(r, "waiting"))) /\ Reply(r, "waiting") \in Outcomes
      BY <2>2, ReplyTells
  <2>4. Telling(Show(Reply(r, "waiting"), "waiting"))
        /\ (Hushed(Reply(r, "waiting")) => Hushed(Show(Reply(r, "waiting"), "waiting")))
      BY <2>2, <2>3, ShowTells DEF Shown
  <2>5. Reply(r, "waiting").deck.rev = r.deck.rev
      BY <2>2, ReplyTells
  <2>6. Show(Reply(r, "waiting"), "waiting").deck.rev = r.deck.rev /\ Show(Reply(r, "waiting"), "waiting").deck.status = "waiting"
      BY <2>2, <2>3, <2>5, ShowTells DEF Shown
  <2>. QED
      BY <1>2, <2>1, <2>3, <2>4, <2>6
<1>3. CASE r.deck.status \in {"playing", "loading"} /\ ~(r.deck.status = "loading" /\ r.deck.pending # 0 /\ r.deck.wants)
  <2> DEFINE a == Unwanted(r)
             b == Reply(a, "paused")
             c == ReportState(b, "paused")
  <2>1. Interrupt(r) = Show(c, "paused")
      BY <1>3 DEF Interrupt
  <2>2. "paused" \in PlayerStates /\ "paused" \in PlayerStates \ {"no_track"}
      BY DEF PlayerStates
  <2>3. Telling(a) /\ (Hushed(r) => Hushed(a)) /\ a \in Outcomes /\ a.deck.rev = r.deck.rev
      BY UnwantedTells
  <2> HIDE DEF a
  <2>4. Telling(b) /\ (Hushed(a) => Hushed(b)) /\ b \in Outcomes /\ b.deck.rev = a.deck.rev
      BY <2>2, <2>3, ReplyTells
  <2> HIDE DEF b
  <2>5. Telling(c) /\ (Hushed(b) => Hushed(c)) /\ c \in Outcomes /\ c.deck.rev = b.deck.rev /\ Closes(c, "paused")
      BY <1>3, <2>2, <2>4, ReportTells
  <2> HIDE DEF c
  <2>6. Telling(Show(c, "paused")) /\ (Hushed(c) => Hushed(Show(c, "paused"))) /\ Show(c, "paused").out = c.out
        /\ Show(c, "paused").deck.rev = c.deck.rev /\ Show(c, "paused").deck.status = "paused"
      BY <2>2, <2>5, ShowTells DEF Shown
  <2>. QED
      BY <1>3, <2>1, <2>3, <2>4, <2>5, <2>6 DEF Closes
<1>. QED
    BY <1>1, <1>2, <1>3

\* Nothing is told yet.
LEMMA TellingStarts ==
    ASSUME NEW d \in Decks, d.request = deck.request, d.pending = deck.pending, d.track = deck.track, d.wants = deck.wants
    PROVE  Telling(Same(d)) /\ Hushed(Same(d)) /\ Same(d).deck = d /\ Same(d).out = <<>>
BY DEF Telling, Hushed, Same, Outcomes

\* What an event that is no command leaves: if something plays now, nothing changed or the
\* last report says so; if nothing plays, nothing did and only silence was told, or the last
\* report says so.
Uncommanded(r) ==
    /\ Telling(r)
    /\ r.deck.pending # 0 => Hushed(r)
    /\ r.deck.status = "playing" => (deck.status = "playing" /\ r.out = <<>>) \/ Closes(r, "playing")
    /\ r.deck.status # "playing" =>
          (deck.status # "playing" /\ Hushed(r)) \/ \E v \in PlayerStates \ {"playing"} : Closes(r, v)
    /\ r.deck.status \in {"loading", "playing"} =>
          r.deck.wants = TRUE /\ r.deck.track # 0 /\ r.deck.request # 0
    /\ r.deck.status = "playing" => r.deck.pending = 0

\* An interrupted player that then shows that something failed or is being resolved.
LEMMA InterruptIsQuiet ==
    ASSUME deck \in Decks, deck.pending \in {0, deck.request}, DeckShape,
           NEW r, Telling(r), Hushed(r), r.deck.status = deck.status,
           NEW w \in {"failed", "resolving"}
    PROVE  Uncommanded(Interrupt(r)) /\ Uncommanded(Show(Interrupt(r), w)) /\ Show(Interrupt(r), w).deck.rev = r.deck.rev
<1>1. /\ Telling(Interrupt(r)) /\ Hushed(Interrupt(r))
      /\ Interrupt(r).deck.status \notin {"loading", "playing"} /\ Interrupt(r).deck.rev = r.deck.rev
      /\ r.deck.status = "playing" => Closes(Interrupt(r), "paused")
    BY InterruptTells DEF DeckShape
<1>2. w \in (PlayerStates \ {"no_track"}) \cup {"idle", "loading", "resolving"} /\ "paused" \in PlayerStates \ {"playing"}
      /\ w \notin {"loading", "playing"}
    BY DEF PlayerStates
<1>3. Interrupt(r) \in Outcomes
    BY <1>1 DEF Telling
<1>4. /\ Telling(Show(Interrupt(r), w)) /\ Hushed(Show(Interrupt(r), w)) /\ Show(Interrupt(r), w).out = Interrupt(r).out
      /\ Show(Interrupt(r), w).deck.status = w /\ Show(Interrupt(r), w).deck.rev = r.deck.rev
    BY ZenonT(40), <1>1, <1>2, ShowTells DEF Shown
<1>5. Uncommanded(Interrupt(r))
    BY <1>1, <1>2 DEF Uncommanded
<1>6. Uncommanded(Show(Interrupt(r), w))
    BY <1>1, <1>2, <1>4 DEF Uncommanded, Closes
<1>. QED
    BY <1>4, <1>5, <1>6
\* A status, as operation takes it: a newer one silences the player, one that failed too.
LEMMA OperationIsQuiet ==
    ASSUME deck \in Decks, deck.pending \in {0, deck.request}, DeckShape, NEW f \in StatusFrames
    PROVE  Uncommanded(Operation(f)) /\ Operation(f).deck.rev = f.rev
<1> DEFINE d == [deck EXCEPT !.rev = f.rev]
           r == Same(d)
           s == IF f.rev > deck.rev THEN ReportState(Reply(Unwanted(r), "paused"), "paused") ELSE r
<1>1. d \in Decks /\ d.rev = f.rev /\ d.request = deck.request /\ d.pending = deck.pending /\ d.track = deck.track
      /\ d.wants = deck.wants /\ d.status = deck.status
    BY DEF Decks, StatusFrames
<1>2. Telling(r) /\ Hushed(r) /\ r.deck = d /\ r.out = <<>>
    BY <1>1, TellingStarts
<1> HIDE DEF d, r
<1>3. Telling(s) /\ Hushed(s) /\ s.deck.status = deck.status /\ s.deck.rev = f.rev
  <2>1. CASE f.rev > deck.rev
    <3>0. "paused" \in PlayerStates
        BY DEF PlayerStates
    <3>1. Telling(Unwanted(r)) /\ Hushed(Unwanted(r)) /\ Unwanted(r).deck.status = deck.status /\ Unwanted(r).deck.rev = f.rev
        BY <1>1, <1>2, UnwantedTells
    <3>2. LET x == Reply(Unwanted(r), "paused") IN
          Telling(x) /\ Hushed(x) /\ x.deck.status = deck.status /\ x.deck.rev = f.rev
        BY <3>0, <3>1, ReplyTells
    <3>3. s = ReportState(Reply(Unwanted(r), "paused"), "paused")
        BY <2>1
    <3>. QED
        BY <3>0, <3>2, <3>3, ReportTells
  <2>2. CASE ~(f.rev > deck.rev)
      BY <1>1, <1>2, <2>2
  <2>. QED
      BY <2>1, <2>2
<1>4. Operation(f) = CASE f.state = "resolving" -> Show(Interrupt(s), "resolving")
                       [] f.state = "failed" -> Show(Interrupt(r), "failed")
                       [] OTHER -> r
    BY DEF Operation, s, r, d
<1> HIDE DEF s
<1>5. CASE f.state = "resolving"
    BY <1>3, <1>4, <1>5, InterruptIsQuiet
<1>6. CASE f.state = "failed"
  <2>1. Operation(f) = Show(Interrupt(r), "failed")
      BY <1>4, <1>6
  <2>2. r.deck.status = deck.status /\ r.deck.rev = f.rev
      BY <1>1, <1>2
  <2>. QED
      BY <1>2, <2>1, <2>2, InterruptIsQuiet
<1>7. CASE f.state \notin {"resolving", "failed"}
    BY <1>1, <1>2, <1>4, <1>7 DEF Uncommanded, DeckShape
<1>. QED
    BY <1>5, <1>6, <1>7

\* An error, for the revision it names.
LEMMA ErrorIsQuiet ==
    ASSUME deck \in Decks, deck.pending \in {0, deck.request}, DeckShape, NEW v \in Nat
    PROVE  LET r == Show(Interrupt(Same([deck EXCEPT !.rev = v])), "failed") IN Uncommanded(r) /\ r.deck.rev = v
<1> DEFINE d == [deck EXCEPT !.rev = v]
<1>1. d \in Decks /\ d.rev = v /\ d.request = deck.request /\ d.pending = deck.pending /\ d.track = deck.track
      /\ d.wants = deck.wants /\ d.status = deck.status
    BY DEF Decks
<1> HIDE DEF d
<1>2. Telling(Same(d)) /\ Hushed(Same(d)) /\ Same(d).deck = d
    BY <1>1, TellingStarts
<1>3. Uncommanded(Show(Interrupt(Same(d)), "failed")) /\ Show(Interrupt(Same(d)), "failed").deck.rev = v
    BY <1>1, <1>2, InterruptIsQuiet
<1>. QED
    BY <1>3 DEF d

\* Something else begins or ends that keeps the media silent.
LEMMA BusyIsQuiet ==
    ASSUME deck \in Decks, deck.pending \in {0, deck.request}, DeckShape
    PROVE  /\ LET r == Interrupt(Same([deck EXCEPT !.busy = TRUE])) IN Uncommanded(r) /\ r.deck.rev = deck.rev
           /\ LET r == Pump(Same([deck EXCEPT !.busy = FALSE])) IN Uncommanded(r) /\ r.deck.rev = deck.rev
<1>1. ASSUME NEW b \in BOOLEAN, NEW d, d = [deck EXCEPT !.busy = b]
      PROVE  d \in Decks /\ d.rev = deck.rev /\ d.request = deck.request /\ d.pending = deck.pending
             /\ d.track = deck.track /\ d.wants = deck.wants /\ d.status = deck.status
    BY <1>1 DEF Decks
<1>2. ASSUME NEW b \in BOOLEAN, NEW d, d = [deck EXCEPT !.busy = b]
      PROVE  Telling(Same(d)) /\ Hushed(Same(d)) /\ Same(d).deck = d /\ Same(d).out = <<>>
    BY <1>1, <1>2, TellingStarts
<1>3. ASSUME NEW b \in BOOLEAN, NEW d, d = [deck EXCEPT !.busy = b]
      PROVE  Uncommanded(Interrupt(Same(d))) /\ Interrupt(Same(d)).deck.rev = deck.rev
  <2>1. Same(d).deck.status = deck.status /\ Same(d).deck.rev = deck.rev /\ Telling(Same(d)) /\ Hushed(Same(d))
      BY <1>1, <1>2, <1>3
  <2>. QED
      BY <2>1, InterruptIsQuiet, InterruptTells DEF DeckShape
<1>4. ASSUME NEW b \in BOOLEAN, NEW d, d = [deck EXCEPT !.busy = b]
      PROVE  Uncommanded(Pump(Same(d))) /\ Pump(Same(d)).deck.rev = deck.rev
  <2>0. /\ Telling(Same(d)) /\ Hushed(Same(d)) /\ Same(d).deck = d /\ Same(d).out = <<>> /\ d.rev = deck.rev
        /\ d.request = deck.request /\ d.pending = deck.pending /\ d.track = deck.track /\ d.wants = deck.wants
        /\ d.status = deck.status
      BY <1>1, <1>2, <1>4
  <2>1. CASE Pump(Same(d)) = Same(d)
      BY <2>0, <2>1 DEF Uncommanded, DeckShape
  <2>2. CASE Pump(Same(d)) # Same(d)
    <3>1. Pump(Same(d)) = Show(Same(d), "loading") /\ d.wants /\ d.track # 0 /\ d.pending # 0
        BY <2>0, <2>2 DEF Pump
    <3>2. "loading" \in Shown
        BY DEF Shown
    <3>3. /\ Telling(Show(Same(d), "loading")) /\ Hushed(Show(Same(d), "loading"))
          /\ LET e == Show(Same(d), "loading").deck IN
             /\ e.status = "loading" /\ e.wants = d.wants /\ e.track = d.track /\ e.request = d.request
             /\ e.rev = d.rev
        BY <2>0, <3>2, ShowTells
    <3>4. deck.status # "playing"
        BY <2>0, <3>1 DEF DeckShape
    <3>5. d.wants = TRUE
        BY <3>1, <2>0 DEF Decks
    <3>6. d.request # 0
        BY <2>0, <3>1
    <3>. QED
        BY <2>0, <3>1, <3>3, <3>4, <3>5, <3>6 DEF Uncommanded
  <2>. QED
      BY <2>1, <2>2
<1>5. Uncommanded(Interrupt(Same([deck EXCEPT !.busy = TRUE]))) /\ Interrupt(Same([deck EXCEPT !.busy = TRUE])).deck.rev = deck.rev
    BY <1>3, Zenon
<1>6. Uncommanded(Pump(Same([deck EXCEPT !.busy = FALSE]))) /\ Pump(Same([deck EXCEPT !.busy = FALSE])).deck.rev = deck.rev
    BY <1>4, Zenon
<1>. QED
    BY <1>5, <1>6, Zenon

\* The audio begins to play, ends or fails.
LEMMA AudioIsQuiet ==
    ASSUME deck \in Decks, deck.pending \in {0, deck.request}, DeckShape, deck.status \in {"loading", "playing"}
    PROVE  /\ LET r == ReportState(Reply(Show(Same(deck), "playing"), "playing"), "playing") IN
              deck.status = "loading" => Uncommanded(r) /\ r.deck.rev = deck.rev
           /\ LET r == Show(ReportState(Reply(Unwanted(Same(deck)), "failed"), "failed"), "failed") IN
              Uncommanded(r) /\ r.deck.rev = deck.rev
           /\ LET r == Show(ReportState(Unwanted(Same(deck)), "ended"), "ended") IN
              deck.status = "playing" => Uncommanded(r) /\ r.deck.rev = deck.rev
<1>0. /\ deck.request # 0 /\ deck.wants = TRUE /\ deck.track # 0
      /\ Telling(Same(deck)) /\ Hushed(Same(deck)) /\ Same(deck).deck = deck /\ Same(deck).out = <<>>
    BY TellingStarts DEF DeckShape
<1>1. /\ {"playing", "failed", "ended"} \subseteq PlayerStates /\ {"playing", "failed", "ended"} \subseteq Shown
      /\ {"failed", "ended"} \subseteq PlayerStates \ {"playing"}
    BY DEF PlayerStates, Shown
<1>2. ASSUME deck.status = "loading"
      PROVE  LET r == ReportState(Reply(Show(Same(deck), "playing"), "playing"), "playing") IN Uncommanded(r) /\ r.deck.rev = deck.rev
  <2>1. LET x == Show(Same(deck), "playing") IN
        /\ Telling(x) /\ x.deck.status = "playing" /\ x.deck.wants = deck.wants /\ x.deck.request = deck.request
        /\ x.deck.track = deck.track /\ x.deck.rev = deck.rev
      BY <1>0, <1>1, ShowTells
  <2>2. LET x == Reply(Show(Same(deck), "playing"), "playing") IN
        /\ Telling(x) /\ x.deck.status = "playing" /\ x.deck.wants = deck.wants /\ x.deck.request = deck.request
        /\ x.deck.track = deck.track /\ x.deck.rev = deck.rev /\ x.deck.pending = 0
      BY <1>1, <2>1, ReplyTells
  <2>3. LET x == ReportState(Reply(Show(Same(deck), "playing"), "playing"), "playing") IN
        Telling(x) /\ x.deck = Reply(Show(Same(deck), "playing"), "playing").deck /\ Closes(x, "playing")
      BY <1>0, <1>1, <2>2, ReportTells
  <2>. QED
      BY <1>0, <2>2, <2>3 DEF Uncommanded
<1>3. LET r == Show(ReportState(Reply(Unwanted(Same(deck)), "failed"), "failed"), "failed") IN Uncommanded(r) /\ r.deck.rev = deck.rev
  <2>1. LET x == Unwanted(Same(deck)) IN Telling(x) /\ Hushed(x) /\ x.deck.rev = deck.rev
      BY <1>0, UnwantedTells
  <2>2. LET x == Reply(Unwanted(Same(deck)), "failed") IN Telling(x) /\ Hushed(x) /\ x.deck.rev = deck.rev
      BY <1>1, <2>1, ReplyTells
  <2>3. LET x == ReportState(Reply(Unwanted(Same(deck)), "failed"), "failed") IN
        Telling(x) /\ Hushed(x) /\ x.deck.rev = deck.rev /\ Closes(x, "failed")
      BY <1>0, <1>1, <2>2, ReportTells
  <2>4. LET x == Show(ReportState(Reply(Unwanted(Same(deck)), "failed"), "failed"), "failed") IN
        /\ Telling(x) /\ Hushed(x) /\ x.deck.rev = deck.rev /\ x.deck.status = "failed"
        /\ x.out = ReportState(Reply(Unwanted(Same(deck)), "failed"), "failed").out
      BY <1>1, <2>3, ShowTells
  <2>. QED
      BY <1>1, <2>3, <2>4 DEF Uncommanded, Closes
<1>4. ASSUME deck.status = "playing"
      PROVE  LET r == Show(ReportState(Unwanted(Same(deck)), "ended"), "ended") IN Uncommanded(r) /\ r.deck.rev = deck.rev
  <2>1. LET x == Unwanted(Same(deck)) IN Telling(x) /\ Hushed(x) /\ x.deck.rev = deck.rev
      BY <1>0, UnwantedTells
  <2>2. LET x == ReportState(Unwanted(Same(deck)), "ended") IN
        Telling(x) /\ Hushed(x) /\ x.deck.rev = deck.rev /\ Closes(x, "ended")
      BY <1>0, <1>1, <2>1, ReportTells
  <2>3. LET x == Show(ReportState(Unwanted(Same(deck)), "ended"), "ended") IN
        /\ Telling(x) /\ Hushed(x) /\ x.deck.rev = deck.rev /\ x.deck.status = "ended"
        /\ x.out = ReportState(Unwanted(Same(deck)), "ended").out
      BY <1>1, <2>2, ShowTells
  <2>. QED
      BY <1>1, <2>2, <2>3 DEF Uncommanded, Closes
<1>. QED
    BY <1>2, <1>3, <1>4
\* s is what the player has made of a command f before it has answered it, and Taken what it
\* has made of it in the end: the command of before has its result, and nothing plays yet.
TakenUp(s, f) ==
    /\ s \in Outcomes /\ Hushed(s)
    /\ s.deck.rev = f.rev /\ s.deck.request = f.request /\ s.deck.pending = f.request
    /\ \A i \in DOMAIN s.out : s.out[i].request \in {deck.pending, f.request}
    /\ deck.pending # 0 =>
          \E i \in DOMAIN s.out : s.out[i].type = "result" /\ s.out[i].request = deck.pending /\ s.out[i].status # "waiting"

Taken(s, f) ==
    /\ s \in Outcomes /\ Hushed(s)
    /\ s.deck.rev = f.rev /\ s.deck.request = f.request /\ s.deck.pending \in {0, f.request}
    /\ s.deck.track = IF f.act = "play" THEN f.track ELSE deck.track
    /\ Silencing(f) => s.deck.wants = FALSE
    /\ s.deck.status # "playing"
    /\ s.deck.status = "loading" => s.deck.wants = TRUE /\ s.deck.track # 0
    /\ \A i \in DOMAIN s.out : s.out[i].request \in {deck.pending, f.request}
    /\ deck.pending # 0 =>
          \E i \in DOMAIN s.out : s.out[i].type = "result" /\ s.out[i].request = deck.pending /\ s.out[i].status # "waiting"
    /\ s.deck.pending = 0 =>
          \E i \in DOMAIN s.out : s.out[i].type = "result" /\ s.out[i].request = f.request /\ s.out[i].status # "waiting"

\* A command is answered and the player shows something that is no playing.
LEMMA AnswerTaken ==
    ASSUME NEW f \in ControlFrames, NEW s, TakenUp(s, f), NEW v \in PlayerStates \ {"playing"},
           NEW w \in Shown \ {"loading", "playing"},
           s.deck.track = IF f.act = "play" THEN f.track ELSE deck.track,
           Silencing(f) => s.deck.wants = FALSE
    PROVE  Taken(Show(Reply(s, v), w), f)
<1> DEFINE e == [type |-> "result", request |-> f.request, status |-> v]
           x == Reply(s, v)
           y == Show(x, w)
<1>0. s \in Outcomes /\ s.deck.pending = f.request /\ f.request # 0 /\ e \in Reports /\ s.out \in Seq(Reports)
      /\ s.deck \in Decks /\ w \in Shown /\ v \in PlayerStates /\ "idle" \in Shown
    BY DEF TakenUp, ControlFrames, Reports, Outcomes, Shown
<1>1. /\ x \in Outcomes /\ x.out = Append(s.out, e)
      /\ x.deck = IF v = "waiting" THEN s.deck ELSE [s.deck EXCEPT !.pending = 0]
  <2>1. e = [type |-> "result", request |-> s.deck.pending, status |-> v] /\ s.deck.pending # 0
      BY <1>0
  <2>2. /\ Reply(s, v) \in Outcomes
        /\ Reply(s, v).out = Append(s.out, [type |-> "result", request |-> s.deck.pending, status |-> v])
        /\ Reply(s, v).deck = IF v = "waiting" THEN s.deck ELSE [s.deck EXCEPT !.pending = 0]
      BY <1>0, <2>1, PlayerParts DEF Shown
  <2>. QED
      BY <2>1, <2>2
<1>2. /\ x.deck.status = s.deck.status /\ x.deck.wants = s.deck.wants /\ x.deck.request = s.deck.request
      /\ x.deck.rev = s.deck.rev /\ x.deck.track = s.deck.track
      /\ x.deck.pending = IF v = "waiting" THEN f.request ELSE 0
  <2>1. CASE v = "waiting"
      BY <1>0, <1>1, <2>1
  <2>2. CASE v # "waiting"
    <3>1. x.deck = [s.deck EXCEPT !.pending = 0]
        BY <1>1, <2>2
    <3> HIDE DEF x
    <3>. QED
        BY <1>0, <2>2, <3>1, DeckFields
  <2>. QED
      BY <2>1, <2>2
<1>3. /\ \A i \in DOMAIN Append(s.out, e) : (i \in DOMAIN s.out /\ Append(s.out, e)[i] = s.out[i]) \/ Append(s.out, e)[i] = e
      /\ \A i \in DOMAIN s.out : i \in DOMAIN Append(s.out, e) /\ Append(s.out, e)[i] = s.out[i]
      /\ Len(Append(s.out, e)) \in DOMAIN Append(s.out, e) /\ Append(s.out, e)[Len(Append(s.out, e))] = e
    BY <1>0, Appended
<1>4. e.type = "result" /\ e.request = f.request /\ e.status = v
    OBVIOUS
<1> HIDE DEF x, e
<1>5. "paused" \in PlayerStates
    BY DEF PlayerStates
<1>6. y \in Outcomes /\ y.out = x.out /\ y.deck = [x.deck EXCEPT !.status = w] /\ x.deck \in Decks
    BY <1>0, <1>1, <1>5, PlayerParts DEF Shown, Outcomes
<1> HIDE DEF y
<1>7. /\ y.deck.status = w /\ y.deck.wants = x.deck.wants /\ y.deck.request = x.deck.request
      /\ y.deck.rev = x.deck.rev /\ y.deck.track = x.deck.track /\ y.deck.pending = x.deck.pending
    BY <1>6, DeckFields
<1>8. Hushed(y)
    BY <1>1, <1>3, <1>4, <1>6 DEF TakenUp, Hushed
<1>9. \A i \in DOMAIN y.out : y.out[i].request \in {deck.pending, f.request}
    BY <1>1, <1>3, <1>4, <1>6 DEF TakenUp
<1>10. deck.pending # 0 =>
          \E i \in DOMAIN y.out : y.out[i].type = "result" /\ y.out[i].request = deck.pending /\ y.out[i].status # "waiting"
    BY <1>1, <1>3, <1>6 DEF TakenUp
<1>11. y.deck.pending = 0 =>
          \E i \in DOMAIN y.out : y.out[i].type = "result" /\ y.out[i].request = f.request /\ y.out[i].status # "waiting"
    BY <1>0, <1>1, <1>2, <1>3, <1>4, <1>6, <1>7
<1>12. Taken(y, f)
    BY <1>0, <1>2, <1>6, <1>7, <1>8, <1>9, <1>10, <1>11 DEF TakenUp, Taken
<1>. QED
    BY <1>12 DEF y, x

\* A command that is to play something goes on: with the audio, or waiting for its turn.
LEMMA GoTaken ==
    ASSUME NEW f \in ControlFrames, NEW s, TakenUp(s, f), s.deck.wants = TRUE, s.deck.track # 0, ~Silencing(f),
           s.deck.track = IF f.act = "play" THEN f.track ELSE deck.track
    PROVE  Taken(IF s.deck.busy THEN Show(Reply(s, "waiting"), "waiting") ELSE Pump(s), f)
<1>1. CASE s.deck.busy
  <2>1. "waiting" \in PlayerStates \ {"playing"} /\ "waiting" \in Shown \ {"loading", "playing"}
      BY DEF PlayerStates, Shown
  <2>. QED
      BY <1>1, <2>1, AnswerTaken
<1>2. CASE ~s.deck.busy
  <2>0. s \in Outcomes /\ s.deck \in Decks /\ s.deck.pending # 0 /\ "loading" \in Shown /\ "paused" \in PlayerStates
      BY DEF TakenUp, ControlFrames, Outcomes, Shown, PlayerStates
  <2>1. Pump(s) = Show(s, "loading")
      BY <1>2, <2>0 DEF Pump
  <2>2. Show(s, "loading") \in Outcomes /\ Show(s, "loading").out = s.out
        /\ Show(s, "loading").deck = [s.deck EXCEPT !.status = "loading"]
      BY <2>0, PlayerParts DEF Shown
  <2>3. LET d == Show(s, "loading").deck IN
        /\ d.status = "loading" /\ d.wants = s.deck.wants /\ d.request = s.deck.request
        /\ d.rev = s.deck.rev /\ d.track = s.deck.track /\ d.pending = s.deck.pending
    <3> DEFINE d == Show(s, "loading").deck
    <3>1. d = [s.deck EXCEPT !.status = "loading"]
        BY <2>2
    <3> HIDE DEF d
    <3>2. /\ d.status = "loading" /\ d.wants = s.deck.wants /\ d.request = s.deck.request
          /\ d.rev = s.deck.rev /\ d.track = s.deck.track /\ d.pending = s.deck.pending
        BY <2>0, <3>1, DeckFields
    <3>. QED
        BY <3>2 DEF d
  <2>. QED
      BY <1>2, <2>0, <2>1, <2>2, <2>3 DEF TakenUp, Taken, Hushed
<1>. QED
    BY <1>1, <1>2

\* The command before has its result, and the new one is taken up.
LEMMA CommandBegins ==
    ASSUME deck \in Decks, deck.pending \in {0, deck.request}, NEW f \in ControlFrames
    PROVE  LET r == Reply(Same([deck EXCEPT !.rev = f.rev]), "paused")
               now == [r EXCEPT !.deck.pending = f.request, !.deck.request = f.request]
           IN  /\ TakenUp(now, f) /\ now.deck.track = deck.track /\ now.deck.wants = deck.wants
               /\ now = [deck |-> now.deck, out |-> now.out]
<1> DEFINE d == [deck EXCEPT !.rev = f.rev]
           r == Reply(Same(d), "paused")
           now == [r EXCEPT !.deck.pending = f.request, !.deck.request = f.request]
           e == [r.deck EXCEPT !.pending = f.request, !.request = f.request]
<1>0. "paused" \in PlayerStates /\ f.request \in Nat \ {0} /\ f.rev \in Nat
    BY DEF PlayerStates, ControlFrames
<1>1. d \in Decks /\ d.rev = f.rev /\ d.request = deck.request /\ d.pending = deck.pending /\ d.track = deck.track
      /\ d.wants = deck.wants /\ d.status = deck.status
    BY <1>0 DEF Decks
<1> HIDE DEF d
<1>2. Telling(Same(d)) /\ Hushed(Same(d)) /\ Same(d).deck = d /\ Same(d).out = <<>>
    BY <1>1, TellingStarts
<1>3. /\ Telling(r) /\ r \in Outcomes /\ Hushed(r)
      /\ r.deck.wants = deck.wants /\ r.deck.rev = f.rev /\ r.deck.track = deck.track /\ r.deck.pending = 0
    BY <1>0, <1>1, <1>2, ReplyTells
<1> HIDE DEF r
<1>5. r.deck \in Decks /\ r.out \in Seq(Reports) /\ r = [deck |-> r.deck, out |-> r.out]
    BY <1>3 DEF Outcomes
<1>4. now = [deck |-> e, out |-> r.out]
  <2> DEFINE m == [r EXCEPT !.deck.pending = f.request]
  <2>1. m = [deck |-> [r.deck EXCEPT !.pending = f.request], out |-> r.out]
      BY <1>5
  <2>2. now = [m EXCEPT !.deck.request = f.request]
      OBVIOUS
  <2> HIDE DEF m, now
  <2>3. now = [deck |-> [m.deck EXCEPT !.request = f.request], out |-> m.out]
      BY <2>1, <2>2
  <2>4. e = [[r.deck EXCEPT !.pending = f.request] EXCEPT !.request = f.request]
      OBVIOUS
  <2>. QED
      BY <2>1, <2>3, <2>4
<1>6. /\ e \in Decks /\ e.pending = f.request /\ e.request = f.request /\ e.rev = f.rev
      /\ e.track = deck.track /\ e.wants = deck.wants
    BY <1>0, <1>3, <1>5 DEF Decks
<1> HIDE DEF e, now
<1>7. now \in Outcomes /\ now.deck = e /\ now.out = r.out
    BY <1>4, <1>5, <1>6 DEF Outcomes
<1>8. \A i \in DOMAIN now.out : now.out[i].request \in {deck.pending, f.request}
  <2>1. CASE deck.pending = 0
    <3>1. r = Same(d)
        BY <1>1, <1>2, <2>1 DEF r, Reply
    <3>. QED
        BY <1>2, <1>7, <3>1
  <2>2. CASE deck.pending # 0
      BY <1>3, <1>7, <2>2 DEF Telling
  <2>. QED
      BY <2>1, <2>2
<1>9. deck.pending # 0 =>
          \E i \in DOMAIN now.out : now.out[i].type = "result" /\ now.out[i].request = deck.pending /\ now.out[i].status # "waiting"
    BY <1>3, <1>7 DEF Telling
<1>10. TakenUp(now, f)
    BY <1>3, <1>6, <1>7, <1>8, <1>9 DEF TakenUp, Hushed
<1>11. now.deck.track = deck.track /\ now.deck.wants = deck.wants /\ now = [deck |-> now.deck, out |-> now.out]
    BY <1>4, <1>6, <1>7, Zenon
<1>. QED
    BY <1>10, <1>11 DEF now, r, d
\* A command, as handle takes it.
LEMMA HandleTaken ==
    ASSUME deck \in Decks, deck.pending \in {0, deck.request}, NEW f \in ControlFrames,
           f.act = "play" => f.track # 0
    PROVE  Taken(Handle(f), f)
<1> DEFINE r == Reply(Same([deck EXCEPT !.rev = f.rev]), "paused")
           now == [r EXCEPT !.deck.pending = f.request, !.deck.request = f.request]
           Went(x) == IF x.deck.busy THEN Show(Reply(x, "waiting"), "waiting") ELSE Pump(x)
           With(t, b) == [deck |-> [now.deck EXCEPT !.track = t, !.wants = b], out |-> now.out]
<1>0. {"paused", "stopped", "no_track"} \subseteq PlayerStates \ {"playing"}
      /\ {"paused", "stopped", "idle"} \subseteq Shown \ {"loading", "playing"}
    BY DEF PlayerStates, Shown
<1>1. /\ TakenUp(now, f) /\ now.deck.track = deck.track /\ now.deck.wants = deck.wants
      /\ now = [deck |-> now.deck, out |-> now.out]
    BY CommandBegins
<1>2. Handle(f) =
        CASE f.act = "play" ->
               LET loaded == [now EXCEPT !.deck.track = f.track, !.deck.wants = f.autoplay]
               IN  IF f.autoplay THEN Went(loaded) ELSE Show(Reply(loaded, "paused"), "paused")
          [] f.act = "pause" -> IF deck.track = 0 THEN Show(Reply(Unwanted(now), "no_track"), "idle")
                                ELSE Show(Reply(Unwanted(now), "paused"), "paused")
          [] f.act = "stop" -> Show(Reply(Unwanted(now), "stopped"), "stopped")
          [] f.act = "resume" -> IF deck.track = 0 THEN Show(Reply(now, "no_track"), "idle")
                                 ELSE Went([now EXCEPT !.deck.wants = TRUE])
    BY DEF Handle
<1> HIDE DEF now, r
<1>3. now.deck \in Decks /\ now.out \in Seq(Reports)
    BY <1>1 DEF TakenUp, Outcomes
<1>4. ASSUME NEW t, NEW b PROVE [now EXCEPT !.deck.track = t, !.deck.wants = b] = With(t, b)
  <2> DEFINE m == [now EXCEPT !.deck.track = t]
  <2>1. m = [deck |-> [now.deck EXCEPT !.track = t], out |-> now.out]
      BY <1>1
  <2>2. [now EXCEPT !.deck.track = t, !.deck.wants = b] = [m EXCEPT !.deck.wants = b]
      OBVIOUS
  <2> HIDE DEF m
  <2>3. [m EXCEPT !.deck.wants = b] = [deck |-> [m.deck EXCEPT !.wants = b], out |-> m.out]
      BY <2>1
  <2>. QED
      BY <2>1, <2>2, <2>3
<1>5. ASSUME NEW b PROVE [now EXCEPT !.deck.wants = b] = With(deck.track, b)
  <2>1. [now EXCEPT !.deck.wants = b] = [deck |-> [now.deck EXCEPT !.wants = b], out |-> now.out]
      BY <1>1
  <2>2. [now.deck EXCEPT !.track = deck.track, !.wants = b] = [now.deck EXCEPT !.wants = b]
      BY <1>1, <1>3 DEF Decks
  <2>. QED
      BY <2>1, <2>2
<1>6. ASSUME NEW t \in 0 .. MaxSubmits, NEW b \in BOOLEAN
      PROVE  TakenUp(With(t, b), f) /\ With(t, b).deck.track = t /\ With(t, b).deck.wants = b
  <2> DEFINE x == With(t, b)
             e == [now.deck EXCEPT !.track = t, !.wants = b]
  <2>2. /\ e \in Decks /\ e.track = t /\ e.wants = b /\ e.rev = now.deck.rev /\ e.request = now.deck.request
        /\ e.pending = now.deck.pending
      BY <1>3 DEF Decks
  <2>1. x = [deck |-> e, out |-> now.out]
      OBVIOUS
  <2> HIDE DEF e, x
  <2>3. x.deck = e /\ x.out = now.out /\ x \in Outcomes
      BY <1>3, <2>1, <2>2 DEF Outcomes
  <2>4. TakenUp(x, f) /\ x.deck.track = t /\ x.deck.wants = b
      BY <1>1, <2>2, <2>3 DEF TakenUp, Hushed
  <2>. QED
      BY <2>4 DEF x
<1>7. deck.track \in 0 .. MaxSubmits /\ f.track \in 0 .. MaxSubmits /\ f.autoplay \in BOOLEAN
      /\ f.act \in {"play", "pause", "resume", "stop"}
    BY DEF Decks, ControlFrames, MediaActs
<1> HIDE DEF With
<1>8. CASE f.act = "play" /\ f.autoplay = TRUE
  <2>1. Handle(f) = Went(With(f.track, f.autoplay))
      BY <1>2, <1>4, <1>8
  <2>2. TakenUp(With(f.track, f.autoplay), f) /\ With(f.track, f.autoplay).deck.track = f.track
        /\ With(f.track, f.autoplay).deck.wants = TRUE
      BY <1>6, <1>7, <1>8
  <2>. QED
      BY <1>8, <2>1, <2>2, GoTaken DEF Silencing
<1>9. CASE f.act = "play" /\ f.autoplay = FALSE
  <2>1. Handle(f) = Show(Reply(With(f.track, f.autoplay), "paused"), "paused")
      BY <1>2, <1>4, <1>9
  <2>2. TakenUp(With(f.track, f.autoplay), f) /\ With(f.track, f.autoplay).deck.track = f.track
        /\ With(f.track, f.autoplay).deck.wants = FALSE
      BY <1>6, <1>7, <1>9
  <2>. QED
      BY <1>0, <1>9, <2>1, <2>2, AnswerTaken
<1>10. CASE f.act \in {"pause", "stop"}
  <2>1. Unwanted(now) = With(deck.track, FALSE)
      BY <1>5, Zenon DEF Unwanted
  <2>2. TakenUp(With(deck.track, FALSE), f) /\ With(deck.track, FALSE).deck.track = deck.track
        /\ With(deck.track, FALSE).deck.wants = FALSE
      BY <1>6, <1>7, Zenon
  <2> DEFINE u == With(deck.track, FALSE)
  <2>3. \E v \in {"paused", "stopped", "no_track"}, w \in {"paused", "stopped", "idle"} :
            Handle(f) = Show(Reply(Unwanted(now), v), w)
      BY <1>2, <1>10
  <2>4. PICK v \in {"paused", "stopped", "no_track"}, w \in {"paused", "stopped", "idle"} :
            Handle(f) = Show(Reply(u, v), w)
      BY <2>1, <2>3
  <2> HIDE DEF u
  <2>5. TakenUp(u, f) /\ u.deck.track = deck.track /\ u.deck.wants = FALSE
      BY <2>2, Zenon DEF u
  <2>6. v \in PlayerStates \ {"playing"} /\ w \in Shown \ {"loading", "playing"}
      BY <1>0, <2>4
  <2>7. u.deck.track = IF f.act = "play" THEN f.track ELSE deck.track
      BY <1>10, <2>5
  <2>8. Silencing(f) => u.deck.wants = FALSE
      BY <2>5, Zenon
  <2>9. Taken(Show(Reply(u, v), w), f)
      BY <2>5, <2>6, <2>7, <2>8, AnswerTaken
  <2>. QED
      BY <2>4, <2>9
<1>11. CASE f.act = "resume" /\ deck.track = 0
  <2>1. Handle(f) = Show(Reply(now, "no_track"), "idle") /\ ~Silencing(f)
      BY <1>2, <1>11 DEF Silencing
  <2>. QED
      BY <1>0, <1>1, <1>11, <2>1, AnswerTaken
<1>12. CASE f.act = "resume" /\ deck.track # 0
  <2> DEFINE u == With(deck.track, TRUE)
  <2>1. [now EXCEPT !.deck.wants = TRUE] = u
      BY <1>5, Zenon
  <2>2. Handle(f) = Went([now EXCEPT !.deck.wants = TRUE]) /\ ~Silencing(f)
      BY <1>2, <1>12 DEF Silencing
  <2>3. TakenUp(u, f) /\ u.deck.track = deck.track /\ u.deck.wants = TRUE
      BY <1>6, <1>7, Zenon
  <2> HIDE DEF u
  <2>4. Handle(f) = Went(u)
      BY <2>1, <2>2
  <2>. QED
      BY <1>12, <2>2, <2>3, <2>4, GoTaken
<1>. QED
    BY <1>7, <1>8, <1>9, <1>10, <1>11, <1>12
(***************************************************************************)
(* Frames and reports under way: what appending to a channel and taking    *)
(* from it does to the orders.                                             *)
(***************************************************************************)
\* The elements of a sequence whose first is taken.
LEMMA Dropped ==
    ASSUME NEW S, NEW s \in Seq(S), s # <<>>
    PROVE  /\ Tail(s) \in Seq(S) /\ 1 \in DOMAIN s /\ Head(s) = s[1] /\ s[1] \in S
           /\ \A i \in DOMAIN Tail(s) : i + 1 \in DOMAIN s /\ Tail(s)[i] = s[i + 1] /\ 1 < i + 1
           /\ \A i \in DOMAIN s : i # 1 => i - 1 \in DOMAIN Tail(s) /\ Tail(s)[i - 1] = s[i]
           /\ \A i, j \in DOMAIN Tail(s) : i < j <=> i + 1 < j + 1
           /\ \A i, j \in DOMAIN s : i < j => i - 1 < j - 1 /\ j # 1
OBVIOUS

\* The elements of two sequences put together.
LEMMA Joined ==
    ASSUME NEW S, NEW s \in Seq(S), NEW t \in Seq(S)
    PROVE  /\ s \o t \in Seq(S)
           /\ \A i \in DOMAIN s : i \in DOMAIN (s \o t) /\ (s \o t)[i] = s[i]
           /\ \A i \in DOMAIN t : Len(s) + i \in DOMAIN (s \o t) /\ (s \o t)[Len(s) + i] = t[i]
           /\ \A i \in DOMAIN (s \o t) : (i \in DOMAIN s /\ (s \o t)[i] = s[i])
                 \/ (\E j \in DOMAIN t : i = Len(s) + j /\ (s \o t)[i] = t[j])
           /\ t # <<>> => Len(t) \in DOMAIN t /\ \A i \in DOMAIN (s \o t) : i <= Len(s) + Len(t)
           /\ t = <<>> => s \o t = s
OBVIOUS

\* Frames are appended with the revision of the session, and taken in order.
LEMMA FramesStayInOrder ==
    ASSUME NEW s \in Seq(Frames), NEW low \in Int, NEW high \in Int, FramesInOrder(s, low, high)
    PROVE  /\ \A e \in Frames : e.rev = high => FramesInOrder(Append(s, e), low, high)
           /\ s # <<>> => FramesInOrder(Tail(s), Head(s).rev, high) /\ low <= Head(s).rev
           /\ \A more \in Int : high <= more => FramesInOrder(s, low, more)
<1>0. \A i \in DOMAIN s : s[i].rev \in Int
    BY DEF Frames, ControlFrames, StatusFrames, ErrorFrames
<1>1. ASSUME NEW e \in Frames, e.rev = high PROVE FramesInOrder(Append(s, e), low, high)
  <2>1. \A i \in DOMAIN Append(s, e) : (i \in DOMAIN s /\ Append(s, e)[i] = s[i]) \/ (i = Len(s) + 1 /\ Append(s, e)[i] = e)
      OBVIOUS
  <2>2. \A i \in DOMAIN s : i \in Int /\ i < Len(s) + 1
      OBVIOUS
  <2>3. \A i \in DOMAIN Append(s, e) : low <= Append(s, e)[i].rev /\ Append(s, e)[i].rev <= high
      BY <1>0, <1>1, <2>1 DEF FramesInOrder
  <2>4. \A i, j \in DOMAIN Append(s, e) : i < j => Append(s, e)[i].rev <= Append(s, e)[j].rev
      BY <1>0, <1>1, <2>1, <2>2, <2>3 DEF FramesInOrder
  <2>. QED
      BY <2>3, <2>4 DEF FramesInOrder
<1>2. ASSUME s # <<>> PROVE FramesInOrder(Tail(s), Head(s).rev, high) /\ low <= Head(s).rev
    BY <1>0, <1>2, Dropped DEF FramesInOrder
<1>3. ASSUME NEW more \in Int, high <= more PROVE FramesInOrder(s, low, more)
    BY <1>0, <1>3 DEF FramesInOrder
<1>. QED
    BY <1>1, <1>2, <1>3

\* Commands are numbered as they are published.
LEMMA CommandsStayInOrder ==
    ASSUME NEW s \in Seq(Frames), NEW low \in Nat, NEW high \in Nat, CommandsInOrder(s, low, high)
    PROVE  /\ \A e \in Frames : ~Control(e) => CommandsInOrder(Append(s, e), low, high)
           /\ \A e \in Frames : Control(e) /\ e.request = high + 1 => CommandsInOrder(Append(s, e), low, high + 1)
           /\ s # <<>> /\ ~Control(Head(s)) => CommandsInOrder(Tail(s), low, high)
           /\ s # <<>> /\ Control(Head(s)) =>
                 /\ CommandsInOrder(Tail(s), Head(s).request, high)
                 /\ low < Head(s).request /\ Head(s).request <= high
<1>0. \A i \in DOMAIN s : s[i] \in Frames /\ (Control(s[i]) => s[i].request \in Nat)
    BY DEF Frames, ControlFrames, StatusFrames, ErrorFrames, Control
<1>1. ASSUME NEW e \in Frames
      PROVE  /\ \A i \in DOMAIN Append(s, e) : (i \in DOMAIN s /\ Append(s, e)[i] = s[i]) \/ (i = Len(s) + 1 /\ Append(s, e)[i] = e)
             /\ \A i \in DOMAIN s : i \in Int /\ i < Len(s) + 1 /\ i \in DOMAIN Append(s, e) /\ Append(s, e)[i] = s[i]
             /\ Len(s) + 1 \in DOMAIN Append(s, e) /\ Append(s, e)[Len(s) + 1] = e
    OBVIOUS
<1>2. ASSUME NEW e \in Frames, ~Control(e) PROVE CommandsInOrder(Append(s, e), low, high)
    BY <1>0, <1>1, <1>2 DEF CommandsInOrder
<1>3. ASSUME NEW e \in Frames, Control(e), e.request = high + 1 PROVE CommandsInOrder(Append(s, e), low, high + 1)
  <2>1. \A i \in DOMAIN Append(s, e) : Control(Append(s, e)[i]) =>
            low < Append(s, e)[i].request /\ Append(s, e)[i].request <= high + 1
      BY <1>0, <1>1, <1>3 DEF CommandsInOrder
  <2>2. \A i, j \in DOMAIN Append(s, e) : i < j /\ Control(Append(s, e)[i]) /\ Control(Append(s, e)[j]) =>
            Append(s, e)[i].request < Append(s, e)[j].request
      BY <1>0, <1>1, <1>3 DEF CommandsInOrder
  <2>3. \E i \in DOMAIN Append(s, e) : Control(Append(s, e)[i]) /\ Append(s, e)[i].request = high + 1
      BY <1>1, <1>3
  <2>. QED
      BY <2>1, <2>2, <2>3 DEF CommandsInOrder
<1>4. ASSUME s # <<>>, ~Control(Head(s)) PROVE CommandsInOrder(Tail(s), low, high)
    BY <1>0, <1>4, Dropped DEF CommandsInOrder
<1>5. ASSUME s # <<>>, Control(Head(s))
      PROVE  /\ CommandsInOrder(Tail(s), Head(s).request, high)
             /\ low < Head(s).request /\ Head(s).request <= high
  <2>0. s[1] = Head(s) /\ 1 \in DOMAIN s /\ Head(s).request \in Nat
      BY <1>0, <1>5, Dropped
  <2>1. low < Head(s).request /\ Head(s).request <= high
      BY <1>5, <2>0 DEF CommandsInOrder
  <2>2. \A i \in DOMAIN s : Control(s[i]) /\ i # 1 => Head(s).request < s[i].request /\ s[i].request <= high
    <3>1. \A i \in DOMAIN s : i # 1 => 1 < i
        OBVIOUS
    <3>. QED
        BY <1>5, <2>0, <3>1 DEF CommandsInOrder
  <2>3. \A i \in DOMAIN Tail(s) : Control(Tail(s)[i]) => Head(s).request < Tail(s)[i].request /\ Tail(s)[i].request <= high
    <3>1. \A i \in DOMAIN Tail(s) : i + 1 \in DOMAIN s /\ Tail(s)[i] = s[i + 1] /\ i + 1 # 1
        BY <1>5
    <3>. QED
        BY <2>2, <3>1
  <2>4. \A i, j \in DOMAIN Tail(s) : i < j /\ Control(Tail(s)[i]) /\ Control(Tail(s)[j]) =>
            Tail(s)[i].request < Tail(s)[j].request
      BY <1>5, Dropped DEF CommandsInOrder
  <2>5. Head(s).request # high => \E i \in DOMAIN Tail(s) : Control(Tail(s)[i]) /\ Tail(s)[i].request = high
    <3>1. low # high
        BY <2>0, <2>1
    <3>2. PICK i \in DOMAIN s : Control(s[i]) /\ s[i].request = high
        BY <3>1 DEF CommandsInOrder
    <3>3. i # 1 => i - 1 \in DOMAIN Tail(s) /\ Tail(s)[i - 1] = s[i]
        BY <1>5, Dropped
    <3>. QED
        BY <2>0, <3>2, <3>3
  <2>. QED
      BY <2>1, <2>3, <2>4, <2>5 DEF CommandsInOrder
<1>. QED
    BY <1>2, <1>3, <1>4, <1>5

\* A track that is announced is newer than those before it.
LEMMA TracksStayInOrder ==
    ASSUME NEW s \in Seq(Frames), NEW low \in Nat, TracksInOrder(s, low)
    PROVE  /\ \A e \in Frames : ~Play(e) => TracksInOrder(Append(s, e), low)
           /\ \A e, last, lost : e \in Frames /\ last \in Nat /\ Play(e) /\ TracksKnown(s, low, last, lost) /\ last < e.track =>
                 TracksInOrder(Append(s, e), low)
           /\ s # <<>> /\ ~Play(Head(s)) => TracksInOrder(Tail(s), low)
           /\ s # <<>> /\ Play(Head(s)) => TracksInOrder(Tail(s), Head(s).track) /\ low < Head(s).track
<1>0. \A i \in DOMAIN s : s[i] \in Frames /\ (Play(s[i]) => s[i].track \in Nat)
    BY DEF Frames, ControlFrames, StatusFrames, ErrorFrames, Control, Play
<1>1. ASSUME NEW e \in Frames
      PROVE  /\ \A i \in DOMAIN Append(s, e) : (i \in DOMAIN s /\ Append(s, e)[i] = s[i]) \/ (i = Len(s) + 1 /\ Append(s, e)[i] = e)
             /\ \A i \in DOMAIN s : i \in Int /\ i < Len(s) + 1
    OBVIOUS
<1>2. ASSUME NEW e \in Frames, ~Play(e) PROVE TracksInOrder(Append(s, e), low)
    BY <1>0, <1>1, <1>2 DEF TracksInOrder
<1>3. ASSUME NEW e \in Frames, NEW last \in Nat, NEW lost, Play(e), TracksKnown(s, low, last, lost), last < e.track
      PROVE  TracksInOrder(Append(s, e), low)
  <2>0. e.track \in Nat
      BY <1>3 DEF Frames, ControlFrames, StatusFrames, ErrorFrames, Control, Play
  <2>1. \A i \in DOMAIN Append(s, e) : Play(Append(s, e)[i]) => low < Append(s, e)[i].track
      BY <1>0, <1>1, <1>3, <2>0 DEF TracksInOrder, TracksKnown
  <2>2. \A i, j \in DOMAIN Append(s, e) : i < j /\ Play(Append(s, e)[i]) /\ Play(Append(s, e)[j]) =>
            Append(s, e)[i].track < Append(s, e)[j].track
      BY <1>0, <1>1, <1>3, <2>0 DEF TracksInOrder, TracksKnown
  <2>. QED
      BY <2>1, <2>2 DEF TracksInOrder
<1>4. ASSUME s # <<>>, ~Play(Head(s)) PROVE TracksInOrder(Tail(s), low)
    BY <1>0, <1>4, Dropped DEF TracksInOrder
<1>5. ASSUME s # <<>>, Play(Head(s)) PROVE TracksInOrder(Tail(s), Head(s).track) /\ low < Head(s).track
    BY <1>0, <1>5, Dropped DEF TracksInOrder
<1>. QED
    BY <1>2, <1>3, <1>4, <1>5

\* The last track stays the one the session holds.
LEMMA TracksStayKnown ==
    ASSUME NEW s \in Seq(Frames), NEW low \in Nat, NEW last \in Nat, NEW lost, TracksKnown(s, low, last, lost)
    PROVE  /\ \A e \in Frames : ~Play(e) => TracksKnown(Append(s, e), low, last, lost)
           /\ \A e, any : e \in Frames /\ Play(e) /\ last < e.track => TracksKnown(Append(s, e), low, e.track, any)
           /\ \A t, any : t \in Nat /\ "track" \in any /\ last <= t => TracksKnown(s, low, t, any)
           /\ \A any : ("track" \in lost => "track" \in any \/ low = last) => TracksKnown(s, low, last, any)
           /\ s # <<>> /\ ~Play(Head(s)) => TracksKnown(Tail(s), low, last, lost)
           /\ s # <<>> /\ Play(Head(s)) /\ TracksInOrder(s, low) => TracksKnown(Tail(s), Head(s).track, last, lost)
<1>0. \A i \in DOMAIN s : s[i] \in Frames /\ (Play(s[i]) => s[i].track \in Nat)
    BY DEF Frames, ControlFrames, StatusFrames, ErrorFrames, Control, Play
<1>1. ASSUME NEW e \in Frames
      PROVE  /\ \A i \in DOMAIN Append(s, e) : (i \in DOMAIN s /\ Append(s, e)[i] = s[i]) \/ (i = Len(s) + 1 /\ Append(s, e)[i] = e)
             /\ \A i \in DOMAIN s : i \in DOMAIN Append(s, e) /\ Append(s, e)[i] = s[i]
             /\ Len(s) + 1 \in DOMAIN Append(s, e) /\ Append(s, e)[Len(s) + 1] = e
    OBVIOUS
<1>2. ASSUME NEW e \in Frames, ~Play(e) PROVE TracksKnown(Append(s, e), low, last, lost)
    BY <1>0, <1>1, <1>2 DEF TracksKnown
<1>3. ASSUME NEW e \in Frames, NEW any, Play(e), last < e.track PROVE TracksKnown(Append(s, e), low, e.track, any)
  <2>0. e.track \in Nat
      BY <1>3 DEF Frames, ControlFrames, StatusFrames, ErrorFrames, Control, Play
  <2>. QED
      BY <1>0, <1>1, <1>3, <2>0 DEF TracksKnown
<1>4. ASSUME NEW t \in Nat, NEW any, "track" \in any, last <= t PROVE TracksKnown(s, low, t, any)
    BY <1>0, <1>4 DEF TracksKnown
<1>5. ASSUME NEW any, "track" \in lost => "track" \in any \/ low = last PROVE TracksKnown(s, low, last, any)
    BY <1>0, <1>5 DEF TracksKnown
<1>6. ASSUME s # <<>>, ~Play(Head(s)) PROVE TracksKnown(Tail(s), low, last, lost)
    BY <1>0, <1>6, Dropped DEF TracksKnown
<1>7. ASSUME s # <<>>, Play(Head(s)), TracksInOrder(s, low) PROVE TracksKnown(Tail(s), Head(s).track, last, lost)
    BY <1>0, <1>7, Dropped DEF TracksKnown, TracksInOrder
<1>. QED
    BY <1>2, <1>3, <1>4, <1>5, <1>6, <1>7

(***************************************************************************)
(* What the reports under way say, and where the result of a command is.   *)
(***************************************************************************)
\* Reports of an event that is no command.
LEMMA QuietReports ==
    ASSUME deck \in Decks, deck.pending \in {0, deck.request}, up \in Seq(Reports), NEW r, Uncommanded(r),
           NEW last, NEW client, ReportsTrue(deck, up)
    PROVE  /\ ReportsTrue(r.deck, up \o r.out)
           /\ ReportsAgree(deck, up, last, client) => ReportsAgree(r.deck, up \o r.out, last, client)
<1>0. /\ r.out \in Seq(Reports) /\ deck.request \in Nat /\ r.deck.request = deck.request
      /\ r.deck.pending \in {deck.pending, 0} /\ \A i \in DOMAIN r.out : r.out[i].request = deck.request
    BY DEF Uncommanded, Telling, Outcomes, Decks
<1> DEFINE v == up \o r.out
<1>1. /\ \A i \in DOMAIN up : i \in DOMAIN v /\ v[i] = up[i]
      /\ \A i \in DOMAIN v : (i \in DOMAIN up /\ v[i] = up[i])
            \/ (\E j \in DOMAIN r.out : i = Len(up) + j /\ v[i] = r.out[j])
    BY SMTT(30), <1>0, Joined
<1>2. r.out = <<>> => v = up
    BY <1>0, Joined
<1>3. r.out # <<>> =>
          /\ Len(up) + Len(r.out) \in DOMAIN v /\ v[Len(up) + Len(r.out)] = r.out[Len(r.out)]
          /\ Len(r.out) \in DOMAIN r.out
          /\ \A i \in DOMAIN v : i # Len(up) + Len(r.out) => i < Len(up) + Len(r.out)
  <2>1. \A i \in DOMAIN v : i \in Int /\ i <= Len(up) + Len(r.out)
      BY <1>0
  <2>2. Len(up) \in Nat /\ Len(r.out) \in Nat
      BY <1>0
  <2>3. r.out # <<>> => Len(r.out) \in DOMAIN r.out
      BY <1>0
  <2>4. \A j \in DOMAIN r.out : Len(up) + j \in DOMAIN v /\ v[Len(up) + j] = r.out[j]
      BY <1>0, Joined
  <2> HIDE DEF v
  <2>. QED
      BY <2>1, <2>2, <2>3, <2>4
<1> HIDE DEF v
<1>4. ReportsTrue(r.deck, v)
    BY <1>0, <1>1 DEF ReportsTrue, Uncommanded, Hushed
<1>5. ASSUME ReportsAgree(deck, up, last, client) PROVE ReportsAgree(r.deck, v, last, client)
  <2>1. r.deck.request # last \/ r.deck.pending # 0 => client # "playing"
      BY <1>0, <1>5 DEF ReportsAgree
  <2>2. ASSUME r.deck.request = last, r.deck.status = "playing"
        PROVE  /\ client # "playing" => \E j \in DOMAIN v : TellsPlaying(v[j], last)
               /\ \A i \in DOMAIN v : v[i].type = "result" \/ TellsSilence(v[i], last) =>
                     \E j \in DOMAIN v : i < j /\ TellsPlaying(v[j], last)
    <3>1. CASE deck.status = "playing" /\ r.out = <<>>
        BY <1>0, <1>2, <1>5, <2>2, <3>1 DEF ReportsAgree
    <3>2. CASE Closes(r, "playing")
      <4>1. TellsPlaying(v[Len(up) + Len(r.out)], last)
          BY <1>0, <1>3, <2>2, <3>2 DEF Closes, TellsPlaying
      <4>2. \A i \in DOMAIN v : v[i].type = "result" \/ TellsSilence(v[i], last) => i # Len(up) + Len(r.out)
          BY <4>1 DEF TellsPlaying, TellsSilence
      <4>. QED
          BY <1>3, <3>2, <4>1, <4>2 DEF Closes
    <3>. QED
        BY <2>2, <3>1, <3>2 DEF Uncommanded
  <2>3. ASSUME r.deck.request = last, r.deck.status # "playing"
        PROVE  /\ client = "playing" => \E j \in DOMAIN v : TellsSilence(v[j], last)
               /\ \A i \in DOMAIN v : v[i].request = last /\ v[i].status = "playing" =>
                     \E j \in DOMAIN v : i < j /\ TellsSilence(v[j], last)
    <3>1. CASE deck.status # "playing" /\ Hushed(r)
      <4>1. client = "playing" => \E j \in DOMAIN up : TellsSilence(up[j], last)
          BY <1>0, <1>5, <2>3, <3>1 DEF ReportsAgree
      <4>2. \A i \in DOMAIN v : v[i].status = "playing" => i \in DOMAIN up /\ v[i] = up[i]
          BY <1>1, <3>1 DEF Hushed
      <4>3. \A i \in DOMAIN up : up[i].request = last /\ up[i].status = "playing" =>
                \E j \in DOMAIN up : i < j /\ TellsSilence(up[j], last)
          BY <1>0, <1>5, <2>3, <3>1 DEF ReportsAgree
      <4>. QED
          BY <1>1, <4>1, <4>2, <4>3
    <3>2. ASSUME NEW w \in PlayerStates \ {"playing"}, Closes(r, w)
          PROVE  /\ client = "playing" => \E j \in DOMAIN v : TellsSilence(v[j], last)
                 /\ \A i \in DOMAIN v : v[i].request = last /\ v[i].status = "playing" =>
                       \E j \in DOMAIN v : i < j /\ TellsSilence(v[j], last)
      <4>1. TellsSilence(v[Len(up) + Len(r.out)], last)
          BY <1>0, <1>3, <2>3, <3>2 DEF Closes, TellsSilence
      <4>2. \A i \in DOMAIN v : v[i].status = "playing" => i # Len(up) + Len(r.out)
          BY <4>1 DEF TellsSilence
      <4>. QED
          BY <1>3, <3>2, <4>1, <4>2 DEF Closes
    <3>. QED
        BY <2>3, <3>1, <3>2 DEF Uncommanded
  <2>. QED
      BY <2>1, <2>2, <2>3 DEF ReportsAgree
<1>. QED
    BY <1>4, <1>5 DEF v

\* Reports of a command that is taken.
LEMMA TakenReports ==
    ASSUME deck \in Decks, deck.pending \in {0, deck.request}, up \in Seq(Reports), NEW f \in ControlFrames,
           NEW r, Taken(r, f), NEW last \in Nat, NEW client, deck.request < f.request, f.request <= last,
           ReportsTrue(deck, up)
    PROVE  /\ ReportsTrue(r.deck, up \o r.out)
           /\ ReportsAgree(deck, up, last, client) => ReportsAgree(r.deck, up \o r.out, last, client)
<1>0. /\ r.out \in Seq(Reports) /\ deck.request \in Nat /\ f.request \in Nat \ {0} /\ r.deck.request = f.request
      /\ r.deck.pending \in {0, f.request} /\ r.deck.status # "playing"
      /\ \A i \in DOMAIN r.out : r.out[i].request \in {deck.pending, f.request} /\ r.out[i].status # "playing"
      /\ \A i \in DOMAIN up : up[i].request \in Nat
  <2>1. \A e \in Reports : e.request \in Nat
      BY DEF Reports
  <2>2. \A i \in DOMAIN up : up[i] \in Reports
      OBVIOUS
  <2>3. r.out \in Seq(Reports) /\ deck.request \in Nat /\ f.request \in Nat \ {0}
      BY DEF Taken, Outcomes, Decks, ControlFrames
  <2>. QED
      BY <2>1, <2>2, <2>3 DEF Taken, Hushed
<1> DEFINE v == up \o r.out
<1>1. \A i \in DOMAIN v : (i \in DOMAIN up /\ v[i] = up[i]) \/ (\E j \in DOMAIN r.out : v[i] = r.out[j])
    BY <1>0, Joined
<1> HIDE DEF v
<1>2. \A i \in DOMAIN v : v[i].request <= f.request
  <2>1. \A i \in DOMAIN up : up[i].request <= f.request
      BY <1>0 DEF ReportsTrue
  <2>2. \A j \in DOMAIN r.out : r.out[j].request <= f.request
      BY <1>0
  <2>. QED
      BY <1>1, <2>1, <2>2
<1>3. \A i \in DOMAIN v : v[i].request = f.request => v[i].status # "playing"
  <2>1. \A i \in DOMAIN up : up[i].request # f.request
      BY <1>0 DEF ReportsTrue
  <2>. QED
      BY <1>0, <1>1, <2>1
<1>4. ReportsTrue(r.deck, v)
    BY <1>0, <1>2, <1>3 DEF ReportsTrue
<1>5. ASSUME ReportsAgree(deck, up, last, client) PROVE ReportsAgree(r.deck, v, last, client)
  <2>1. client # "playing"
      BY <1>0, <1>5 DEF ReportsAgree
  <2>. QED
      BY <1>0, <1>3, <2>1 DEF ReportsAgree
<1>. QED
    BY <1>4, <1>5 DEF v

\* A report that has come: what it says of the last command is taken over, except that the
\* result of a command that is waited for no more is dropped.
LEMMA ReportsComeIn ==
    ASSUME deck \in Decks, deck.pending \in {0, deck.request}, up \in Seq(Reports), up # <<>>,
           NEW last \in Nat, NEW client, NEW known, deck.request <= last,
           ReportsTrue(deck, up), ReportsAgree(deck, up, last, client),
           known = client \/ (Head(up).request = last /\ known = Head(up).status),
           Head(up).type = "state" /\ Head(up).request = last => known = Head(up).status
    PROVE  ReportsTrue(deck, Tail(up)) /\ ReportsAgree(deck, Tail(up), last, known)
<1> DEFINE e == Head(up)
           v == Tail(up)
<1>0. /\ 1 \in DOMAIN up /\ e = up[1] /\ deck.request \in Nat
      /\ \A i \in DOMAIN v : i + 1 \in DOMAIN up /\ v[i] = up[i + 1] /\ 1 < i + 1
      /\ \A i \in DOMAIN up : i # 1 => i - 1 \in DOMAIN v /\ v[i - 1] = up[i]
      /\ \A i \in DOMAIN up : 1 < i => i # 1
      /\ up[1].request \in Nat /\ up[1].type \in {"result", "state"}
  <2>1. \A x \in Reports : x.request \in Nat /\ x.type \in {"result", "state"}
      BY DEF Reports
  <2>2. deck.request \in Nat
      BY DEF Decks
  <2>3. \A i \in DOMAIN up : 1 < i => i # 1
      OBVIOUS
  <2>. QED
      BY <2>1, <2>2, <2>3, Dropped
<1>1. \A i, j \in DOMAIN up : i < j => i - 1 < j - 1
    BY Dropped
<1>2. \A i \in DOMAIN v, j \in DOMAIN up : i + 1 < j => i < j - 1
    OBVIOUS
<1> HIDE DEF e, v
<1>3. ReportsTrue(deck, v)
    BY <1>0 DEF ReportsTrue
<1>4. deck.request # last \/ deck.pending # 0 => known # "playing"
  <2>1. ASSUME e.request = last, known = e.status, deck.request # last \/ deck.pending # 0 PROVE known # "playing"
    <3>1. deck.request = last
        BY <1>0, <2>1 DEF ReportsTrue
    <3>. QED
        BY <1>0, <2>1, <3>1 DEF ReportsTrue
  <2>. QED
      BY <2>1 DEF ReportsAgree, e
<1>5. ASSUME deck.request = last, deck.status = "playing"
      PROVE  /\ known # "playing" => \E j \in DOMAIN v : TellsPlaying(v[j], last)
             /\ \A i \in DOMAIN v : v[i].type = "result" \/ TellsSilence(v[i], last) =>
                   \E j \in DOMAIN v : i < j /\ TellsPlaying(v[j], last)
  <2>1. ASSUME known # "playing" PROVE \E j \in DOMAIN v : TellsPlaying(v[j], last)
    <3>1. CASE e.type = "result" \/ TellsSilence(e, last)
      <4>1. PICK j \in DOMAIN up : 1 < j /\ TellsPlaying(up[j], last)
          BY <1>0, <1>5, <3>1 DEF ReportsAgree
      <4>. QED
          BY <1>0, <4>1
    <3>2. CASE e.type = "state" /\ ~TellsSilence(e, last)
      <4>1. e.request # last
          BY <2>1, <3>2 DEF TellsSilence, e
      <4>2. known = client
          BY <4>1 DEF e
      <4>3. PICK j \in DOMAIN up : TellsPlaying(up[j], last)
          BY <1>5, <2>1, <4>2 DEF ReportsAgree
      <4>4. j # 1
          BY <1>0, <4>1, <4>3 DEF TellsPlaying
      <4>. QED
          BY <1>0, <4>3, <4>4
    <3>. QED
        BY <1>0, <3>1, <3>2
  <2>2. ASSUME NEW i \in DOMAIN v, v[i].type = "result" \/ TellsSilence(v[i], last)
        PROVE  \E j \in DOMAIN v : i < j /\ TellsPlaying(v[j], last)
    <3>1. PICK j \in DOMAIN up : i + 1 < j /\ TellsPlaying(up[j], last)
        BY <1>0, <1>5, <2>2 DEF ReportsAgree
    <3>2. j # 1 /\ i < j - 1
        BY <1>0, <1>2, <3>1
    <3>. QED
        BY <1>0, <3>1, <3>2
  <2>. QED
      BY <2>1, <2>2
<1>6. ASSUME deck.request = last, deck.status # "playing"
      PROVE  /\ known = "playing" => \E j \in DOMAIN v : TellsSilence(v[j], last)
             /\ \A i \in DOMAIN v : v[i].request = last /\ v[i].status = "playing" =>
                   \E j \in DOMAIN v : i < j /\ TellsSilence(v[j], last)
  <2>1. ASSUME known = "playing" PROVE \E j \in DOMAIN v : TellsSilence(v[j], last)
    <3>1. CASE e.request = last /\ e.status = "playing"
      <4>1. PICK j \in DOMAIN up : 1 < j /\ TellsSilence(up[j], last)
          BY <1>0, <1>6, <3>1 DEF ReportsAgree
      <4>. QED
          BY <1>0, <4>1
    <3>2. CASE ~(e.request = last /\ e.status = "playing")
      <4>1. client = "playing"
          BY <2>1, <3>2 DEF e
      <4>2. PICK j \in DOMAIN up : TellsSilence(up[j], last)
          BY <1>6, <4>1 DEF ReportsAgree
      <4>3. j # 1
          BY <1>0, <2>1, <4>2 DEF TellsSilence, e
      <4>. QED
          BY <1>0, <4>2, <4>3
    <3>. QED
        BY <3>1, <3>2
  <2>2. ASSUME NEW i \in DOMAIN v, v[i].request = last, v[i].status = "playing"
        PROVE  \E j \in DOMAIN v : i < j /\ TellsSilence(v[j], last)
    <3>1. PICK j \in DOMAIN up : i + 1 < j /\ TellsSilence(up[j], last)
        BY <1>0, <1>6, <2>2 DEF ReportsAgree
    <3>2. j # 1 /\ i < j - 1
        BY <1>0, <1>2, <3>1
    <3>. QED
        BY <1>0, <3>1, <3>2
  <2>. QED
      BY <2>1, <2>2
<1>. QED
    BY <1>3, <1>4, <1>5, <1>6 DEF ReportsAgree, v

\* Where a result is, after an event of the player, after a command was taken and after
\* another report came in.
LEMMA ResultsAreLocated ==
    ASSUME deck \in Decks, deck.pending \in {0, deck.request}, up \in Seq(Reports), down \in Seq(Frames),
           NEW q \in Nat \ {0}, Located(q, deck, down, up)
    PROVE  /\ \A r : Uncommanded(r) => Located(q, r.deck, down, up \o r.out)
           /\ \A r : Uncommanded(r) /\ down # <<>> /\ ~Control(Head(down)) => Located(q, r.deck, Tail(down), up \o r.out)
           /\ \A r : down # <<>> /\ Control(Head(down)) /\ Taken(r, Head(down)) =>
                 Located(q, r.deck, Tail(down), up \o r.out)
           /\ \A f \in Frames : Located(q, deck, Append(down, f), up)
           /\ up # <<>> /\ ~(Head(up).type = "result" /\ Head(up).request = q /\ Head(up).status # "waiting") =>
                 Located(q, deck, down, Tail(up))
<1> DEFINE Says(u, i) == u[i].type = "result" /\ u[i].request = q /\ u[i].status # "waiting"
<1>1. ASSUME NEW r, r.out \in Seq(Reports)
      PROVE  /\ \A i \in DOMAIN up : Says(up, i) => \E j \in DOMAIN (up \o r.out) : Says(up \o r.out, j)
             /\ \A i \in DOMAIN r.out : Says(r.out, i) => \E j \in DOMAIN (up \o r.out) : Says(up \o r.out, j)
  <2>1. /\ \A i \in DOMAIN up : i \in DOMAIN (up \o r.out) /\ (up \o r.out)[i] = up[i]
        /\ \A i \in DOMAIN r.out : Len(up) + i \in DOMAIN (up \o r.out) /\ (up \o r.out)[Len(up) + i] = r.out[i]
      BY SMTT(30), <1>1, Joined
  <2>. QED
      BY ZenonT(40), <2>1
<1>2. ASSUME NEW r, Uncommanded(r)
      PROVE  \/ q = r.deck.pending
             \/ \E i \in DOMAIN down : Control(down[i]) /\ down[i].request = q
             \/ \E j \in DOMAIN (up \o r.out) : Says(up \o r.out, j)
  <2>0. r.out \in Seq(Reports) /\ \A i \in DOMAIN r.out : r.out[i].request = deck.request
      BY <1>2 DEF Uncommanded, Telling, Outcomes
  <2>1. CASE q = deck.pending
    <3>1. deck.pending = deck.request /\ (r.deck.pending = deck.pending \/ r.deck.pending = 0)
        BY <1>2, <2>1 DEF Uncommanded, Telling
    <3>2. CASE r.deck.pending = 0
      <4>1. PICK i \in DOMAIN r.out : r.out[i].type = "result" /\ r.out[i].status # "waiting"
          BY <1>2, <2>1, <3>2 DEF Uncommanded, Telling
      <4>2. Says(r.out, i)
          BY <2>0, <2>1, <3>1, <4>1
      <4>. QED
          BY <1>1, <2>0, <4>2
    <3>. QED
        BY <2>1, <3>1, <3>2
  <2>2. CASE \E i \in DOMAIN down : Control(down[i]) /\ down[i].request = q
      BY <2>2
  <2>3. CASE \E i \in DOMAIN up : Says(up, i)
      BY <1>1, <2>0, <2>3
  <2>. QED
      BY <2>1, <2>2, <2>3 DEF Located
<1>3. ASSUME NEW r, Uncommanded(r) PROVE Located(q, r.deck, down, up \o r.out)
    BY <1>2, <1>3 DEF Located
<1>4. ASSUME NEW r, Uncommanded(r), down # <<>>, ~Control(Head(down)) PROVE Located(q, r.deck, Tail(down), up \o r.out)
  <2>1. ASSUME NEW i \in DOMAIN down, Control(down[i]), down[i].request = q
        PROVE  \E j \in DOMAIN Tail(down) : Control(Tail(down)[j]) /\ Tail(down)[j].request = q
    <3>1. i # 1
        BY <1>4, <2>1
    <3>2. i - 1 \in DOMAIN Tail(down) /\ Tail(down)[i - 1] = down[i]
        BY <1>4, <3>1, Dropped
    <3>. QED
        BY <2>1, <3>2
  <2>. QED
      BY <1>2, <1>4, <2>1 DEF Located
<1>5. ASSUME NEW r, down # <<>>, Control(Head(down)), Taken(r, Head(down))
      PROVE  Located(q, r.deck, Tail(down), up \o r.out)
  <2>0. r.out \in Seq(Reports) /\ r.deck.pending \in {0, Head(down).request}
      BY <1>5 DEF Taken, Outcomes
  <2>1. CASE q = deck.pending
    <3>1. \E i \in DOMAIN r.out : Says(r.out, i)
        BY <1>5, <2>1 DEF Taken
    <3>. QED
        BY <1>1, <2>0, <3>1 DEF Located
  <2>2. ASSUME NEW i \in DOMAIN down, Control(down[i]), down[i].request = q
        PROVE  Located(q, r.deck, Tail(down), up \o r.out)
    <3>1. CASE i = 1
      <4>1. Head(down).request = q
          BY <1>5, <2>2, <3>1
      <4>2. r.deck.pending = 0 => \E k \in DOMAIN r.out : Says(r.out, k)
          BY <1>5, <4>1 DEF Taken
      <4>. QED
          BY <1>1, <2>0, <4>1, <4>2 DEF Located
    <3>2. CASE i # 1
      <4>1. i - 1 \in DOMAIN Tail(down) /\ Tail(down)[i - 1] = down[i]
          BY <1>5, <3>2, Dropped
      <4>. QED
          BY <2>2, <4>1 DEF Located
    <3>. QED
        BY <3>1, <3>2
  <2>3. CASE \E i \in DOMAIN up : Says(up, i)
      BY <1>1, <2>0, <2>3 DEF Located
  <2>. QED
      BY <2>1, <2>2, <2>3 DEF Located
<1>6. ASSUME NEW f \in Frames PROVE Located(q, deck, Append(down, f), up)
  <2>1. \A i \in DOMAIN down : i \in DOMAIN Append(down, f) /\ Append(down, f)[i] = down[i]
      OBVIOUS
  <2>. QED
      BY <2>1 DEF Located
<1>7. ASSUME up # <<>>, ~Says(<<Head(up)>>, 1) PROVE Located(q, deck, down, Tail(up))
  <2>1. ASSUME NEW i \in DOMAIN up, Says(up, i) PROVE \E j \in DOMAIN Tail(up) : Says(Tail(up), j)
    <3>1. i # 1
        BY <1>7, <2>1
    <3>2. i - 1 \in DOMAIN Tail(up) /\ Tail(up)[i - 1] = up[i]
        BY <1>7, <3>1, Dropped
    <3>. QED
        BY <2>1, <3>2
  <2>. QED
      BY <2>1 DEF Located
<1>8. up # <<>> => <<Head(up)>>[1] = Head(up)
    OBVIOUS
<1>. QED
    BY <1>3, <1>4, <1>5, <1>6, <1>7, <1>8

\* What was to silence the player last still is, whatever else is sent or happens; and a
\* command that silences it is the last when it is published.
LEMMA SilencesStay ==
    ASSUME NEW s \in Seq(Frames), NEW last \in Nat, deck \in Decks
    PROVE  /\ LastSilences(s, deck, last) =>
                 /\ \A e \in Frames : ~Control(e) => LastSilences(Append(s, e), deck, last)
                 /\ \A r : Uncommanded(r) => LastSilences(s, r.deck, last)
                 /\ \A r : s # <<>> /\ Uncommanded(r) => LastSilences(Tail(s), r.deck, last)
                 /\ \A r : s # <<>> /\ Control(Head(s)) /\ Taken(r, Head(s)) => LastSilences(Tail(s), r.deck, last)
           /\ \A e \in Frames : CommandsInOrder(s, deck.request, last) /\ e.request = last + 1 /\ Silencing(e) =>
                 LastSilences(Append(s, e), deck, last + 1)
<1>1. ASSUME NEW e \in Frames
      PROVE  \A i \in DOMAIN Append(s, e) : (i \in DOMAIN s /\ Append(s, e)[i] = s[i]) \/ Append(s, e)[i] = e
    OBVIOUS
<1>2. ASSUME NEW e \in Frames, ~Control(e), LastSilences(s, deck, last) PROVE LastSilences(Append(s, e), deck, last)
    BY <1>1, <1>2 DEF LastSilences
<1>3. ASSUME NEW r, Uncommanded(r) PROVE r.deck.request = deck.request /\ (deck.wants = FALSE => r.deck.wants = FALSE)
  <2>1. r.deck \in Decks /\ r.deck.request = deck.request /\ (r.deck.wants = TRUE => deck.wants = TRUE)
      BY <1>3 DEF Uncommanded, Telling, Outcomes
  <2>2. r.deck.wants \in BOOLEAN /\ deck.wants \in BOOLEAN
      BY <2>1 DEF Decks
  <2>. QED
      BY <2>1, <2>2
<1>4. s # <<>> => \A i \in DOMAIN Tail(s) : i + 1 \in DOMAIN s /\ Tail(s)[i] = s[i + 1]
    BY Dropped
<1>5. ASSUME NEW r, Control(Head(s)), s # <<>>, Taken(r, Head(s)), LastSilences(s, deck, last)
      PROVE  LastSilences(Tail(s), r.deck, last)
  <2>1. Head(s) = s[1] /\ 1 \in DOMAIN s
      BY <1>5
  <2>2. Head(s).request = last => Silencing(Head(s))
      BY <1>5, <2>1 DEF LastSilences
  <2>3. r.deck.request = last => r.deck.wants = FALSE
      BY <1>5, <2>2 DEF Taken
  <2>. QED
      BY <1>4, <1>5, <2>3 DEF LastSilences
<1>6. ASSUME NEW e \in Frames, CommandsInOrder(s, deck.request, last), e.request = last + 1, Silencing(e)
      PROVE  LastSilences(Append(s, e), deck, last + 1)
  <2>1. deck.request \in Nat /\ deck.request <= last
      BY <1>6 DEF CommandsInOrder, Decks
  <2>2. \A i \in DOMAIN s : Control(s[i]) => s[i].request \in Nat /\ s[i].request <= last
    <3>1. \A i \in DOMAIN s : s[i] \in Frames /\ (Control(s[i]) => s[i].request \in Nat)
        BY DEF Frames, ControlFrames, StatusFrames, ErrorFrames, Control
    <3>. QED
        BY <1>6, <3>1 DEF CommandsInOrder
  <2>3. \A i \in DOMAIN s : Control(s[i]) => s[i].request # last + 1
      BY <2>2
  <2>4. deck.request # last + 1
      BY <2>1
  <2>. QED
      BY <1>1, <1>6, <2>3, <2>4 DEF LastSilences
<1>. QED
    BY <1>2, <1>3, <1>4, <1>5, <1>6 DEF LastSilences

\* Operations are numbered from 1.
LEMMA SubmitNumbers ==
    /\ MaxSubmits \in Nat /\ MaxPendingAcks \in Nat \ {0} /\ MaxEvents \in Nat
    /\ \A n : n \in Submits <=> n \in Nat /\ n # 0 /\ n <= MaxSubmits
    /\ \A n : n \in 0 .. MaxSubmits <=> n = 0 \/ n \in Submits
BY MediaAssumption DEF Submits

\* The types of what the invariants speak of.
LEMMA MediaFacts ==
    ASSUME MediaTypeOK
    PROVE  /\ revision \in Nat /\ requests \in Nat /\ submits \in Nat /\ resolver \in Nat /\ refused \subseteq {"operation", "track"}
           /\ observed \in Observations /\ observed.track \in Nat /\ observed.wanted \in BOOLEAN
           /\ observed.op \in 0 .. MaxSubmits /\ observed.track \in 0 .. MaxSubmits
           /\ submits \in 0 .. MaxSubmits /\ resolver \in 0 .. MaxSubmits
           /\ job \in [Submits -> Jobs] /\ \A n \in Submits : job[n] \in Jobs /\ job[n].rev \in Nat
           /\ down \in Seq(Frames) /\ up \in Seq(Reports)
           /\ deck \in Decks /\ deck.request \in Nat /\ deck.track \in Nat /\ deck.pending \in Nat /\ deck.rev \in Int
           /\ submits # 0 => submits \in Submits
<1>1. /\ revision \in Nat /\ requests \in Nat /\ refused \subseteq {"operation", "track"}
      /\ observed \in Observations /\ job \in [Submits -> Jobs]
      /\ submits \in 0 .. MaxSubmits /\ resolver \in 0 .. MaxSubmits
      /\ down \in Seq(Frames) /\ up \in Seq(Reports) /\ deck \in Decks
    BY DEF MediaTypeOK, SessionOK, PlayerOK
<1>2. observed.track \in 0 .. MaxSubmits /\ observed.op \in 0 .. MaxSubmits /\ observed.wanted \in BOOLEAN
    BY <1>1 DEF Observations
<1>3. deck.request \in Nat /\ deck.track \in 0 .. MaxSubmits /\ deck.pending \in Nat /\ deck.rev \in Int
    BY <1>1 DEF Decks
<1>4. \A n \in Submits : job[n] \in Jobs /\ job[n].rev \in Nat
    BY <1>1 DEF Jobs
<1>5. submits \in Nat /\ resolver \in Nat /\ observed.track \in Nat /\ deck.track \in Nat
    BY <1>1, <1>2, <1>3, SubmitNumbers
<1>. QED
    BY <1>1, <1>2, <1>3, <1>4, <1>5, SubmitNumbers

(***************************************************************************)
(* The page: an event that is no command, or a command taken.              *)
(***************************************************************************)
\* What the page makes of an event keeps the invariant.
LEMMA PageStep ==
    ASSUME MediaInv, UNCHANGED mediaSide, events' \in 0 .. MaxEvents,
           NEW r, deck' = r.deck, up' = up \o r.out,
           \/ Uncommanded(r) /\ down' = down /\ r.deck.rev = deck.rev
           \/ down # <<>> /\ down' = Tail(down) /\ ~Control(Head(down)) /\ Uncommanded(r) /\ r.deck.rev = Head(down).rev
           \/ down # <<>> /\ down' = Tail(down) /\ Control(Head(down)) /\ Taken(r, Head(down))
    PROVE  MediaInv'
<1> DEFINE Still == Uncommanded(r) /\ down' = down /\ r.deck.rev = deck.rev
           Told == down # <<>> /\ down' = Tail(down) /\ ~Control(Head(down)) /\ Uncommanded(r) /\ r.deck.rev = Head(down).rev
           Done == down # <<>> /\ down' = Tail(down) /\ Control(Head(down)) /\ Taken(r, Head(down))
<1>0. MediaTypeOK /\ FrameOrder /\ CommandOrder /\ TrackOrder /\ TaskOrder /\ WishShape
      /\ DeckShape /\ SilenceShape /\ PendingShape /\ ReportShape
    BY DEF MediaInv
<1>1. /\ revision' = revision /\ shutting' = shutting /\ observed' = observed /\ job' = job /\ resolver' = resolver
      /\ pending' = pending /\ requests' = requests /\ submits' = submits /\ refused' = refused
    BY DEF mediaSide
<1>2. Still \/ Told \/ Done
    OBVIOUS
<1>3. /\ deck \in Decks /\ deck.request \in Nat /\ deck.track \in Nat /\ deck.pending \in {0, deck.request}
      /\ deck.rev \in Int /\ down \in Seq(Frames) /\ up \in Seq(Reports)
      /\ revision \in Nat /\ requests \in Nat /\ observed.track \in Nat
    BY <1>0, MediaFacts DEF CommandOrder
<1>4. r \in Outcomes /\ r.deck \in Decks /\ r.out \in Seq(Reports)
    BY <1>2 DEF Uncommanded, Telling, Taken, Outcomes
<1>5. Done => Head(down) \in ControlFrames /\ Head(down).request \in Nat \ {0}
             /\ CommandsInOrder(Tail(down), Head(down).request, requests)
             /\ deck.request < Head(down).request /\ Head(down).request <= requests
  <2>1. down # <<>> => Head(down) \in Frames
      BY <1>3
  <2>2. down # <<>> /\ Control(Head(down)) => Head(down) \in ControlFrames
      BY <2>1 DEF Frames, ControlFrames, StatusFrames, ErrorFrames, Control
  <2>3. \A f \in ControlFrames : f.request \in Nat \ {0}
      BY DEF ControlFrames
  <2>. QED
      BY <1>0, <1>3, <2>2, <2>3, CommandsStayInOrder DEF CommandOrder
<1>6. r.deck.rev = IF Still THEN deck.rev ELSE Head(down).rev
    BY <1>2 DEF Taken
<1> HIDE DEF Still, Told, Done
<1>7. MediaTypeOK'
  <2>1. SessionOK' /\ PendingOK'
      BY <1>0, <1>1 DEF MediaTypeOK, SessionOK, PendingOK
  <2>2. down' \in Seq(Frames)
    <3>1. down # <<>> => Tail(down) \in Seq(Frames)
        BY <1>3
    <3>2. down' = down \/ (down # <<>> /\ down' = Tail(down))
        BY <1>2 DEF Still, Told, Done
    <3>. QED
        BY <1>3, <3>1, <3>2
  <2>3. up' \in Seq(Reports)
      BY <1>3, <1>4
  <2>. QED
      BY <1>4, <2>1, <2>2, <2>3 DEF MediaTypeOK, PlayerOK
<1>8. FrameOrder'
  <2>1. FramesInOrder(down, deck.rev, revision)
      BY <1>0 DEF FrameOrder
  <2>2. down # <<>> => FramesInOrder(Tail(down), Head(down).rev, revision)
      BY <1>3, <2>1, FramesStayInOrder
  <2>3. (Still => down' = down /\ deck'.rev = deck.rev) /\ (~Still => down # <<>> /\ down' = Tail(down) /\ deck'.rev = Head(down).rev)
      BY <1>2, <1>6 DEF Still, Told, Done
  <2>. QED
      BY <1>1, <2>1, <2>2, <2>3 DEF FrameOrder
<1>9. CommandOrder'
  <2>0. CommandsInOrder(down, deck.request, requests)
      BY <1>0 DEF CommandOrder
  <2>1. CASE Still
    <3>1. deck'.request = deck.request /\ deck'.pending \in {0, deck.request} /\ down' = down
        BY <1>3, <2>1 DEF Still, Uncommanded, Telling
    <3>. QED
        BY <1>1, <2>0, <3>1 DEF CommandOrder
  <2>2. CASE Told
    <3>1. deck'.request = deck.request /\ deck'.pending \in {0, deck.request} /\ down' = Tail(down)
        BY <1>3, <2>2 DEF Told, Uncommanded, Telling
    <3>2. CommandsInOrder(Tail(down), deck.request, requests)
        BY <1>3, <2>0, <2>2, CommandsStayInOrder DEF Told
    <3>. QED
        BY <1>1, <3>1, <3>2 DEF CommandOrder
  <2>3. CASE Done
    <3>1. deck'.request = Head(down).request /\ deck'.pending \in {0, Head(down).request} /\ down' = Tail(down)
        BY <2>3 DEF Done, Taken
    <3>. QED
        BY <1>1, <1>5, <2>3, <3>1 DEF CommandOrder
  <2>. QED
      BY <1>2, <2>1, <2>2, <2>3
<1>10. TrackOrder'
  <2>0. TracksInOrder(down, deck.track) /\ (~shutting => TracksKnown(down, deck.track, observed.track, refused))
      BY <1>0 DEF TrackOrder
  <2>1. CASE Still
    <3>1. deck'.track = deck.track /\ down' = down
        BY <2>1 DEF Still, Uncommanded, Telling
    <3>. QED
        BY <1>0, <1>1, <3>1 DEF TrackOrder
  <2>2. CASE down # <<>> /\ down' = Tail(down) /\ ~Play(Head(down)) /\ deck'.track = deck.track
    <3>1. TracksInOrder(Tail(down), deck.track)
        BY <1>3, <2>0, <2>2, TracksStayInOrder
    <3>2. ~shutting => TracksKnown(Tail(down), deck.track, observed.track, refused)
        BY <1>3, <2>0, <2>2, TracksStayKnown
    <3>. QED
        BY <1>0, <1>1, <2>2, <3>1, <3>2 DEF TrackOrder
  <2>3. CASE down # <<>> /\ down' = Tail(down) /\ Play(Head(down)) /\ deck'.track = Head(down).track
    <3>1. TracksInOrder(Tail(down), Head(down).track)
        BY <1>3, <2>0, <2>3, TracksStayInOrder
    <3>2. ~shutting => TracksKnown(Tail(down), Head(down).track, observed.track, refused)
        BY <1>3, <2>0, <2>3, TracksStayKnown
    <3>. QED
        BY <1>0, <1>1, <2>3, <3>1, <3>2 DEF TrackOrder
  <2>4. Told => down # <<>> /\ down' = Tail(down) /\ ~Play(Head(down)) /\ deck'.track = deck.track
      BY DEF Told, Uncommanded, Telling, Play
  <2>5. Done => /\ down # <<>> /\ down' = Tail(down)
                /\ deck'.track = IF Play(Head(down)) THEN Head(down).track ELSE deck.track
      BY DEF Done, Taken, Play
  <2>. QED
      BY <1>2, <2>1, <2>2, <2>3, <2>4, <2>5
<1>11. TaskOrder' /\ WishShape'
    BY <1>0, <1>1 DEF TaskOrder, WishShape, Pursued
<1>12. DeckShape'
  <2>1. Uncommanded(r) => DeckShape'
      BY DEF Uncommanded, DeckShape
  <2>2. Done => DeckShape'
      BY <1>5 DEF Done, Taken, DeckShape
  <2>. QED
      BY <1>2, <2>1, <2>2 DEF Still, Told
<1>13. SilenceShape'
  <2>1. LastSilences(down, deck, requests) => LastSilences(down', deck', requests)
      BY <1>2, <1>3, SilencesStay DEF Still, Told, Done
  <2>. QED
      BY <1>0, <1>1, <2>1 DEF SilenceShape
<1>14. PendingShape'
  <2>1. ASSUME ~shutting, NEW p \in pending PROVE Located(p.request, deck', down', up')
    <3>1. p.request \in Nat \ {0}
        BY <1>0 DEF MediaTypeOK, PendingOK, Commands
    <3>2. Located(p.request, deck, down, up)
        BY <1>0, <2>1 DEF PendingShape
    <3>. QED
        BY <1>2, <1>3, <3>1, <3>2, ResultsAreLocated DEF Still, Told, Done
  <2>. QED
      BY <1>1, <2>1 DEF PendingShape
<1>15. ReportShape'
  <2>0. ReportsTrue(deck, up) /\ (~shutting => ReportsAgree(deck, up, requests, observed.client))
      BY <1>0 DEF ReportShape
  <2>1. Uncommanded(r) => ReportsTrue(deck', up') /\ (~shutting => ReportsAgree(deck', up', requests, observed.client))
      BY <1>3, <2>0, QuietReports
  <2>2. Done => ReportsTrue(deck', up') /\ (~shutting => ReportsAgree(deck', up', requests, observed.client))
      BY <1>3, <1>5, <2>0, TakenReports DEF Done
  <2>. QED
      BY <1>1, <1>2, <2>1, <2>2 DEF Still, Told, ReportShape
<1>. QED
    BY <1>7, <1>8, <1>9, <1>10, <1>11, <1>12, <1>13, <1>14, <1>15 DEF MediaInv

\* A frame is taken, the audio begins, ends or fails, and something interrupts the player.
LEMMA PageReceivesKeeps == MediaInv /\ PageReceives => MediaInv'
<1> SUFFICES ASSUME MediaInv, PageReceives PROVE MediaInv'
    OBVIOUS
<1> DEFINE f == Head(down)
<1>0. /\ MediaTypeOK /\ FrameOrder /\ CommandOrder /\ TrackOrder /\ DeckShape
      /\ deck \in Decks /\ deck.pending \in {0, deck.request} /\ down \in Seq(Frames) /\ deck.track \in Nat
      /\ deck.rev \in Int /\ events \in 0 .. MaxEvents
    BY MediaFacts DEF MediaInv, CommandOrder, MediaTypeOK, PlayerOK
<1>1. down # <<>> /\ down' = Tail(down) /\ UNCHANGED mediaSide /\ events' = events
    BY DEF PageReceives
<1>2. f \in Frames /\ down[1] = f /\ 1 \in DOMAIN down
    BY <1>0, <1>1
<1>3. ~Old(f)
  <2>1. deck.rev <= f.rev /\ f.rev \in Int
      BY <1>0, <1>2 DEF FrameOrder, FramesInOrder, Frames, ControlFrames, StatusFrames, ErrorFrames
  <2>. QED
      BY <1>0, <2>1 DEF Old
<1>4. CASE f \in ControlFrames
  <2>1. f.type = "control" /\ f.track \in Nat
      BY <1>4, SubmitNumbers DEF ControlFrames
  <2>2. f.act = "play" => f.track # 0
      BY <1>0, <1>2, <2>1 DEF TrackOrder, TracksInOrder, Play, Control
  <2>3. Becomes(Handle(f))
      BY <1>3, <2>1 DEF PageReceives
  <2>4. Taken(Handle(f), f)
      BY <1>0, <1>4, <2>2, HandleTaken
  <2>5. deck' = Handle(f).deck /\ up' = up \o Handle(f).out
      BY <2>3 DEF Becomes
  <2>. QED
      BY <1>0, <1>1, <2>1, <2>4, <2>5, PageStep DEF Control
<1>5. CASE f \in StatusFrames
  <2>1. f.type = "status"
      BY <1>5 DEF StatusFrames
  <2>2. Becomes(Operation(f))
      BY <1>3, <2>1 DEF PageReceives
  <2>3. Uncommanded(Operation(f)) /\ Operation(f).deck.rev = f.rev
      BY <1>0, <1>5, OperationIsQuiet
  <2>4. deck' = Operation(f).deck /\ up' = up \o Operation(f).out
      BY <2>2 DEF Becomes
  <2>. QED
      BY <1>0, <1>1, <2>1, <2>3, <2>4, PageStep DEF Control
<1>6. CASE f \in ErrorFrames
  <2> DEFINE r == Show(Interrupt(Same([deck EXCEPT !.rev = f.rev])), "failed")
  <2>1. f.type = "error" /\ f.rev \in Nat
      BY <1>6 DEF ErrorFrames
  <2>2. Becomes(r)
      BY <1>3, <2>1 DEF PageReceives
  <2>3. Uncommanded(r) /\ r.deck.rev = f.rev
      BY <1>0, <2>1, ErrorIsQuiet
  <2> HIDE DEF r
  <2>4. deck' = r.deck /\ up' = up \o r.out
      BY <2>2 DEF Becomes
  <2>. QED
      BY <1>0, <1>1, <2>1, <2>3, <2>4, PageStep DEF Control
<1>. QED
    BY <1>2, <1>4, <1>5, <1>6 DEF Frames

\* The audio of the player and what interrupts it.
LEMMA PlayerKeeps == MediaInv /\ (AudioPlays \/ AudioStops \/ SetBusy) => MediaInv'
<1> SUFFICES ASSUME MediaInv, AudioPlays \/ AudioStops \/ SetBusy PROVE MediaInv'
    OBVIOUS
<1>0. /\ deck \in Decks /\ deck.pending \in {0, deck.request} /\ DeckShape /\ events \in Nat /\ events <= MaxEvents
      /\ MaxEvents \in Nat
    BY MediaFacts, SubmitNumbers DEF MediaInv, CommandOrder, MediaTypeOK, PlayerOK
<1>1. UNCHANGED mediaSide /\ down' = down /\ events' \in 0 .. MaxEvents
  <2>1. events' = events \/ (events < MaxEvents /\ events' = events + 1)
      BY DEF AudioPlays, AudioStops, SetBusy
  <2>2. events' \in 0 .. MaxEvents
      BY <1>0, <2>1
  <2>. QED
      BY <2>2 DEF AudioPlays, AudioStops, SetBusy
<1>2. ASSUME NEW r, Uncommanded(r), r.deck.rev = deck.rev, Becomes(r) PROVE MediaInv'
  <2>1. deck' = r.deck /\ up' = up \o r.out
      BY <1>2 DEF Becomes
  <2>. QED
      BY <1>1, <1>2, <2>1, PageStep
<1>3. CASE AudioPlays
  <2> DEFINE r == ReportState(Reply(Show(Same(deck), "playing"), "playing"), "playing")
  <2>1. deck.status = "loading" /\ Becomes(r)
      BY <1>3 DEF AudioPlays
  <2>2. Uncommanded(r) /\ r.deck.rev = deck.rev
      BY <1>0, <2>1, AudioIsQuiet
  <2> HIDE DEF r
  <2>. QED
      BY <1>2, <2>1, <2>2
<1>4. CASE AudioStops
  <2> DEFINE r == Show(ReportState(Reply(Unwanted(Same(deck)), "failed"), "failed"), "failed")
             s == Show(ReportState(Unwanted(Same(deck)), "ended"), "ended")
  <2>1. deck.status \in {"loading", "playing"} /\ (Becomes(r) \/ (deck.status = "playing" /\ Becomes(s)))
      BY <1>4 DEF AudioStops
  <2>2. Uncommanded(r) /\ r.deck.rev = deck.rev /\ (deck.status = "playing" => Uncommanded(s) /\ s.deck.rev = deck.rev)
      BY <1>0, <2>1, AudioIsQuiet
  <2> HIDE DEF r, s
  <2>. QED
      BY <1>2, <2>1, <2>2
<1>5. CASE SetBusy
  <2> DEFINE r == Interrupt(Same([deck EXCEPT !.busy = TRUE]))
             s == Pump(Same([deck EXCEPT !.busy = FALSE]))
  <2>1. Becomes(r) \/ Becomes(s)
      BY <1>5 DEF SetBusy
  <2>2. Uncommanded(r) /\ r.deck.rev = deck.rev /\ Uncommanded(s) /\ s.deck.rev = deck.rev
      BY <1>0, BusyIsQuiet
  <2> HIDE DEF r, s
  <2>. QED
      BY <1>2, <2>1, <2>2
<1>. QED
    BY <1>3, <1>4, <1>5

(***************************************************************************)
(* The session: what its tasks send.                                       *)
(***************************************************************************)
\* A frame that is no command, or none.
LEMMA FrameSent ==
    ASSUME MediaInv, UNCHANGED <<revision, shutting, requests, pending, deck, up>>,
           \/ down' = down
           \/ \E e \in Frames : ~Control(e) /\ e.rev = revision /\ down' = Append(down, e)
    PROVE  /\ down' \in Seq(Frames) /\ FrameOrder' /\ CommandOrder' /\ DeckShape' /\ PendingShape'
           /\ TracksInOrder(down, deck.track)' /\ ReportsTrue(deck, up)'
           /\ \A last, lost : last \in Nat /\ TracksKnown(down, deck.track, last, lost) =>
                 TracksKnown(down', deck.track, last, lost)
           /\ LastSilences(down, deck, requests) => LastSilences(down', deck, requests)
<1>0. /\ FrameOrder /\ CommandOrder /\ TrackOrder /\ DeckShape /\ PendingShape /\ ReportShape /\ PendingOK
      /\ down \in Seq(Frames) /\ up \in Seq(Reports) /\ deck \in Decks /\ deck.rev \in Int /\ revision \in Nat
      /\ deck.request \in Nat /\ deck.track \in Nat /\ requests \in Nat /\ deck.pending \in {0, deck.request}
    BY MediaFacts DEF MediaInv, MediaTypeOK, CommandOrder
<1>1. revision' = revision /\ shutting' = shutting /\ requests' = requests /\ pending' = pending /\ deck' = deck /\ up' = up
    OBVIOUS
<1>2. DeckShape' /\ ReportsTrue(deck, up)'
    BY <1>0, <1>1 DEF DeckShape, ReportShape
<1>3. CASE down' = down
    BY <1>0, <1>1, <1>2, <1>3 DEF FrameOrder, CommandOrder, PendingShape, TrackOrder
<1>4. ASSUME NEW e \in Frames, ~Control(e), e.rev = revision, down' = Append(down, e)
      PROVE  /\ down' \in Seq(Frames) /\ FrameOrder' /\ CommandOrder' /\ PendingShape'
             /\ TracksInOrder(down, deck.track)'
             /\ \A last, lost : last \in Nat /\ TracksKnown(down, deck.track, last, lost) =>
                   TracksKnown(down', deck.track, last, lost)
             /\ LastSilences(down, deck, requests) => LastSilences(down', deck, requests)
  <2>1. down' \in Seq(Frames)
      BY <1>0, <1>4
  <2>2. FrameOrder'
      BY <1>0, <1>1, <1>4, FramesStayInOrder DEF FrameOrder
  <2>3. CommandOrder'
      BY <1>0, <1>1, <1>4, CommandsStayInOrder DEF CommandOrder
  <2>4. ~Play(e)
      BY <1>4 DEF Play
  <2>5. TracksInOrder(Append(down, e), deck.track)
      BY <1>0, <2>4, TracksStayInOrder DEF TrackOrder
  <2>6. ASSUME NEW last \in Nat, NEW lost, TracksKnown(down, deck.track, last, lost)
        PROVE  TracksKnown(Append(down, e), deck.track, last, lost)
      BY <1>0, <2>4, <2>6, TracksStayKnown
  <2>7. LastSilences(down, deck, requests) => LastSilences(Append(down, e), deck, requests)
      BY <1>0, <1>4, SilencesStay
  <2>8. ASSUME ~shutting, NEW p \in pending PROVE Located(p.request, deck, Append(down, e), up)
    <3>1. p.request \in Nat \ {0}
        BY <1>0 DEF PendingOK, Commands
    <3>. QED
        BY <1>0, <2>8, <3>1, ResultsAreLocated DEF PendingShape
  <2>9. PendingShape'
      BY <1>1, <1>4, <2>8 DEF PendingShape
  <2>. QED
      BY <1>1, <1>4, <2>1, <2>2, <2>3, <2>5, <2>6, <2>7, <2>9
<1>. QED
    BY <1>2, <1>3, <1>4

\* A command: it is the last, its result is waited for, and what the session knew of the
\* page counts no more.
LEMMA CommandSent ==
    ASSUME MediaInv, ~shutting, UNCHANGED <<revision, shutting, deck, up>>, CanPublish,
           NEW act \in MediaActs, NEW track \in 0 .. MaxSubmits, NEW auto \in BOOLEAN, NEW obs \in Observations,
           obs.track = observed.track, act = "play" => observed.track < track, act # "play" => track = 0,
           act # "play" /\ "track" \in refused => "track" \in refused',
           Publish(act, track, revision, obs, auto)
    PROVE  /\ down' \in Seq(Frames) /\ PendingOK' /\ FrameOrder' /\ CommandOrder' /\ DeckShape'
           /\ PendingShape' /\ ReportShape' /\ TracksInOrder(down, deck.track)'
           /\ requests' \in Nat /\ observed' \in Observations
           /\ observed'.wanted = obs.wanted /\ observed'.state = obs.state
           /\ observed'.track = IF act = "play" THEN track ELSE observed.track
           /\ TracksKnown(down', deck.track, observed'.track, refused')
           /\ act \in {"pause", "stop"} \/ (act = "play" /\ auto = FALSE) => LastSilences(down', deck, requests')
<1>0. /\ FrameOrder /\ CommandOrder /\ TrackOrder /\ DeckShape /\ PendingShape /\ ReportShape /\ PendingOK
      /\ down \in Seq(Frames) /\ up \in Seq(Reports) /\ deck \in Decks /\ deck.rev \in Int /\ revision \in Nat
      /\ deck.request \in Nat /\ deck.track \in Nat /\ requests \in Nat /\ deck.pending \in {0, deck.request}
      /\ observed.track \in Nat
    BY MediaFacts DEF MediaInv, MediaTypeOK, CommandOrder
<1> DEFINE e == [type |-> "control", rev |-> revision, request |-> requests + 1, act |-> act,
                 track |-> track, autoplay |-> auto]
           c == [request |-> requests + 1, op |-> obs.op]
<1>1. /\ revision' = revision /\ shutting' = shutting /\ deck' = deck /\ up' = up
      /\ requests' = requests + 1 /\ pending' = pending \cup {c} /\ down' = Append(down, e)
      /\ observed' = [obs EXCEPT !.act = act, !.client = "null", !.track = IF track = 0 THEN @ ELSE track]
    BY DEF Publish
<1>2. e \in Frames /\ Control(e) /\ e.rev = revision /\ e.request = requests + 1 /\ e.act = act /\ e.track = track
      /\ e.autoplay = auto
  <2>1. e \in ControlFrames
      BY <1>0 DEF ControlFrames
  <2>. QED
      BY <2>1 DEF Frames, Control
<1>3. c \in Commands /\ c.request = requests + 1
    BY <1>0 DEF Commands, Observations
<1> HIDE DEF e, c
<1>4. track # 0 <=> act = "play"
  <2>1. track \in Nat
      BY SubmitNumbers
  <2>. QED
      BY <1>0, <2>1
<1>5. /\ observed' \in Observations /\ observed'.wanted = obs.wanted /\ observed'.state = obs.state
      /\ observed'.track = IF act = "play" THEN track ELSE observed.track
      /\ observed'.client = "null"
    BY <1>1, <1>4 DEF Observations
<1>6. PendingOK'
  <2>1. IsFiniteSet(pending) /\ Cardinality(pending) \in Nat /\ Cardinality(pending) < MaxPendingAcks
      BY <1>0, FS_CardinalityType DEF PendingOK, CanPublish
  <2>a. /\ IsFiniteSet(pending \cup {c})
        /\ \/ Cardinality(pending \cup {c}) = Cardinality(pending)
           \/ Cardinality(pending \cup {c}) = Cardinality(pending) + 1
      BY <2>1, FS_AddElement, Zenon
  <2>2. IsFiniteSet(pending \cup {c}) /\ Cardinality(pending \cup {c}) <= Cardinality(pending) + 1
      BY <2>1, <2>a
  <2>3. Cardinality(pending \cup {c}) \in Nat
      BY <2>2, FS_CardinalityType
  <2>4. pending \cup {c} \subseteq Commands
      BY <1>0, <1>3 DEF PendingOK
  <2>5. Cardinality(pending \cup {c}) <= MaxPendingAcks
      BY <2>1, <2>2, <2>3, SubmitNumbers
  <2>. QED
      BY <1>1, <2>2, <2>4, <2>5 DEF PendingOK
<1>7. down' \in Seq(Frames) /\ requests' \in Nat
    BY <1>0, <1>1, <1>2
<1>8. FrameOrder'
  <2>1. FramesInOrder(Append(down, e), deck.rev, revision)
      BY <1>0, <1>2, FramesStayInOrder DEF FrameOrder
  <2>. QED
      BY <1>1, <2>1 DEF FrameOrder
<1>9. CommandOrder'
  <2>1. CommandsInOrder(Append(down, e), deck.request, requests + 1)
      BY <1>0, <1>2, CommandsStayInOrder DEF CommandOrder
  <2>. QED
      BY <1>0, <1>1, <2>1 DEF CommandOrder
<1>10. DeckShape'
    BY <1>0, <1>1 DEF DeckShape
<1>11. TracksInOrder(down, deck.track) /\ TracksKnown(down, deck.track, observed.track, refused)
    BY <1>0 DEF TrackOrder
<1>12. TracksInOrder(down, deck.track)'
  <2>1. CASE act = "play"
    <3>1. Play(e) /\ observed.track < e.track
        BY <1>2, <2>1 DEF Play
    <3>. QED
        BY <1>0, <1>1, <1>2, <1>11, <3>1, TracksStayInOrder
  <2>2. CASE act # "play"
      BY <1>0, <1>1, <1>2, <1>11, <2>2, TracksStayInOrder DEF Play
  <2>. QED
      BY <2>1, <2>2
<1>13. TracksKnown(down', deck.track, observed'.track, refused')
  <2>1. CASE act = "play"
    <3>1. Play(e) /\ observed.track < e.track
        BY <1>2, <2>1 DEF Play
    <3>2. TracksKnown(Append(down, e), deck.track, e.track, refused')
        BY <1>0, <1>2, <1>11, <3>1, TracksStayKnown
    <3>. QED
        BY <1>1, <1>2, <1>5, <2>1, <3>2
  <2>2. CASE act # "play"
    <3>1. ~Play(e)
        BY <1>2, <2>2 DEF Play
    <3>2. TracksKnown(down, deck.track, observed.track, refused')
        BY <1>11, <2>2 DEF TracksKnown
    <3>3. TracksKnown(Append(down, e), deck.track, observed.track, refused')
        BY <1>0, <1>2, <3>1, <3>2, TracksStayKnown
    <3>. QED
        BY <1>1, <1>5, <2>2, <3>3
  <2>. QED
      BY <2>1, <2>2
<1>14. act \in {"pause", "stop"} \/ (act = "play" /\ auto = FALSE) => LastSilences(down', deck, requests')
  <2>1. act \in {"pause", "stop"} \/ (act = "play" /\ auto = FALSE) => Silencing(e)
      BY <1>2 DEF Silencing
  <2>. QED
      BY <1>0, <1>1, <1>2, <2>1, SilencesStay DEF CommandOrder
<1>15. PendingShape'
  <2>1. ASSUME NEW p \in pending PROVE Located(p.request, deck, Append(down, e), up)
    <3>1. p.request \in Nat \ {0}
        BY <1>0 DEF PendingOK, Commands
    <3>. QED
        BY <1>0, <1>2, <3>1, ResultsAreLocated DEF PendingShape
  <2>2. Located(c.request, deck, Append(down, e), up)
    <3>1. Len(down) + 1 \in DOMAIN Append(down, e) /\ Append(down, e)[Len(down) + 1] = e
        BY <1>0, <1>2
    <3>. QED
        BY <1>2, <1>3, <3>1 DEF Located
  <2>. QED
      BY <1>1, <2>1, <2>2 DEF PendingShape
<1>16. ReportShape'
  <2>1. ReportsTrue(deck, up)
      BY <1>0 DEF ReportShape
  <2>2. deck.request # requests + 1
      BY <1>0 DEF CommandOrder, CommandsInOrder
  <2>3. ReportsAgree(deck, up, requests + 1, "null")
      BY <2>2 DEF ReportsAgree
  <2>. QED
      BY <1>1, <1>5, <2>1, <2>3 DEF ReportShape
<1>. QED
    BY <1>5, <1>6, <1>7, <1>8, <1>9, <1>10, <1>12, <1>13, <1>14, <1>15, <1>16

\* A step of a task, whatever it tells: the tasks that still have to begin come first, and the
\* only resolution that goes on stays the only one.
LEMMA TaskSteps ==
    ASSUME MediaInv, UNCHANGED <<revision, shutting, submits>>, NEW n \in Submits,
           NEW step \in {"asked", "told", "failed", "done"}, Step(n, step), job[n].step # "none",
           step = "asked" => job[n].act = "play" /\ job[n].step = "new",
           job[n].step = "new" => \A m \in 1 .. n - 1 : job[m].step # "new",
           resolver' \in {resolver, 0},
           ~shutting =>
              /\ observed'.wanted = observed.wanted
              /\ observed'.state = "resolving" => observed.state = "resolving"
              /\ Pursued(n) => step = "asked" \/ observed'.state # "resolving"
              /\ observed'.track = observed.track \/ (Pursued(n) /\ step # "asked")
    PROVE  /\ job' \in [Submits -> Jobs] /\ resolver' \in 0 .. MaxSubmits
           /\ TaskOrder' /\ WishShape' /\ submits # 0 /\ n <= submits
           /\ job[submits].step = "new" /\ job[submits].act \in {"pause", "stop"} =>
                 n = submits \/ (job'[submits].step = "new" /\ job'[submits].act \in {"pause", "stop"})
<1>0. TaskOrder /\ WishShape /\ MediaTypeOK
    BY DEF MediaInv
<1>1. /\ job \in [Submits -> Jobs] /\ resolver \in 0 .. MaxSubmits /\ resolver \in Nat /\ revision \in Nat
      /\ submits \in Nat /\ submits \in 0 .. MaxSubmits /\ (submits # 0 => submits \in Submits)
    BY <1>0, MediaFacts
<1>2. /\ \A m \in Submits : m # n => job'[m] = job[m]
      /\ job'[n].act = job[n].act /\ job'[n].rev = job[n].rev /\ job'[n].step = step
    BY <1>1 DEF Step, Jobs
<1>3. job' \in [Submits -> Jobs]
  <2>1. [job[n] EXCEPT !.step = step] \in Jobs
      BY <1>1 DEF Jobs
  <2>. QED
      BY <1>1, <2>1 DEF Step
<1>4. /\ revision' = revision /\ shutting' = shutting /\ submits' = submits
    OBVIOUS
<1>5. n <= submits /\ submits # 0 /\ submits \in Submits /\ n \in Nat
  <2>1. n \in Nat /\ n # 0 /\ ~(n > submits)
      BY <1>0, SubmitNumbers DEF TaskOrder
  <2>. QED
      BY <1>1, <2>1
<1>6. /\ \A m \in Submits : m # n => (Pursued(m)' <=> Pursued(m))
      /\ Pursued(n)' => Pursued(n) /\ step = "asked"
      /\ Pursued(n) /\ step = "asked" => Pursued(n)'
    BY <1>2, <1>4 DEF Pursued
<1>7. \A m \in Submits : Pursued(m)' => Pursued(m)
    BY <1>6
<1>8. ASSUME ~shutting, job'[submits].step # "new" PROVE \A m \in Submits : job'[m].step # "new"
  <2>1. CASE n = submits /\ job[n].step = "new"
    <3>1. ASSUME NEW m \in Submits, m # n PROVE job'[m].step # "new"
      <4>1. m \in Nat /\ m # 0
          BY SubmitNumbers
      <4>2. CASE m < n
        <5>1. m \in 1 .. n - 1
            BY <1>5, <4>1, <4>2
        <5>. QED
            BY <1>2, <2>1, <3>1, <5>1
      <4>3. CASE m > submits
        <5>1. job[m].step = "none"
            BY <1>0, <4>3 DEF TaskOrder
        <5>. QED
            BY <1>2, <3>1, <5>1
      <4>. QED
          BY <1>5, <2>1, <3>1, <4>1, <4>2, <4>3
    <3>. QED
        BY <1>2, <3>1
  <2>2. CASE ~(n = submits /\ job[n].step = "new")
    <3>1. job[submits].step # "new"
        BY <1>2, <1>5, <1>8, <2>2
    <3>2. \A m \in Submits : job[m].step # "new"
        BY <1>0, <1>5, <1>8, <3>1 DEF TaskOrder
    <3>. QED
        BY <1>2, <3>2
  <2>. QED
      BY <2>1, <2>2
<1>9. ASSUME ~shutting, observed'.state = "resolving" PROVE \E m \in Submits : Pursued(m)'
  <2>1. PICK m \in Submits : Pursued(m)
      BY <1>0, <1>9 DEF TaskOrder
  <2>2. CASE m = n
      BY <1>6, <1>9, <2>1, <2>2
  <2>3. CASE m # n
      BY <1>6, <2>1, <2>3
  <2>. QED
      BY <2>2, <2>3
<1>10. ASSUME ~shutting, NEW m \in Submits, Pursued(m)' PROVE observed'.track < m
  <2>1. Pursued(m) /\ observed.track < m
      BY <1>0, <1>7, <1>10 DEF TaskOrder
  <2>2. CASE observed'.track = observed.track
      BY <2>1, <2>2
  <2>3. CASE Pursued(n) /\ step # "asked"
    <3>1. m = n
        BY <1>0, <1>10, <2>1, <2>3 DEF TaskOrder
    <3>. QED
        BY <1>6, <1>10, <2>3, <3>1
  <2>. QED
      BY <1>10, <2>2, <2>3
<1>11. TaskOrder'
  <2>1. \A m \in Submits : job'[m].rev <= revision /\ (m > submits <=> job'[m].step = "none")
      BY <1>0, <1>2, <1>5 DEF TaskOrder
  <2>2. \A m \in Submits : job'[m].step = "new" => job'[m].act # "none"
      BY <1>0, <1>2 DEF TaskOrder
  <2>3. \A m \in Submits : job'[m].step = "asked" => job'[m].act = "play"
      BY <1>0, <1>2 DEF TaskOrder
  <2>4. resolver' <= submits
      BY <1>0, <1>1 DEF TaskOrder
  <2>5. ~shutting => job'[submits].rev = revision
      BY <1>0, <1>2, <1>5 DEF TaskOrder
  <2>6. ~shutting => \A l, m \in Submits : Pursued(l)' /\ Pursued(m)' => l = m
      BY <1>0, <1>7 DEF TaskOrder
  <2>. QED
      BY <1>4, <1>5, <1>8, <1>9, <1>10, <2>1, <2>2, <2>3, <2>4, <2>5, <2>6 DEF TaskOrder
<1>12. WishShape'
  <2>1. \A m \in Submits : job'[m].act = job[m].act /\ job'[m].rev = job[m].rev
      BY <1>2
  <2>2. ASSUME ~shutting, observed'.wanted = FALSE PROVE job'[submits].act \in {"pause", "stop", "status"}
      BY <1>0, <1>5, <2>1, <2>2 DEF WishShape
  <2>3. ASSUME ~shutting, observed'.state = "resolving" \/ job'[submits].act = "status",
               NEW m \in Submits, job'[m].rev = revision
        PROVE  job'[m].act # "resume"
    <3>1. observed.state = "resolving" \/ job[submits].act = "status"
        BY <1>5, <2>1, <2>3
    <3>. QED
        BY <1>0, <1>5, <2>1, <2>3, <3>1 DEF WishShape
  <2>4. ~shutting =>
          /\ observed'.wanted = FALSE /\ submits # 0 => job'[submits].act \in {"pause", "stop", "status"}
          /\ observed'.state = "resolving" \/ (submits # 0 /\ job'[submits].act = "status") =>
                \A m \in Submits : job'[m].rev = revision => job'[m].act # "resume"
      BY <2>2, <2>3
  <2>. QED
      BY <1>4, <2>4 DEF WishShape
<1>13. resolver' \in 0 .. MaxSubmits
    BY <1>1, SubmitNumbers
<1>14. job[submits].step = "new" /\ job[submits].act \in {"pause", "stop"} =>
           n = submits \/ (job'[submits].step = "new" /\ job'[submits].act \in {"pause", "stop"})
    BY <1>2, <1>5
<1>. QED
    BY <1>3, <1>5, <1>11, <1>12, <1>13, <1>14

(***************************************************************************)
(* The steps of the session.                                               *)
(***************************************************************************)
\* What an error leaves: the operation failed, and what was known of the page still counts
\* unless the track was replaced, when a command still waits for its result.
LEMMA FailureTold ==
    ASSUME MediaInv, ~shutting, NEW n \in Submits, job[n].step \in {"new", "asked"}, Current(job[n].rev),
           NEW track \in {0, n}, track = n => Pursued(n) /\ ~CanPublish,
           Fails(n, track), UNCHANGED <<revision, shutting, submits, deck, up>>,
           job[n].step = "new" => job[n].act # "play" /\ \A m \in 1 .. n - 1 : job[m].step # "new",
           resolver' \in {resolver, 0}, refused' \subseteq {"operation", "track"}, events' = events,
           "track" \in refused' <=> "track" \in refused \/ track = n,
           "operation" \in refused'
              \/ ("operation" \notin refused /\ track = 0 /\ job[n].step = "asked")
    PROVE  MediaInv'
<1>0. /\ MediaTypeOK /\ FrameOrder /\ CommandOrder /\ TrackOrder /\ TaskOrder /\ WishShape
      /\ DeckShape /\ SilenceShape /\ PendingShape /\ ReportShape /\ PendingOK /\ SessionOK /\ PlayerOK
      /\ observed \in Observations /\ observed.track \in Nat /\ down \in Seq(Frames) /\ up \in Seq(Reports)
      /\ deck \in Decks /\ n \in 0 .. MaxSubmits /\ n \in Nat /\ n # 0 /\ deck.track \in Nat
      /\ requests \in Nat /\ deck.request \in Nat /\ revision \in Nat
    BY MediaFacts, SubmitNumbers DEF MediaInv, MediaTypeOK
<1> DEFINE e == [type |-> "error", rev |-> job[n].rev]
<1>1. /\ revision' = revision /\ shutting' = shutting /\ submits' = submits /\ deck' = deck /\ up' = up
      /\ pending' = pending /\ requests' = requests /\ down' = Append(down, e) /\ Step(n, "failed")
      /\ observed' = [observed EXCEPT !.state = "failed", !.track = IF track = 0 THEN @ ELSE track,
                                      !.client = IF track = 0 THEN @ ELSE "null"]
      /\ job[n].rev = revision
    BY DEF Fails, Current
<1>2. e \in Frames /\ ~Control(e) /\ e.rev = revision
    BY <1>0, <1>1 DEF Frames, ErrorFrames, Control
<1> HIDE DEF e
<1>3. /\ observed' \in Observations /\ observed'.wanted = observed.wanted /\ observed'.state = "failed"
      /\ observed'.track = (IF track = 0 THEN observed.track ELSE track)
      /\ observed'.client = IF track = 0 THEN observed.client ELSE "null"
    BY <1>0, <1>1 DEF Observations, MediaStates
<1>4. /\ down' \in Seq(Frames) /\ FrameOrder' /\ CommandOrder' /\ DeckShape' /\ PendingShape'
      /\ TracksInOrder(down, deck.track)' /\ ReportsTrue(deck, up)'
      /\ \A last, lost : last \in Nat /\ TracksKnown(down, deck.track, last, lost) =>
            TracksKnown(down', deck.track, last, lost)
      /\ LastSilences(down, deck, requests) => LastSilences(down', deck, requests)
    BY <1>1, <1>2, FrameSent
<1>5. /\ job' \in [Submits -> Jobs] /\ resolver' \in 0 .. MaxSubmits
      /\ TaskOrder' /\ WishShape' /\ submits # 0 /\ n <= submits
      /\ job[submits].step = "new" /\ job[submits].act \in {"pause", "stop"} =>
            n = submits \/ (job'[submits].step = "new" /\ job'[submits].act \in {"pause", "stop"})
  <2>1. observed'.track = observed.track \/ Pursued(n)
      BY <1>3
  <2>. QED
      BY <1>1, <1>3, <2>1, TaskSteps
<1>6. MediaTypeOK'
  <2>1. SessionOK'
      BY <1>0, <1>1, <1>3, <1>5 DEF SessionOK
  <2>2. PendingOK' /\ PlayerOK'
      BY <1>0, <1>1, <1>4 DEF PendingOK, PlayerOK
  <2>. QED
      BY <2>1, <2>2 DEF MediaTypeOK
<1>7. TrackOrder'
  <2>1. TracksKnown(down, deck.track, observed.track, refused) /\ observed.track <= submits
      BY <1>0 DEF TrackOrder
  <2>2. CASE track = 0
    <3>1. TracksKnown(down, deck.track, observed.track, refused')
        BY <1>0, <2>1, <2>2 DEF TracksKnown
    <3>. QED
        BY <1>0, <1>1, <1>3, <1>4, <2>1, <2>2, <3>1 DEF TrackOrder
  <2>3. CASE track = n
    <3>1. observed.track <= n
        BY <1>0, <2>3 DEF TaskOrder
    <3>2. TracksKnown(down, deck.track, n, refused')
        BY <1>0, <2>1, <2>3, <3>1, TracksStayKnown
    <3>. QED
        BY <1>0, <1>1, <1>3, <1>4, <1>5, <2>3, <3>2 DEF TrackOrder
  <2>. QED
      BY <2>2, <2>3
<1>8. SilenceShape'
  <2>1. CASE "operation" \in refused'
      BY <2>1 DEF SilenceShape
  <2>2. CASE "operation" \notin refused /\ track = 0 /\ job[n].step = "asked"
    <3>1. ASSUME observed.wanted = FALSE
          PROVE  \/ job'[submits].step = "new" /\ job'[submits].act \in {"pause", "stop"}
                 \/ observed.track = 0
                 \/ LastSilences(down', deck, requests)
        BY <1>0, <1>4, <1>5, <2>2, <3>1 DEF SilenceShape
    <3>. QED
        BY <1>1, <1>3, <1>5, <2>2, <3>1 DEF SilenceShape
  <2>. QED
      BY <2>1, <2>2
<1>9. ReportShape'
  <2>0. ReportsAgree(deck, up, requests, observed.client)
      BY <1>0 DEF ReportShape
  <2>1. CASE track = 0
      BY <1>1, <1>3, <1>4, <2>0, <2>1 DEF ReportShape
  <2>2. CASE track = n
    <3>1. PICK p \in pending : TRUE
      <4>1. pending = {} => Cardinality(pending) = 0
          BY FS_EmptySet
      <4>. QED
          BY <2>2, <4>1, SubmitNumbers DEF CanPublish
    <3>2. p.request \in Nat \ {0} /\ Located(p.request, deck, down, up)
        BY <1>0 DEF PendingOK, Commands, PendingShape
    <3>3. ASSUME deck.request = requests, deck.status = "playing"
          PROVE  \E j \in DOMAIN up : TellsPlaying(up[j], requests)
      <4>1. p.request # deck.pending
          BY <1>0, <3>2, <3>3 DEF DeckShape
      <4>2. \A i \in DOMAIN down : ~Control(down[i])
          BY <1>0, <3>3 DEF CommandOrder, CommandsInOrder, Frames, ControlFrames, StatusFrames, ErrorFrames, Control
      <4>3. PICK i \in DOMAIN up : up[i].type = "result"
          BY <3>2, <4>1, <4>2 DEF Located
      <4>. QED
          BY <2>0, <3>3, <4>3 DEF ReportsAgree
    <3>4. ReportsAgree(deck, up, requests, "null")
        BY <2>0, <3>3 DEF ReportsAgree
    <3>. QED
        BY <1>0, <1>1, <1>3, <1>4, <2>2, <3>4 DEF ReportShape
  <2>. QED
      BY <2>1, <2>2
<1>. QED
    BY <1>4, <1>5, <1>6, <1>7, <1>8, <1>9 DEF MediaInv

\* A step of a task that tells no more than a status, or nothing.
LEMMA StatusTold ==
    ASSUME MediaInv, UNCHANGED <<revision, shutting, submits, requests, pending, observed, refused, deck, up, events>>,
           NEW n \in Submits, NEW step \in {"asked", "done"}, Step(n, step), job[n].step # "none",
           job[n].step = "new" => \A m \in 1 .. n - 1 : job[m].step # "new",
           step = "asked" => job[n].act = "play" /\ job[n].step = "new",
           step = "done" /\ ~shutting => ~Pursued(n),
           ~shutting => ~(n = submits /\ job[n].step = "new" /\ job[n].act \in {"pause", "stop"}),
           resolver' \in {resolver, 0},
           down' = down \/ (Current(job[n].rev) /\ down' = Append(down, StatusFrame(job[n].rev, observed)))
    PROVE  MediaInv'
<1>0. /\ MediaTypeOK /\ TrackOrder /\ SilenceShape /\ ReportShape /\ PendingOK /\ SessionOK /\ PlayerOK
      /\ observed \in Observations /\ observed.track \in Nat /\ revision \in Nat
    BY MediaFacts DEF MediaInv, MediaTypeOK
<1>1. /\ revision' = revision /\ shutting' = shutting /\ submits' = submits /\ deck' = deck /\ up' = up
      /\ pending' = pending /\ requests' = requests /\ observed' = observed /\ refused' = refused /\ events' = events
    OBVIOUS
<1>2. down' = down \/ \E e \in Frames : ~Control(e) /\ e.rev = revision /\ down' = Append(down, e)
  <2>1. StatusFrame(revision, observed) \in StatusFrames
      BY <1>0 DEF StatusFrame, StatusFrames, Observations
  <2>2. StatusFrame(revision, observed) \in Frames /\ ~Control(StatusFrame(revision, observed))
        /\ StatusFrame(revision, observed).rev = revision
      BY <2>1 DEF Frames, StatusFrame, Control
  <2>. QED
      BY <2>2 DEF Current
<1>3. /\ down' \in Seq(Frames) /\ FrameOrder' /\ CommandOrder' /\ DeckShape' /\ PendingShape'
      /\ TracksInOrder(down, deck.track)' /\ ReportsTrue(deck, up)'
      /\ \A last, lost : last \in Nat /\ TracksKnown(down, deck.track, last, lost) =>
            TracksKnown(down', deck.track, last, lost)
      /\ LastSilences(down, deck, requests) => LastSilences(down', deck, requests)
    BY <1>1, <1>2, FrameSent
<1>4. /\ job' \in [Submits -> Jobs] /\ resolver' \in 0 .. MaxSubmits
      /\ TaskOrder' /\ WishShape' /\ submits # 0 /\ n <= submits
      /\ job[submits].step = "new" /\ job[submits].act \in {"pause", "stop"} =>
            n = submits \/ (job'[submits].step = "new" /\ job'[submits].act \in {"pause", "stop"})
    BY <1>1, TaskSteps
<1>5. MediaTypeOK'
  <2>1. SessionOK'
      BY <1>0, <1>1, <1>4 DEF SessionOK
  <2>2. PendingOK' /\ PlayerOK'
      BY <1>0, <1>1, <1>3 DEF PendingOK, PlayerOK
  <2>. QED
      BY <2>1, <2>2 DEF MediaTypeOK
<1>6. TrackOrder'
    BY <1>0, <1>1, <1>3 DEF TrackOrder
<1>7. SilenceShape'
  <2>1. ASSUME ~shutting, "operation" \notin refused, observed.wanted = FALSE
        PROVE  \/ job'[submits].step = "new" /\ job'[submits].act \in {"pause", "stop"}
               \/ observed.track = 0
               \/ LastSilences(down', deck, requests)
      BY <1>0, <1>3, <1>4, <2>1 DEF SilenceShape
  <2>2. ~shutting /\ "operation" \notin refused /\ observed.wanted = FALSE =>
            \/ submits # 0 /\ job'[submits].step = "new" /\ job'[submits].act \in {"pause", "stop"}
            \/ observed.track = 0
            \/ LastSilences(down', deck, requests)
      BY <1>4, <2>1
  <2>. QED
      BY <1>1, <2>2 DEF SilenceShape
<1>8. ReportShape'
    BY <1>0, <1>1, <1>3 DEF ReportShape
<1>. QED
    BY <1>3, <1>4, <1>5, <1>6, <1>7, <1>8 DEF MediaInv

\* A command of a task, for what is wanted now.
LEMMA CommandTold ==
    ASSUME MediaInv, NEW n \in Submits, job[n].step \in {"new", "asked"}, Current(job[n].rev), CanPublish,
           NEW track \in {0, n}, NEW act \in MediaActs, NEW auto \in BOOLEAN, NEW obs \in Observations,
           obs.track = observed.track, obs.wanted = observed.wanted,
           act = "play" => track = n /\ Pursued(n) /\ obs.state = "ready" /\ (observed.wanted = FALSE => auto = FALSE),
           act # "play" => track = 0 /\ obs = observed /\ job[n].act = act,
           Publish(act, track, revision, obs, auto), Step(n, "told"),
           UNCHANGED <<revision, shutting, submits, deck, up, events>>,
           job[n].step = "new" => job[n].act # "play" /\ \A m \in 1 .. n - 1 : job[m].step # "new",
           job[n].step = "asked" => act = "play",
           resolver' \in {resolver, 0}, refused' \subseteq {"operation", "track"},
           act # "play" /\ "track" \in refused => "track" \in refused'
    PROVE  MediaInv'
<1>0. /\ MediaTypeOK /\ TrackOrder /\ TaskOrder /\ WishShape /\ SilenceShape
      /\ SessionOK /\ PlayerOK /\ observed \in Observations /\ observed.track \in Nat /\ ~shutting
      /\ n \in Nat /\ n # 0 /\ track \in 0 .. MaxSubmits /\ deck.track \in Nat /\ observed.wanted \in BOOLEAN
    BY MediaFacts, SubmitNumbers DEF MediaInv, MediaTypeOK, Current
<1>1. act = "play" => observed.track < track
    BY <1>0 DEF TaskOrder
<1>2. /\ down' \in Seq(Frames) /\ PendingOK' /\ FrameOrder' /\ CommandOrder' /\ DeckShape'
      /\ PendingShape' /\ ReportShape' /\ TracksInOrder(down, deck.track)'
      /\ requests' \in Nat /\ observed' \in Observations
      /\ observed'.wanted = obs.wanted /\ observed'.state = obs.state
      /\ observed'.track = IF act = "play" THEN track ELSE observed.track
      /\ TracksKnown(down', deck.track, observed'.track, refused')
      /\ act \in {"pause", "stop"} \/ (act = "play" /\ auto = FALSE) => LastSilences(down', deck, requests')
  <2>1. UNCHANGED <<revision, shutting, deck, up>> /\ (act # "play" => track = 0)
      OBVIOUS
  <2>2. ~shutting /\ track \in 0 .. MaxSubmits /\ act \in MediaActs /\ auto \in BOOLEAN /\ obs \in Observations
      BY <1>0
  <2>. QED
      BY <1>1, <2>1, <2>2, CommandSent, ZenonT(30)
<1>3. /\ job' \in [Submits -> Jobs] /\ resolver' \in 0 .. MaxSubmits
      /\ TaskOrder' /\ WishShape' /\ submits # 0 /\ n <= submits
      /\ job[submits].step = "new" /\ job[submits].act \in {"pause", "stop"} =>
            n = submits \/ (job'[submits].step = "new" /\ job'[submits].act \in {"pause", "stop"})
  <2>1. Pursued(n) => act = "play"
      BY <1>0 DEF Pursued
  <2>2. /\ observed'.state = "resolving" => observed.state = "resolving"
        /\ Pursued(n) => observed'.state # "resolving"
        /\ observed'.track = observed.track \/ Pursued(n)
      BY <1>2, <2>1
  <2>. QED
      BY <1>0, <1>2, <2>2, TaskSteps
<1>4. MediaTypeOK'
  <2>1. SessionOK'
      BY <1>0, <1>2, <1>3 DEF SessionOK
  <2>2. PlayerOK'
      BY <1>0, <1>2 DEF PlayerOK
  <2>. QED
      BY <1>2, <2>1, <2>2 DEF MediaTypeOK
<1>5. TrackOrder'
  <2>1. observed'.track <= submits
      BY <1>0, <1>2, <1>3 DEF TrackOrder
  <2>. QED
      BY <1>2, <2>1 DEF TrackOrder
<1>6. SilenceShape'
  <2>1. ASSUME observed.wanted = FALSE
        PROVE  \/ job'[submits].step = "new" /\ job'[submits].act \in {"pause", "stop"}
               \/ LastSilences(down', deck, requests')
    <3>1. CASE act \in {"pause", "stop"} \/ act = "play"
        BY <1>2, <2>1, <3>1
    <3>2. CASE act = "resume"
      <4>1. job[n].act = "resume" /\ job[n].rev = revision /\ job[n].step = "new"
          BY <3>2 DEF Current
      <4>2. job[submits].act \in {"pause", "stop"} /\ n # submits
          BY <1>0, <1>3, <2>1, <4>1 DEF WishShape
      <4>3. job[submits].step = "new"
          BY <1>0, <1>3, <4>1 DEF TaskOrder
      <4>. QED
          BY <1>3, <4>2, <4>3
    <3>. QED
        BY <3>1, <3>2 DEF MediaActs
  <2>. QED
      BY <1>2, <1>3, <2>1 DEF SilenceShape
<1>. QED
    BY <1>2, <1>3, <1>4, <1>5, <1>6 DEF MediaInv

\* What a step of a task notes of the operations too many pending commands refused.
LEMMA Refusals ==
    ASSUME MediaTypeOK, NEW n \in Submits, NEW step, Step(n, step), NEW track \in SUBSET {"track"}, Refuses(n, track)
    PROVE  /\ step = "failed" => refused' = refused \cup {"operation"} \cup track
           /\ step = "told" => refused' = refused \ ({"operation"} \cup track)
           /\ step \in {"asked", "done"} => refused' = refused
           /\ step \in {"asked", "done", "told", "failed"} => refused' \subseteq {"operation", "track"}
<1>1. job \in [Submits -> Jobs] /\ refused \subseteq {"operation", "track"}
    BY MediaFacts
<1>2. job'[n].step = step
    BY <1>1 DEF Step, Jobs
<1>3. /\ step = "failed" => refused' = refused \cup {"operation"} \cup track
      /\ step = "told" => refused' = refused \ ({"operation"} \cup track)
      /\ step \in {"asked", "done"} => refused' = refused
    BY <1>2 DEF Refuses
<1>. QED
    BY <1>1, <1>3

\* The first step of a task.
LEMMA BeginKeeps == ASSUME MediaInv, NEW n \in Submits, Begin(n) PROVE MediaInv'
<1>0. /\ MediaTypeOK /\ TaskOrder /\ job[n].step = "new" /\ \A m \in 1 .. n - 1 : job[m].step # "new"
      /\ job[n].act \in MediaActs \cup {"status"} /\ Refuses(n, {}) /\ observed \in Observations
      /\ UNCHANGED <<revision, shutting, resolver, submits, up, deck, events>>
  <2>1. MediaTypeOK /\ TaskOrder /\ job[n] \in Jobs /\ observed \in Observations
      BY MediaFacts DEF MediaInv
  <2>2. job[n].act \in MediaActs \cup {"none", "status"}
      BY <2>1 DEF Jobs
  <2>3. /\ job[n].step = "new" /\ \A m \in 1 .. n - 1 : job[m].step # "new"
        /\ Refuses(n, {}) /\ UNCHANGED <<revision, shutting, resolver, submits, up, deck, events>>
      BY DEF Begin, pageSide
  <2>4. job[n].act # "none"
      BY <2>1, <2>3 DEF TaskOrder
  <2>. QED
      BY <2>1, <2>2, <2>3, <2>4
<1>1. CASE job[n].act \in {"play", "status"}
  <2> DEFINE step == IF job[n].act = "play" THEN "asked" ELSE "done"
  <2>1. Step(n, step) /\ UNCHANGED <<observed, pending, requests>>
        /\ (down' = down \/ (Current(job[n].rev) /\ down' = Append(down, StatusFrame(job[n].rev, observed))))
      BY <1>1 DEF Begin
  <2>2. step \in {"asked", "done"} /\ refused' = refused
      BY <1>0, <2>1, Refusals
  <2>3. (step = "asked" => job[n].act = "play") /\ (step = "done" => ~Pursued(n)) /\ job[n].act \notin {"pause", "stop"}
      BY <1>1 DEF Pursued
  <2> HIDE DEF step
  <2>. QED
      BY <1>0, <2>1, <2>2, <2>3, StatusTold
<1>2. CASE job[n].act \notin {"play", "status"} /\ ~Current(job[n].rev)
  <2>1. Step(n, "done") /\ UNCHANGED <<observed, pending, requests, down>>
      BY <1>2 DEF Begin
  <2>2. refused' = refused
      BY <1>0, <2>1, Refusals
  <2>3. ~shutting => n # submits /\ ~Pursued(n)
    <3>1. ~shutting => job[n].rev # revision
        BY <1>2 DEF Current
    <3>2. n # 0 /\ ~(n > submits) /\ (~shutting /\ submits # 0 => job[submits].rev = revision)
        BY <1>0, SubmitNumbers DEF TaskOrder
    <3>3. n = submits => submits # 0
        BY <3>2
    <3>. QED
        BY <3>1, <3>2, <3>3 DEF Pursued
  <2>. QED
      BY <1>0, <2>1, <2>2, <2>3, StatusTold
<1>3. CASE job[n].act \notin {"play", "status"} /\ Current(job[n].rev) /\ CanPublish
  <2>1. Publish(job[n].act, 0, revision, observed, TRUE) /\ Step(n, "told")
      BY <1>3 DEF Begin, Current
  <2>2. refused' = refused \ {"operation"} /\ refused' \subseteq {"operation", "track"}
      BY <1>0, <2>1, Refusals
  <2>. QED
      BY <1>0, <1>3, <2>1, <2>2, CommandTold
<1>4. CASE job[n].act \notin {"play", "status"} /\ Current(job[n].rev) /\ ~CanPublish
  <2>1. Fails(n, 0)
      BY <1>4 DEF Begin
  <2>2. Step(n, "failed")
      BY <2>1 DEF Fails
  <2>3. refused' = refused \cup {"operation"} /\ refused' \subseteq {"operation", "track"}
      BY <1>0, <2>2, Refusals
  <2>4. ~shutting /\ n # 0
      BY <1>4, SubmitNumbers DEF Current
  <2>. QED
      BY <1>0, <1>4, <2>1, <2>3, <2>4, FailureTold
<1>. QED
    BY <1>1, <1>2, <1>3, <1>4

\* The source answers, fails, or takes too long.
LEMMA ResolvedKeeps == ASSUME MediaInv, NEW n \in Submits, TrackResolved(n) PROVE MediaInv'
<1>0. /\ MediaTypeOK /\ TaskOrder /\ job[n].step = "asked" /\ job[n].act = "play"
      /\ Refuses(n, {"track"}) /\ observed \in Observations /\ resolver' \in {resolver, 0}
      /\ UNCHANGED <<revision, shutting, submits, up, deck, events>>
    BY MediaFacts DEF MediaInv, TrackResolved, pageSide
<1>1. CASE ~Current(job[n].rev)
  <2>1. Step(n, "done") /\ UNCHANGED <<observed, pending, requests, down>>
      BY <1>1 DEF TrackResolved
  <2>2. refused' = refused
      BY <1>0, <2>1, Refusals
  <2>3. ~shutting => ~Pursued(n)
      BY <1>1 DEF Current, Pursued
  <2>. QED
      BY <1>0, <2>1, <2>2, <2>3, StatusTold
<1>2. CASE Current(job[n].rev)
  <2>0. ~shutting /\ job[n].rev = revision /\ Pursued(n) /\ n # 0
      BY <1>0, <1>2, SubmitNumbers DEF Current, Pursued
  <2>1. CASE CanPublish
    <3> DEFINE obs == [observed EXCEPT !.state = "ready"]
    <3>1. Publish("play", n, revision, obs, Autoplay) /\ Step(n, "told")
        BY <1>2, <2>0, <2>1 DEF TrackResolved
    <3>2. refused' \subseteq {"operation", "track"}
        BY <1>0, <3>1, Refusals
    <3>3. obs \in Observations /\ obs.track = observed.track /\ obs.wanted = observed.wanted /\ obs.state = "ready"
        BY <1>0 DEF Observations, MediaStates
    <3>4. Autoplay \in BOOLEAN /\ Autoplay = observed.wanted
        BY <1>0, MediaFacts DEF Autoplay
    <3> HIDE DEF obs
    <3>. QED
        BY <1>0, <1>2, <2>0, <2>1, <3>1, <3>2, <3>3, <3>4, CommandTold DEF MediaActs
  <2>2. CASE ~CanPublish
    <3>1. Fails(n, n)
        BY <1>2, <2>0, <2>2 DEF TrackResolved
    <3>2. Step(n, "failed")
        BY <3>1 DEF Fails
    <3>3. refused' = refused \cup {"operation"} \cup {"track"} /\ refused' \subseteq {"operation", "track"}
        BY <1>0, <3>2, Refusals
    <3>. QED
        BY <1>0, <1>2, <2>0, <2>2, <3>1, <3>3, FailureTold
  <2>. QED
      BY <2>1, <2>2
<1>. QED
    BY <1>1, <1>2

\* The resolution fails.
LEMMA FailsKeeps == ASSUME MediaInv, NEW n \in Submits, ResolveFails(n) PROVE MediaInv'
<1>0. /\ MediaTypeOK /\ TaskOrder /\ job[n].step = "asked" /\ job[n].act = "play" /\ refused' = refused
      /\ refused \subseteq {"operation", "track"} /\ resolver' \in {resolver, 0}
      /\ UNCHANGED <<revision, shutting, submits, up, deck, events>>
    BY MediaFacts DEF MediaInv, ResolveFails, pageSide
<1>1. CASE ~Current(job[n].rev)
  <2>1. Step(n, "done") /\ UNCHANGED <<observed, pending, requests, down>>
      BY <1>1 DEF ResolveFails
  <2>3. ~shutting => ~Pursued(n)
      BY <1>1 DEF Current, Pursued
  <2>. QED
      BY <1>0, <2>1, <2>3, StatusTold
<1>2. CASE Current(job[n].rev)
  <2>1. Fails(n, 0) /\ ~shutting /\ n # 0
      BY <1>2, SubmitNumbers DEF ResolveFails, Current
  <2>. QED
      BY <1>0, <1>2, <2>1, FailureTold
<1>. QED
    BY <1>1, <1>2

\* The command or the error has been sent.
LEMMA EndKeeps == ASSUME MediaInv, NEW n \in Submits, TaskEnds(n) PROVE MediaInv'
<1>1. /\ job[n].step \in {"told", "failed"} /\ Step(n, "done") /\ resolver' \in {resolver, 0}
      /\ UNCHANGED <<revision, shutting, submits, requests, pending, observed, refused, deck, up, events>>
      /\ down' = down \/ (Current(job[n].rev) /\ down' = Append(down, StatusFrame(job[n].rev, observed)))
  <2>1. down' = IF Current(job[n].rev) THEN Append(down, StatusFrame(job[n].rev, observed)) ELSE down
      BY DEF TaskEnds
  <2>2. /\ job[n].step \in {"told", "failed"} /\ Step(n, "done") /\ resolver' \in {resolver, 0}
        /\ UNCHANGED <<revision, shutting, submits, requests, pending, observed, refused, deck, up, events>>
      BY DEF TaskEnds, pageSide
  <2>. QED
      BY <2>1, <2>2
<1>2. ~Pursued(n)
    BY <1>1 DEF Pursued
<1>. QED
    BY <1>1, <1>2, StatusTold

\* An operation is submitted.
LEMMA SubmitKeeps == ASSUME MediaInv, NEW act \in MediaActs, Submit(act) PROVE MediaInv'
<1>a. PICK n : n = submits + 1
    OBVIOUS
<1> DEFINE begins == act \in {"play", "stop"}
           op == IF begins \/ observed.op = 0 THEN n ELSE observed.op
           rev == IF begins THEN revision + 1 ELSE revision
           work == CASE act = "play" -> "play"
                     [] act \in {"pause", "resume"} /\ observed.state = "resolving" /\ (act = "resume" \/ observed.track = 0) -> "status"
                     [] OTHER -> act
           old == IF begins THEN WithoutResolver ELSE job
           new == [act |-> work, step |-> "new", rev |-> rev, op |-> op]
<1>0. /\ MediaTypeOK /\ FrameOrder /\ CommandOrder /\ TrackOrder /\ TaskOrder /\ WishShape
      /\ DeckShape /\ SilenceShape /\ PendingShape /\ ReportShape /\ PendingOK /\ SessionOK /\ PlayerOK
      /\ observed \in Observations /\ observed.track \in Nat /\ down \in Seq(Frames) /\ deck.rev \in Int /\ revision \in Nat
      /\ submits \in Nat /\ submits \in 0 .. MaxSubmits /\ (submits # 0 => submits \in Submits)
      /\ observed.op \in 0 .. MaxSubmits /\ resolver \in 0 .. MaxSubmits /\ resolver \in Nat /\ MaxSubmits \in Nat
      /\ job \in [Submits -> Jobs] /\ (\A m \in Submits : job[m].rev \in Nat) /\ deck.track \in Nat
    BY MediaFacts, SubmitNumbers DEF MediaInv, MediaTypeOK
<1>1. ~shutting /\ submits < MaxSubmits /\ n \in Submits /\ n \in Nat /\ n # 0
    BY SMTT(30), <1>a, <1>0, SubmitNumbers DEF Submit
<1>2. /\ submits' = n /\ revision' = rev /\ refused' = refused \ {"operation"}
      /\ job' = [old EXCEPT ![n] = new]
      /\ resolver' = CASE act = "play" -> n [] act = "stop" -> 0 [] OTHER -> resolver
      /\ observed' = [observed EXCEPT !.act = act, !.op = op, !.wanted = act \in {"play", "resume"},
                                     !.state = StateOf(act)]
      /\ shutting' = shutting /\ pending' = pending /\ requests' = requests /\ down' = down /\ up' = up
      /\ deck' = deck /\ events' = events
    BY <1>a DEF Submit, pageSide
<1>3. /\ work \in {"play", "pause", "resume", "stop", "status"} /\ (act = "play" <=> work = "play")
      /\ act = "stop" => work = "stop"
      /\ work = "status" => observed.state = "resolving" /\ act \in {"pause", "resume"}
      /\ work = "status" /\ act = "pause" => observed.track = 0
      /\ observed.state = "resolving" /\ ~begins => work # "resume"
      /\ act = "pause" => work \in {"pause", "status"}
      /\ rev \in Nat /\ revision <= rev /\ (begins => revision < rev) /\ (~begins => rev = revision)
      /\ op \in 0 .. MaxSubmits
    BY <1>0, <1>1, SubmitNumbers DEF MediaActs
<1>4. new \in Jobs
    BY <1>3 DEF Jobs, MediaActs
<1>5. /\ old \in [Submits -> Jobs]
      /\ \A m \in Submits : old[m].act = job[m].act /\ old[m].rev = job[m].rev
                            /\ (old[m].step = job[m].step \/ (begins /\ m = resolver /\ old[m].step = "done"))
  <2>1. \A m \in Submits : [job[m] EXCEPT !.step = "done"] \in Jobs /\ [job[m] EXCEPT !.step = "done"].act = job[m].act
           /\ [job[m] EXCEPT !.step = "done"].rev = job[m].rev /\ [job[m] EXCEPT !.step = "done"].step = "done"
      BY <1>0 DEF Jobs
  <2>2. CASE begins
      BY <1>0, <2>1, <2>2 DEF WithoutResolver
  <2>3. CASE ~begins
      BY <1>0, <2>3
  <2>. QED
      BY <2>2, <2>3
<1>6. /\ job' \in [Submits -> Jobs] /\ job'[n].act = work /\ job'[n].step = "new" /\ job'[n].rev = rev
      /\ \A m \in Submits : m # n => job'[m].act = job[m].act /\ job'[m].rev = job[m].rev
            /\ (job'[m].step = job[m].step \/ (begins /\ m = resolver /\ job'[m].step = "done"))
    BY <1>1, <1>2, <1>4, <1>5
<1>7. /\ observed' \in Observations /\ observed'.wanted = (act \in {"play", "resume"})
      /\ observed'.state = StateOf(act) /\ observed'.track = observed.track /\ observed'.client = observed.client
  <2>1. StateOf(act) \in MediaStates
      BY <1>0 DEF StateOf, MediaStates, Observations
  <2>2. op \in 0 .. MaxSubmits /\ act \in MediaActs \cup {"none"} /\ (act \in {"play", "resume"}) \in BOOLEAN
      BY <1>3
  <2> DEFINE w == act \in {"play", "resume"}
  <2> HIDE DEF w, op
  <2>3. observed' = [observed EXCEPT !.act = act, !.op = op, !.wanted = w, !.state = StateOf(act)]
      BY <1>2, Zenon DEF w
  <2>4. w \in BOOLEAN
      BY <2>2, Zenon DEF w
  <2>5. /\ observed' \in Observations /\ observed'.wanted = w
        /\ observed'.state = StateOf(act) /\ observed'.track = observed.track /\ observed'.client = observed.client
      BY <1>0, <2>1, <2>2, <2>3, <2>4 DEF Observations
  <2>. QED
      BY <2>5, Zenon DEF w
<1> HIDE DEF old, new, work, op
<1>8. /\ act = "play" => observed'.state = "resolving"
      /\ act = "stop" => observed'.state # "resolving"
      /\ act \in {"pause", "resume"} => observed'.state = observed.state
    BY <1>7 DEF StateOf
<1>9. MediaTypeOK'
  <2>1. resolver' \in 0 .. MaxSubmits /\ submits' \in 0 .. MaxSubmits /\ revision' \in Nat /\ refused' \subseteq {"operation", "track"}
      BY <1>0, <1>1, <1>2, <1>3, SubmitNumbers DEF SessionOK
  <2>2. SessionOK'
      BY <1>0, <1>2, <1>6, <1>7, <2>1 DEF SessionOK
  <2>3. PendingOK' /\ PlayerOK'
      BY <1>0, <1>2 DEF PendingOK, PlayerOK
  <2>. QED
      BY <2>2, <2>3 DEF MediaTypeOK
<1>10. FrameOrder' /\ CommandOrder' /\ DeckShape'
  <2>1. FramesInOrder(down, deck.rev, rev)
      BY <1>0, <1>3, FramesStayInOrder DEF FrameOrder
  <2>. QED
      BY <1>0, <1>2, <2>1 DEF FrameOrder, CommandOrder, DeckShape
<1>11. TrackOrder'
  <2>1. TracksKnown(down, deck.track, observed.track, refused) /\ observed.track <= submits
      BY <1>0, <1>1 DEF TrackOrder
  <2>2. TracksKnown(down, deck.track, observed.track, refused') /\ observed.track <= n
      BY <1>a, <1>0, <1>2, <2>1 DEF TracksKnown
  <2>. QED
      BY <1>0, <1>2, <1>7, <2>2 DEF TrackOrder
<1>12. job[n].step = "none" /\ \A m \in Submits : m # n => (m > n <=> m > submits)
  <2>1. n > submits /\ \A m \in Submits : m \in Nat
      BY <1>a, <1>0, SubmitNumbers
  <2>2. job[n].step = "none"
      BY <1>0, <1>1, <2>1 DEF TaskOrder
  <2>. QED
      BY <1>a, <1>0, <2>1, <2>2
<1>13. /\ \A m \in Submits : Pursued(m)' <=> (m = n /\ act = "play") \/ (~begins /\ Pursued(m))
       /\ ~Pursued(n)
  <2>1. \A m \in Submits : m # n /\ begins => job'[m].rev # rev
      BY <1>0, <1>3, <1>6 DEF TaskOrder
  <2>2. \A m \in Submits : m # n /\ ~begins => job'[m].step = job[m].step
      BY <1>6
  <2>3. Pursued(n)' <=> act = "play"
      BY <1>2, <1>3, <1>6 DEF Pursued
  <2>4. ~Pursued(n)
      BY <1>12 DEF Pursued
  <2>5. \A m \in Submits : m # n /\ begins => ~Pursued(m)'
      BY <1>2, <2>1 DEF Pursued
  <2>6. \A m \in Submits : m # n /\ ~begins => (Pursued(m)' <=> Pursued(m))
      BY <1>2, <1>3, <1>6, <2>2 DEF Pursued
  <2>. QED
      BY <2>3, <2>4, <2>5, <2>6
<1>14. TaskOrder'
  <2>1. \A m \in Submits : job'[m].rev <= rev /\ (m > n <=> job'[m].step = "none")
    <3>1. \A m \in Submits : m # n => job'[m].rev <= rev
        BY <1>0, <1>3, <1>6 DEF TaskOrder
    <3>2. ASSUME NEW m \in Submits, m # n PROVE m > n <=> job'[m].step = "none"
      <4>1. m > submits <=> job[m].step = "none"
          BY <1>0 DEF TaskOrder
      <4>2. m = resolver => job[m].step # "none"
          BY <1>0, <4>1 DEF TaskOrder
      <4>. QED
          BY <1>6, <1>12, <3>2, <4>1, <4>2
    <3>3. job'[n].rev <= rev /\ ~(n > n) /\ job'[n].step # "none"
        BY <1>1, <1>3, <1>6
    <3>. QED
        BY <3>1, <3>2, <3>3
  <2>2. \A m \in Submits : job'[m].step = "new" => job'[m].act # "none"
      BY <1>0, <1>3, <1>6 DEF TaskOrder
  <2>3. \A m \in Submits : job'[m].step = "asked" => job'[m].act = "play"
      BY <1>0, <1>6 DEF TaskOrder
  <2>4. resolver' <= n
      BY <1>a, <1>0, <1>1, <1>2 DEF TaskOrder
  <2>5. observed'.state = "resolving" => \E m \in Submits : Pursued(m)'
    <3>1. CASE act = "play"
        BY <1>1, <1>13, <3>1
    <3>2. CASE act \in {"pause", "resume"}
        BY <1>0, <1>1, <1>8, <1>13, <3>2 DEF TaskOrder
    <3>. QED
        BY <1>8, <3>1, <3>2 DEF MediaActs
  <2>6. \A l, m \in Submits : Pursued(l)' /\ Pursued(m)' => l = m
      BY <1>0, <1>1, <1>13 DEF TaskOrder
  <2>7. \A m \in Submits : Pursued(m)' => observed'.track < m
    <3>1. observed.track < n
        BY <1>a, <1>0, <1>1 DEF TrackOrder
    <3>. QED
        BY <1>0, <1>1, <1>7, <1>13, <3>1 DEF TaskOrder
  <2>. QED
      BY <1>1, <1>2, <1>6, <2>1, <2>2, <2>3, <2>4, <2>5, <2>6, <2>7 DEF TaskOrder
<1>15. WishShape'
  <2>1. observed'.wanted = FALSE => work \in {"pause", "stop", "status"}
      BY <1>3, <1>7 DEF MediaActs
  <2>2. ASSUME observed'.state = "resolving" \/ work = "status", NEW m \in Submits, job'[m].rev = rev
        PROVE  job'[m].act # "resume"
    <3>1. CASE begins
      <4>1. m = n
          BY <1>0, <1>3, <1>6, <2>2, <3>1 DEF TaskOrder
      <4>. QED
          BY <1>3, <1>6, <3>1, <4>1
    <3>2. CASE ~begins
      <4>1. observed.state = "resolving"
          BY <1>3, <1>8, <2>2, <3>2 DEF MediaActs
      <4>. QED
          BY <1>0, <1>1, <1>3, <1>6, <2>2, <3>2, <4>1 DEF WishShape
    <3>. QED
        BY <3>1, <3>2
  <2>3. /\ observed'.wanted = FALSE => job'[n].act \in {"pause", "stop", "status"}
        /\ observed'.state = "resolving" \/ job'[n].act = "status" =>
              \A m \in Submits : job'[m].rev = rev => job'[m].act # "resume"
      BY <1>6, <2>1, <2>2
  <2>. QED
      BY <1>2, <2>3 DEF WishShape
<1>16. SilenceShape'
  <2>1. observed'.wanted = FALSE => (job'[n].step = "new" /\ job'[n].act \in {"pause", "stop"}) \/ observed'.track = 0
      BY <1>3, <1>6, <1>7 DEF MediaActs
  <2>. QED
      BY <1>1, <1>2, <2>1 DEF SilenceShape
<1>17. PendingShape' /\ ReportShape'
    BY <1>0, <1>2, <1>7 DEF PendingShape, ReportShape
<1>. QED
    BY <1>9, <1>10, <1>11, <1>14, <1>15, <1>16, <1>17 DEF MediaInv

\* A report comes in, a result is waited for no more, and the connection closes.
LEMMA ReportKeeps == MediaInv /\ (Report \/ AckExpires) => MediaInv'
<1> SUFFICES ASSUME MediaInv, Report \/ AckExpires PROVE MediaInv'
    OBVIOUS
<1>0. /\ MediaTypeOK /\ FrameOrder /\ CommandOrder /\ TrackOrder /\ TaskOrder /\ WishShape
      /\ DeckShape /\ SilenceShape /\ PendingShape /\ ReportShape /\ PendingOK /\ SessionOK /\ PlayerOK
      /\ observed \in Observations /\ up \in Seq(Reports) /\ down \in Seq(Frames) /\ deck \in Decks
      /\ deck.pending \in {0, deck.request} /\ requests \in Nat /\ deck.request <= requests
      /\ events \in Nat /\ events <= MaxEvents /\ MaxEvents \in Nat
    BY MediaFacts, SubmitNumbers DEF MediaInv, MediaTypeOK, CommandOrder, CommandsInOrder, PlayerOK
<1>1. UNCHANGED <<revision, shutting, job, resolver, requests, submits, refused, down, deck>>
    BY DEF Report, AckExpires, pageSide
<1>2. ASSUME pending' \subseteq pending, up' \in Seq(Reports), events' \in 0 .. MaxEvents, observed' \in Observations,
             observed'.wanted = observed.wanted, observed'.track = observed.track,
             observed'.state = "resolving" <=> observed.state = "resolving",
             submits = 0 /\ requests = 0 => observed' = observed,
             PendingShape', ReportShape'
      PROVE  MediaInv'
  <2>1. SessionOK'
      BY <1>0, <1>1, <1>2 DEF SessionOK
  <2>2. PendingOK'
    <3>1. IsFiniteSet(pending') /\ Cardinality(pending') <= Cardinality(pending)
        BY <1>0, <1>2, FS_Subset DEF PendingOK
    <3>2. Cardinality(pending') \in Nat /\ Cardinality(pending) \in Nat
        BY <1>0, <3>1, FS_CardinalityType DEF PendingOK
    <3>. QED
        BY <1>0, <1>2, <3>1, <3>2, SubmitNumbers DEF PendingOK
  <2>3. PlayerOK'
      BY <1>0, <1>1, <1>2 DEF PlayerOK
  <2>4. FrameOrder' /\ CommandOrder' /\ DeckShape'
      BY <1>0, <1>1 DEF FrameOrder, CommandOrder, DeckShape
  <2>5. TrackOrder'
      BY <1>0, <1>1, <1>2 DEF TrackOrder
  <2>6. \A n \in Submits : Pursued(n)' <=> Pursued(n)
      BY <1>1 DEF Pursued
  <2>7. TaskOrder'
      BY <1>0, <1>1, <1>2, <2>6 DEF TaskOrder
  <2>8. WishShape'
      BY <1>0, <1>1, <1>2 DEF WishShape
  <2>9. SilenceShape'
      BY <1>0, <1>1, <1>2 DEF SilenceShape
  <2>. QED
      BY <1>2, <2>1, <2>2, <2>3, <2>4, <2>5, <2>7, <2>8, <2>9 DEF MediaInv, MediaTypeOK
<1>3. CASE AckExpires
  <2>1. pending' \subseteq pending /\ observed' = observed /\ up' = up /\ events' \in 0 .. MaxEvents
      BY <1>0, <1>3 DEF AckExpires
  <2>2. PendingShape' /\ ReportShape'
      BY <1>0, <1>1, <2>1 DEF PendingShape, ReportShape
  <2>. QED
      BY <1>0, <1>2, <2>1, <2>2
<1>4. CASE Report
  <2> DEFINE e == Head(up)
             waiting == {p \in pending : p.request = e.request}
  <2>1. up # <<>> /\ ~shutting /\ up' = Tail(up) /\ events' = events
      BY <1>4 DEF Report, pageSide
  <2>2. e \in Reports /\ up' \in Seq(Reports) /\ e.status \in PlayerStates /\ e.type \in {"result", "state"}
    <3>1. e \in Reports
        BY <1>0, <2>1
    <3>. QED
        BY <1>0, <2>1, <3>1, Dropped DEF Reports
  <2>3. /\ pending' \subseteq pending
        /\ e.type = "result" /\ e.status # "waiting" => pending' = pending \ waiting
        /\ observed' = observed \/ (IsLast(e.request) /\ \E op : observed' = Applied(e.status, op))
        /\ e.type = "state" /\ IsLast(e.request) => \E op : observed' = Applied(e.status, op)
      BY <1>4, <2>1 DEF Report
  <2>4. ASSUME NEW op
        PROVE  LET a == Applied(e.status, op) IN
               /\ a \in Observations /\ a.wanted = observed.wanted /\ a.track = observed.track /\ a.client = e.status
               /\ a.state = "resolving" <=> observed.state = "resolving"
    <3> DEFINE s == IF observed.state = "resolving" \/ op # observed.op THEN observed.state
                    ELSE CASE e.status \in {"playing", "ended", "stopped"} -> "completed"
                           [] e.status \in {"failed", "no_track"} -> "failed"
                           [] OTHER -> observed.state
    <3>1. Applied(e.status, op) = [observed EXCEPT !.client = e.status, !.state = s]
        BY <1>0 DEF Applied, Observations
    <3>2. s \in MediaStates /\ (s = "resolving" <=> observed.state = "resolving")
        BY <1>0 DEF Observations, MediaStates
    <3> HIDE DEF s
    <3>. QED
        BY <1>0, <2>2, <3>1, <3>2 DEF Observations
  <2>5. /\ observed' \in Observations /\ observed'.wanted = observed.wanted /\ observed'.track = observed.track
        /\ observed'.state = "resolving" <=> observed.state = "resolving"
        /\ observed'.client = observed.client \/ (IsLast(e.request) /\ observed'.client = e.status)
        /\ e.type = "state" /\ IsLast(e.request) => observed'.client = e.status
        /\ requests = 0 => observed' = observed
    <3>1. requests = 0 => ~IsLast(e.request)
        BY DEF IsLast
    <3>. QED
        BY <1>0, <2>3, <2>4, <3>1
  <2>6. PendingShape'
    <3>1. ASSUME NEW p \in pending' PROVE Located(p.request, deck, down, Tail(up))
      <4>1. p \in pending /\ p.request \in Nat \ {0} /\ Located(p.request, deck, down, up)
          BY <1>0, <2>1, <2>3, <3>1 DEF PendingShape, PendingOK, Commands
      <4>2. ~(e.type = "result" /\ e.request = p.request /\ e.status # "waiting")
          BY <2>3, <3>1, <4>1
      <4>. QED
          BY <1>0, <2>1, <4>1, <4>2, ResultsAreLocated
    <3>. QED
        BY <1>1, <2>1, <3>1 DEF PendingShape
  <2>7. ReportShape'
    <3>1. e.request \in Nat \ {0}
        BY <2>2 DEF Reports
    <3>2. IsLast(e.request) <=> e.request = requests
        BY <3>1 DEF IsLast
    <3>3. ReportsTrue(deck, Tail(up)) /\ ReportsAgree(deck, Tail(up), requests, observed'.client)
        BY <1>0, <2>1, <2>5, <3>2, ReportsComeIn DEF ReportShape
    <3>. QED
        BY <1>1, <2>1, <3>3 DEF ReportShape
  <2>8. events' \in 0 .. MaxEvents
      BY <1>0, <2>1
  <2>. QED
      BY <1>2, <2>1, <2>2, <2>3, <2>5, <2>6, <2>7, <2>8
<1>. QED
    BY <1>3, <1>4

\* The connection closes.
LEMMA CloseKeeps == MediaInv /\ CloseMedia => MediaInv'
<1> SUFFICES ASSUME MediaInv, CloseMedia PROVE MediaInv'
    OBVIOUS
<1>0. /\ MediaTypeOK /\ FrameOrder /\ CommandOrder /\ TrackOrder /\ TaskOrder /\ DeckShape /\ ReportShape
      /\ PendingOK /\ SessionOK /\ PlayerOK /\ job \in [Submits -> Jobs] /\ (\A n \in Submits : job[n].rev \in Nat)
      /\ revision \in Nat /\ submits \in Nat /\ down \in Seq(Frames) /\ deck.rev \in Int
    BY MediaFacts DEF MediaInv, MediaTypeOK
<1>1. /\ shutting' = TRUE /\ revision' = revision + 1 /\ resolver' = 0 /\ pending' = {} /\ observed' = NoMedia
      /\ job' = [n \in Submits |-> IF Running(n) THEN [job[n] EXCEPT !.step = "done"] ELSE job[n]]
      /\ UNCHANGED <<requests, submits, refused, down, up, deck, events>>
    BY DEF CloseMedia, pageSide
<1>2. /\ job' \in [Submits -> Jobs]
      /\ \A n \in Submits : job'[n].rev = job[n].rev /\ job'[n].act = job[n].act
            /\ (job'[n].step = job[n].step \/ (job'[n].step = "done" /\ job[n].step # "none"))
  <2>1. \A n \in Submits : [job[n] EXCEPT !.step = "done"] \in Jobs /\ [job[n] EXCEPT !.step = "done"].act = job[n].act
           /\ [job[n] EXCEPT !.step = "done"].rev = job[n].rev /\ [job[n] EXCEPT !.step = "done"].step = "done"
      BY <1>0 DEF Jobs
  <2>. QED
      BY <1>0, <1>1, <2>1 DEF Running
<1>3. SessionOK'
  <2>1. NoMedia \in Observations /\ 0 \in 0 .. MaxSubmits
      BY SubmitNumbers DEF NoMedia, Observations, MediaStates
  <2>. QED
      BY <1>0, <1>1, <1>2, <2>1 DEF SessionOK
<1>4. PendingOK' /\ PlayerOK'
  <2>1. IsFiniteSet({}) /\ Cardinality({}) = 0
      BY FS_EmptySet
  <2>. QED
      BY <1>0, <1>1, <2>1, SubmitNumbers DEF PendingOK, PlayerOK
<1>5. FrameOrder' /\ CommandOrder' /\ DeckShape'
  <2>1. FramesInOrder(down, deck.rev, revision + 1)
      BY <1>0, FramesStayInOrder DEF FrameOrder
  <2>. QED
      BY <1>0, <1>1, <2>1 DEF FrameOrder, CommandOrder, DeckShape
<1>6. TaskOrder'
  <2>1. \A n \in Submits : job'[n].rev <= revision + 1
      BY <1>0, <1>2 DEF TaskOrder
  <2>. QED
      BY <1>0, <1>1, <1>2, <2>1 DEF TaskOrder
<1>7. TrackOrder' /\ WishShape' /\ SilenceShape' /\ PendingShape' /\ ReportShape'
    BY <1>0, <1>1 DEF TrackOrder, WishShape, SilenceShape, PendingShape, ReportShape
<1>. QED
    BY <1>3, <1>4, <1>5, <1>6, <1>7 DEF MediaInv, MediaTypeOK

\* No media yet.
LEMMA MediaInitially == MediaInit => MediaInv
<1> SUFFICES ASSUME MediaInit PROVE MediaInv
    OBVIOUS
<1>1. /\ revision = 0 /\ shutting = FALSE /\ observed = NoMedia
      /\ job = [n \in Submits |-> NoJob] /\ resolver = 0
      /\ pending = {} /\ requests = 0 /\ submits = 0 /\ refused = {} /\ down = <<>> /\ up = <<>>
      /\ deck = [status |-> "idle", wants |-> FALSE, pending |-> 0, request |-> 0,
                 rev |-> -1, track |-> 0, busy |-> FALSE]
      /\ events = 0
    BY DEF MediaInit
<1>2. 0 \in 0 .. MaxSubmits /\ 0 \in 0 .. MaxEvents /\ \A n \in Submits : n \in Nat /\ n # 0
    BY SubmitNumbers
<1>3. SessionOK
  <2>1. NoJob \in Jobs /\ NoMedia \in Observations
      BY <1>2 DEF NoJob, NoMedia, Jobs, Observations, MediaStates
  <2>. QED
      BY <1>1, <1>2, <2>1 DEF SessionOK
<1>4. PendingOK
  <2>1. IsFiniteSet({}) /\ Cardinality({}) = 0
      BY FS_EmptySet
  <2>. QED
      BY <1>1, <2>1, SubmitNumbers DEF PendingOK
<1>5. PlayerOK
    BY <1>1, <1>2 DEF PlayerOK, Decks, PlayerStates
<1>6. FrameOrder /\ CommandOrder /\ DeckShape
    BY <1>1 DEF FrameOrder, FramesInOrder, CommandOrder, CommandsInOrder, DeckShape
<1>7. TrackOrder
    BY <1>1 DEF TrackOrder, TracksInOrder, TracksKnown, NoMedia
<1>8. TaskOrder
    BY <1>1, <1>2 DEF TaskOrder, Pursued, NoJob, NoMedia
<1>9. WishShape /\ SilenceShape
    BY <1>1 DEF WishShape, SilenceShape, NoMedia, NoJob
<1>10. PendingShape /\ ReportShape
    BY <1>1 DEF PendingShape, ReportShape, ReportsTrue, ReportsAgree, NoMedia
<1>. QED
    BY <1>3, <1>4, <1>5, <1>6, <1>7, <1>8, <1>9, <1>10 DEF MediaInv, MediaTypeOK

\* Every step keeps the invariant.
LEMMA MediaStep == MediaInv /\ [MediaNext]_mediaVars => MediaInv'
<1> SUFFICES ASSUME MediaInv, [MediaNext]_mediaVars PROVE MediaInv'
    OBVIOUS
<1>1. ASSUME NEW act \in {"play", "pause", "resume", "stop"}, Submit(act) PROVE MediaInv'
    BY <1>1, SubmitKeeps DEF MediaActs
<1>2. ASSUME NEW n \in Submits, Begin(n) \/ TrackResolved(n) \/ ResolveFails(n) \/ TaskEnds(n) PROVE MediaInv'
    BY <1>2, BeginKeeps, ResolvedKeeps, FailsKeeps, EndKeeps
<1>3. CASE Report \/ AckExpires
    BY <1>3, ReportKeeps
<1>4. CASE CloseMedia
    BY <1>4, CloseKeeps
<1>5. CASE PageReceives
    BY <1>5, PageReceivesKeeps
<1>6. CASE AudioPlays \/ AudioStops \/ SetBusy
    BY <1>6, PlayerKeeps
<1>7. CASE UNCHANGED mediaVars
  <2>1. /\ revision' = revision /\ shutting' = shutting /\ observed' = observed /\ job' = job /\ resolver' = resolver
        /\ pending' = pending /\ requests' = requests /\ submits' = submits /\ refused' = refused
        /\ down' = down /\ up' = up /\ deck' = deck /\ events' = events
      BY <1>7 DEF mediaVars, mediaSide, pageSide
  <2>2. MediaTypeOK'
      BY <2>1 DEF MediaInv, MediaTypeOK, SessionOK, PendingOK, PlayerOK
  <2>3. FrameOrder' /\ CommandOrder' /\ TrackOrder' /\ DeckShape' /\ SilenceShape' /\ PendingShape' /\ ReportShape'
      BY <2>1 DEF MediaInv, FrameOrder, CommandOrder, TrackOrder, DeckShape, SilenceShape, PendingShape, ReportShape
  <2>4. TaskOrder' /\ WishShape'
      BY <2>1 DEF MediaInv, TaskOrder, WishShape, Pursued
  <2>. QED
      BY <2>2, <2>3, <2>4 DEF MediaInv
<1>. QED
    BY <1>1, <1>2, <1>3, <1>4, <1>5, <1>6, <1>7 DEF MediaNext

\* What the variables hold, and how session, frames, reports and page are related, whatever
\* is submitted, resolved, reported or closed in whatever order.
THEOREM MediaInvariant == MediaSpec => []MediaInv
<1>1. MediaInit => MediaInv
    BY MediaInitially
<1>2. MediaInv /\ [MediaNext]_mediaVars => MediaInv'
    BY MediaStep
<1>. QED
    BY <1>1, <1>2, PTL DEF MediaSpec

\* What the user paused or stopped is silent once nothing is under way, and what plays is the
\* track the session last prepared, unless too many commands were pending to announce it
\* (session.py _publish and _resolve, the player of the page).
THEOREM UnwantedIsSilent == MediaSpec => []SilentWhenUnwanted
<1>1. ASSUME MediaInv PROVE SilentWhenUnwanted
  <2> SUFFICES ASSUME Settled, "operation" \notin refused, deck.status = "playing"
               PROVE  observed.wanted /\ ("track" \notin refused => deck.track = observed.track)
      BY DEF SilentWhenUnwanted
  <2>0. /\ TrackOrder /\ CommandOrder /\ DeckShape /\ SilenceShape /\ observed.wanted \in BOOLEAN
        /\ observed.track \in Nat /\ deck.track \in Nat /\ (submits # 0 => submits \in Submits)
      BY <1>1, MediaFacts DEF MediaInv
  <2>1. ~shutting /\ down = <<>> /\ \A n \in Submits : job[n].step \in {"none", "done"}
      BY DEF Settled, Running
  <2>2. deck.wants = TRUE /\ deck.track # 0 /\ deck.request = requests
      BY <2>0, <2>1 DEF DeckShape, CommandOrder, CommandsInOrder
  <2>3. deck.track <= observed.track /\ ("track" \notin refused => deck.track = observed.track)
      BY <2>0, <2>1 DEF TrackOrder, TracksKnown
  <2>4. observed.wanted # FALSE
    <3>1. ~LastSilences(down, deck, requests)
        BY <2>2 DEF LastSilences
    <3>2. observed.track # 0
        BY <2>0, <2>2, <2>3
    <3>3. ~(submits # 0 /\ job[submits].step = "new")
        BY <2>0, <2>1
    <3>. QED
        BY <2>0, <2>1, <3>1, <3>2, <3>3 DEF SilenceShape
  <2>. QED
      BY <2>0, <2>3, <2>4
<1>. QED
    BY <1>1, MediaInvariant, PTL

\* With nothing under way, the session knows whether the page plays, and no operation stays
\* shown as resolving (session.py _observe, _fail and submit).
THEOREM PlayingIsKnown == MediaSpec => []ClientIsKnown
<1>1. ASSUME MediaInv PROVE ClientIsKnown
  <2> SUFFICES ASSUME Settled PROVE observed.state # "resolving" /\ (observed.client = "playing") = (deck.status = "playing")
      BY DEF ClientIsKnown
  <2>0. CommandOrder /\ TaskOrder /\ ReportShape
      BY <1>1 DEF MediaInv
  <2>1. ~shutting /\ down = <<>> /\ up = <<>> /\ \A n \in Submits : job[n].step \in {"none", "done"}
      BY DEF Settled, Running
  <2>2. observed.state # "resolving"
      BY <2>0, <2>1 DEF TaskOrder, Pursued
  <2>3. deck.request = requests
      BY <2>0, <2>1 DEF CommandOrder, CommandsInOrder
  <2>4. observed.client = "playing" <=> deck.status = "playing"
      BY <2>0, <2>1, <2>3 DEF ReportShape, ReportsAgree
  <2>. QED
      BY <2>2, <2>4
<1>. QED
    BY <1>1, MediaInvariant, PTL

=============================================================================
