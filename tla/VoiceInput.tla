----------------------------- MODULE VoiceInput -----------------------------
(***************************************************************************)
(* The voice of one connection: the receive loop pushes audio and hears    *)
(* the VAD, one recognition task per utterance feeds the ASR stream, the   *)
(* voiceprint request of the utterance runs beside it, and the two are     *)
(* joined under a timeout before a turn starts for a member or a guest.    *)
(*                                                                         *)
(* The pre-roll is one frame, the ASR queue holds QueueSize frames. A step *)
(* between two awaits is one action.                                       *)
(***************************************************************************)
EXTENDS Integers

CONSTANTS
    LastUtterance,  \* bound: utterances spoken
    QueueSize       \* _ASR_QUEUE_MAX_FRAMES

ASSUME VoiceAssumption == LastUtterance \in Nat /\ QueueSize \in Nat \ {0}

VARIABLES
    loop,       \* the receive loop: the await of push, stop_audio_input or close it is in
    capture,    \* the AudioInputSession: on, stopping, off, or ended with the connection
    current,    \* _active_utterance_id, 0 for None
    feeding,    \* the utterance of _active_queue and _active_task, 0 for None
    queued,     \* [Utterances -> items in its queue, the end mark included]
    mark,       \* [Utterances -> the end mark: no, queued, taken]
    recog,      \* [Utterances -> the recognition task]
    join,       \* [Utterances -> _voice_joins: absent, waiting, ready, media]
    print,      \* [Utterances -> the voiceprint request]
    speaker,    \* [Utterances -> who the turn is for: none, guest, member]
    boundaries, \* [Utterances -> vad_speech_start and vad_speech_end sent]
    failures,   \* [Utterances -> asr_failed sent]
    known       \* whether the member of the voiceprints is still active

Utterances == 1 .. LastUtterance
intake == <<loop, capture, current, feeding>>
queue == <<queued, mark>>
joined == <<join, print>>
outcome == <<speaker, failures, boundaries>>
voiceVars == <<intake, queue, recog, joined, outcome, known>>

VoiceInit ==
    /\ loop = "idle" /\ capture = "off" /\ current = 0 /\ feeding = 0
    /\ queued = [u \in Utterances |-> 0] /\ mark = [u \in Utterances |-> "no"]
    /\ recog = [u \in Utterances |-> "none"]
    /\ join = [u \in Utterances |-> "absent"] /\ print = [u \in Utterances |-> "none"]
    /\ speaker = [u \in Utterances |-> "none"]
    /\ boundaries = [u \in Utterances |-> 0] /\ failures = [u \in Utterances |-> 0]
    /\ known = TRUE

Alive(u) == recog[u] \notin {"none", "cancelled", "done"}
Open == loop # "closing" /\ capture # "ended"
Stopping == capture = "stopping"

(***************************************************************************)
(* The recognition task of the utterance that is fed may end by itself:    *)
(* the queue is detached, the utterance stays current until the VAD ends   *)
(* it.                                                                     *)
(***************************************************************************)
\* mutant: with the recognition the utterance is over too
Detached_current(u) == feeding' = 0 /\ current' = IF current = u THEN 0 ELSE current

Detached(u) == feeding' = (IF feeding = u THEN 0 ELSE feeding) /\ UNCHANGED current

\* _discard_voice_join: the request is cancelled and awaited
Discarded(u) ==
    /\ join' = [join EXCEPT ![u] = "absent"]
    /\ print' = [print EXCEPT ![u] = IF @ = "running" THEN "cancelled" ELSE @]

\* mutant: the queue takes frames whatever is in it
Full_never(u) == FALSE

Full(u) == queued[u] >= QueueSize

Overflows(u) == feeding' = 0

\* _queue_chunk: nothing is queued for a task that ended; a full queue detaches the
\* utterance first, cancels its task and reports once
Queue(u, item) ==
    IF ~Alive(u)
    THEN feeding' = 0 /\ loop' = "idle" /\ UNCHANGED <<queue, recog, failures>>
    ELSE IF Full(u)
    THEN /\ Overflows(u) /\ loop' = "report"
         /\ recog' = [recog EXCEPT ![u] = "cancelled"]
         /\ failures' = [failures EXCEPT ![u] = @ + 1]
         /\ UNCHANGED queue
    ELSE /\ queued' = [queued EXCEPT ![u] = @ + 1]
         /\ mark' = [mark EXCEPT ![u] = IF item = "end" THEN "queued" ELSE @]
         /\ feeding' = (IF item = "end" THEN 0 ELSE feeding) /\ loop' = "idle"
         /\ UNCHANGED <<recog, failures>>

(***************************************************************************)
(* The receive loop.                                                       *)
(***************************************************************************)
StartCapture ==
    /\ loop = "idle" /\ capture = "off" /\ \E u \in Utterances : recog[u] = "none"
    /\ capture' = "on"
    /\ UNCHANGED <<loop, current, feeding, queue, recog, joined, outcome, known>>

PushFrame ==
    /\ loop = "idle" /\ capture = "on" /\ feeding # 0
    /\ Queue(feeding, "frame")
    /\ UNCHANGED <<capture, current, joined, speaker, boundaries, known>>

\* _start_utterance: the task, the join, and the notice, with the barge-in it is awaited with
SpeechStarts(u) ==
    /\ loop = "idle" /\ capture = "on" /\ current = 0
    /\ recog[u] = "none" /\ \A v \in 1 .. u - 1 : recog[v] # "none"
    /\ current' = u /\ feeding' = u /\ loop' = "start"
    /\ recog' = [recog EXCEPT ![u] = "running"]
    /\ \E state \in {"waiting", "media"} : join' = [join EXCEPT ![u] = state]
    /\ boundaries' = [boundaries EXCEPT ![u] = 1]
    /\ UNCHANGED <<capture, queue, print, speaker, failures, known>>

\* the pre-roll, unless the recognition has ended meanwhile
StartTold ==
    /\ loop = "start"
    /\ IF feeding = 0
         THEN loop' = "idle" /\ UNCHANGED <<feeding, queue, recog, failures>>
         ELSE Queue(feeding, "frame")
    /\ UNCHANGED <<capture, current, joined, speaker, boundaries, known>>

\* the VAD ends the utterance, or is flushed when the page stops the capture
SpeechEnds ==
    /\ loop = "idle" /\ current # 0
    /\ loop' = "end"
    /\ boundaries' = [boundaries EXCEPT ![current] = 2]
    /\ UNCHANGED <<capture, current, feeding, queue, recog, joined, speaker, failures, known>>

\* _finish_active_utterance: the end mark, and the voiceprint request when it was queued
EndTold ==
    LET u == current
    IN  /\ loop = "end"
        /\ current' = 0
        /\ IF feeding = u THEN Queue(u, "end")
           ELSE loop' = "idle" /\ UNCHANGED <<feeding, queue, recog, failures>>
        /\ IF mark'[u] = "queued" /\ join[u] # "media"
             THEN join' = [join EXCEPT ![u] = "ready"] /\ print' = [print EXCEPT ![u] = "running"]
             ELSE UNCHANGED joined
        /\ UNCHANGED <<capture, speaker, boundaries, known>>

\* asr_failed for a full queue has been sent
Reported ==
    /\ loop = "report"
    /\ \E u \in Utterances :
          /\ failures[u] > 0 /\ recog[u] \in {"cancelled", "done"} /\ join[u] # "absent"
          /\ Discarded(u)
    /\ loop' = "idle"
    /\ UNCHANGED <<capture, current, feeding, queue, recog, outcome, known>>

\* stop_audio_input: the runtime lets go of the session, which ends the utterance
StopCapture ==
    /\ loop = "idle" /\ capture = "on"
    /\ capture' = "stopping"
    /\ UNCHANGED <<loop, current, feeding, queue, recog, joined, outcome, known>>

\* and waits for the recognitions under way
CaptureStopped ==
    /\ loop = "idle" /\ Stopping /\ current = 0
    /\ \A u \in Utterances : recog[u] \in {"none", "done"}
    /\ capture' = "off"
    /\ UNCHANGED <<loop, current, feeding, queue, recog, joined, outcome, known>>

\* the connection is gone, or a frame could not be sent: abort() the session, unless
\* the runtime has let go of it
CloseBegins ==
    /\ Open /\ (Stopping => loop # "idle")
    /\ loop' = "closing" /\ current' = 0 /\ feeding' = 0
    /\ recog' = [u \in Utterances |-> IF Alive(u) /\ ~Stopping THEN "cancelled" ELSE recog[u]]
    /\ UNCHANGED <<capture, queue, joined, outcome, known>>

\* and then the voiceprint requests
CloseVoiceEnds ==
    /\ loop = "closing" /\ \A u \in Utterances : recog[u] # "cancelled"
    /\ loop' = "idle" /\ capture' = "ended"
    /\ join' = [u \in Utterances |-> "absent"]
    /\ print' = [u \in Utterances |-> IF print[u] = "running" THEN "cancelled" ELSE print[u]]
    /\ UNCHANGED <<current, feeding, queue, recog, outcome, known>>

\* a recognition nobody cancelled ends by itself, its events are ignored
EndsUnheard(u) ==
    /\ ~Open /\ Alive(u)
    /\ recog' = [recog EXCEPT ![u] = "done"]
    /\ UNCHANGED <<intake, queue, joined, outcome, known>>

(***************************************************************************)
(* A recognition task. The ASR answers with its final text only after it   *)
(* has sent the whole utterance.                                           *)
(***************************************************************************)
Take(u) ==
    /\ Open /\ recog[u] = "running" /\ queued[u] > 0
    /\ queued' = [queued EXCEPT ![u] = @ - 1]
    /\ mark' = [mark EXCEPT ![u] = IF @ = "queued" /\ queued[u] = 1 THEN "taken" ELSE @]
    /\ UNCHANGED <<intake, recog, joined, outcome, known>>

\* the stream, the member lookup or the turn raises: asr_failed is being sent
AsrFails(u) ==
    /\ Open /\ recog[u] \in {"running", "lookup", "naming"}
    /\ recog' = [recog EXCEPT ![u] = "report"]
    /\ Detached(u)
    /\ failures' = [failures EXCEPT ![u] = @ + 1]
    /\ UNCHANGED <<loop, capture, queue, joined, speaker, boundaries, known>>

\* mutant: the voice join of a failed recognition is kept
Released_kept(u) == UNCHANGED joined

Released(u) == Discarded(u)

AsrFailureTold(u) ==
    /\ Open /\ recog[u] = "report"
    /\ recog' = [recog EXCEPT ![u] = "done"]
    /\ Released(u)
    /\ UNCHANGED <<intake, queue, outcome, known>>

AsrFinal(u) ==
    /\ Open /\ recog[u] = "running" /\ mark[u] = "taken"
    /\ recog' = [recog EXCEPT ![u] = "final"]
    /\ UNCHANGED <<intake, queue, joined, outcome, known>>

\* what a media-only utterance, an empty text or a control command ends with; the rest
\* waits for the speaker
FinalTold(u) ==
    /\ Open /\ recog[u] = "final"
    /\ \/ /\ recog' = [recog EXCEPT ![u] = "done"]
          /\ Discarded(u)
       \/ /\ join[u] # "media"
          /\ recog' = [recog EXCEPT ![u] = "join"]
          /\ UNCHANGED joined
    /\ UNCHANGED <<intake, queue, outcome, known>>

PrintAnswers(u) ==
    /\ print[u] = "running"
    /\ \E answer \in {"matched", "unmatched", "failed"} : print' = [print EXCEPT ![u] = answer]
    /\ UNCHANGED <<intake, queue, recog, join, outcome, known>>

\* an answer in time: a match is looked up, anything else is a guest
JoinAnswered(u) ==
    /\ Open /\ recog[u] = "join" /\ join[u] = "ready" /\ print[u] # "running"
    /\ IF print[u] = "matched"
         THEN recog' = [recog EXCEPT ![u] = "lookup"] /\ UNCHANGED <<join, speaker>>
         ELSE /\ recog' = [recog EXCEPT ![u] = "naming"]
              /\ speaker' = [speaker EXCEPT ![u] = "guest"]
              /\ join' = [join EXCEPT ![u] = "absent"]
    /\ UNCHANGED <<intake, queue, print, failures, boundaries, known>>

\* mutant: the request that came too late goes on
TimedOut_runsOn(u) == UNCHANGED print

TimedOut(u) == print' = [print EXCEPT ![u] = IF @ = "running" THEN "cancelled" ELSE @]

JoinTimesOut(u) ==
    /\ Open /\ recog[u] = "join" /\ (join[u] # "ready" \/ print[u] = "running")
    /\ recog' = [recog EXCEPT ![u] = "naming"]
    /\ speaker' = [speaker EXCEPT ![u] = "guest"]
    /\ TimedOut(u)
    /\ join' = [join EXCEPT ![u] = "absent"]
    /\ UNCHANGED <<intake, queue, failures, boundaries, known>>

\* get_identity: a member deleted meanwhile is a guest
LookUpSpeaker(u) ==
    /\ Open /\ recog[u] = "lookup"
    /\ recog' = [recog EXCEPT ![u] = "naming"]
    /\ speaker' = [speaker EXCEPT ![u] = IF known THEN "member" ELSE "guest"]
    /\ join' = [join EXCEPT ![u] = "absent"]
    /\ UNCHANGED <<intake, queue, print, failures, boundaries, known>>

\* speaker_resolved and start_turn
TurnStarts(u) ==
    /\ Open /\ recog[u] = "naming"
    /\ recog' = [recog EXCEPT ![u] = "done"]
    /\ Detached(u)
    /\ UNCHANGED <<loop, capture, queue, joined, outcome, known>>

CancelledEnds(u) ==
    /\ recog[u] = "cancelled"
    /\ recog' = [recog EXCEPT ![u] = "done"]
    /\ UNCHANGED <<intake, queue, joined, outcome, known>>

MemberRemoved ==
    /\ known /\ known' = FALSE
    /\ UNCHANGED <<intake, queue, recog, joined, outcome>>

VoiceNext ==
    \/ StartCapture \/ PushFrame \/ StartTold \/ SpeechEnds \/ EndTold \/ Reported
    \/ StopCapture \/ CaptureStopped \/ CloseBegins \/ CloseVoiceEnds \/ MemberRemoved
    \/ \E u \in Utterances :
          \/ SpeechStarts(u) \/ Take(u) \/ AsrFails(u) \/ AsrFailureTold(u) \/ AsrFinal(u)
          \/ FinalTold(u) \/ PrintAnswers(u) \/ JoinAnswered(u) \/ JoinTimesOut(u)
          \/ LookUpSpeaker(u) \/ TurnStarts(u) \/ CancelledEnds(u) \/ EndsUnheard(u)

VoiceSpec == VoiceInit /\ [][VoiceNext]_voiceVars

(***************************************************************************)
(* Properties.                                                             *)
(***************************************************************************)
\* What the variables hold; a queue never outgrows its size, the end mark included.
VoiceTypeOK ==
    /\ loop \in {"idle", "start", "end", "report", "closing"}
    /\ capture \in {"on", "stopping", "off", "ended"}
    /\ current \in 0 .. LastUtterance /\ feeding \in {0, current}
    /\ queued \in [Utterances -> 0 .. QueueSize]
    /\ mark \in [Utterances -> {"no", "queued", "taken"}]
    /\ recog \in [Utterances -> {"none", "running", "final", "join", "lookup", "naming",
                                 "report", "cancelled", "done"}]
    /\ join \in [Utterances -> {"absent", "waiting", "ready", "media"}]
    /\ print \in [Utterances -> {"none", "running", "matched", "unmatched", "failed", "cancelled"}]
    /\ speaker \in [Utterances -> {"none", "guest", "member"}]
    /\ boundaries \in [Utterances -> 0 .. 2] /\ failures \in [Utterances -> Nat]
    /\ known \in BOOLEAN

\* An utterance whose recognition has ended, however it ended, holds no voice join and no
\* voiceprint request that could still answer (_resolve_voice_speaker, _discard_voice_join).
\* It fails once at most, although the full queue and the recognition task both report, and
\* no turn is started for it afterwards (_queue_chunk).
VoiceReleased ==
    \A u \in Utterances :
        /\ recog[u] = "done" /\ Open /\ loop # "report" => join[u] = "absent" /\ print[u] # "running"
        /\ failures[u] <= 1 /\ (failures[u] = 1 => recog[u] \in {"report", "cancelled", "done"})

\* Every utterance that was announced is also announced as ended, even when its
\* recognition ended first: the page shows the user as speaking until then.
SpeechEndsAreTold ==
    Open /\ loop = "idle" /\ current = 0 => \A u \in Utterances : boundaries[u] # 1

=============================================================================
