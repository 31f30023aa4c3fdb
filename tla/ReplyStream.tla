----------------------------- MODULE ReplyStream -----------------------------
(***************************************************************************)
(* One reply as the chat service makes it: the rounds of the model with    *)
(* their tool calls, the text producer that follows them, the audio        *)
(* producer with its speech session, the bounded queue both fill and the   *)
(* turn task that reads it and may leave at any time.                      *)
(***************************************************************************)
EXTENDS Integers, Sequences, FiniteSets

CONSTANTS
    Tools,          \* names of the registered tools
    ClientTools,    \* those that return an action for the page
    FollowUps,      \* [Tools -> tools declared as followup_tools]
    MaxTexts,       \* bound: text deltas of the whole reply
    MaxAudio,       \* bound: audio frames of the whole reply
    OutputSize      \* maxsize of the output queue

ASSUME ReplyAssumption ==
    /\ ClientTools \subseteq Tools /\ FollowUps \in [Tools -> SUBSET Tools]
    /\ MaxTexts \in Nat /\ MaxAudio \in Nat /\ OutputSize \in Nat \ {0}

VARIABLES
    stage,      \* where stream_reply is
    offered,    \* tools of the current selection
    calls,      \* tool calls of the model in this round
    roundTexts, \* text deltas of this round
    used,       \* tools executed, in their order
    toolCalls,  \* tool_calls
    texts,      \* text deltas made
    speech,     \* text_queue: segments and _TEXT_END
    voice,      \* where produce_audio is
    talker,     \* the task of the speech session that sends text: none, running, done
    ttsSession, \* the speech session at the provider
    spoken,     \* speech_text_count
    frames,     \* frame_count
    outputs,    \* output_queue
    stopped,    \* producers that have announced their end
    reader,     \* where stream_turn is
    heard       \* history: what the turn task received

textSide == <<stage, offered, calls, roundTexts, used, toolCalls, texts>>
voiceSide == <<voice, talker, ttsSession, spoken, frames>>
readSide == <<stopped, reader, heard>>
replyVars == <<textSide, speech, voiceSide, outputs, readSide>>

ReplyInit ==
    /\ stage \in {"preload", "model"} /\ offered \in SUBSET Tools
    /\ calls = <<>> /\ roundTexts = 0 /\ used = <<>> /\ toolCalls = 0 /\ texts = 0
    /\ speech = <<>>
    /\ voice = "opening" /\ talker = "none" /\ ttsSession = "none" /\ spoken = 0 /\ frames = 0
    /\ outputs = <<>> /\ stopped = {} /\ reader = "reading" /\ heard = <<>>

\* mutant: put does not wait for room
Room_always == TRUE

Room == Len(outputs) < OutputSize

(***************************************************************************)
(* stream_reply and produce_text                                           *)
(***************************************************************************)
\* retrieval before the first round ends, by itself or at its timeout
Preloaded ==
    /\ stage = "preload" /\ stage' = "model"
    /\ UNCHANGED <<offered, calls, roundTexts, used, toolCalls, texts, speech, voiceSide, outputs, readSide>>

\* the adapter keeps text that follows a tool call to itself
ModelSpeaks ==
    /\ stage = "model" /\ calls = <<>> /\ texts < MaxTexts
    /\ stage' = "text" /\ texts' = texts + 1 /\ roundTexts' = roundTexts + 1
    /\ UNCHANGED <<offered, calls, used, toolCalls, speech, voiceSide, outputs, readSide>>

ModelCalls ==
    /\ stage = "model" /\ Len(calls) < 2
    /\ \E t \in Tools : calls' = Append(calls, t)
    /\ UNCHANGED <<stage, offered, roundTexts, used, toolCalls, texts, speech, voiceSide, outputs, readSide>>

\* a delta goes to the page, and its finished segments to the voice
TextPut ==
    /\ stage = "text" /\ Room
    /\ outputs' = Append(outputs, "text") /\ stage' = "model"
    /\ speech' \in {speech, Append(speech, "segment")}
    /\ UNCHANGED <<offered, calls, roundTexts, used, toolCalls, texts, voiceSide, readSide>>

\* the text ends: the rest of it is spoken, the voice is told, the end is announced
TextEnds(how) ==
    /\ stage' = how
    /\ speech' \in IF how = "ended" THEN {Append(speech, "end"), speech \o <<"segment", "end">>}
                   ELSE {Append(speech, "end")}

\* mutant: text before a tool call does not fail the round
Mixed_never == FALSE

Mixed == calls # <<>> /\ roundTexts > 0

TooMany == toolCalls >= 2 \/ offered = {}

RoundEnds ==
    /\ stage = "model"
    /\ IF calls = <<>> /\ roundTexts > 0 THEN TextEnds("ended") /\ UNCHANGED toolCalls
       ELSE IF calls = <<>> \/ Mixed \/ Len(calls) > 1 \/ TooMany
       THEN TextEnds("failing") /\ UNCHANGED toolCalls
       ELSE stage' = "tool" /\ toolCalls' = toolCalls + 1 /\ UNCHANGED speech
    /\ UNCHANGED <<offered, calls, roundTexts, used, texts, voiceSide, outputs, readSide>>

\* mutant: after a tool, the whole selection is offered again
Following_all(t) == offered

\* only a result of status ok has follow-ups, and only after the first call
Following(t) == IF toolCalls = 1 /\ t \in offered THEN offered \cap FollowUps[t] ELSE {}

NextRound(following) ==
    /\ stage' = "model" /\ offered' = following /\ calls' = <<>> /\ roundTexts' = 0

\* execute runs a tool of the selection only; another name is answered with an error
ToolReturns ==
    LET t == calls[1]
    IN  /\ stage = "tool"
        /\ used' = IF t \in offered THEN Append(used, t) ELSE used
        /\ \/ /\ t \in offered \cap ClientTools
              /\ stage' = "action" /\ UNCHANGED <<offered, calls, roundTexts>>
           \/ NextRound(Following(t))
           \/ NextRound({})
        /\ UNCHANGED <<toolCalls, texts, speech, voiceSide, outputs, readSide>>

ActionPut ==
    /\ stage = "action" /\ Room
    /\ outputs' = Append(outputs, "action") /\ TextEnds("ended")
    /\ UNCHANGED <<offered, calls, roundTexts, used, toolCalls, texts, voiceSide, readSide>>

\* the provider, a tool or the input budget fails
TextFails ==
    /\ stage \in {"model", "tool"} /\ TextEnds("failing")
    /\ UNCHANGED <<offered, calls, roundTexts, used, toolCalls, texts, voiceSide, outputs, readSide>>

\* mutant: a text that failed does not announce its end
Announces_success == stage = "ended"

Announces == stage \in {"ended", "failing"}

TextDone ==
    /\ Announces /\ Room
    /\ outputs' = Append(outputs, IF stage = "ended" THEN "text_end" ELSE "text_failure")
    /\ stage' = "done"
    /\ UNCHANGED <<offered, calls, roundTexts, used, toolCalls, texts, speech, voiceSide, readSide>>

(***************************************************************************)
(* produce_audio and the speech session                                    *)
(***************************************************************************)
SessionOpens ==
    /\ voice = "opening" /\ voice' = "open" /\ ttsSession' = "started" /\ talker' = "running"
    /\ UNCHANGED <<textSide, speech, spoken, frames, outputs, readSide>>

\* _send_text: every segment, then FINISH_SESSION
Speaks ==
    /\ talker = "running" /\ speech # <<>> /\ speech' = Tail(speech)
    /\ IF Head(speech) = "end" THEN talker' = "done" /\ UNCHANGED spoken
       ELSE spoken' = spoken + 1 /\ UNCHANGED talker
    /\ UNCHANGED <<textSide, voice, ttsSession, frames, outputs, readSide>>

FrameArrives ==
    /\ voice = "open" /\ spoken > 0 /\ frames < MaxAudio
    /\ frames' = frames + 1 /\ voice' = IF frames = 0 THEN "start" ELSE "frame"
    /\ UNCHANGED <<textSide, speech, talker, ttsSession, spoken, outputs, readSide>>

SessionFinishes ==
    /\ voice = "open" /\ talker = "done" /\ ttsSession' = "finished"
    /\ voice' = IF frames > 0 THEN "end" ELSE IF spoken > 0 THEN "failure" ELSE "over"
    /\ UNCHANGED <<textSide, speech, talker, spoken, frames, outputs, readSide>>

\* mutant: a session that fails is not cancelled at the provider
LeftSession_open == ttsSession

\* finally of the session: the sending task ends, an unfinished session is cancelled
LeftSession == IF ttsSession = "started" THEN "cancelled" ELSE ttsSession

SessionFails ==
    /\ voice \in {"opening", "open"}
    /\ voice' = "failure" /\ ttsSession' = LeftSession
    /\ talker' = IF talker = "running" THEN "done" ELSE talker
    /\ UNCHANGED <<textSide, speech, spoken, frames, outputs, readSide>>

\* each output waits for room; the end is announced last
VoicePut ==
    /\ voice \in {"start", "frame", "end", "failure", "over"} /\ Room
    /\ outputs' = Append(outputs, CASE voice = "start" -> "audio_start" [] voice = "frame" -> "audio_frame"
                                    [] voice = "end" -> "audio_end" [] voice = "failure" -> "audio_failed"
                                    [] OTHER -> "voice_end")
    /\ voice' = CASE voice = "start" -> "frame" [] voice = "frame" -> "open"
                  [] voice \in {"end", "failure"} -> "over" [] OTHER -> "done"
    /\ UNCHANGED <<textSide, speech, talker, ttsSession, spoken, frames, readSide>>

(***************************************************************************)
(* stream_turn                                                             *)
(***************************************************************************)
\* mutant: the reply is complete when its text is
BothStopped_text(stops) == stops # {}

BothStopped(stops) == {"text", "voice"} \subseteq stops

Reads ==
    LET o == Head(outputs)
        end == o \in {"text_end", "text_failure", "voice_end"}
    IN  /\ reader = "reading" /\ outputs # <<>>
        /\ outputs' = Tail(outputs)
        /\ heard' = IF end /\ o # "text_failure" THEN heard ELSE Append(heard, o)
        /\ stopped' = IF end THEN stopped \cup {IF o = "voice_end" THEN "voice" ELSE "text"} ELSE stopped
        /\ reader' = IF o = "action" THEN "leaving"
                     ELSE IF ~BothStopped(stopped') THEN "reading"
                     ELSE IF \E i \in DOMAIN heard' : heard'[i] = "text_failure" THEN "failed" ELSE "completed"
        /\ UNCHANGED <<textSide, speech, voiceSide>>

\* the reader leaves, after an action or because the turn is cancelled or cannot send:
\* finally cancels both producers and awaits them
Leaves ==
    /\ reader' = "left" /\ stage' = "done" /\ voice' = "done" /\ ttsSession' = LeftSession
    /\ talker' = IF talker = "running" THEN "done" ELSE talker
    /\ UNCHANGED <<offered, calls, roundTexts, used, toolCalls, texts, speech, spoken, frames, outputs,
                   stopped, heard>>

ActionTaken == reader = "leaving" /\ Leaves
TurnLeaves == reader = "reading" /\ Leaves

ReplyProgress ==
    \/ Preloaded \/ ModelSpeaks \/ ModelCalls \/ TextPut \/ RoundEnds \/ ToolReturns \/ ActionPut
    \/ TextFails \/ TextDone
    \/ SessionOpens \/ Speaks \/ FrameArrives \/ SessionFinishes \/ SessionFails \/ VoicePut
    \/ Reads \/ ActionTaken

ReplyNext == ReplyProgress \/ TurnLeaves

ReplySafety == ReplyInit /\ [][ReplyNext]_replyVars
\* everything the reply waits for has a timeout of its own or is a task of this process
ReplySpec == ReplySafety /\ WF_replyVars(ReplyProgress)

(***************************************************************************)
(* Properties.                                                             *)
(***************************************************************************)
Outputs == {"text", "action", "audio_start", "audio_frame", "audio_end", "audio_failed",
            "text_end", "text_failure", "voice_end"}

\* What the variables hold: no more outputs wait than the queue takes, however slow the page.
ReplyTypeOK ==
    /\ stage \in {"preload", "model", "text", "tool", "action", "ended", "failing", "done"}
    /\ offered \subseteq Tools /\ calls \in Seq(Tools) /\ used \in Seq(Tools)
    /\ toolCalls \in 0 .. 2 /\ texts \in 0 .. MaxTexts /\ roundTexts \in 0 .. texts
    /\ speech \in Seq({"segment", "end"})
    /\ voice \in {"opening", "open", "start", "frame", "end", "failure", "over", "done"}
    /\ talker \in {"none", "running", "done"}
    /\ ttsSession \in {"none", "started", "finished", "cancelled"}
    /\ spoken \in Nat /\ frames \in 0 .. MaxAudio
    /\ outputs \in Seq(Outputs) /\ Len(outputs) <= OutputSize
    /\ stopped \subseteq {"text", "voice"} /\ heard \in Seq(Outputs)
    /\ reader \in {"reading", "leaving", "left", "completed", "failed"}

\* A reply runs at most one tool and then one the first declares as its follow-up: the
\* model cannot go round in tools (stream_reply, following).
ToolsAreDeclared ==
    /\ Len(used) <= 2
    /\ Len(used) = 2 => used[2] \in FollowUps[used[1]]

Over == reader \in {"left", "completed", "failed"}

AudioOutputs == {"audio_start", "audio_frame", "audio_end", "audio_failed"}
Closings == {"audio_end", "audio_failed"}

\* the text deltas in a sequence of outputs
Said(s) == Cardinality({i \in DOMAIN s : s[i] = "text"})

\* A reply runs only the tools it may, and a completed one is whole: all of its text was
\* delivered, and its audio, if there is any, is closed by one end or failure after
\* everything of it. An action for the page is all its turn says: no text was shown and
\* nothing played before it. However the turn ended, no session stays open at the speech
\* provider and no task still speaks.
ReplyIsWhole ==
    /\ ToolsAreDeclared
    /\ reader = "completed" =>
        /\ Said(heard) = texts
        /\ spoken > 0 => \E i \in DOMAIN heard : heard[i] \in Closings
    /\ \A i, j \in DOMAIN heard : i < j /\ heard[i] \in Closings => heard[j] \notin AudioOutputs
    /\ LET told == {heard[i] : i \in DOMAIN heard}
       IN  "action" \in told => told \subseteq {"action", "audio_failed"}
    /\ Over => ttsSession # "started" /\ talker # "running"

\* A reply ends, with the output queue full or a producer failing at any point.
ReplyEnds == <>Over

=============================================================================
