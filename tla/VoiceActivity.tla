---------------------------- MODULE VoiceActivity ----------------------------
(***************************************************************************)
(* The detector of speech in one capture: every window of samples gets a   *)
(* probability, a few voiced windows begin a speech, a long enough silence *)
(* ends it. Samples are counted in windows.                                *)
(***************************************************************************)
EXTENDS Integers, Sequences, FiniteSets

CONSTANTS
    WindowSize,     \* start_window_size
    StartThreshold, \* start_window_threshold
    MinSilence,     \* _min_silence_samples, in windows, rounded up
    LastWindow,     \* bound: windows of a capture
    MaxCaptures     \* bound: captures

ASSUME ActivityAssumption ==
    /\ WindowSize \in Nat /\ StartThreshold \in 1 .. WindowSize /\ MinSilence \in Nat \ {0}
    /\ LastWindow \in Nat /\ MaxCaptures \in Nat

VARIABLES
    voiceWindow,    \* _voice_window
    lastIsVoice,    \* _last_is_voice
    inSpeech,       \* _speaking
    processed,      \* _processed_samples
    lastVoice,      \* _last_voice_sample
    judged,         \* history: of each window of the capture, was it taken for voice
    marks,          \* history: the events of the capture, with the windows processed
    captures        \* captures that have ended

activityVars == <<voiceWindow, lastIsVoice, inSpeech, processed, lastVoice, judged, marks, captures>>

ActivityInit ==
    /\ voiceWindow = <<>> /\ lastIsVoice = FALSE /\ inSpeech = FALSE
    /\ processed = 0 /\ lastVoice = 0 /\ judged = <<>> /\ marks = <<>> /\ captures = 0

\* the probability: at the threshold or over it, at the lower one or under it, or between them
Levels == {"high", "between", "low"}

IsVoice(level) == level = "high" \/ (level = "between" /\ lastIsVoice)

\* deque(maxlen)
Pushed(v) == LET w == Append(voiceWindow, v) IN IF Len(w) > WindowSize THEN Tail(w) ELSE w

Voiced(w) == Cardinality({i \in DOMAIN w : w[i]})

Mark(kind) == marks' = Append(marks, [kind |-> kind, at |-> processed', voice |-> lastVoice'])

\* mutant: the silence is counted one window short
SilentLongEnough_early == processed + 1 - lastVoice >= MinSilence - 1

SilentLongEnough == processed + 1 - lastVoice >= MinSilence

\* mutant: the end leaves the window of the speech
WindowCleared_kept(w) == voiceWindow' = w

\* _reset_model_state
WindowCleared(w) == voiceWindow' = <<>>

\* one window of process
ProcessWindow(level) ==
    LET v == IsVoice(level)
        w == Pushed(v)
    IN  /\ processed < LastWindow /\ processed' = processed + 1
        /\ judged' = Append(judged, v)
        /\ \/ /\ Voiced(w) >= StartThreshold
              /\ voiceWindow' = w /\ lastIsVoice' = v /\ lastVoice' = processed' /\ inSpeech' = TRUE
              /\ IF inSpeech THEN UNCHANGED marks ELSE Mark("speech_start")
           \/ /\ Voiced(w) < StartThreshold /\ inSpeech /\ SilentLongEnough
              /\ WindowCleared(w) /\ lastIsVoice' = FALSE /\ inSpeech' = FALSE
              /\ UNCHANGED lastVoice /\ Mark("speech_end")
           \/ /\ Voiced(w) < StartThreshold /\ ~(inSpeech /\ SilentLongEnough)
              /\ voiceWindow' = w /\ lastIsVoice' = v /\ UNCHANGED <<lastVoice, inSpeech, marks>>
        /\ UNCHANGED captures

\* the capture ends, and a speech under way with it; everything is reset for the next one
Flush ==
    /\ captures < MaxCaptures /\ captures' = captures + 1
    /\ voiceWindow' = <<>> /\ lastIsVoice' = FALSE /\ inSpeech' = FALSE
    /\ processed' = 0 /\ lastVoice' = 0 /\ judged' = <<>> /\ marks' = <<>>

ActivityNext == Flush \/ \E level \in Levels : ProcessWindow(level)

ActivitySpec == ActivityInit /\ [][ActivityNext]_activityVars

(***************************************************************************)
(* Properties.                                                             *)
(***************************************************************************)
\* What the variables hold.
ActivityTypeOK ==
    /\ voiceWindow \in Seq(BOOLEAN) /\ Len(voiceWindow) <= WindowSize
    /\ lastIsVoice \in BOOLEAN /\ inSpeech \in BOOLEAN
    /\ processed \in 0 .. LastWindow /\ lastVoice \in 0 .. processed
    /\ judged \in Seq(BOOLEAN) /\ Len(judged) = processed
    /\ marks \in Seq([kind : {"speech_start", "speech_end"}, at : 1 .. LastWindow, voice : 0 .. LastWindow])
    /\ captures \in 0 .. MaxCaptures

\* windows counted for a start that ends at p: those since the end before, at most WindowSize
Since(p, e) == {i \in e + 1 .. p : i > p - WindowSize /\ judged[i]}
Confirmed(p, e) == Cardinality(Since(p, e)) >= StartThreshold
EndBefore(k) == IF k = 1 THEN 0 ELSE marks[k - 1].at

\* Starts and ends alternate; a speech begins at the first window that confirms it, counting
\* none of the speech before, and ends after exactly the minimum of silence since the last
\* window that confirmed it (SileroVadStream.process).
SpeechIsBounded ==
    /\ inSpeech = (marks # <<>> /\ marks[Len(marks)].kind = "speech_start")
    /\ \A k \in DOMAIN marks :
          IF k % 2 = 1
          THEN /\ marks[k].kind = "speech_start"
               /\ \A p \in EndBefore(k) + 1 .. marks[k].at : Confirmed(p, EndBefore(k)) = (p = marks[k].at)
          ELSE LET e == IF k = 2 THEN 0 ELSE marks[k - 2].at
               IN  /\ marks[k].kind = "speech_end" /\ marks[k].at = marks[k].voice + MinSilence
                   /\ \A p \in marks[k].voice .. marks[k].at : Confirmed(p, e) = (p = marks[k].voice)
    /\ ~inSpeech => LET e == IF marks = <<>> THEN 0 ELSE marks[Len(marks)].at
                    IN  \A p \in e + 1 .. processed : ~Confirmed(p, e)
    /\ inSpeech => processed - lastVoice < MinSilence

=============================================================================
