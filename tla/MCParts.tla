------------------------------- MODULE MCParts -------------------------------
(***************************************************************************)
(* The parts of the system that share no state but for short calls, each   *)
(* explored on its own in one graph: the initial state chooses a part, the *)
(* others stay where they are.                                             *)
(***************************************************************************)
EXTENDS TurnOutput, VoiceInput, MediaSession, ReplyStream, ProfileCache, Recovery, Voiceprints,
        DeviceControl, SpeechRecognition, VoiceActivity, ContextBudget

VARIABLE part

\* the tools of the instance: a search followed by playing, and an action of the page
MCTools == {"search", "play", "device"}
MCClientTools == {"device"}
MCFollowUps == [t \in MCTools |-> IF t = "search" THEN {"play"} ELSE {}]

partsVars == <<part, outputVars, voiceVars, mediaVars, replyVars, profileVars, recoveryVars,
               voiceprintVars, controlVars, recognitionVars, activityVars, budgetVars>>

\* a part that is not explored starts in one state
PartsInit ==
    /\ part \in {"output", "voice", "media", "reply", "profile", "recovery", "voiceprint",
                 "control", "recognition", "activity", "budget"}
    /\ OutputInit /\ VoiceInit /\ MediaInit /\ ReplyInit /\ ProfileInit /\ RecoveryInit
    /\ VoiceprintInit /\ ControlInit /\ RecognitionInit /\ ActivityInit /\ BudgetInit
    /\ part # "reply" => stage = "model" /\ offered = {}
    /\ part # "profile" => bound
    /\ part # "recovery" => store = "memory"
    /\ part # "budget" => \A l \in Limits : limit <= l

OutputPart == UNCHANGED <<part, voiceVars, mediaVars, replyVars, profileVars, recoveryVars,
                          voiceprintVars, controlVars, recognitionVars, activityVars, budgetVars>>
VoicePart == UNCHANGED <<part, outputVars, mediaVars, replyVars, profileVars, recoveryVars,
                         voiceprintVars, controlVars, recognitionVars, activityVars, budgetVars>>
MediaPart == UNCHANGED <<part, outputVars, voiceVars, replyVars, profileVars, recoveryVars,
                         voiceprintVars, controlVars, recognitionVars, activityVars, budgetVars>>
ReplyPart == UNCHANGED <<part, outputVars, voiceVars, mediaVars, profileVars, recoveryVars,
                         voiceprintVars, controlVars, recognitionVars, activityVars, budgetVars>>
ProfilePart == UNCHANGED <<part, outputVars, voiceVars, mediaVars, replyVars, recoveryVars,
                           voiceprintVars, controlVars, recognitionVars, activityVars,
                           budgetVars>>
RecoveryPart == UNCHANGED <<part, outputVars, voiceVars, mediaVars, replyVars, profileVars,
                            voiceprintVars, controlVars, recognitionVars, activityVars,
                            budgetVars>>
VoiceprintPart == UNCHANGED <<part, outputVars, voiceVars, mediaVars, replyVars, profileVars,
                              recoveryVars, controlVars, recognitionVars, activityVars,
                              budgetVars>>
ControlPart == UNCHANGED <<part, outputVars, voiceVars, mediaVars, replyVars, profileVars,
                           recoveryVars, voiceprintVars, recognitionVars, activityVars,
                           budgetVars>>
RecognitionPart == UNCHANGED <<part, outputVars, voiceVars, mediaVars, replyVars, profileVars,
                               recoveryVars, voiceprintVars, controlVars, activityVars,
                               budgetVars>>
ActivityPart == UNCHANGED <<part, outputVars, voiceVars, mediaVars, replyVars, profileVars,
                            recoveryVars, voiceprintVars, controlVars, recognitionVars,
                            budgetVars>>
BudgetPart == UNCHANGED <<part, outputVars, voiceVars, mediaVars, replyVars, profileVars,
                          recoveryVars, voiceprintVars, controlVars, recognitionVars,
                          activityVars>>

PartsNext ==
    \/ part = "output" /\ OutputNext /\ OutputPart
    \/ part = "voice" /\ VoiceNext /\ VoicePart
    \/ part = "media" /\ MediaNext /\ MediaPart
    \/ part = "reply" /\ ReplyNext /\ ReplyPart
    \/ part = "profile" /\ ProfileNext /\ ProfilePart
    \/ part = "recovery" /\ RecoveryNext /\ RecoveryPart
    \/ part = "voiceprint" /\ VoiceprintNext /\ VoiceprintPart
    \/ part = "control" /\ ControlNext /\ ControlPart
    \/ part = "recognition" /\ RecognitionNext /\ RecognitionPart
    \/ part = "activity" /\ ActivityNext /\ ActivityPart
    \/ part = "budget" /\ BudgetNext /\ BudgetPart

PartsSpec == PartsInit /\ [][PartsNext]_partsVars

\* The type invariants of the parts; with them, that the wire, the queue of an utterance and the
\* output queue of a reply stay within their sizes. The device controls that wait for their
\* receipt have no such bound here.
PartsTypeOK ==
    /\ OutputTypeOK /\ VoiceTypeOK /\ MediaTypeOK /\ ReplyTypeOK /\ ProfileTypeOK /\ RecoveryTypeOK
    /\ VoiceprintTypeOK /\ ControlTypeOK /\ RecognitionTypeOK /\ ActivityTypeOK /\ BudgetTypeOK

=============================================================================
