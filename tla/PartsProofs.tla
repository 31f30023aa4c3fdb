------------------------------ MODULE PartsProofs ------------------------------
(***************************************************************************)
(* The parts of MCParts together, for every value of their constants.      *)
(* Every step of the graph is a step of one part and leaves the variables  *)
(* of the others alone: a behaviour of all of them is a behaviour of each, *)
(* and what was proved of a part alone holds of it here.                   *)
(***************************************************************************)
EXTENDS MCParts, TurnOutputProofs, VoiceInputProofs, MediaSessionProofs, ServicesProofs

\* A step of the connection's output and its page, or one that leaves them as they are.
LEMMA OutputApart == [PartsNext]_partsVars => [OutputNext]_outputVars
BY DEF partsVars, PartsNext, VoicePart, MediaPart, ReplyPart, ProfilePart, RecoveryPart, VoiceprintPart,
       ControlPart, RecognitionPart, ActivityPart, BudgetPart

\* Of the utterances of a connection and their speakers.
LEMMA VoiceApart == [PartsNext]_partsVars => [VoiceNext]_voiceVars
BY DEF partsVars, PartsNext, OutputPart, MediaPart, ReplyPart, ProfilePart, RecoveryPart, VoiceprintPart,
       ControlPart, RecognitionPart, ActivityPart, BudgetPart

\* Of the media session and the player of the page.
LEMMA MediaApart == [PartsNext]_partsVars => [MediaNext]_mediaVars
BY DEF partsVars, PartsNext, OutputPart, VoicePart, ReplyPart, ProfilePart, RecoveryPart, VoiceprintPart,
       ControlPart, RecognitionPart, ActivityPart, BudgetPart

\* Of a reply and what its texts and frames go through.
LEMMA ReplyApart == [PartsNext]_partsVars => [ReplyNext]_replyVars
BY DEF partsVars, PartsNext, OutputPart, VoicePart, MediaPart, ProfilePart, RecoveryPart, VoiceprintPart,
       ControlPart, RecognitionPart, ActivityPart, BudgetPart

\* Of the profile caches and the editors of a profile.
LEMMA ProfileApart == [PartsNext]_partsVars => [ProfileNext]_profileVars
BY DEF partsVars, PartsNext, OutputPart, VoicePart, MediaPart, ReplyPart, RecoveryPart, VoiceprintPart,
       ControlPart, RecognitionPart, ActivityPart, BudgetPart

\* Of the attempts to use a recovery code.
LEMMA RecoveryApart == [PartsNext]_partsVars => [RecoveryNext]_recoveryVars
BY DEF partsVars, PartsNext, OutputPart, VoicePart, MediaPart, ReplyPart, ProfilePart, VoiceprintPart,
       ControlPart, RecognitionPart, ActivityPart, BudgetPart

\* Of the voiceprints of the members.
LEMMA VoiceprintApart == [PartsNext]_partsVars => [VoiceprintNext]_voiceprintVars
BY DEF partsVars, PartsNext, OutputPart, VoicePart, MediaPart, ReplyPart, ProfilePart, RecoveryPart,
       ControlPart, RecognitionPart, ActivityPart, BudgetPart

\* Of the device controls and their receipts.
LEMMA ControlApart == [PartsNext]_partsVars => [ControlNext]_controlVars
BY DEF partsVars, PartsNext, OutputPart, VoicePart, MediaPart, ReplyPart, ProfilePart, RecoveryPart,
       VoiceprintPart, RecognitionPart, ActivityPart, BudgetPart

\* Of the packets and results of a recognition.
LEMMA RecognitionApart == [PartsNext]_partsVars => [RecognitionNext]_recognitionVars
BY DEF partsVars, PartsNext, OutputPart, VoicePart, MediaPart, ReplyPart, ProfilePart, RecoveryPart,
       VoiceprintPart, ControlPart, ActivityPart, BudgetPart

\* Of the windows of the voice activity detector.
LEMMA ActivityApart == [PartsNext]_partsVars => [ActivityNext]_activityVars
BY DEF partsVars, PartsNext, OutputPart, VoicePart, MediaPart, ReplyPart, ProfilePart, RecoveryPart,
       VoiceprintPart, ControlPart, RecognitionPart, BudgetPart

\* Of the requests of a turn and their budget.
LEMMA BudgetApart == [PartsNext]_partsVars => [BudgetNext]_budgetVars
BY DEF partsVars, PartsNext, OutputPart, VoicePart, MediaPart, ReplyPart, ProfilePart, RecoveryPart,
       VoiceprintPart, ControlPart, RecognitionPart, ActivityPart

\* The graph of all the parts implements each of them.
THEOREM PartsAreApart ==
    PartsSpec => /\ OutputSafety /\ VoiceSpec /\ MediaSpec /\ ReplySafety /\ ProfileSpec /\ RecoverySpec
                 /\ VoiceprintSpec /\ ControlSpec /\ RecognitionSpec /\ ActivitySpec /\ BudgetSpec
<1>1. PartsInit => /\ OutputInit /\ VoiceInit /\ MediaInit /\ ReplyInit /\ ProfileInit /\ RecoveryInit
                   /\ VoiceprintInit /\ ControlInit /\ RecognitionInit /\ ActivityInit /\ BudgetInit
  BY DEF PartsInit
<1>2. PartsSpec => OutputSafety /\ VoiceSpec /\ MediaSpec /\ ReplySafety
  BY <1>1, OutputApart, VoiceApart, MediaApart, ReplyApart, PTL
     DEF PartsSpec, OutputSafety, VoiceSpec, MediaSpec, ReplySafety
<1>3. PartsSpec => ProfileSpec /\ RecoverySpec /\ VoiceprintSpec /\ ControlSpec
  BY <1>1, ProfileApart, RecoveryApart, VoiceprintApart, ControlApart, PTL
     DEF PartsSpec, ProfileSpec, RecoverySpec, VoiceprintSpec, ControlSpec
<1>4. PartsSpec => RecognitionSpec /\ ActivitySpec /\ BudgetSpec
  BY <1>1, RecognitionApart, ActivityApart, BudgetApart, PTL
     DEF PartsSpec, RecognitionSpec, ActivitySpec, BudgetSpec
<1> QED BY <1>2, <1>3, <1>4, PTL

\* The variables of every part hold what they are meant to; the wire, the queue of an utterance and
\* the output queue of a reply stay within their sizes.
THEOREM PartsAreTyped == PartsSpec => []PartsTypeOK
<1>1. /\ OutputInv /\ VoiceInv /\ MediaInv /\ ReplyInv /\ ProfileInv /\ RecoveryInv
      /\ VoiceprintInv /\ ControlInv /\ RecognitionInv /\ ActivityInv /\ BudgetInv
      => PartsTypeOK
  BY DEF PartsTypeOK, OutputInv, VoiceInv, MediaInv, ReplyInv, ProfileInv, RecoveryInv,
         VoiceprintInv, ControlInv, RecognitionInv, ActivityInv, BudgetInv
<1> QED BY <1>1, PartsAreApart, OutputInvariant, VoiceInvariant, MediaInvariant, ReplyInvariant, ProfileInvariant,
           RecoveryInvariant, VoiceprintInvariant, ControlInvariant, RecognitionInvariant, ActivityInvariant,
           BudgetInvariant, PTL

\* What each part promises holds of all of them together.
THEOREM PartsAreSafe ==
    PartsSpec => [](/\ NoOrphanTask /\ NoFrameAfterTheEnd /\ PageAgrees /\ SpeechEndsAreTold /\ VoiceReleased
                    /\ SilentWhenUnwanted /\ ClientIsKnown /\ ReplyIsWhole /\ ProfileFollowsEdits
                    /\ RateIsLimited /\ CleanedHasNoVoiceprint /\ NothingWaitsAfterClose
                    /\ RecognitionIsWhole /\ SpeechIsBounded /\ BudgetIsSpent)
BY PartsAreApart, NoTaskIsOrphaned, NothingFollowsTheEnd, PageAndConnectionAgree, EndsAreTold, VoiceIsReleased,
   UnwantedIsSilent, PlayingIsKnown, RepliesAreWhole, ProfilesFollow, AttemptsAreLimited, RemovedVoiceprintStays,
   NothingIsLeftWaiting, RecognitionStaysWhole, SpeechStaysBounded, BudgetIsAlwaysSpent, PTL

=============================================================================
