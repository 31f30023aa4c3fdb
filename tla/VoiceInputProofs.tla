-------------------------- MODULE VoiceInputProofs --------------------------
(***************************************************************************)
(* Proofs about VoiceInput: the inductive invariant that joins the receive *)
(* loop, the recognition tasks and the voice joins, and what follows of it *)
(* for any number of utterances and any size of the ASR queue.             *)
(***************************************************************************)
EXTENDS VoiceInput, TLAPS

Held(u) == recog[u] \in {"cancelled", "done"} /\ join[u] # "absent"

\* The loop awaits a notice of the utterance that is current; a closed connection has none,
\* and a queue is fed only while its recognition task reads it.
LoopShape ==
    /\ loop \in {"start", "end"} => current # 0
    /\ loop = "end" => boundaries[current] = 2
    /\ ~Open => current = 0
    /\ current # 0 => mark[current] = "no" /\ recog[current] # "none"
    /\ feeding # 0 => recog[feeding] = "running"

\* How far a recognition has come says what its queue and its voice join hold.
JoinOf(u) ==
    /\ recog[u] = "none" =>
          mark[u] = "no" /\ join[u] = "absent" /\ print[u] = "none" /\ failures[u] = 0
    /\ print[u] = "running" => join[u] = "ready"
    /\ recog[u] \in {"final", "join", "lookup", "naming"} => mark[u] = "taken"
    /\ recog[u] = "lookup" => print[u] # "running"
    /\ recog[u] = "naming" => join[u] = "absent"
    /\ failures[u] <= 1
    /\ failures[u] = 1 => recog[u] \in {"report", "cancelled", "done"}

JoinShape == \A u \in Utterances : JoinOf(u)

\* An utterance that was announced and not yet announced as ended is the current one.
AnnouncedShape == Open => \A u \in Utterances : boundaries[u] = 1 => current = u

\* A recognition that has ended and still holds its voice join is the one whose full queue
\* is being reported.
HeldShape ==
    Open =>
        /\ \A u \in Utterances : Held(u) => loop = "report" /\ failures[u] > 0
        /\ \A u, v \in Utterances : Held(u) /\ Held(v) => u = v

VoiceInv == VoiceTypeOK /\ LoopShape /\ JoinShape /\ AnnouncedShape /\ HeldShape

\* The initial state.
LEMMA VoiceInitially == VoiceInit => VoiceInv
BY VoiceAssumption DEF VoiceInit, VoiceInv, VoiceTypeOK, LoopShape, JoinShape, JoinOf, AnnouncedShape, HeldShape,
   Held, Open, Alive, Utterances, intake, queue, joined, outcome

\* No utterance has the number 0, which stands for none.
LEMMA UtteranceNumbers == 0 \notin Utterances /\ \A x : x \in 0 .. LastUtterance <=> x = 0 \/ x \in Utterances
BY VoiceAssumption DEF Utterances

\* Every step keeps the invariant.
LEMMA VoiceInputStep == VoiceInv /\ [VoiceNext]_voiceVars => VoiceInv'
<1> SUFFICES ASSUME VoiceInv, [VoiceNext]_voiceVars PROVE VoiceInv'
    OBVIOUS
<1> USE VoiceAssumption, UtteranceNumbers DEF Held, JoinOf, Open, Alive, intake, queue, joined, outcome
<1>1. CASE StartCapture
    BY <1>1 DEF VoiceInv, VoiceTypeOK, LoopShape, JoinShape, AnnouncedShape, HeldShape, StartCapture
<1>2. CASE PushFrame
  <2>0. feeding # 0 => feeding \in Utterances /\ Alive(feeding)
    BY UtteranceNumbers DEF VoiceInv, VoiceTypeOK, LoopShape, Alive
  <2>1. VoiceTypeOK'
    <3>1. CASE feeding # 0 /\ Full(feeding)
      BY <1>2, <2>0, <3>1 DEF VoiceInv, VoiceTypeOK, LoopShape, PushFrame, Queue, Full, Overflows
    <3>2. CASE feeding # 0 /\ ~Full(feeding)
      BY <1>2, <2>0, <3>2 DEF VoiceInv, VoiceTypeOK, LoopShape, PushFrame, Queue, Full, Overflows
    <3>. QED
      BY <1>2, <3>1, <3>2 DEF PushFrame
  <2>2. LoopShape'
    <3>1. CASE feeding # 0 /\ Full(feeding)
      BY <1>2, <2>0, <3>1 DEF VoiceInv, VoiceTypeOK, LoopShape, JoinShape, PushFrame, Queue, Full, Overflows
    <3>2. CASE feeding # 0 /\ ~Full(feeding)
      BY <1>2, <2>0, <3>2 DEF VoiceInv, VoiceTypeOK, LoopShape, JoinShape, PushFrame, Queue, Full, Overflows
    <3>. QED
      BY <1>2, <3>1, <3>2 DEF PushFrame
  <2>3. ASSUME NEW v \in Utterances PROVE JoinOf(v)'
    <3>1. CASE feeding # 0 /\ Full(feeding)
      BY <1>2, <2>0, <3>1 DEF VoiceInv, VoiceTypeOK, LoopShape, JoinShape, PushFrame, Queue, Full, Overflows
    <3>2. CASE feeding # 0 /\ ~Full(feeding)
      BY <1>2, <2>0, <3>2 DEF VoiceInv, VoiceTypeOK, LoopShape, JoinShape, PushFrame, Queue, Full, Overflows
    <3>. QED
      BY <1>2, <3>1, <3>2 DEF PushFrame
  <2>4. AnnouncedShape'
    <3>1. CASE feeding # 0 /\ Full(feeding)
      BY <1>2, <2>0, <3>1 DEF VoiceInv, VoiceTypeOK, LoopShape, JoinShape, AnnouncedShape, PushFrame, Queue, Full, Overflows
    <3>2. CASE feeding # 0 /\ ~Full(feeding)
      BY <1>2, <2>0, <3>2 DEF VoiceInv, VoiceTypeOK, LoopShape, JoinShape, AnnouncedShape, PushFrame, Queue, Full, Overflows
    <3>. QED
      BY <1>2, <3>1, <3>2 DEF PushFrame
  <2>5. HeldShape'
    <3>1. CASE feeding # 0 /\ Full(feeding)
      BY <1>2, <2>0, <3>1 DEF VoiceInv, VoiceTypeOK, LoopShape, JoinShape, HeldShape, PushFrame, Queue, Full, Overflows
    <3>2. CASE feeding # 0 /\ ~Full(feeding)
      BY <1>2, <2>0, <3>2 DEF VoiceInv, VoiceTypeOK, LoopShape, JoinShape, HeldShape, PushFrame, Queue, Full, Overflows
    <3>. QED
      BY <1>2, <3>1, <3>2 DEF PushFrame
  <2>. QED
    BY <2>1, <2>2, <2>3, <2>4, <2>5 DEF VoiceInv, JoinShape
<1>3. CASE StartTold
  <2>0. feeding # 0 => feeding \in Utterances /\ Alive(feeding)
    BY UtteranceNumbers DEF VoiceInv, VoiceTypeOK, LoopShape, Alive
  <2>1. VoiceTypeOK'
    <3>1. CASE feeding = 0
      BY <1>3, <2>0, <3>1 DEF VoiceInv, VoiceTypeOK, LoopShape, StartTold, Queue, Full, Overflows
    <3>2. CASE feeding # 0 /\ Full(feeding)
      BY <1>3, <2>0, <3>2 DEF VoiceInv, VoiceTypeOK, LoopShape, StartTold, Queue, Full, Overflows
    <3>3. CASE feeding # 0 /\ ~Full(feeding)
      BY <1>3, <2>0, <3>3 DEF VoiceInv, VoiceTypeOK, LoopShape, StartTold, Queue, Full, Overflows
    <3>. QED
      BY <1>3, <3>1, <3>2, <3>3 DEF StartTold
  <2>2. LoopShape'
    <3>1. CASE feeding = 0
      BY <1>3, <2>0, <3>1 DEF VoiceInv, VoiceTypeOK, LoopShape, JoinShape, StartTold, Queue, Full, Overflows
    <3>2. CASE feeding # 0 /\ Full(feeding)
      BY <1>3, <2>0, <3>2 DEF VoiceInv, VoiceTypeOK, LoopShape, JoinShape, StartTold, Queue, Full, Overflows
    <3>3. CASE feeding # 0 /\ ~Full(feeding)
      BY <1>3, <2>0, <3>3 DEF VoiceInv, VoiceTypeOK, LoopShape, JoinShape, StartTold, Queue, Full, Overflows
    <3>. QED
      BY <1>3, <3>1, <3>2, <3>3 DEF StartTold
  <2>3. ASSUME NEW v \in Utterances PROVE JoinOf(v)'
    <3>1. CASE feeding = 0
      BY <1>3, <2>0, <3>1 DEF VoiceInv, VoiceTypeOK, LoopShape, JoinShape, StartTold, Queue, Full, Overflows
    <3>2. CASE feeding # 0 /\ Full(feeding)
      BY <1>3, <2>0, <3>2 DEF VoiceInv, VoiceTypeOK, LoopShape, JoinShape, StartTold, Queue, Full, Overflows
    <3>3. CASE feeding # 0 /\ ~Full(feeding)
      BY <1>3, <2>0, <3>3 DEF VoiceInv, VoiceTypeOK, LoopShape, JoinShape, StartTold, Queue, Full, Overflows
    <3>. QED
      BY <1>3, <3>1, <3>2, <3>3 DEF StartTold
  <2>4. AnnouncedShape'
    <3>1. CASE feeding = 0
      BY <1>3, <2>0, <3>1 DEF VoiceInv, VoiceTypeOK, LoopShape, JoinShape, AnnouncedShape, StartTold, Queue, Full, Overflows
    <3>2. CASE feeding # 0 /\ Full(feeding)
      BY <1>3, <2>0, <3>2 DEF VoiceInv, VoiceTypeOK, LoopShape, JoinShape, AnnouncedShape, StartTold, Queue, Full, Overflows
    <3>3. CASE feeding # 0 /\ ~Full(feeding)
      BY <1>3, <2>0, <3>3 DEF VoiceInv, VoiceTypeOK, LoopShape, JoinShape, AnnouncedShape, StartTold, Queue, Full, Overflows
    <3>. QED
      BY <1>3, <3>1, <3>2, <3>3 DEF StartTold
  <2>5. HeldShape'
    <3>1. CASE feeding = 0
      BY <1>3, <2>0, <3>1 DEF VoiceInv, VoiceTypeOK, LoopShape, JoinShape, HeldShape, StartTold, Queue, Full, Overflows
    <3>2. CASE feeding # 0 /\ Full(feeding)
      BY <1>3, <2>0, <3>2 DEF VoiceInv, VoiceTypeOK, LoopShape, JoinShape, HeldShape, StartTold, Queue, Full, Overflows
    <3>3. CASE feeding # 0 /\ ~Full(feeding)
      BY <1>3, <2>0, <3>3 DEF VoiceInv, VoiceTypeOK, LoopShape, JoinShape, HeldShape, StartTold, Queue, Full, Overflows
    <3>. QED
      BY <1>3, <3>1, <3>2, <3>3 DEF StartTold
  <2>. QED
    BY <2>1, <2>2, <2>3, <2>4, <2>5 DEF VoiceInv, JoinShape
<1>4. CASE SpeechEnds
    BY <1>4 DEF VoiceInv, VoiceTypeOK, LoopShape, JoinShape, AnnouncedShape, HeldShape, SpeechEnds
<1>5. CASE EndTold
  <2>0. feeding # 0 => feeding \in Utterances /\ Alive(feeding)
    BY UtteranceNumbers DEF VoiceInv, VoiceTypeOK, LoopShape, Alive
  <2>1. VoiceTypeOK'
    <3>1. CASE feeding = 0
      BY <1>5, <2>0, <3>1 DEF VoiceInv, VoiceTypeOK, LoopShape, EndTold, Queue, Full, Overflows
    <3>2. CASE feeding # 0 /\ Full(feeding)
      BY <1>5, <2>0, <3>2 DEF VoiceInv, VoiceTypeOK, LoopShape, EndTold, Queue, Full, Overflows
    <3>3. CASE feeding # 0 /\ ~Full(feeding)
      BY <1>5, <2>0, <3>3 DEF VoiceInv, VoiceTypeOK, LoopShape, EndTold, Queue, Full, Overflows
    <3>. QED
      BY <1>5, <3>1, <3>2, <3>3 DEF EndTold
  <2>2. LoopShape'
    <3>1. CASE feeding = 0
      BY <1>5, <2>0, <3>1 DEF VoiceInv, VoiceTypeOK, LoopShape, JoinShape, EndTold, Queue, Full, Overflows
    <3>2. CASE feeding # 0 /\ Full(feeding)
      BY <1>5, <2>0, <3>2 DEF VoiceInv, VoiceTypeOK, LoopShape, JoinShape, EndTold, Queue, Full, Overflows
    <3>3. CASE feeding # 0 /\ ~Full(feeding)
      BY <1>5, <2>0, <3>3 DEF VoiceInv, VoiceTypeOK, LoopShape, JoinShape, EndTold, Queue, Full, Overflows
    <3>. QED
      BY <1>5, <3>1, <3>2, <3>3 DEF EndTold
  <2>3. ASSUME NEW v \in Utterances PROVE JoinOf(v)'
    <3>1. CASE feeding = 0
      BY <1>5, <2>0, <3>1 DEF VoiceInv, VoiceTypeOK, LoopShape, JoinShape, EndTold, Queue, Full, Overflows
    <3>2. CASE feeding # 0 /\ Full(feeding)
      BY <1>5, <2>0, <3>2 DEF VoiceInv, VoiceTypeOK, LoopShape, JoinShape, EndTold, Queue, Full, Overflows
    <3>3. CASE feeding # 0 /\ ~Full(feeding)
      BY <1>5, <2>0, <3>3 DEF VoiceInv, VoiceTypeOK, LoopShape, JoinShape, EndTold, Queue, Full, Overflows
    <3>. QED
      BY <1>5, <3>1, <3>2, <3>3 DEF EndTold
  <2>4. AnnouncedShape'
    <3>1. CASE feeding = 0
      BY <1>5, <2>0, <3>1 DEF VoiceInv, VoiceTypeOK, LoopShape, JoinShape, AnnouncedShape, EndTold, Queue, Full, Overflows
    <3>2. CASE feeding # 0 /\ Full(feeding)
      BY <1>5, <2>0, <3>2 DEF VoiceInv, VoiceTypeOK, LoopShape, JoinShape, AnnouncedShape, EndTold, Queue, Full, Overflows
    <3>3. CASE feeding # 0 /\ ~Full(feeding)
      BY <1>5, <2>0, <3>3 DEF VoiceInv, VoiceTypeOK, LoopShape, JoinShape, AnnouncedShape, EndTold, Queue, Full, Overflows
    <3>. QED
      BY <1>5, <3>1, <3>2, <3>3 DEF EndTold
  <2>5. HeldShape'
    <3>1. CASE feeding = 0
      BY <1>5, <2>0, <3>1 DEF VoiceInv, VoiceTypeOK, LoopShape, JoinShape, HeldShape, EndTold, Queue, Full, Overflows
    <3>2. CASE feeding # 0 /\ Full(feeding)
      BY <1>5, <2>0, <3>2 DEF VoiceInv, VoiceTypeOK, LoopShape, JoinShape, HeldShape, EndTold, Queue, Full, Overflows
    <3>3. CASE feeding # 0 /\ ~Full(feeding)
      BY <1>5, <2>0, <3>3 DEF VoiceInv, VoiceTypeOK, LoopShape, JoinShape, HeldShape, EndTold, Queue, Full, Overflows
    <3>. QED
      BY <1>5, <3>1, <3>2, <3>3 DEF EndTold
  <2>. QED
    BY <2>1, <2>2, <2>3, <2>4, <2>5 DEF VoiceInv, JoinShape
<1>6. CASE Reported
    BY <1>6 DEF VoiceInv, VoiceTypeOK, LoopShape, JoinShape, AnnouncedShape, HeldShape, Reported, Discarded
<1>7. CASE StopCapture
    BY <1>7 DEF VoiceInv, VoiceTypeOK, LoopShape, JoinShape, AnnouncedShape, HeldShape, StopCapture
<1>8. CASE CaptureStopped
    BY <1>8 DEF VoiceInv, VoiceTypeOK, LoopShape, JoinShape, AnnouncedShape, HeldShape, CaptureStopped, Stopping
<1>9. CASE CloseBegins
    BY <1>9 DEF VoiceInv, VoiceTypeOK, LoopShape, JoinShape, AnnouncedShape, HeldShape, CloseBegins, Stopping
<1>10. CASE CloseVoiceEnds
    BY <1>10 DEF VoiceInv, VoiceTypeOK, LoopShape, JoinShape, AnnouncedShape, HeldShape, CloseVoiceEnds
<1>11. CASE MemberRemoved
    BY <1>11 DEF VoiceInv, VoiceTypeOK, LoopShape, JoinShape, AnnouncedShape, HeldShape, MemberRemoved
<1>12. CASE \E u \in Utterances : SpeechStarts(u)
    BY <1>12 DEF VoiceInv, VoiceTypeOK, LoopShape, JoinShape, AnnouncedShape, HeldShape, SpeechStarts
<1>13. CASE \E u \in Utterances : Take(u)
    BY <1>13 DEF VoiceInv, VoiceTypeOK, LoopShape, JoinShape, AnnouncedShape, HeldShape, Take
<1>14. CASE \E u \in Utterances : AsrFails(u)
  <2>0. PICK u \in Utterances : AsrFails(u)
    BY <1>14
  <2>1. VoiceTypeOK'
    BY <2>0 DEF VoiceInv, VoiceTypeOK, LoopShape, AsrFails, Detached
  <2>2. LoopShape'
    BY <2>0 DEF VoiceInv, VoiceTypeOK, LoopShape, JoinShape, AsrFails, Detached
  <2>3. ASSUME NEW v \in Utterances PROVE JoinOf(v)'
    <3>1. CASE v = u
      BY <3>1, <2>0 DEF VoiceInv, VoiceTypeOK, LoopShape, JoinShape, AsrFails, Detached
    <3>2. CASE v # u
      BY <3>2, <2>0 DEF VoiceInv, VoiceTypeOK, LoopShape, JoinShape, AsrFails, Detached
    <3>. QED
      BY <3>1, <3>2
  <2>4. AnnouncedShape'
    BY <2>0 DEF VoiceInv, VoiceTypeOK, LoopShape, JoinShape, AnnouncedShape, AsrFails, Detached
  <2>5. HeldShape'
    <3>1. ASSUME NEW v \in Utterances PROVE Held(v)' => Held(v) \/ loop' = "report"
      BY <2>0 DEF VoiceInv, VoiceTypeOK, LoopShape, JoinShape, HeldShape, AsrFails, Detached
    <3>. QED
      BY <3>1, <2>0 DEF VoiceInv, VoiceTypeOK, LoopShape, JoinShape, HeldShape, AsrFails, Detached
  <2>. QED
    BY <2>1, <2>2, <2>3, <2>4, <2>5 DEF VoiceInv, JoinShape
<1>15. CASE \E u \in Utterances : AsrFailureTold(u)
    BY <1>15 DEF VoiceInv, VoiceTypeOK, LoopShape, JoinShape, AnnouncedShape, HeldShape, AsrFailureTold, Released, Discarded
<1>16. CASE \E u \in Utterances : AsrFinal(u)
  <2>0. PICK u \in Utterances : AsrFinal(u)
    BY <1>16
  <2>1. VoiceTypeOK'
    BY <2>0 DEF VoiceInv, VoiceTypeOK, LoopShape, AsrFinal
  <2>2. LoopShape'
    BY <2>0 DEF VoiceInv, VoiceTypeOK, LoopShape, JoinShape, AsrFinal
  <2>3. ASSUME NEW v \in Utterances PROVE JoinOf(v)'
    <3>1. CASE v = u
      BY <3>1, <2>0 DEF VoiceInv, VoiceTypeOK, LoopShape, JoinShape, AsrFinal
    <3>2. CASE v # u
      BY <3>2, <2>0 DEF VoiceInv, VoiceTypeOK, LoopShape, JoinShape, AsrFinal
    <3>. QED
      BY <3>1, <3>2
  <2>4. AnnouncedShape'
    BY <2>0 DEF VoiceInv, VoiceTypeOK, LoopShape, JoinShape, AnnouncedShape, AsrFinal
  <2>5. HeldShape'
    <3>1. ASSUME NEW v \in Utterances PROVE Held(v)' => Held(v) \/ loop' = "report"
      BY <2>0 DEF VoiceInv, VoiceTypeOK, LoopShape, JoinShape, HeldShape, AsrFinal
    <3>. QED
      BY <3>1, <2>0 DEF VoiceInv, VoiceTypeOK, LoopShape, JoinShape, HeldShape, AsrFinal
  <2>. QED
    BY <2>1, <2>2, <2>3, <2>4, <2>5 DEF VoiceInv, JoinShape
<1>17. CASE \E u \in Utterances : FinalTold(u)
  <2>0. PICK u \in Utterances : FinalTold(u)
    BY <1>17
  <2>1. VoiceTypeOK'
    BY <2>0 DEF VoiceInv, VoiceTypeOK, LoopShape, FinalTold, Discarded
  <2>2. LoopShape'
    BY <2>0 DEF VoiceInv, VoiceTypeOK, LoopShape, JoinShape, FinalTold, Discarded
  <2>3. ASSUME NEW v \in Utterances PROVE JoinOf(v)'
    <3>1. CASE v = u
      BY <3>1, <2>0 DEF VoiceInv, VoiceTypeOK, LoopShape, JoinShape, FinalTold, Discarded
    <3>2. CASE v # u
      BY <3>2, <2>0 DEF VoiceInv, VoiceTypeOK, LoopShape, JoinShape, FinalTold, Discarded
    <3>. QED
      BY <3>1, <3>2
  <2>4. AnnouncedShape'
    BY <2>0 DEF VoiceInv, VoiceTypeOK, LoopShape, JoinShape, AnnouncedShape, FinalTold, Discarded
  <2>5. HeldShape'
    <3>1. ASSUME NEW v \in Utterances PROVE Held(v)' => Held(v) \/ loop' = "report"
      BY <2>0 DEF VoiceInv, VoiceTypeOK, LoopShape, JoinShape, HeldShape, FinalTold, Discarded
    <3>. QED
      BY <3>1, <2>0 DEF VoiceInv, VoiceTypeOK, LoopShape, JoinShape, HeldShape, FinalTold, Discarded
  <2>. QED
    BY <2>1, <2>2, <2>3, <2>4, <2>5 DEF VoiceInv, JoinShape
<1>18. CASE \E u \in Utterances : PrintAnswers(u)
    BY <1>18 DEF VoiceInv, VoiceTypeOK, LoopShape, JoinShape, AnnouncedShape, HeldShape, PrintAnswers
<1>19. CASE \E u \in Utterances : JoinAnswered(u)
  <2>0. PICK u \in Utterances : JoinAnswered(u)
    BY <1>19
  <2>1. VoiceTypeOK'
    BY <2>0 DEF VoiceInv, VoiceTypeOK, LoopShape, JoinAnswered
  <2>2. LoopShape'
    BY <2>0 DEF VoiceInv, VoiceTypeOK, LoopShape, JoinShape, JoinAnswered
  <2>3. ASSUME NEW v \in Utterances PROVE JoinOf(v)'
    <3>1. CASE v = u
      BY <3>1, <2>0 DEF VoiceInv, VoiceTypeOK, LoopShape, JoinShape, JoinAnswered
    <3>2. CASE v # u
      BY <3>2, <2>0 DEF VoiceInv, VoiceTypeOK, LoopShape, JoinShape, JoinAnswered
    <3>. QED
      BY <3>1, <3>2
  <2>4. AnnouncedShape'
    BY <2>0 DEF VoiceInv, VoiceTypeOK, LoopShape, JoinShape, AnnouncedShape, JoinAnswered
  <2>5. HeldShape'
    <3>1. ASSUME NEW v \in Utterances PROVE Held(v)' => Held(v) \/ loop' = "report"
      BY <2>0 DEF VoiceInv, VoiceTypeOK, LoopShape, JoinShape, HeldShape, JoinAnswered
    <3>. QED
      BY <3>1, <2>0 DEF VoiceInv, VoiceTypeOK, LoopShape, JoinShape, HeldShape, JoinAnswered
  <2>. QED
    BY <2>1, <2>2, <2>3, <2>4, <2>5 DEF VoiceInv, JoinShape
<1>20. CASE \E u \in Utterances : JoinTimesOut(u)
  <2>0. PICK u \in Utterances : JoinTimesOut(u)
    BY <1>20
  <2>1. VoiceTypeOK'
    BY <2>0 DEF VoiceInv, VoiceTypeOK, LoopShape, JoinTimesOut, TimedOut
  <2>2. LoopShape'
    BY <2>0 DEF VoiceInv, VoiceTypeOK, LoopShape, JoinShape, JoinTimesOut, TimedOut
  <2>3. ASSUME NEW v \in Utterances PROVE JoinOf(v)'
    <3>1. CASE v = u
      BY <3>1, <2>0 DEF VoiceInv, VoiceTypeOK, LoopShape, JoinShape, JoinTimesOut, TimedOut
    <3>2. CASE v # u
      BY <3>2, <2>0 DEF VoiceInv, VoiceTypeOK, LoopShape, JoinShape, JoinTimesOut, TimedOut
    <3>. QED
      BY <3>1, <3>2
  <2>4. AnnouncedShape'
    BY <2>0 DEF VoiceInv, VoiceTypeOK, LoopShape, JoinShape, AnnouncedShape, JoinTimesOut, TimedOut
  <2>5. HeldShape'
    <3>1. ASSUME NEW v \in Utterances PROVE Held(v)' => Held(v) \/ loop' = "report"
      BY <2>0 DEF VoiceInv, VoiceTypeOK, LoopShape, JoinShape, HeldShape, JoinTimesOut, TimedOut
    <3>. QED
      BY <3>1, <2>0 DEF VoiceInv, VoiceTypeOK, LoopShape, JoinShape, HeldShape, JoinTimesOut, TimedOut
  <2>. QED
    BY <2>1, <2>2, <2>3, <2>4, <2>5 DEF VoiceInv, JoinShape
<1>21. CASE \E u \in Utterances : LookUpSpeaker(u)
  <2>0. PICK u \in Utterances : LookUpSpeaker(u)
    BY <1>21
  <2>1. VoiceTypeOK'
    BY <2>0 DEF VoiceInv, VoiceTypeOK, LoopShape, LookUpSpeaker
  <2>2. LoopShape'
    BY <2>0 DEF VoiceInv, VoiceTypeOK, LoopShape, JoinShape, LookUpSpeaker
  <2>3. ASSUME NEW v \in Utterances PROVE JoinOf(v)'
    <3>1. CASE v = u
      BY <3>1, <2>0 DEF VoiceInv, VoiceTypeOK, LoopShape, JoinShape, LookUpSpeaker
    <3>2. CASE v # u
      BY <3>2, <2>0 DEF VoiceInv, VoiceTypeOK, LoopShape, JoinShape, LookUpSpeaker
    <3>. QED
      BY <3>1, <3>2
  <2>4. AnnouncedShape'
    BY <2>0 DEF VoiceInv, VoiceTypeOK, LoopShape, JoinShape, AnnouncedShape, LookUpSpeaker
  <2>5. HeldShape'
    <3>1. ASSUME NEW v \in Utterances PROVE Held(v)' => Held(v) \/ loop' = "report"
      BY <2>0 DEF VoiceInv, VoiceTypeOK, LoopShape, JoinShape, HeldShape, LookUpSpeaker
    <3>. QED
      BY <3>1, <2>0 DEF VoiceInv, VoiceTypeOK, LoopShape, JoinShape, HeldShape, LookUpSpeaker
  <2>. QED
    BY <2>1, <2>2, <2>3, <2>4, <2>5 DEF VoiceInv, JoinShape
<1>22. CASE \E u \in Utterances : TurnStarts(u)
  <2>0. PICK u \in Utterances : TurnStarts(u)
    BY <1>22
  <2>1. VoiceTypeOK'
    BY <2>0 DEF VoiceInv, VoiceTypeOK, LoopShape, TurnStarts, Detached
  <2>2. LoopShape'
    BY <2>0 DEF VoiceInv, VoiceTypeOK, LoopShape, JoinShape, TurnStarts, Detached
  <2>3. ASSUME NEW v \in Utterances PROVE JoinOf(v)'
    <3>1. CASE v = u
      BY <3>1, <2>0 DEF VoiceInv, VoiceTypeOK, LoopShape, JoinShape, TurnStarts, Detached
    <3>2. CASE v # u
      BY <3>2, <2>0 DEF VoiceInv, VoiceTypeOK, LoopShape, JoinShape, TurnStarts, Detached
    <3>. QED
      BY <3>1, <3>2
  <2>4. AnnouncedShape'
    BY <2>0 DEF VoiceInv, VoiceTypeOK, LoopShape, JoinShape, AnnouncedShape, TurnStarts, Detached
  <2>5. HeldShape'
    <3>1. ASSUME NEW v \in Utterances PROVE Held(v)' => Held(v) \/ loop' = "report"
      BY <2>0 DEF VoiceInv, VoiceTypeOK, LoopShape, JoinShape, HeldShape, TurnStarts, Detached
    <3>. QED
      BY <3>1, <2>0 DEF VoiceInv, VoiceTypeOK, LoopShape, JoinShape, HeldShape, TurnStarts, Detached
  <2>. QED
    BY <2>1, <2>2, <2>3, <2>4, <2>5 DEF VoiceInv, JoinShape
<1>23. CASE \E u \in Utterances : CancelledEnds(u)
  <2>0. PICK u \in Utterances : CancelledEnds(u)
    BY <1>23
  <2>1. VoiceTypeOK'
    BY <2>0 DEF VoiceInv, VoiceTypeOK, LoopShape, CancelledEnds
  <2>2. LoopShape'
    BY <2>0 DEF VoiceInv, VoiceTypeOK, LoopShape, JoinShape, CancelledEnds
  <2>3. ASSUME NEW v \in Utterances PROVE JoinOf(v)'
    <3>1. CASE v = u
      BY <3>1, <2>0 DEF VoiceInv, VoiceTypeOK, LoopShape, JoinShape, CancelledEnds
    <3>2. CASE v # u
      BY <3>2, <2>0 DEF VoiceInv, VoiceTypeOK, LoopShape, JoinShape, CancelledEnds
    <3>. QED
      BY <3>1, <3>2
  <2>4. AnnouncedShape'
    BY <2>0 DEF VoiceInv, VoiceTypeOK, LoopShape, JoinShape, AnnouncedShape, CancelledEnds
  <2>5. HeldShape'
    <3>1. ASSUME NEW v \in Utterances PROVE Held(v)' => Held(v) \/ loop' = "report"
      BY <2>0 DEF VoiceInv, VoiceTypeOK, LoopShape, JoinShape, HeldShape, CancelledEnds
    <3>. QED
      BY <3>1, <2>0 DEF VoiceInv, VoiceTypeOK, LoopShape, JoinShape, HeldShape, CancelledEnds
  <2>. QED
    BY <2>1, <2>2, <2>3, <2>4, <2>5 DEF VoiceInv, JoinShape
<1>24. CASE \E u \in Utterances : EndsUnheard(u)
    BY <1>24 DEF VoiceInv, VoiceTypeOK, LoopShape, JoinShape, AnnouncedShape, HeldShape, EndsUnheard
<1>25. CASE UNCHANGED voiceVars
    BY <1>25 DEF VoiceInv, VoiceTypeOK, LoopShape, JoinShape, AnnouncedShape, HeldShape, voiceVars
<1>. QED
    BY <1>1, <1>2, <1>3, <1>4, <1>5, <1>6, <1>7, <1>8, <1>9, <1>10, <1>11, <1>12,
       <1>13, <1>14, <1>15, <1>16, <1>17, <1>18, <1>19, <1>20, <1>21, <1>22, <1>23, <1>24, <1>25 DEF VoiceNext

\* The invariant holds in every state of the specification: loop, recognition tasks and
\* voice joins of AudioInputSession stay as VoiceInv relates them.
THEOREM VoiceInvariant == VoiceSpec => []VoiceInv
BY VoiceInitially, VoiceInputStep, PTL DEF VoiceSpec

\* The end of every announced utterance is announced too (_finish_active_utterance), however
\* its recognition ended and whatever came in between.
THEOREM EndsAreTold == VoiceSpec => []SpeechEndsAreTold
<1>1. VoiceInv => SpeechEndsAreTold
    BY VoiceAssumption DEF VoiceInv, AnnouncedShape, SpeechEndsAreTold, Utterances
<1>. QED
    BY <1>1, VoiceInvariant, PTL

\* A recognition that ended has let go of its voice join and of its voiceprint request, and
\* failed once at most (_resolve_voice_speaker, _discard_voice_join, _queue_chunk).
THEOREM VoiceIsReleased == VoiceSpec => []VoiceReleased
<1>1. VoiceInv => VoiceReleased
    BY VoiceAssumption DEF VoiceInv, VoiceTypeOK, JoinShape, JoinOf, HeldShape, Held, VoiceReleased
<1>. QED
    BY <1>1, VoiceInvariant, PTL


=============================================================================
