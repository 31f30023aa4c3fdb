-------------------------- MODULE SpeechRecognition --------------------------
(***************************************************************************)
(* The recognition of one utterance by the streaming provider: a task      *)
(* sends the audio in packets, the generator reads the answers and yields  *)
(* the results to the audio session. Samples are numbered, so a packet is  *)
(* the interval of those it carries; a text is a number, 0 the empty one.  *)
(***************************************************************************)
EXTENDS Integers, Sequences

CONSTANTS
    PacketSize,     \* samples of _packet_bytes
    LastSample,     \* bound: samples of the utterance
    LastText,       \* bound: different texts
    MaxAnswers      \* bound: messages of the provider

ASSUME RecognitionAssumption ==
    PacketSize \in Nat \ {0} /\ LastSample \in Nat /\ LastText \in Nat /\ MaxAnswers \in Nat

VARIABLES
    hearing,    \* where DoubaoStreamingASR.stream is
    result,     \* how it ended
    packer,     \* the task of _send_audio
    taken,      \* samples it has taken from the queue of the session
    cut,        \* samples it has moved out of its buffer
    segment,    \* pending
    packets,    \* the audio requests sent
    socket,     \* the connection
    answers,    \* messages of the provider not read yet
    answered,   \* messages of the provider
    latest,     \* latest_text
    results      \* the results yielded

packerVars == <<packer, taken, cut, segment, packets>>
hearingVars == <<hearing, result, latest, results>>
recognitionVars == <<packerVars, hearingVars, socket, answers, answered>>

NoSegment == [first |-> 0, last |-> 0]

RecognitionInit ==
    /\ hearing = "connecting" /\ result = "none"
    /\ packer = "none" /\ taken = 0 /\ cut = 0 /\ segment = NoSegment /\ packets = <<>>
    /\ socket = "closed" /\ answers = <<>> /\ answered = 0
    /\ latest = 0 /\ results = <<>>

Packing == packer \in {"reading", "cutting", "rest", "mark"}

\* the provider accepts the connection and the full request, whose number is 1
Connect ==
    /\ hearing = "connecting" /\ hearing' = "listening" /\ packer' = "reading" /\ socket' = "open"
    /\ UNCHANGED <<taken, cut, segment, packets, result, answers, answered, latest, results>>

HandshakeFails ==
    /\ hearing = "connecting" /\ hearing' = "ended" /\ result' = "failed"
    /\ UNCHANGED <<packerVars, socket, answers, answered, latest, results>>

(***************************************************************************)
(* _send_audio: one segment is kept back until it is known not to be the   *)
(* last; the last has a negative number.                                   *)
(***************************************************************************)
Number(final) == IF final THEN -(Len(packets) + 2) ELSE Len(packets) + 2

\* websocket.send, which raises when the connection is closed
Sends(s, final, to) ==
    IF socket = "open"
    THEN packets' = Append(packets, [number |-> Number(final), first |-> s.first, last |-> s.last]) /\ packer' = to
    ELSE packer' = "failed" /\ UNCHANGED packets

ChunkTaken ==
    /\ packer = "reading"
    /\ \E n \in 1 .. LastSample - taken : taken' = taken + n
    /\ packer' = "cutting"
    /\ UNCHANGED <<cut, segment, packets, hearingVars, socket, answers, answered>>

\* the kept segment goes, the new one is kept
Keeps(to, next) ==
    /\ segment' = [first |-> cut + 1, last |-> to] /\ cut' = to
    /\ IF segment = NoSegment THEN packer' = next /\ UNCHANGED packets ELSE Sends(segment, FALSE, next)

PacketCut ==
    /\ packer = "cutting"
    /\ IF taken - cut < PacketSize THEN packer' = "reading" /\ UNCHANGED <<cut, segment, packets>>
       ELSE Keeps(cut + PacketSize, "cutting")
    /\ UNCHANGED <<taken, hearingVars, socket, answers, answered>>

SpeechOver ==
    /\ packer = "reading" /\ packer' = "rest"
    /\ UNCHANGED <<taken, cut, segment, packets, hearingVars, socket, answers, answered>>

\* mutant: what does not fill a packet is not sent
Rest_dropped == packer' = "mark" /\ UNCHANGED <<cut, segment, packets>>

Rest == IF cut = taken THEN packer' = "mark" /\ UNCHANGED <<cut, segment, packets>>
        ELSE Keeps(taken, "mark")

RestKept ==
    /\ packer = "rest" /\ Rest
    /\ UNCHANGED <<taken, hearingVars, socket, answers, answered>>

\* with no audio at all the last packet is empty
LastSent ==
    /\ packer = "mark"
    /\ Sends(IF segment = NoSegment THEN [first |-> 1, last |-> 0] ELSE segment, TRUE, "done")
    /\ UNCHANGED <<taken, cut, segment, hearingVars, socket, answers, answered>>

(***************************************************************************)
(* The provider answers at any time, also before the audio has ended, with *)
(* a text, the last text, or an error; what cannot be read is an error.    *)
(***************************************************************************)
Texts == [type : {"text", "last"}, text : 0 .. LastText]
Unreadable == [type : {"error"}, text : {0}]
Answer == Texts \cup Unreadable

ProviderAnswers ==
    /\ socket = "open" /\ answered < MaxAnswers /\ answered' = answered + 1
    /\ \E a \in Answer : answers' = Append(answers, a)
    /\ UNCHANGED <<packerVars, hearingVars, socket>>

ProviderCloses ==
    /\ socket = "open" /\ socket' = "closed"
    /\ UNCHANGED <<packerVars, hearingVars, answers, answered>>

(***************************************************************************)
(* stream: the answers in turn; the finally cancels the task.              *)
(***************************************************************************)
\* mutant: the task goes on
PackerStopped_running == packer

PackerStopped == IF Packing THEN "cancelled" ELSE packer

Cleans(how) == hearing' = "cleaning" /\ result' = how /\ packer' = PackerStopped

Yields(type) == results' = Append(results, [type |-> type, text |-> latest'])

ResponseRead ==
    LET a == Head(answers)
        changed == a.text \notin {0, latest}
    IN  /\ hearing = "listening" /\ answers # <<>> /\ answers' = Tail(answers)
        /\ IF a.type = "error" THEN Cleans("failed") /\ UNCHANGED <<latest, results>>
           ELSE /\ latest' = IF changed THEN a.text ELSE latest
                /\ hearing' = CASE a.type = "last" -> "awaiting"
                                 [] a.type = "text" /\ changed -> "yielded"
                                 [] OTHER -> "listening"
                /\ IF a.type = "text" /\ changed THEN Yields("partial") ELSE UNCHANGED results
                /\ UNCHANGED <<result, packer>>
        /\ UNCHANGED <<taken, cut, segment, packets, socket, answered>>

\* nothing to read: the timeout, or the connection is closed
ReceiveFails ==
    /\ hearing = "listening" /\ answers = <<>> /\ Cleans("failed")
    /\ UNCHANGED <<taken, cut, segment, packets, latest, results, socket, answers, answered>>

\* mutant: the final result does not wait for the audio
AudioSent_any == TRUE

AudioSent == packer = "done"

\* the last text has been read: await sender
SenderEnds ==
    /\ hearing = "awaiting"
    /\ \/ AudioSent /\ UNCHANGED latest /\ Yields("final") /\ Cleans("final")
       \/ packer = "failed" /\ Cleans("failed") /\ UNCHANGED <<latest, results>>
    /\ UNCHANGED <<taken, cut, segment, packets, socket, answers, answered>>

\* the session has handled the partial result
ConsumerGoesOn ==
    /\ hearing = "yielded" /\ hearing' = "listening"
    /\ UNCHANGED <<packerVars, result, latest, results, socket, answers, answered>>

\* the session has been closed, its queue was full, or handling a result failed
ConsumerLeaves ==
    /\ \/ hearing \in {"listening", "yielded", "awaiting"} /\ Cleans("left")
       \/ hearing = "connecting" /\ hearing' = "ended" /\ result' = "left" /\ UNCHANGED packer
    /\ UNCHANGED <<taken, cut, segment, packets, latest, results, socket, answers, answered>>

StreamEnds ==
    /\ hearing = "cleaning" /\ hearing' = "ended" /\ socket' = "closed"
    /\ UNCHANGED <<packerVars, result, latest, results, answers, answered>>

RecognitionNext ==
    \/ Connect \/ HandshakeFails \/ ChunkTaken \/ PacketCut \/ SpeechOver \/ RestKept \/ LastSent
    \/ ProviderAnswers \/ ProviderCloses
    \/ ResponseRead \/ ReceiveFails \/ SenderEnds \/ ConsumerGoesOn \/ ConsumerLeaves \/ StreamEnds

RecognitionSpec == RecognitionInit /\ [][RecognitionNext]_recognitionVars

(***************************************************************************)
(* Properties.                                                             *)
(***************************************************************************)
Segments == [first : 0 .. LastSample + 1, last : 0 .. LastSample]
Packets == [number : Int, first : 0 .. LastSample + 1, last : 0 .. LastSample]
Results == [type : {"partial", "final"}, text : 0 .. LastText]

\* What the variables hold.
RecognitionTypeOK ==
    /\ hearing \in {"connecting", "listening", "yielded", "awaiting", "cleaning", "ended"}
    /\ result \in {"none", "final", "failed", "left"}
    /\ packer \in {"none", "reading", "cutting", "rest", "mark", "done", "failed", "cancelled"}
    /\ taken \in 0 .. LastSample /\ cut \in 0 .. taken
    /\ segment \in Segments /\ packets \in Seq(Packets)
    /\ socket \in {"open", "closed"} /\ answers \in Seq(Answer) /\ answered \in 0 .. MaxAnswers
    /\ latest \in 0 .. LastText /\ results \in Seq(Results)

\* the packets carry the samples in order, none twice and none left out; all are full and
\* numbered upwards from 2 but the last, whose number is negative
Gapless ==
    \A k \in DOMAIN packets :
        /\ packets[k].first = IF k = 1 THEN 1 ELSE packets[k - 1].last + 1
        /\ \/ packets[k].number = k + 1 /\ packets[k].last = packets[k].first + PacketSize - 1
           \/ /\ packets[k].number = -(k + 1) /\ k = Len(packets) /\ packer = "done"
              /\ packets[k].last < packets[k].first + PacketSize

AllSent ==
    /\ packets # <<>> /\ packets[Len(packets)].number < 0
    /\ packets[Len(packets)].last = taken

\* The provider is given the whole utterance, in order, and the end of it once; a final
\* result is the last one told, has the last text the provider gave, and is told only when
\* all of the audio has been sent, also if the provider ends early; however the recognition
\* ends, its task sends no more (DoubaoStreamingASR).
RecognitionIsWhole ==
    /\ Gapless /\ (packer = "done" => AllSent)
    /\ \A k \in DOMAIN results :
          /\ results[k].type = "final" => k = Len(results) /\ AllSent /\ results[k].text = latest
          /\ k > 1 /\ results[k].type = "partial" => results[k].text # results[k - 1].text
    /\ (result = "final") = (results # <<>> /\ results[Len(results)].type = "final")
    /\ hearing \in {"cleaning", "ended"} => ~Packing

=============================================================================
