----------------------------- MODULE MCProgress -----------------------------
(***************************************************************************)
(* What must come to an end: the two durable queues, the output of a turn  *)
(* and the production of a reply, each explored on its own in one graph:   *)
(* the initial state chooses a part, the others stay where they are.       *)
(***************************************************************************)
EXTENDS MCMemoryDeletion, TurnOutput, ReplyStream

VARIABLE part

\* the instance has one tool, an action of the page
MCTools == {"device"}
MCClientTools == {"device"}
MCFollowUps == [t \in MCTools |-> {}]

progressVars == <<part, vars, outputVars, replyVars>>

ProgressInit ==
    /\ part \in {"queues", "output", "reply"}
    /\ Init /\ OutputInit /\ ReplyInit
    /\ part # "reply" => stage = "model" /\ offered = {}

QueuesPart == UNCHANGED <<part, outputVars, replyVars>>
OutputPart == UNCHANGED <<part, vars, replyVars>>
ReplyPart == UNCHANGED <<part, vars, outputVars>>

ProgressNext ==
    \/ part = "queues" /\ Next /\ QueuesPart
    \/ part = "output" /\ OutputNext /\ OutputPart
    \/ part = "reply" /\ ReplyNext /\ ReplyPart

\* fairness of the part explored: no step of the queues, and none of the others that is
\* fair, is enabled when another part is
ProgressSpec ==
    /\ ProgressInit /\ [][ProgressNext]_progressVars
    /\ WorkerFairness
    /\ WF_progressVars(\/ part = "output" /\ OutputProgress /\ OutputPart
                       \/ part = "reply" /\ ReplyProgress /\ ReplyPart)

\* A reply comes to its end, whichever of its producers fails, falls silent for as long
\* as its timeout allows or finds the output queue full (ChatService.stream_turn).
RepliesEnd == part = "reply" => ReplyEnds
=============================================================================
