---------------------------- MODULE MemberErasure ----------------------------
(***************************************************************************)
(* What the two queues promise of a member together: while something is    *)
(* being submitted for a member the member cannot leave, nothing is        *)
(* submitted for one who has left, the memories are erased only when no    *)
(* task is waited for, and the member is removed when every store is       *)
(* erased.                                                                 *)
(***************************************************************************)
CONSTANTS
    Identities,     \* members
    Stores          \* what is kept of a member; "memories" is one of them

VARIABLES
    life,           \* [Identities -> active, deletion_pending, deleted]
    cleared,        \* [Identities -> the stores erased]
    submitting,     \* members a submission is in flight for
    waiting         \* members with a task that is waited for

erasureVars == <<life, cleared, submitting, waiting>>

Init ==
    /\ life = [i \in Identities |-> "active"]
    /\ cleared = [i \in Identities |-> {}]
    /\ submitting = {} /\ waiting = {}

Submit(i) ==
    /\ life[i] = "active"
    /\ submitting' = submitting \cup {i}
    /\ UNCHANGED <<life, cleared, waiting>>

\* The answer starts a task, ends the matter, or is lost.
Answer(i) ==
    /\ i \in submitting
    /\ submitting' = submitting \ {i}
    /\ waiting' \in {waiting, waiting \cup {i}}
    /\ UNCHANGED <<life, cleared>>

Settle(i) ==
    /\ waiting' = waiting \ {i}
    /\ UNCHANGED <<life, cleared, submitting>>

Leave(i) ==
    /\ life[i] = "active" /\ i \notin submitting
    /\ life' = [life EXCEPT ![i] = "deletion_pending"]
    /\ UNCHANGED <<cleared, submitting, waiting>>

Clear(i, s) ==
    /\ life[i] = "deletion_pending"
    /\ s = "memories" => i \notin waiting
    /\ cleared' = [cleared EXCEPT ![i] = @ \cup {s}]
    /\ UNCHANGED <<life, submitting, waiting>>

Remove(i) ==
    /\ life[i] = "deletion_pending" /\ cleared[i] = Stores
    /\ life' = [life EXCEPT ![i] = "deleted"]
    /\ UNCHANGED <<cleared, submitting, waiting>>

Next == \E i \in Identities :
    \/ Submit(i) \/ Answer(i) \/ Settle(i) \/ Leave(i) \/ Remove(i)
    \/ \E s \in Stores : Clear(i, s)

Spec == Init /\ [][Next]_erasureVars
=============================================================================
