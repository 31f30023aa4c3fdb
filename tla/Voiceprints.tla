----------------------------- MODULE Voiceprints -----------------------------
(***************************************************************************)
(* The voiceprints of the members of a device: requests of the settings    *)
(* page, of the utterances and of the deletion worker go through an HTTP   *)
(* client to the voiceprint service, which keeps the templates in the      *)
(* members' rows. A request the client has given up is still carried out.  *)
(***************************************************************************)
EXTENDS Integers

CONSTANTS
    Members,        \* members of the device
    LastRequest     \* bound: requests to the service

ASSUME VoiceprintAssumption == LastRequest \in Nat

VARIABLES
    memberRow,  \* [Members -> active, pending (deletion_pending), gone]
    template,   \* [Members -> the enrolment in voiceprint_embedding, 0 for NULL]
    call,       \* [Requests -> what it asks, for whom, and how far it is]
    cleaned     \* history: members whose voiceprint the deletion worker has removed

voiceprintVars == <<memberRow, template, call, cleaned>>

Requests == 1 .. LastRequest
NoOne == "nobody"
Unasked == [kind |-> "nothing", member |-> NoOne, at |-> "none", waits |-> FALSE]

VoiceprintInit ==
    /\ memberRow = [m \in Members |-> "active"] /\ template = [m \in Members |-> 0]
    /\ call = [r \in Requests |-> Unasked] /\ cleaned = {}

Exists(m) == memberRow[m] = "active"

\* mutant: the template is stored in any row of the member
Enrollable_any(m) == memberRow[m] # "gone"

\* save_template: UPDATE ... WHERE status = 'active'
Enrollable(m) == memberRow[m] = "active"

\* an HTTP request leaves; the routes have looked the member up before (get_identity)
Post(r, kind, m) ==
    /\ call[r] = Unasked /\ \A q \in 1 .. r - 1 : call[q] # Unasked
    /\ call' = [call EXCEPT ![r] = [kind |-> kind, member |-> m, at |-> "sent", waits |-> TRUE]]
    /\ UNCHANGED <<memberRow, template, cleaned>>

RegisterVoiceprint(r, m) == Exists(m) /\ Post(r, "enrol", m)
DeleteVoiceprint(r, m) == Exists(m) /\ Post(r, "delete", m)
IdentifySpeaker(r) == Post(r, "identify", NoOne)

\* the deletion worker, which asks again until it is answered
WorkerAsks(r, m) ==
    /\ memberRow[m] = "pending" /\ m \notin cleaned
    /\ ~ \E q \in Requests : call[q].kind = "erase" /\ call[q].member = m /\ call[q].waits
    /\ Post(r, "erase", m)

(***************************************************************************)
(* The service: the samples are validated and embedded, then one statement *)
(***************************************************************************)
Answers(r, m, at) == call' = [call EXCEPT ![r].member = m, ![r].at = at]

ServiceRegisters(r) ==
    /\ call[r].kind = "enrol" /\ call[r].at = "sent"
    /\ \/ /\ Enrollable(call[r].member)
          /\ template' = [template EXCEPT ![call[r].member] = r]
          /\ Answers(r, call[r].member, "done")
       \/ /\ Answers(r, call[r].member, "refused")       \* not found, invalid audio
          /\ UNCHANGED template
    /\ UNCHANGED <<memberRow, cleaned>>

ServiceDeletes(r) ==
    /\ call[r].kind \in {"delete", "erase"} /\ call[r].at = "sent"
    /\ template' = [template EXCEPT ![call[r].member] = 0]
    /\ Answers(r, call[r].member, "done")                \* 404 counts as deleted
    /\ UNCHANGED <<memberRow, cleaned>>

\* the best match over the threshold, or nobody
ServiceIdentifies(r) ==
    /\ call[r].kind = "identify" /\ call[r].at = "sent"
    /\ \E m \in {n \in Members : Exists(n) /\ template[n] # 0} \cup {NoOne} : Answers(r, m, "done")
    /\ UNCHANGED <<memberRow, template, cleaned>>

ServiceFails(r) ==
    /\ call[r].at = "sent" /\ Answers(r, call[r].member, "failed")
    /\ UNCHANGED <<memberRow, template, cleaned>>

(***************************************************************************)
(* The client.                                                             *)
(***************************************************************************)
ClientGivesUp(r) ==
    /\ call[r].waits /\ call' = [call EXCEPT ![r].waits = FALSE]
    /\ UNCHANGED <<memberRow, template, cleaned>>

\* the worker goes on to the next store; a speaker is looked up once more
ClientHears(r) ==
    /\ call[r].waits /\ call[r].at \in {"done", "refused", "failed"}
    /\ call' = [call EXCEPT ![r].waits = FALSE,
          ![r].at = IF call[r].kind = "identify" /\ @ = "done" /\ call[r].member # NoOne
                      THEN IF Exists(call[r].member) THEN "known" ELSE "guest"
                      ELSE @]
    /\ cleaned' = IF call[r].kind = "erase" /\ call[r].at = "done"
                    THEN cleaned \cup {call[r].member} ELSE cleaned
    /\ UNCHANGED <<memberRow, template>>

MarkDeletion(m) ==
    /\ memberRow[m] = "active" /\ memberRow' = [memberRow EXCEPT ![m] = "pending"]
    /\ UNCHANGED <<template, call, cleaned>>

\* after the voiceprint the worker erases memory and dialogue, and then the row
RemoveRow(m) ==
    /\ memberRow[m] = "pending" /\ m \in cleaned
    /\ memberRow' = [memberRow EXCEPT ![m] = "gone"] /\ template' = [template EXCEPT ![m] = 0]
    /\ UNCHANGED <<call, cleaned>>

VoiceprintNext ==
    \/ \E r \in Requests :
          \/ IdentifySpeaker(r) \/ ServiceRegisters(r) \/ ServiceDeletes(r) \/ ServiceIdentifies(r)
          \/ ServiceFails(r) \/ ClientGivesUp(r) \/ ClientHears(r)
          \/ \E m \in Members : RegisterVoiceprint(r, m) \/ DeleteVoiceprint(r, m) \/ WorkerAsks(r, m)
    \/ \E m \in Members : MarkDeletion(m) \/ RemoveRow(m)

VoiceprintSpec == VoiceprintInit /\ [][VoiceprintNext]_voiceprintVars

(***************************************************************************)
(* Properties.                                                             *)
(***************************************************************************)
VoiceprintCall == [kind : {"nothing", "enrol", "delete", "identify", "erase"},
                   member : Members \cup {NoOne}, waits : BOOLEAN,
                   at : {"none", "sent", "done", "refused", "failed", "known", "guest"}]

\* What the variables hold.
VoiceprintTypeOK ==
    /\ memberRow \in [Members -> {"active", "pending", "gone"}]
    /\ template \in [Members -> 0 .. LastRequest]
    /\ call \in [Requests -> VoiceprintCall]
    /\ cleaned \subseteq Members

\* Once the deletion worker has been told that the voiceprint of a member is removed, none
\* comes back, by an enrolment embedded meanwhile or by one its client has given up.
CleanedHasNoVoiceprint == \A m \in cleaned : template[m] = 0

=============================================================================
