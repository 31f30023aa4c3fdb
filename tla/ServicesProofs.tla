--------------------------- MODULE ServicesProofs ---------------------------
(***************************************************************************)
(* The services for any number of members, requests, controls, caches and  *)
(* edits, tools, texts and samples: voiceprints that stay removed, device  *)
(* controls that leave nothing waiting, profiles that follow the edits,    *)
(* recognitions that send the whole utterance, replies that are whole, a   *)
(* limit of attempts that holds, speeches that begin and end in time and   *)
(* requests that spend their budget.                                       *)
(***************************************************************************)
EXTENDS Voiceprints, DeviceControl, ProfileCache, SpeechRecognition, ReplyStream, Recovery, VoiceActivity,
        ContextBudget, FiniteSetTheorems, FunctionTheorems, WellFoundedInduction, TLAPS

-----------------------------------------------------------------------------
(***************************************************************************)
(* Voiceprints: a removal is asked for once the member is no longer active,*)
(* and from then on no statement of the service stores a template.         *)
(***************************************************************************)
RemovalIsLate ==
    /\ \A r \in Requests : call[r].kind = "erase" =>
         /\ call[r].member \in Members /\ memberRow[call[r].member] # "active"
         /\ call[r].at = "done" => template[call[r].member] = 0
    /\ \A m \in cleaned : memberRow[m] # "active" /\ template[m] = 0

VoiceprintInv == VoiceprintTypeOK /\ RemovalIsLate

\* A request leaves: nothing is asked for but what its route has looked up.
LEMMA PostKeepsInv ==
  ASSUME VoiceprintInv, NEW r \in Requests, NEW m \in Members \cup {NoOne},
         NEW kind \in {"enrol", "delete", "identify", "erase"}, Post(r, kind, m),
         kind = "erase" => m \in Members /\ memberRow[m] = "pending"
  PROVE  VoiceprintInv'
<1>1. VoiceprintTypeOK'
  BY DEF VoiceprintInv, VoiceprintTypeOK, VoiceprintCall, Post
<1>2. \A q \in Requests : call'[q] =
        IF q = r THEN [kind |-> kind, member |-> m, at |-> "sent", waits |-> TRUE] ELSE call[q]
  BY DEF VoiceprintInv, VoiceprintTypeOK, VoiceprintCall, Post
<1>3. RemovalIsLate'
  BY <1>2 DEF VoiceprintInv, RemovalIsLate, Post
<1> QED BY <1>1, <1>3 DEF VoiceprintInv

\* What the service does to a template and what the client makes of the answer.
LEMMA RequestKeepsInv ==
  ASSUME VoiceprintInv, NEW r \in Requests,
         \/ ServiceRegisters(r) \/ ServiceDeletes(r) \/ ServiceIdentifies(r) \/ ServiceFails(r)
         \/ ClientGivesUp(r) \/ ClientHears(r)
  PROVE  VoiceprintInv'
<1>0. VoiceprintTypeOK /\ RemovalIsLate
  BY DEF VoiceprintInv
<1>1. CASE ServiceRegisters(r)
  <2>1. VoiceprintTypeOK'
    BY <1>0, <1>1 DEF ServiceRegisters, Answers, VoiceprintTypeOK, VoiceprintCall, Requests
  <2>2. \A m \in Members : memberRow[m] # "active" => template'[m] = template[m]
    BY <1>0, <1>1 DEF ServiceRegisters, Enrollable, VoiceprintTypeOK
  <2>3. call[r].kind = "enrol" /\ call'[r].kind = "enrol" /\ \A q \in Requests \ {r} : call'[q] = call[q]
    BY <1>0, <1>1 DEF ServiceRegisters, Answers, VoiceprintTypeOK, VoiceprintCall
  <2>4. RemovalIsLate'
    BY <1>0, <1>1, <2>2, <2>3 DEF ServiceRegisters, RemovalIsLate, VoiceprintTypeOK, VoiceprintCall
  <2> QED BY <2>1, <2>4 DEF VoiceprintInv
<1>2. CASE ServiceDeletes(r)
  <2>1. VoiceprintTypeOK'
    BY <1>0, <1>2 DEF ServiceDeletes, Answers, VoiceprintTypeOK, VoiceprintCall, Requests, VoiceprintAssumption
  <2>2. \A m \in Members : template'[m] = IF m = call[r].member THEN 0 ELSE template[m]
    BY <1>0, <1>2 DEF ServiceDeletes, VoiceprintTypeOK, VoiceprintCall
  <2>3. /\ call'[r].kind = call[r].kind /\ call'[r].member = call[r].member
        /\ \A q \in Requests \ {r} : call'[q] = call[q]
    BY <1>0, <1>2 DEF ServiceDeletes, Answers, VoiceprintTypeOK, VoiceprintCall
  <2>4. RemovalIsLate'
    BY <1>0, <1>2, <2>2, <2>3 DEF ServiceDeletes, RemovalIsLate, VoiceprintTypeOK, VoiceprintCall
  <2> QED BY <2>1, <2>4 DEF VoiceprintInv
<1>3. CASE ServiceIdentifies(r)
  <2>1. call[r].kind = "identify" /\ call'[r].kind = "identify" /\ \A q \in Requests \ {r} : call'[q] = call[q]
    BY <1>0, <1>3 DEF ServiceIdentifies, Answers, VoiceprintTypeOK, VoiceprintCall
  <2>2. VoiceprintTypeOK'
    <3>1. PICK m \in Members \cup {NoOne} : Answers(r, m, "done")
      BY <1>3 DEF ServiceIdentifies
    <3>2. call' \in [Requests -> VoiceprintCall]
      BY ZenonT(40), <1>0, <3>1 DEF Answers, VoiceprintTypeOK, VoiceprintCall
    <3>3. UNCHANGED <<memberRow, template, cleaned>>
      BY <1>3 DEF ServiceIdentifies
    <3> QED BY <1>0, <3>2, <3>3 DEF VoiceprintTypeOK
  <2>3. RemovalIsLate'
    BY <1>0, <1>3, <2>1 DEF ServiceIdentifies, RemovalIsLate
  <2> QED BY <2>2, <2>3 DEF VoiceprintInv
<1>4. CASE ServiceFails(r) \/ ClientGivesUp(r) \/ ClientHears(r)
  <2>1. /\ UNCHANGED <<memberRow, template>>
        /\ call'[r].kind = call[r].kind /\ call'[r].member = call[r].member
        /\ call[r].kind = "erase" /\ call'[r].at = "done" => call[r].at = "done"
        /\ \A q \in Requests \ {r} : call'[q] = call[q]
    <3>1. CASE ServiceFails(r)
      BY <1>0, <3>1 DEF ServiceFails, Answers, VoiceprintTypeOK, VoiceprintCall
    <3>2. CASE ClientGivesUp(r)
      BY <1>0, <3>2 DEF ClientGivesUp, VoiceprintTypeOK, VoiceprintCall
    <3>3. CASE ClientHears(r)
      BY <1>0, <3>3 DEF ClientHears, VoiceprintTypeOK, VoiceprintCall
    <3> QED BY <1>4, <3>1, <3>2, <3>3
  <2>2. \A m \in cleaned' : m \in cleaned \/ (call[r].kind = "erase" /\ call[r].at = "done" /\ m = call[r].member)
    BY <1>4 DEF ServiceFails, ClientGivesUp, ClientHears
  <2>3. VoiceprintTypeOK'
    <3>1. call' \in [Requests -> VoiceprintCall]
      <4>1. CASE ServiceFails(r)
        BY <1>0, <4>1 DEF ServiceFails, Answers, VoiceprintTypeOK, VoiceprintCall
      <4>2. CASE ClientGivesUp(r)
        BY <1>0, <4>2 DEF ClientGivesUp, VoiceprintTypeOK, VoiceprintCall
      <4>3. CASE ClientHears(r)
        <5>1. PICK at \in {"done", "refused", "failed", "known", "guest"} :
                 call' = [call EXCEPT ![r].waits = FALSE, ![r].at = at]
          <6> DEFINE at == IF call[r].kind = "identify" /\ call[r].at = "done" /\ call[r].member # NoOne
                             THEN IF Exists(call[r].member) THEN "known" ELSE "guest"
                             ELSE call[r].at
          <6>1. at \in {"done", "refused", "failed", "known", "guest"}
            BY <4>3 DEF ClientHears
          <6>2. call' = [call EXCEPT ![r].waits = FALSE, ![r].at = at]
            BY <1>0, <4>3 DEF ClientHears, VoiceprintTypeOK, VoiceprintCall
          <6> QED BY <6>1, <6>2
        <5> QED BY ZenonT(40), <1>0, <5>1 DEF VoiceprintTypeOK, VoiceprintCall
      <4> QED BY <1>4, <4>1, <4>2, <4>3
    <3>2. cleaned' \subseteq Members
      BY <1>0, <2>2 DEF VoiceprintTypeOK, RemovalIsLate
    <3> QED BY <1>0, <2>1, <3>1, <3>2 DEF VoiceprintTypeOK
  <2>4. RemovalIsLate'
    BY <1>0, <2>1, <2>2 DEF RemovalIsLate
  <2> QED BY <2>3, <2>4 DEF VoiceprintInv
<1> QED BY <1>1, <1>2, <1>3, <1>4

\* Every step keeps the invariant.
LEMMA VoiceprintStep ==
  ASSUME VoiceprintInv, [VoiceprintNext]_voiceprintVars
  PROVE  VoiceprintInv'
<1>0. VoiceprintTypeOK /\ RemovalIsLate
  BY DEF VoiceprintInv
<1>1. CASE UNCHANGED voiceprintVars
  BY <1>0, <1>1 DEF voiceprintVars, VoiceprintInv, VoiceprintTypeOK, RemovalIsLate
<1>2. ASSUME NEW r \in Requests, IdentifySpeaker(r)
      PROVE  VoiceprintInv'
  BY <1>2, PostKeepsInv DEF IdentifySpeaker
<1>3. ASSUME NEW r \in Requests, NEW m \in Members,
             RegisterVoiceprint(r, m) \/ DeleteVoiceprint(r, m) \/ WorkerAsks(r, m)
      PROVE  VoiceprintInv'
  BY <1>3, PostKeepsInv DEF RegisterVoiceprint, DeleteVoiceprint, WorkerAsks
<1>4. ASSUME NEW m \in Members, MarkDeletion(m) \/ RemoveRow(m)
      PROVE  VoiceprintInv'
  <2>1. VoiceprintTypeOK'
    BY <1>0, <1>4, VoiceprintAssumption DEF MarkDeletion, RemoveRow, VoiceprintTypeOK
  <2>2. \A n \in Members : /\ memberRow[n] # "active" => memberRow'[n] # "active"
                           /\ template[n] = 0 => template'[n] = 0
    BY <1>0, <1>4 DEF MarkDeletion, RemoveRow, VoiceprintTypeOK
  <2>3. UNCHANGED <<call, cleaned>>
    BY <1>4 DEF MarkDeletion, RemoveRow
  <2>4. RemovalIsLate'
    BY <1>0, <2>2, <2>3 DEF RemovalIsLate, VoiceprintTypeOK, VoiceprintCall
  <2> QED BY <2>1, <2>4 DEF VoiceprintInv
<1> QED BY <1>1, <1>2, <1>3, <1>4, RequestKeepsInv DEF VoiceprintNext

\* What the tables and the requests hold, and that a removal is asked for late.
THEOREM VoiceprintInvariant == VoiceprintSpec => []VoiceprintInv
<1>1. VoiceprintInit => VoiceprintInv
  BY VoiceprintAssumption
     DEF VoiceprintInit, VoiceprintInv, VoiceprintTypeOK, VoiceprintCall, RemovalIsLate, Unasked, NoOne, Requests
<1>2. VoiceprintInv /\ [VoiceprintNext]_voiceprintVars => VoiceprintInv'
  BY VoiceprintStep
<1> QED BY <1>1, <1>2, PTL DEF VoiceprintSpec

\* Once the worker has been told that a voiceprint is removed, none comes back.
THEOREM RemovedVoiceprintStays == VoiceprintSpec => []CleanedHasNoVoiceprint
<1>1. VoiceprintInv => CleanedHasNoVoiceprint
  BY DEF VoiceprintInv, RemovalIsLate, CleanedHasNoVoiceprint
<1> QED BY <1>1, VoiceprintInvariant, PTL

-----------------------------------------------------------------------------
(***************************************************************************)
(* Device controls: from the moment the tasks are cancelled none begins,   *)
(* and the receipts they had registered by then are cancelled after them.  *)
(***************************************************************************)
ClosedInOrder ==
    /\ line \in {"commands", "closed"} => InTask = {}
    /\ line = "closed" => Pending = {}

ControlInv == ControlTypeOK /\ ClosedInOrder

Steps == {"new", "lock", "cancelling", "sending"}

\* A control gets a task or a receipt that waits from one it had, or while the connection is open.
MovesInOrder(n) ==
    \E new \in ControlRecord :
        /\ control' = [control EXCEPT ![n] = new]
        /\ new.task \in Steps => control[n].task \in Steps \/ line = "open"
        /\ new.receipt \in {"waiting", "answered"} =>
              \/ control[n].receipt \in {"waiting", "answered"}
              \/ control[n].task \in Steps \/ line = "open"

\* What a step does to one control, its task and its receipt.
LEMMA ControlChanged ==
  ASSUME ControlTypeOK, NEW n \in Controls, NEW new \in ControlRecord,
         control' = [control EXCEPT ![n] = new]
  PROVE  /\ control' \in [Controls -> ControlRecord]
         /\ InTask' = IF new.task \in {"new", "lock", "cancelling", "sending"}
                         THEN InTask \cup {n} ELSE InTask \ {n}
         /\ Pending' = IF new.receipt \in {"waiting", "answered"}
                         THEN Pending \cup {n} ELSE Pending \ {n}
BY DEF ControlTypeOK, InTask, Pending

\* What the first frame of a queue is, and what is left.
LEMMA HeadAndTail ==
  ASSUME NEW S, NEW q \in Seq(S), q # <<>>
  PROVE  Head(q) \in S /\ Tail(q) \in Seq(S)
OBVIOUS

\* The requests of the page and its answers.
LEMMA QueuesGrow ==
  ASSUME ControlTypeOK, NEW n \in Controls, NEW type \in {"control", "status"}
  PROVE  /\ Append(toPage, [type |-> type, of |-> n]) \in Seq([type : {"control", "status"}, of : Controls])
         /\ Append(fromPage, n) \in Seq(Controls)
BY DEF ControlTypeOK

\* The tasks that ask for a control: none of them begins anew once its connection closes.
LEMMA TaskKeepsOrder ==
  ASSUME ControlInv, NEW n \in Controls,
         \/ SubmitControl(n) \/ ControlBegins(n) \/ TakesLock(n) \/ TurnCancelled(n)
         \/ Delivered(n) \/ TurnControls(n) \/ ReceiptEnds(n)
  PROVE  ControlInv'
<1>0. ControlTypeOK /\ ClosedInOrder
  BY DEF ControlInv
<1>1. control[n] \in ControlRecord /\ control \in [Controls -> ControlRecord]
  BY <1>0 DEF ControlTypeOK
<1>2. MovesInOrder(n)
  <2> USE DEF MovesInOrder, Steps
  <2>1. CASE SubmitControl(n)
    <3>1. PICK a \in Actions : control' = [control EXCEPT ![n].action = a,
                                               ![n].task = IF Busy THEN "refused" ELSE "new"]
      BY <2>1 DEF SubmitControl
    <3> DEFINE new == [control[n] EXCEPT !.action = a, !.task = IF Busy THEN "refused" ELSE "new"]
    <3>2. new \in ControlRecord /\ new.receipt = control[n].receipt /\ control' = [control EXCEPT ![n] = new]
      BY <1>1, <3>1 DEF ControlRecord
    <3> QED BY <2>1, <3>2 DEF SubmitControl
  <2>2. ASSUME NEW step \in Steps \cup {"done", "refused"}, TaskGoes(n, step), control[n].task \in Steps
        PROVE  MovesInOrder(n)
    <3> DEFINE new == [control[n] EXCEPT !.task = step]
    <3>1. new \in ControlRecord /\ new.receipt = control[n].receipt /\ control' = [control EXCEPT ![n] = new]
      BY <1>1, <2>2 DEF ControlRecord, TaskGoes
    <3> QED BY <2>2, <3>1
  <2>3. ASSUME Registers(n), control[n].task \in Steps
        PROVE  MovesInOrder(n)
    <3> DEFINE new == [control[n] EXCEPT !.task = "sending", !.receipt = "waiting"]
    <3>1. new \in ControlRecord /\ control' = [control EXCEPT ![n] = new]
      BY <1>1, <2>3 DEF ControlRecord, Registers
    <3> QED BY <2>3, <3>1
  <2>4. CASE ControlBegins(n)
    BY <2>2, <2>3, <2>4 DEF ControlBegins
  <2>5. CASE TakesLock(n)
    BY <2>2, <2>3, <2>5 DEF TakesLock
  <2>6. CASE TurnCancelled(n)
    BY <2>3, <2>6 DEF TurnCancelled
  <2>7. CASE Delivered(n)
    <3> DEFINE new == [control[n] EXCEPT !.task = "done", !.receipt = "cancelled"]
    <3>1. new \in ControlRecord /\ new.task = "done" /\ new.receipt = "cancelled"
      BY <1>1 DEF ControlRecord
    <3>2. CASE control' = [control EXCEPT ![n] = new]
      BY <3>1, <3>2
    <3> QED BY <1>1, <2>2, <2>7, <3>2 DEF Delivered
  <2>8. CASE TurnControls(n)
    <3>1. PICK new \in ControlRecord : control' = [control EXCEPT ![n] = new]
      BY <2>8 DEF TurnControls, ControlRecord
    <3> QED BY <2>8, <3>1 DEF TurnControls
  <2>9. CASE ReceiptEnds(n)
    <3> DEFINE new == [control[n] EXCEPT !.receipt = IF @ = "waiting" THEN "unknown" ELSE "confirmed"]
    <3>1. new \in ControlRecord /\ control' = [control EXCEPT ![n] = new] /\ new.task = control[n].task
      BY <1>1, <2>9 DEF ControlRecord, ReceiptEnds
    <3> QED BY <2>9, <3>1 DEF ReceiptEnds
  <2> QED BY <2>1, <2>4, <2>5, <2>6, <2>7, <2>8, <2>9
<1>3. PICK new \in ControlRecord :
        /\ control' = [control EXCEPT ![n] = new]
        /\ new.task \in Steps => control[n].task \in Steps \/ line = "open"
        /\ new.receipt \in {"waiting", "answered"} =>
              \/ control[n].receipt \in {"waiting", "answered"}
              \/ control[n].task \in Steps \/ line = "open"
  BY <1>2 DEF MovesInOrder
<1>4. UNCHANGED <<line, fromPage, doing, gone>> /\ keeper' \in {keeper, n, Nobody} /\ speaking' \in {speaking, "none", "controlled"}
  BY DEF SubmitControl, ControlBegins, TakesLock, TurnCancelled, Delivered, TurnControls, ReceiptEnds, Registers
<1>5. toPage' \in Seq([type : {"control", "status"}, of : Controls])
  <2>1. toPage' \in {toPage, Append(toPage, [type |-> "control", of |-> n]), Append(toPage, [type |-> "status", of |-> n])}
    BY DEF SubmitControl, ControlBegins, TakesLock, TurnCancelled, Delivered, TurnControls, ReceiptEnds, Registers
  <2> QED BY <1>0, <2>1, QueuesGrow DEF ControlTypeOK
<1>6. ControlTypeOK'
  BY <1>0, <1>3, <1>4, <1>5, ControlChanged DEF ControlTypeOK
<1>7. ClosedInOrder'
  <2>1. line \in {"commands", "closed"} => control[n].task \notin Steps
    BY <1>0 DEF ClosedInOrder, InTask, Steps
  <2>2. line = "closed" => control[n].receipt \notin {"waiting", "answered"}
    BY <1>0 DEF ClosedInOrder, Pending
  <2> QED BY <1>0, <1>3, <1>4, <2>1, <2>2, ControlChanged DEF ClosedInOrder, Steps
<1> QED BY <1>6, <1>7 DEF ControlInv

\* The turn, the page and its answers, and the two steps of the closing.
LEMMA OthersKeepOrder ==
  ASSUME ControlInv,
         \/ TurnBegins \/ TurnBegun \/ ControlledTurnEnds \/ ResultArrives \/ ControlCloses
         \/ CloseTasks \/ CloseReceipts \/ PageHears
         \/ \E n \in Controls : PageCleans(n) \/ PageAnswers(n)
  PROVE  ControlInv'
<1>0. ControlTypeOK /\ ClosedInOrder
  BY DEF ControlInv
<1>1. CASE TurnBegins \/ TurnBegun \/ ControlledTurnEnds \/ ControlCloses
  <2>1. UNCHANGED <<control, toPage, fromPage, doing, gone>>
    BY <1>1 DEF TurnBegins, TurnBegun, ControlledTurnEnds, ControlCloses
  <2>2. ControlTypeOK'
    BY <1>0, <1>1, <2>1 DEF TurnBegins, TurnBegun, ControlledTurnEnds, ControlCloses, ControlTypeOK
  <2>3. line' = line \/ line' = "closing"
    BY <1>1 DEF TurnBegins, TurnBegun, ControlledTurnEnds, ControlCloses
  <2>4. ClosedInOrder'
    BY <1>0, <2>1, <2>3 DEF ClosedInOrder, InTask, Pending
  <2> QED BY <2>2, <2>4 DEF ControlInv
<1>2. CASE ResultArrives
  <2> DEFINE n == Head(fromPage)
  <2>1. n \in Controls /\ fromPage' \in Seq(Controls)
    BY <1>0, <1>2 DEF ResultArrives, ControlTypeOK
  <2> HIDE DEF n
  <2>2. /\ control' \in [Controls -> ControlRecord]
        /\ UNCHANGED <<line, speaking, keeper, toPage, doing, gone>> /\ line = "open"
    BY ZenonT(40), <1>0, <1>2, <2>1 DEF ResultArrives, ControlTypeOK, ControlRecord, n
  <2>3. ControlTypeOK'
    BY <1>0, <2>1, <2>2 DEF ControlTypeOK
  <2>4. ClosedInOrder'
    BY <2>2 DEF ClosedInOrder
  <2> QED BY <2>3, <2>4 DEF ControlInv
<1>3. CASE CloseTasks
  <2>1. \A n \in Controls : control'[n] \in ControlRecord /\ control'[n].task \notin {"new", "lock", "cancelling", "sending"}
    <3> TAKE n \in Controls
    <3>1. CASE n \in InTask
      BY <1>0, <1>3, <3>1 DEF CloseTasks, FirstCancelled, Cancelled, ControlTypeOK, ControlRecord
    <3>2. CASE n \notin InTask
      BY <1>0, <1>3, <3>2 DEF CloseTasks, FirstCancelled, Cancelled, ControlTypeOK, InTask
    <3> QED BY <3>1, <3>2
  <2>2. control' \in [Controls -> ControlRecord]
    BY <1>3, <2>1 DEF CloseTasks, FirstCancelled, Cancelled
  <2>3. ControlTypeOK'
    BY <1>0, <1>3, <2>2 DEF CloseTasks, ControlTypeOK
  <2>4. ClosedInOrder'
    BY <1>3, <2>1 DEF CloseTasks, ClosedInOrder, InTask
  <2> QED BY <2>3, <2>4 DEF ControlInv
<1>4. CASE CloseReceipts
  <2>1. \A n \in Controls : /\ control'[n] \in ControlRecord /\ control'[n].task = control[n].task
                            /\ control'[n].receipt \notin {"waiting", "answered"}
    <3> TAKE n \in Controls
    <3>1. CASE n \in Pending
      BY <1>0, <1>4, <3>1 DEF CloseReceipts, LastCancelled, Cancelled, ControlTypeOK, ControlRecord
    <3>2. CASE n \notin Pending
      BY <1>0, <1>4, <3>2 DEF CloseReceipts, LastCancelled, Cancelled, ControlTypeOK, Pending
    <3> QED BY <3>1, <3>2
  <2>2. control' \in [Controls -> ControlRecord]
    BY <1>4, <2>1 DEF CloseReceipts, LastCancelled, Cancelled
  <2>3. ControlTypeOK'
    BY <1>0, <1>4, <2>2 DEF CloseReceipts, ControlTypeOK
  <2>4. ClosedInOrder'
    BY <1>0, <1>4, <2>1 DEF CloseReceipts, ClosedInOrder, InTask, Pending
  <2> QED BY <2>3, <2>4 DEF ControlInv
<1>5. CASE PageHears
  <2> DEFINE f == Head(toPage)
  <2>1. f \in [type : {"control", "status"}, of : Controls]
        /\ toPage' \in Seq([type : {"control", "status"}, of : Controls])
    <3>1. toPage \in Seq([type : {"control", "status"}, of : Controls]) /\ toPage # <<>> /\ toPage' = Tail(toPage)
      BY <1>0, <1>5 DEF PageHears, ControlTypeOK
    <3> QED BY <3>1, HeadAndTail
  <2> HIDE DEF f
  <2>2. doing' \in [Controls -> Done .. 3]
    BY <1>0, <1>5, <2>1 DEF PageHears, ControlTypeOK, Done, f
  <2>3. UNCHANGED <<line, speaking, keeper, control, fromPage, gone>>
    BY <1>5 DEF PageHears
  <2>4. ControlTypeOK' /\ ClosedInOrder'
    BY <1>0, <2>1, <2>2, <2>3 DEF ControlTypeOK, ClosedInOrder, InTask, Pending
  <2> QED BY <2>4 DEF ControlInv
<1>6. ASSUME NEW n \in Controls, PageCleans(n) \/ PageAnswers(n)
      PROVE  ControlInv'
  <2>1. doing' \in [Controls -> Done .. 3]
    <3>1. CASE PageCleans(n)
      BY <1>0, <3>1 DEF PageCleans, ControlTypeOK, Done
    <3>2. CASE PageAnswers(n)
      BY <1>0, <3>2 DEF PageAnswers, ControlTypeOK, Done
    <3> QED BY <1>6, <3>1, <3>2
  <2>4. gone' \in BOOLEAN
    BY <1>0, <1>6, Zenon DEF PageCleans, PageAnswers, ControlTypeOK
  <2>2. fromPage' \in Seq(Controls)
    BY <1>0, <1>6, QueuesGrow DEF PageCleans, PageAnswers, ControlTypeOK
  <2>3. UNCHANGED <<line, speaking, keeper, control, toPage>>
    BY <1>6 DEF PageCleans, PageAnswers
  <2>5. ControlTypeOK' /\ ClosedInOrder'
    BY <1>0, <2>1, <2>2, <2>3, <2>4 DEF ControlTypeOK, ClosedInOrder, InTask, Pending
  <2> QED BY <2>5 DEF ControlInv
<1> QED BY <1>1, <1>2, <1>3, <1>4, <1>5, <1>6

\* What the receipts and the page hold, and that nothing begins once the tasks are cancelled.
THEOREM ControlInvariant == ControlSpec => []ControlInv
<1>1. ControlInit => ControlInv
  <2> SUFFICES ASSUME ControlInit PROVE ControlInv
    OBVIOUS
  <2>1. control \in [Controls -> ControlRecord]
    BY DEF ControlInit, NoControl, ControlRecord
  <2>2. toPage \in Seq([type : {"control", "status"}, of : Controls]) /\ fromPage \in Seq(Controls)
    BY DEF ControlInit
  <2>3. doing \in [Controls -> Done .. 3]
    BY DEF ControlInit, Done
  <2> QED BY <2>1, <2>2, <2>3 DEF ControlInit, ControlInv, ControlTypeOK, ClosedInOrder
<1>2. ControlInv /\ [ControlNext]_controlVars => ControlInv'
  <2>1. ControlInv /\ UNCHANGED controlVars => ControlInv'
    BY DEF controlVars, ControlInv, ControlTypeOK, ClosedInOrder, InTask, Pending
  <2> QED BY <2>1, TaskKeepsOrder, OthersKeepOrder DEF ControlNext
<1> QED BY <1>1, <1>2, PTL DEF ControlSpec

\* A closed connection leaves no task and no receipt that waits for the page.
THEOREM NothingIsLeftWaiting == ControlSpec => []NothingWaitsAfterClose
<1>1. ControlInv => NothingWaitsAfterClose
  BY DEF ControlInv, ClosedInOrder, NothingWaitsAfterClose
<1> QED BY <1>1, ControlInvariant, PTL

-----------------------------------------------------------------------------
(***************************************************************************)
(* Profiles: as long as a cache is not suspect, every answer on its way    *)
(* holds all the edits, and an edit it has not seen is about to be told.   *)
(***************************************************************************)
AnswersAreFresh ==
    /\ \A c \in Caches \ suspect : load[c].step = "got" => load[c].answer = stored
    /\ Caches \ suspect # {} => \A e \in Editors : editor[e].step = "got" => editor[e].answer = stored

NewHasNothing == \A c \in Caches : alive[c] = "new" => snapshots[c] = None /\ load[c] = NoLoad

\* a bind that was lost was lost to one that was made
LostIsBound == outages = 0 => \A c \in Caches : load[c].step = "check" => bound

ProfileInv ==
    ProfileTypeOK /\ AnswersAreFresh /\ NewHasNothing /\ LostIsBound /\ ProfileFollowsEdits

LoadRecord == [step : {"none", "get", "bind", "check", "reget", "got", "fail"}, answer : None .. stored]

\* What a step of cache c may do: it takes a snapshot only from an answer, an answer only from
\* MemOS, and without an outage it neither fails nor waits for a retry.
CacheMoves(c) ==
    /\ UNCHANGED <<stored, editor, suspect>>
    /\ bound' \in BOOLEAN /\ (bound => bound')
    /\ outages' \in 0 .. MaxOutages /\ (outages' = 0 => outages = 0)
    /\ load' \in [Caches -> LoadRecord] /\ snapshots' \in [Caches -> None .. stored]
    /\ retryAfter' \in [Caches -> BOOLEAN] /\ alive' \in [Caches -> {"new", "open", "closed"}]
    /\ \A d \in Caches \ {c} : /\ load'[d] = load[d] /\ snapshots'[d] = snapshots[d]
                               /\ retryAfter'[d] = retryAfter[d] /\ alive'[d] = alive[d]
    /\ load'[c].step = "got" => load'[c].answer = stored \/ load'[c] = load[c]
    /\ snapshots'[c] = snapshots[c] \/ (load[c].step = "got" /\ snapshots'[c] = load[c].answer)
    /\ alive'[c] = "open" => alive[c] = "open" \/ snapshots'[c] = None
    /\ alive'[c] = "new" => snapshots'[c] = None /\ load'[c] = NoLoad
    /\ outages' = 0 => /\ load'[c].step # "fail" /\ ~retryAfter'[c]
                       /\ load'[c].step = "check" => bound'

\* Every step of a connection's cache is such a step.
LEMMA CacheStepMoves ==
  ASSUME ProfileInv, NEW c \in Caches,
         \/ OpenCache(c) \/ Schedule(c) \/ Answered(c) \/ Bound(c) \/ Outage(c)
         \/ LoadEnds(c) \/ RetryDue(c) \/ CloseCache(c)
  PROVE  CacheMoves(c)
<1>0. ProfileTypeOK /\ AnswersAreFresh /\ NewHasNothing /\ LostIsBound /\ ProfileFollowsEdits
  BY DEF ProfileInv
<1>t. /\ stored \in Nat /\ bound \in BOOLEAN /\ outages \in 0 .. MaxOutages /\ MaxOutages \in Nat
      /\ snapshots \in [Caches -> None .. stored] /\ load \in [Caches -> LoadRecord]
      /\ retryAfter \in [Caches -> BOOLEAN] /\ alive \in [Caches -> {"new", "open", "closed"}]
  BY <1>0, ProfileAssumption DEF ProfileTypeOK, LoadRecord
<1>n. NoLoad \in LoadRecord /\ NoLoad.step = "none" /\ \A step \in {"get", "bind", "check", "reget", "fail"} :
        [step |-> step, answer |-> None] \in LoadRecord
  BY <1>t DEF NoLoad, LoadRecord, None
<1>g. [step |-> "got", answer |-> stored] \in LoadRecord
  BY <1>t DEF LoadRecord, None
<1>s. load[c] \in LoadRecord /\ load[c].answer \in None .. stored
  BY <1>t DEF LoadRecord
<1>f. /\ alive[c] = "new" => snapshots[c] = None /\ load[c] = NoLoad
      /\ outages = 0 => /\ load[c].step # "fail" /\ ~retryAfter[c]
                        /\ load[c].step = "check" => bound
  BY <1>0 DEF NewHasNothing, LostIsBound, ProfileFollowsEdits
<1>1. CASE OpenCache(c)
  BY <1>t, <1>n, <1>g, <1>s, <1>f, <1>1 DEF OpenCache, Due, LoadReads, LostBind, atMemOS, CacheMoves
<1>2. CASE Schedule(c)
  BY <1>t, <1>n, <1>g, <1>s, <1>f, <1>2 DEF Schedule, Due, LoadReads, LostBind, atMemOS, CacheMoves
<1>3. CASE Answered(c)
  BY <1>t, <1>n, <1>g, <1>s, <1>f, <1>3 DEF Answered, Due, LoadReads, LostBind, atMemOS, CacheMoves
<1>4. CASE Bound(c)
  BY <1>t, <1>n, <1>g, <1>s, <1>f, <1>4 DEF Bound, Due, LoadReads, LostBind, atMemOS, CacheMoves
<1>5. CASE Outage(c)
  <2>1. bound' \in BOOLEAN /\ (bound => bound')
    BY <1>t, <1>5, Zenon DEF Outage
  <2>2. outages' \in 0 .. MaxOutages /\ outages' # 0
    BY <1>t, <1>5 DEF Outage
  <2>3. PICK step \in {"check", "fail"} : load' = [load EXCEPT ![c] = [step |-> step, answer |-> None]]
    BY <1>5 DEF Outage, LoadReads
  <2>4. UNCHANGED <<stored, snapshots, retryAfter, alive, editor, suspect>> /\ load[c].step # "none"
    BY <1>5 DEF Outage
  <2>5. alive[c] # "new"
    BY <1>n, <1>f, <2>4
  <2> QED BY <1>t, <1>n, <2>1, <2>2, <2>3, <2>4, <2>5 DEF CacheMoves
<1>6. CASE LoadEnds(c)
  BY <1>t, <1>n, <1>g, <1>s, <1>f, <1>6 DEF LoadEnds, Due, LoadReads, LostBind, atMemOS, CacheMoves
<1>7. CASE RetryDue(c)
  BY <1>t, <1>n, <1>g, <1>s, <1>f, <1>7 DEF RetryDue, Due, LoadReads, LostBind, atMemOS, CacheMoves
<1>8. CASE CloseCache(c)
  BY <1>t, <1>n, <1>g, <1>s, <1>f, <1>8 DEF CloseCache, Due, LoadReads, LostBind, atMemOS, CacheMoves
<1> QED BY <1>1, <1>2, <1>3, <1>4, <1>5, <1>6, <1>7, <1>8

\* The steps of a connection's cache.
LEMMA CacheKeepsInv ==
  ASSUME ProfileInv, NEW c \in Caches, CacheMoves(c)
  PROVE  ProfileInv'
<1>0. ProfileTypeOK /\ AnswersAreFresh /\ NewHasNothing /\ LostIsBound /\ ProfileFollowsEdits
  BY DEF ProfileInv
<1>1. ProfileTypeOK'
  BY <1>0 DEF CacheMoves, LoadRecord, ProfileTypeOK
<1>2. AnswersAreFresh'
  BY <1>0 DEF CacheMoves, AnswersAreFresh
<1>3. NewHasNothing' /\ LostIsBound'
  BY <1>0 DEF CacheMoves, NewHasNothing, LostIsBound
<1>4. ProfileFollowsEdits'
  BY <1>0 DEF CacheMoves, ProfileFollowsEdits, AnswersAreFresh
<1> QED BY <1>1, <1>2, <1>3, <1>4 DEF ProfileInv

\* The steps of an edit.
LEMMA EditKeepsInv ==
  ASSUME ProfileInv, NEW e \in Editors,
         EditStored(e) \/ EditRead(e) \/ EditOutage(e) \/ EditTold(e)
  PROVE  ProfileInv'
<1>0. ProfileTypeOK /\ AnswersAreFresh /\ NewHasNothing /\ LostIsBound /\ ProfileFollowsEdits
  BY DEF ProfileInv
<1>1. CASE EditStored(e)
  <2>1. /\ stored' = stored + 1 /\ suspect' = suspect \cup Passed
        /\ UNCHANGED <<bound, outages, snapshots, load, retryAfter, alive>>
        /\ editor[e] = NoLoad /\ editor'[e].step = "stored"
        /\ \A d \in Editors \ {e} : editor'[d] = editor[d]
    BY <1>0, <1>1 DEF EditStored, ProfileTypeOK
  <2>2. ProfileTypeOK'
    BY <1>0, <1>1 DEF EditStored, ProfileTypeOK, None, NoLoad, Passed
  <2>3. AnswersAreFresh'
    BY <1>0, <2>1 DEF AnswersAreFresh, Passed
  <2>4. ProfileFollowsEdits' /\ NewHasNothing' /\ LostIsBound'
    BY <1>0, <2>1 DEF ProfileFollowsEdits, NewHasNothing, LostIsBound
  <2> QED BY <2>2, <2>3, <2>4 DEF ProfileInv
<1>2. CASE EditRead(e)
  <2>1. /\ UNCHANGED <<stored, suspect, bound, outages, snapshots, load, retryAfter, alive>>
        /\ editor'[e].step = "got" /\ editor'[e].answer = stored
        /\ \A d \in Editors \ {e} : editor'[d] = editor[d]
    BY <1>0, <1>2 DEF EditRead, ProfileTypeOK, atMemOS
  <2>2. ProfileTypeOK'
    BY <1>0, <1>2, <2>1 DEF EditRead, ProfileTypeOK, None
  <2>3. AnswersAreFresh' /\ NewHasNothing' /\ LostIsBound'
    BY <1>0, <2>1 DEF AnswersAreFresh, NewHasNothing, LostIsBound
  <2>4. ProfileFollowsEdits'
    BY <1>0, <2>1 DEF ProfileFollowsEdits
  <2> QED BY <2>2, <2>3, <2>4 DEF ProfileInv
<1>3. CASE EditOutage(e)
  <2>1. /\ UNCHANGED <<stored, bound, snapshots, load, retryAfter, alive>>
        /\ suspect' = Caches /\ outages' = outages + 1 /\ outages \in Nat
        /\ outages' \in 0 .. MaxOutages
    BY <1>0, <1>3, ProfileAssumption DEF EditOutage, ProfileTypeOK
  <2>2. ProfileTypeOK'
    BY <1>0, <1>3, <2>1 DEF EditOutage, ProfileTypeOK
  <2>3. AnswersAreFresh' /\ NewHasNothing' /\ LostIsBound' /\ ProfileFollowsEdits'
    BY <1>0, <2>1 DEF AnswersAreFresh, NewHasNothing, LostIsBound, ProfileFollowsEdits
  <2> QED BY <2>2, <2>3 DEF ProfileInv
<1>4. CASE EditTold(e)
  <2>1. /\ UNCHANGED <<stored, suspect, bound, outages, load, alive>>
        /\ editor[e].step = "got" /\ editor'[e].step = "done" /\ snapshots' = Updated(e)
        /\ \A d \in Editors \ {e} : editor'[d] = editor[d]
        /\ retryAfter' = [c \in Caches |-> IF alive[c] = "open" THEN FALSE ELSE retryAfter[c]]
    BY <1>0, <1>4 DEF EditTold, ProfileTypeOK, atMemOS
  <2>2. \A c \in Caches : snapshots'[c] = IF alive[c] = "open" THEN editor[e].answer ELSE snapshots[c]
    BY <2>1 DEF Updated
  <2>3. ProfileTypeOK'
    <3>1. editor[e].answer \in None .. stored
      BY <1>0 DEF ProfileTypeOK
    <3>2. snapshots' \in [Caches -> None .. stored] /\ retryAfter' \in [Caches -> BOOLEAN]
      BY <1>0, <2>1, <3>1 DEF Updated, ProfileTypeOK
    <3>3. editor' \in [Editors -> [step : {"none", "stored", "got", "done"}, answer : None .. stored]]
      BY <1>0, <1>4 DEF EditTold, ProfileTypeOK
    <3> QED BY <1>0, <2>1, <3>2, <3>3 DEF ProfileTypeOK
  <2>4. AnswersAreFresh' /\ NewHasNothing' /\ LostIsBound'
    BY <1>0, <2>1, <2>2 DEF AnswersAreFresh, NewHasNothing, LostIsBound
  <2>5. ProfileFollowsEdits'
    BY <1>0, <2>1, <2>2 DEF ProfileFollowsEdits, AnswersAreFresh
  <2> QED BY <2>3, <2>4, <2>5 DEF ProfileInv
<1> QED BY <1>1, <1>2, <1>3, <1>4

\* What the caches and the edits hold, and that the answers on their way are fresh.
THEOREM ProfileInvariant == ProfileSpec => []ProfileInv
<1>1. ProfileInit => ProfileInv
  BY ProfileAssumption
     DEF ProfileInit, ProfileInv, ProfileTypeOK, AnswersAreFresh, NewHasNothing, LostIsBound,
         ProfileFollowsEdits, NoLoad, None
<1>2. ProfileInv /\ [ProfileNext]_profileVars => ProfileInv'
  <2>1. ProfileInv /\ UNCHANGED profileVars => ProfileInv'
    BY DEF profileVars, atMemOS, ProfileInv, ProfileTypeOK, AnswersAreFresh, NewHasNothing, LostIsBound,
           ProfileFollowsEdits
  <2> QED BY <2>1, CacheStepMoves, CacheKeepsInv, EditKeepsInv DEF ProfileNext
<1> QED BY <1>1, <1>2, PTL DEF ProfileSpec

\* A cache no edit passed unseen is never older than an edit that was answered, and a load
\* fails only when MemOS did.
THEOREM ProfilesFollow == ProfileSpec => []ProfileFollowsEdits
<1>1. ProfileInv => ProfileFollowsEdits
  BY DEF ProfileInv
<1> QED BY <1>1, ProfileInvariant, PTL

-----------------------------------------------------------------------------
(***************************************************************************)
(* Speech recognition: the segment kept back follows the packets sent, and *)
(* only a recognition that has sent them all tells a final result.         *)
(***************************************************************************)
\* the last sample of the packets sent
SentTo == IF packets = <<>> THEN 0 ELSE packets[Len(packets)].last

\* The segment kept back begins where the packets end, and ends where the buffer begins; it is
\* a full one as long as audio may follow.
SegmentShape ==
    /\ packer = "none" => segment = NoSegment /\ packets = <<>> /\ cut = 0 /\ taken = 0
    /\ Packing =>
          /\ segment = NoSegment => packets = <<>> /\ cut = 0
          /\ segment # NoSegment =>
                /\ segment.first = SentTo + 1 /\ segment.last = cut
                /\ segment.last < segment.first + PacketSize
                /\ packer # "mark" => segment.last = segment.first + PacketSize - 1
          /\ packer \in {"reading", "rest"} => taken - cut < PacketSize
          /\ packer = "mark" => cut = taken

\* The task starts with the stream and no result is told before it. As long as answers are
\* read, the last result told has the last text.
ResultShape ==
    /\ hearing = "connecting" <=> packer = "none" /\ hearing # "ended"
    /\ hearing = "connecting" => results = <<>>
    /\ hearing \notin {"cleaning", "ended"} => result = "none"
    /\ result = "final" => packer = "done"
    /\ hearing \in {"listening", "yielded"} /\ results # <<>> => results[Len(results)].text = latest

RecognitionInv == RecognitionTypeOK /\ SegmentShape /\ ResultShape /\ RecognitionIsWhole

\* A packet that is sent joins the ones before it.
LEMMA PacketJoins ==
  ASSUME RecognitionTypeOK, Gapless, packer # "done", NEW s \in Segments, NEW final \in BOOLEAN, NEW to,
         to = "done" <=> final, Sends(s, final, to),
         s.first = SentTo + 1, s.last < s.first + PacketSize, ~final => s.last = s.first + PacketSize - 1
  PROVE  /\ packets' \in Seq(Packets) /\ Gapless'
         /\ packer' \in {to, "failed"}
         /\ packer' = to /\ to # "failed" => /\ packets' # <<>> /\ packets'[Len(packets')].last = s.last
                                             /\ final => packets'[Len(packets')].number < 0
         /\ packer' # to => packets' = packets
<1>0. packets \in Seq(Packets) /\ Len(packets) \in Nat
  BY DEF RecognitionTypeOK
<1>1. CASE socket # "open"
  <2>1. packer' = "failed" /\ packets' = packets
    BY <1>1 DEF Sends
  <2> QED BY <1>0, <2>1 DEF Gapless
<1>2. CASE socket = "open"
  <2> DEFINE p == [number |-> Number(final), first |-> s.first, last |-> s.last]
  <2>1. packets' = Append(packets, p) /\ packer' = to
    BY <1>2 DEF Sends
  <2>2. p \in Packets /\ p.first = s.first /\ p.last = s.last
        /\ p.number = IF final THEN -(Len(packets) + 2) ELSE Len(packets) + 2
    BY <1>0 DEF Segments, Packets, Number
  <2> HIDE DEF p
  <2>3. /\ packets' \in Seq(Packets) /\ Len(packets') = Len(packets) + 1 /\ DOMAIN packets' = 1 .. Len(packets) + 1
        /\ DOMAIN packets = 1 .. Len(packets)
        /\ \A k \in 1 .. Len(packets) : packets'[k] = packets[k]
        /\ packets'[Len(packets) + 1] = p
    BY <1>0, <2>1, <2>2
  <2>4. ASSUME NEW k \in DOMAIN packets'
        PROVE  /\ packets'[k].first = IF k = 1 THEN 1 ELSE packets'[k - 1].last + 1
               /\ \/ packets'[k].number = k + 1 /\ packets'[k].last = packets'[k].first + PacketSize - 1
                  \/ /\ packets'[k].number = -(k + 1) /\ k = Len(packets') /\ packer' = "done"
                     /\ packets'[k].last < packets'[k].first + PacketSize
    <3>1. CASE k \in DOMAIN packets
      <4>1. packets'[k] = packets[k] /\ (k # 1 => k - 1 \in 1 .. Len(packets))
        BY <1>0, <2>3, <3>1
      <4>2. packets[k].first = IF k = 1 THEN 1 ELSE packets[k - 1].last + 1
        BY <3>1 DEF Gapless
      <4>3. packets[k].number = k + 1 /\ packets[k].last = packets[k].first + PacketSize - 1
        BY <3>1 DEF Gapless
      <4> QED BY <2>3, <4>1, <4>2, <4>3
    <3>2. CASE k = Len(packets) + 1
      <4>1. p.first = IF k = 1 THEN 1 ELSE packets'[k - 1].last + 1
        BY <1>0, <2>2, <2>3, <3>2 DEF SentTo
      <4>2. \/ p.number = k + 1 /\ p.last = p.first + PacketSize - 1
            \/ p.number = -(k + 1) /\ k = Len(packets') /\ packer' = "done" /\ p.last < p.first + PacketSize
        BY <1>0, <2>1, <2>2, <2>3, <3>2
      <4> QED BY <2>3, <3>2, <4>1, <4>2
    <3> QED BY <2>3, <3>1, <3>2
  <2>5. packets' # <<>> /\ packets'[Len(packets')].last = s.last /\ (final => packets'[Len(packets')].number < 0)
    BY <1>0, <2>2, <2>3
  <2>6. Gapless'
    BY <2>4 DEF Gapless
  <2> QED BY <2>1, <2>3, <2>5, <2>6
<1> QED BY <1>1, <1>2
\* Without a final result yet, all that has been told is partial.
LEMMA NothingFinalYet ==
  ASSUME RecognitionInv, result # "final"
  PROVE  \A k \in DOMAIN results : results[k].type = "partial"
<1>1. results \in Seq(Results)
  BY DEF RecognitionInv, RecognitionTypeOK
<1>2. ASSUME NEW k \in DOMAIN results, results[k].type # "partial"
      PROVE  FALSE
  <2>1. results[k] \in Results /\ results # <<>>
    BY <1>1, <1>2
  <2>2. results[k].type = "final"
    BY <1>2, <2>1 DEF Results
  <2>3. k = Len(results)
    BY <1>2, <2>2 DEF RecognitionInv, RecognitionIsWhole
  <2> QED BY <2>1, <2>2, <2>3 DEF RecognitionInv, RecognitionIsWhole
<1> QED BY <1>2

\* What is told does not depend on the packets until the final result.
ToldInOrder ==
    /\ \A k \in DOMAIN results :
          /\ results[k].type = "final" => k = Len(results) /\ AllSent /\ results[k].text = latest
          /\ k > 1 /\ results[k].type = "partial" => results[k].text # results[k - 1].text
    /\ (result = "final") = (results # <<>> /\ results[Len(results)].type = "final")

\* While the task works, the results do not change and none of them is final.
LEMMA PackingTellsNothing ==
  ASSUME RecognitionInv, Packing, UNCHANGED hearingVars, packer' # "none"
  PROVE  ResultShape' /\ ToldInOrder' /\ (hearing' \in {"cleaning", "ended"} => ~Packing')
<1>1. result # "final" /\ packer # "none" /\ hearing \notin {"cleaning", "ended", "connecting"}
  BY DEF RecognitionInv, ResultShape, RecognitionIsWhole, Packing
<1>2. \A k \in DOMAIN results : results[k].type = "partial"
  BY <1>1, NothingFinalYet
<1>3. ResultShape'
  BY <1>1 DEF RecognitionInv, ResultShape, hearingVars
<1>4. \A k \in DOMAIN results :
          k > 1 /\ results[k].type = "partial" => results[k].text # results[k - 1].text
  BY DEF RecognitionInv, RecognitionIsWhole
<1>5. (result = "final") = (results # <<>> /\ results[Len(results)].type = "final")
  BY DEF RecognitionInv, RecognitionIsWhole
<1>6. ToldInOrder'
  BY <1>2, <1>4, <1>5 DEF ToldInOrder, hearingVars
<1> QED BY <1>1, <1>3, <1>6 DEF hearingVars

\* The kept segment goes out and the next one takes its place.
LEMMA KeepsJoins ==
  ASSUME RecognitionInv, Packing, packer # "mark", NEW to \in Nat, NEW next \in {"cutting", "mark"},
         Keeps(to, next), cut < to, to <= taken, to <= cut + PacketSize,
         next = "mark" => to = taken,
         next = "cutting" => to = cut + PacketSize,
         UNCHANGED <<taken, hearingVars, socket, answers, answered>>
  PROVE  RecognitionInv'
<1>0. /\ RecognitionTypeOK /\ Gapless /\ packer \notin {"done", "none"}
      /\ taken \in Nat /\ cut \in Nat /\ packets \in Seq(Packets) /\ segment \in Segments
      /\ taken <= LastSample /\ LastSample \in Nat /\ PacketSize \in Nat \ {0}
  BY RecognitionAssumption DEF RecognitionInv, RecognitionTypeOK, RecognitionIsWhole, Packing
<1>1. segment' = [first |-> cut + 1, last |-> to] /\ cut' = to /\ segment' \in Segments
      /\ segment' # NoSegment
  BY <1>0 DEF Keeps, Segments, NoSegment
<1>2. /\ packets' \in Seq(Packets) /\ Gapless' /\ packer' \in {next, "failed"}
      /\ packer' = next => SentTo' = cut
  <2>1. CASE segment = NoSegment
    <3>1. packets = <<>> /\ cut = 0 /\ packets' = packets /\ packer' = next
      BY <2>1 DEF RecognitionInv, SegmentShape, Keeps
    <3> QED BY <1>0, <3>1 DEF SentTo, Gapless
  <2>2. CASE segment # NoSegment
    <3>1. /\ segment.first = SentTo + 1 /\ segment.last = cut
          /\ segment.last < segment.first + PacketSize
          /\ segment.last = segment.first + PacketSize - 1
      BY <2>2 DEF RecognitionInv, SegmentShape
    <3>2. Sends(segment, FALSE, next)
      BY <2>2 DEF Keeps
    <3>3. /\ packets' \in Seq(Packets) /\ Gapless'
          /\ packer' \in {next, "failed"}
          /\ packer' = next /\ next # "failed" => packets' # <<>> /\ packets'[Len(packets')].last = segment.last
      BY <1>0, <3>1, <3>2, PacketJoins
    <3> QED BY <3>1, <3>3 DEF SentTo
  <2> QED BY <2>1, <2>2
<1>3. RecognitionTypeOK'
  BY <1>0, <1>1, <1>2 DEF RecognitionTypeOK, hearingVars
<1>4. SegmentShape'
  BY <1>0, <1>1, <1>2 DEF SegmentShape, Packing
<1>5. ResultShape' /\ ToldInOrder' /\ (hearing' \in {"cleaning", "ended"} => ~Packing')
  BY <1>2, PackingTellsNothing
<1>6. RecognitionIsWhole'
  BY <1>2, <1>5 DEF RecognitionIsWhole, ToldInOrder
<1> QED BY <1>3, <1>4, <1>5, <1>6 DEF RecognitionInv

\* The task of the audio: a chunk is taken, a packet is cut, the speech is over, what is left
\* is kept, the last packet is sent.
LEMMA PackerKeepsInv ==
  ASSUME RecognitionInv, ChunkTaken \/ PacketCut \/ SpeechOver \/ RestKept \/ LastSent
  PROVE  RecognitionInv'
<1>0. /\ RecognitionTypeOK /\ Gapless /\ SegmentShape
      /\ taken \in Nat /\ cut \in Nat /\ cut <= taken /\ packets \in Seq(Packets) /\ segment \in Segments
      /\ taken <= LastSample /\ LastSample \in Nat /\ PacketSize \in Nat \ {0}
  BY RecognitionAssumption DEF RecognitionInv, RecognitionTypeOK, RecognitionIsWhole
<1>1. CASE ChunkTaken
  <2>1. packer = "reading" /\ packer' = "cutting" /\ taken' \in 0 .. LastSample /\ cut <= taken'
        /\ UNCHANGED <<cut, segment, packets, hearingVars, socket, answers, answered>>
    BY <1>0, <1>1 DEF ChunkTaken
  <2>2. RecognitionTypeOK' /\ SegmentShape' /\ Gapless'
    BY <1>0, <2>1 DEF RecognitionTypeOK, SegmentShape, Gapless, SentTo, Packing, hearingVars
  <2>3. ResultShape' /\ ToldInOrder' /\ (hearing' \in {"cleaning", "ended"} => ~Packing')
    BY <2>1, PackingTellsNothing DEF Packing
  <2> QED BY <2>1, <2>2, <2>3 DEF RecognitionInv, RecognitionIsWhole, ToldInOrder
<1>2. CASE PacketCut
  <2>1. CASE taken - cut < PacketSize
    <3>1. packer = "cutting" /\ packer' = "reading"
          /\ UNCHANGED <<taken, cut, segment, packets, hearingVars, socket, answers, answered>>
      BY <1>2, <2>1 DEF PacketCut
    <3>2. RecognitionTypeOK' /\ SegmentShape' /\ Gapless'
      BY <1>0, <2>1, <3>1 DEF RecognitionTypeOK, SegmentShape, Gapless, SentTo, Packing, hearingVars
    <3>3. ResultShape' /\ ToldInOrder' /\ (hearing' \in {"cleaning", "ended"} => ~Packing')
      BY <3>1, PackingTellsNothing DEF Packing
    <3> QED BY <3>1, <3>2, <3>3 DEF RecognitionInv, RecognitionIsWhole, ToldInOrder
  <2>2. CASE ~(taken - cut < PacketSize)
    <3>1. packer = "cutting" /\ Keeps(cut + PacketSize, "cutting")
          /\ UNCHANGED <<taken, hearingVars, socket, answers, answered>>
      BY <1>2, <2>2 DEF PacketCut
    <3>2. cut + PacketSize \in Nat /\ cut < cut + PacketSize /\ cut + PacketSize <= taken
      BY <1>0, <2>2
    <3>3. Packing /\ packer # "mark"
      BY <3>1 DEF Packing
    <3> QED BY <1>0, <3>1, <3>2, <3>3, KeepsJoins
  <2> QED BY <2>1, <2>2
<1>3. CASE SpeechOver
  <2>1. packer = "reading" /\ packer' = "rest"
        /\ UNCHANGED <<taken, cut, segment, packets, hearingVars, socket, answers, answered>>
    BY <1>3 DEF SpeechOver
  <2>2. RecognitionTypeOK' /\ SegmentShape' /\ Gapless'
    BY <1>0, <2>1 DEF RecognitionTypeOK, SegmentShape, Gapless, SentTo, Packing, hearingVars
  <2>3. ResultShape' /\ ToldInOrder' /\ (hearing' \in {"cleaning", "ended"} => ~Packing')
    BY <2>1, PackingTellsNothing DEF Packing
  <2> QED BY <2>1, <2>2, <2>3 DEF RecognitionInv, RecognitionIsWhole, ToldInOrder
<1>4. CASE RestKept
  <2>1. CASE cut = taken
    <3>1. packer = "rest" /\ packer' = "mark"
          /\ UNCHANGED <<taken, cut, segment, packets, hearingVars, socket, answers, answered>>
      BY <1>4, <2>1 DEF RestKept, Rest
    <3>2. RecognitionTypeOK' /\ SegmentShape' /\ Gapless'
      BY <1>0, <2>1, <3>1 DEF RecognitionTypeOK, SegmentShape, Gapless, SentTo, Packing, hearingVars
    <3>3. ResultShape' /\ ToldInOrder' /\ (hearing' \in {"cleaning", "ended"} => ~Packing')
      BY <3>1, PackingTellsNothing DEF Packing
    <3> QED BY <3>1, <3>2, <3>3 DEF RecognitionInv, RecognitionIsWhole, ToldInOrder
  <2>2. CASE cut # taken
    <3>1. packer = "rest" /\ Keeps(taken, "mark")
          /\ UNCHANGED <<taken, hearingVars, socket, answers, answered>>
      BY <1>4, <2>2 DEF RestKept, Rest
    <3>2. cut < taken /\ taken <= cut + PacketSize
      BY <1>0, <2>2, <3>1 DEF SegmentShape, Packing
    <3>3. Packing /\ packer # "mark"
      BY <3>1 DEF Packing
    <3> QED BY <1>0, <3>1, <3>2, <3>3, KeepsJoins
  <2> QED BY <2>1, <2>2
<1>5. CASE LastSent
  <2> DEFINE s == IF segment = NoSegment THEN [first |-> 1, last |-> 0] ELSE segment
  <2>1. packer = "mark" /\ Sends(s, TRUE, "done")
        /\ UNCHANGED <<taken, cut, segment, hearingVars, socket, answers, answered>>
    BY <1>5 DEF LastSent
  <2>2. s \in Segments /\ s.first = SentTo + 1 /\ s.last = taken /\ s.last < s.first + PacketSize
    BY <1>0, <2>1 DEF SegmentShape, Segments, SentTo, Packing
  <2> HIDE DEF s
  <2>3. /\ packets' \in Seq(Packets) /\ Gapless' /\ packer' \in {"done", "failed"}
        /\ packer' = "done" => /\ packets' # <<>> /\ packets'[Len(packets')].last = s.last
                               /\ packets'[Len(packets')].number < 0
    BY <1>0, <2>1, <2>2, PacketJoins
  <2>4. RecognitionTypeOK' /\ SegmentShape'
    BY <1>0, <2>1, <2>3 DEF RecognitionTypeOK, SegmentShape, Packing, hearingVars
  <2>5. ResultShape' /\ ToldInOrder' /\ (hearing' \in {"cleaning", "ended"} => ~Packing')
    BY <2>1, <2>3, PackingTellsNothing DEF Packing
  <2>6. packer' = "done" => AllSent'
    BY <2>1, <2>2, <2>3 DEF AllSent
  <2> QED BY <2>3, <2>4, <2>5, <2>6 DEF RecognitionInv, RecognitionIsWhole, ToldInOrder
<1> QED BY <1>1, <1>2, <1>3, <1>4, <1>5
\* The task is left alone or cancelled by the stream that ends.
LEMMA StoppedOrNot ==
  ASSUME RecognitionInv, UNCHANGED <<taken, cut, segment, packets>>, packer' \in {packer, PackerStopped}
  PROVE  SegmentShape' /\ Gapless' /\ (packer' = "done" => AllSent') /\ (packer' = "none" <=> packer = "none")
<1>1. packer' = packer \/ (Packing /\ packer' = "cancelled")
  BY DEF PackerStopped
<1>2. SegmentShape'
  BY <1>1 DEF RecognitionInv, SegmentShape, SentTo, Packing
<1>3. Gapless'
  BY <1>1 DEF RecognitionInv, RecognitionIsWhole, Gapless, Packing
<1>4. packer' = "done" => AllSent'
  BY <1>1 DEF RecognitionInv, RecognitionIsWhole, AllSent
<1> QED BY <1>1, <1>2, <1>3, <1>4 DEF Packing

\* An answer is read: a new text becomes the latest, and a partial result when more is to come.
LEMMA ResponseReadKeepsInv ==
  ASSUME RecognitionInv, ResponseRead
  PROVE  RecognitionInv'
<1> DEFINE a == Head(answers)
           changed == a.text \notin {0, latest}
<1>0. /\ RecognitionTypeOK /\ hearing = "listening" /\ result = "none" /\ packer # "none"
      /\ answers' = Tail(answers) /\ answers' \in Seq(Answer)
      /\ a \in Answer /\ results \in Seq(Results)
      /\ UNCHANGED <<taken, cut, segment, packets, socket, answered>>
  BY DEF RecognitionInv, RecognitionTypeOK, ResultShape, ResponseRead
<1>1. a.text \in 0 .. LastText /\ a.type \in {"text", "last", "error"}
  BY <1>0, RecognitionAssumption DEF Answer, Texts, Unreadable
<1>2. \A k \in DOMAIN results : results[k].type = "partial"
  BY <1>0, NothingFinalYet
<1>3. /\ \A k \in DOMAIN results :
            k > 1 /\ results[k].type = "partial" => results[k].text # results[k - 1].text
      /\ results # <<>> => results[Len(results)].text = latest
  BY <1>0 DEF RecognitionInv, RecognitionIsWhole, ResultShape
<1>4. packer' \in {packer, PackerStopped}
  BY DEF ResponseRead, Cleans
<1>5. SegmentShape' /\ Gapless' /\ (packer' = "done" => AllSent') /\ packer' # "none"
  BY <1>0, <1>4, StoppedOrNot
<1>6. packer' \in {packer, "cancelled"}
  BY <1>4 DEF PackerStopped
<1>7. CASE a.type = "error"
  <2>1. hearing' = "cleaning" /\ result' = "failed" /\ packer' = PackerStopped /\ UNCHANGED <<latest, results>>
    BY <1>7 DEF ResponseRead, Cleans
  <2>2. RecognitionTypeOK'
    BY <1>0, <1>6, <2>1 DEF RecognitionTypeOK
  <2>3. ResultShape'
    BY <1>5, <2>1 DEF ResultShape
  <2>4. ~Packing'
    BY <2>1 DEF Packing, PackerStopped
  <2>5. ToldInOrder'
    BY <1>0, <1>2, <1>3, <2>1 DEF ToldInOrder
  <2> QED BY <1>5, <2>2, <2>3, <2>4, <2>5 DEF RecognitionInv, RecognitionIsWhole, ToldInOrder
<1>8. CASE a.type # "error"
  <2>1. /\ latest' = IF changed THEN a.text ELSE latest
        /\ hearing' = CASE a.type = "last" -> "awaiting" [] a.type = "text" /\ changed -> "yielded" [] OTHER -> "listening"
        /\ IF a.type = "text" /\ changed THEN Yields("partial") ELSE UNCHANGED results
        /\ UNCHANGED <<result, packer>>
    BY <1>8 DEF ResponseRead
  <2>2. latest' \in 0 .. LastText
    BY <1>0, <1>1, <2>1 DEF RecognitionTypeOK
  <2>3. CASE a.type = "text" /\ changed
    <3> DEFINE y == [type |-> "partial", text |-> latest']
    <3>1. hearing' = "yielded" /\ results' = Append(results, y) /\ y \in Results /\ latest' # latest
      BY <2>1, <2>2, <2>3 DEF Yields, Results
    <3>2. y.type = "partial" /\ y.text = latest'
      OBVIOUS
    <3> HIDE DEF y
    <3>3. /\ results' \in Seq(Results) /\ Len(results) \in Nat /\ Len(results') = Len(results) + 1
          /\ DOMAIN results = 1 .. Len(results) /\ DOMAIN results' = 1 .. Len(results) + 1
          /\ \A k \in DOMAIN results : results'[k] = results[k]
          /\ results'[Len(results) + 1] = y
      BY <1>0, <3>1
    <3>4. RecognitionTypeOK'
      BY <1>0, <2>1, <2>2, <3>1, <3>3 DEF RecognitionTypeOK
    <3>5. ResultShape'
      BY <1>0, <1>5, <2>1, <3>1, <3>2, <3>3 DEF ResultShape
    <3>6. ASSUME NEW k \in DOMAIN results'
          PROVE  results'[k].type = "partial" /\ (k > 1 => results'[k].text # results'[k - 1].text)
      <4>1. CASE k \in DOMAIN results
        BY <1>2, <1>3, <3>3, <4>1
      <4>2. CASE k = Len(results) + 1
        <5>1. results'[k] = y
          BY <3>3, <4>2
        <5>2. ASSUME k > 1 PROVE results'[k - 1].text = latest
          BY <1>0, <1>3, <3>3, <4>2, <5>2
        <5> QED BY <3>1, <3>2, <5>1, <5>2
      <4> QED BY <3>3, <4>1, <4>2
    <3>7. result' = "none" /\ results' # <<>> /\ Len(results') \in DOMAIN results'
      BY <1>0, <2>1, <3>3
    <3>8. ToldInOrder'
      BY <3>6, <3>7 DEF ToldInOrder
    <3> QED BY <1>5, <3>1, <3>4, <3>5, <3>8 DEF RecognitionInv, RecognitionIsWhole, ToldInOrder
  <2>4. CASE ~(a.type = "text" /\ changed)
    <3>1. /\ results' = results /\ hearing' \in {"awaiting", "listening"}
          /\ hearing' = "listening" => latest' = latest
      <4>1. CASE a.type = "last"
        BY <2>1, <4>1
      <4>2. CASE a.type = "text" /\ ~changed
        BY <2>1, <4>2
      <4> QED BY <1>1, <1>8, <2>4, <4>1, <4>2
    <3>2. RecognitionTypeOK'
      BY <1>0, <2>1, <2>2, <3>1 DEF RecognitionTypeOK
    <3>3. ResultShape'
      BY <1>0, <1>3, <1>5, <2>1, <3>1 DEF ResultShape
    <3>4. result' = "none" /\ (results # <<>> => Len(results) \in DOMAIN results)
      BY <1>0, <2>1
    <3>5. ToldInOrder'
      BY <1>2, <1>3, <3>1, <3>4 DEF ToldInOrder
    <3> QED BY <1>5, <3>1, <3>2, <3>3, <3>5 DEF RecognitionInv, RecognitionIsWhole, ToldInOrder
  <2> QED BY <2>3, <2>4
<1> QED BY <1>7, <1>8

\* The recognition ends without a final result.
LEMMA CleansKeepsInv ==
  ASSUME RecognitionInv, NEW how \in {"failed", "left"}, Cleans(how),
         hearing \in {"listening", "yielded", "awaiting"},
         UNCHANGED <<taken, cut, segment, packets, latest, results, socket, answers, answered>>
  PROVE  RecognitionInv'
<1>1. RecognitionTypeOK /\ result = "none" /\ packer # "none" /\ results \in Seq(Results)
  BY DEF RecognitionInv, RecognitionTypeOK, ResultShape
<1>2. hearing' = "cleaning" /\ result' = how /\ packer' = PackerStopped
  BY DEF Cleans
<1>3. SegmentShape' /\ Gapless' /\ (packer' = "done" => AllSent') /\ packer' # "none"
  BY <1>1, <1>2, StoppedOrNot
<1>4. RecognitionTypeOK' /\ ~Packing'
  BY <1>1, <1>2 DEF RecognitionTypeOK, Packing, PackerStopped
<1>5. ResultShape'
  BY <1>2, <1>3 DEF ResultShape
<1>6. \A k \in DOMAIN results : results[k].type = "partial"
  BY <1>1, NothingFinalYet
<1>7. results # <<>> => Len(results) \in DOMAIN results
  BY <1>1
<1>8. \A k \in DOMAIN results :
          k > 1 /\ results[k].type = "partial" => results[k].text # results[k - 1].text
  BY DEF RecognitionInv, RecognitionIsWhole
<1>9. ToldInOrder'
  BY <1>2, <1>6, <1>7, <1>8 DEF ToldInOrder
<1> QED BY <1>3, <1>4, <1>5, <1>9 DEF RecognitionInv, RecognitionIsWhole, ToldInOrder

\* The final result is told when the task has ended by itself.
LEMMA SenderEndsKeepsInv ==
  ASSUME RecognitionInv, SenderEnds
  PROVE  RecognitionInv'
<1>0. RecognitionTypeOK /\ hearing = "awaiting" /\ result = "none" /\ results \in Seq(Results)
  BY DEF RecognitionInv, RecognitionTypeOK, ResultShape, SenderEnds
<1>1. CASE packer = "failed" /\ Cleans("failed") /\ UNCHANGED <<latest, results>>
  BY <1>0, <1>1, CleansKeepsInv DEF SenderEnds
<1>2. CASE AudioSent /\ UNCHANGED latest /\ Yields("final") /\ Cleans("final")
  <2> DEFINE y == [type |-> "final", text |-> latest]
  <2>1. /\ packer = "done" /\ packer' = "done" /\ hearing' = "cleaning" /\ result' = "final"
        /\ latest' = latest /\ results' = Append(results, y)
        /\ UNCHANGED <<taken, cut, segment, packets, socket, answers, answered>>
    BY <1>2 DEF SenderEnds, AudioSent, Yields, Cleans, PackerStopped, Packing
  <2>2. y \in Results /\ y.type = "final" /\ y.text = latest
    BY <1>0 DEF RecognitionTypeOK, Results
  <2> HIDE DEF y
  <2>3. /\ results' \in Seq(Results) /\ Len(results) \in Nat /\ Len(results') = Len(results) + 1
        /\ DOMAIN results = 1 .. Len(results) /\ DOMAIN results' = 1 .. Len(results) + 1
        /\ \A k \in DOMAIN results : results'[k] = results[k]
        /\ results'[Len(results) + 1] = y
    BY <1>0, <2>1, <2>2
  <2>4. SegmentShape' /\ Gapless' /\ (packer' = "done" => AllSent')
    BY <2>1, StoppedOrNot
  <2>5. RecognitionTypeOK'
    BY <1>0, <2>1, <2>3 DEF RecognitionTypeOK
  <2>6. ResultShape'
    BY <2>1 DEF ResultShape
  <2>7. \A k \in DOMAIN results : /\ results[k].type = "partial"
                                  /\ k > 1 => results[k].text # results[k - 1].text
    BY <1>0, NothingFinalYet DEF RecognitionInv, RecognitionIsWhole
  <2>8. ASSUME NEW k \in DOMAIN results'
        PROVE  /\ results'[k].type = "final" => k = Len(results') /\ results'[k].text = latest'
               /\ k > 1 /\ results'[k].type = "partial" => results'[k].text # results'[k - 1].text
    <3>1. CASE k \in DOMAIN results
      <4>1. results'[k] = results[k] /\ (k > 1 => results'[k - 1] = results[k - 1])
        BY <2>3, <3>1
      <4> QED BY <2>7, <3>1, <4>1
    <3>2. CASE k = Len(results) + 1
      <4>1. results'[k] = y
        BY <2>3, <3>2
      <4> QED BY <2>1, <2>2, <2>3, <3>2, <4>1
    <3> QED BY <2>3, <3>1, <3>2
  <2>9. results' # <<>> /\ results'[Len(results')].type = "final"
    BY <2>2, <2>3
  <2>10. ToldInOrder' /\ ~Packing'
    BY <2>1, <2>4, <2>8, <2>9 DEF ToldInOrder, Packing
  <2> QED BY <2>4, <2>5, <2>6, <2>10 DEF RecognitionInv, RecognitionIsWhole, ToldInOrder
<1> QED BY <1>1, <1>2 DEF SenderEnds

\* The provider, and the stream that starts, goes on or is over.
LEMMA OthersKeepInv ==
  ASSUME RecognitionInv,
         \/ Connect \/ HandshakeFails \/ ProviderAnswers \/ ProviderCloses
         \/ ConsumerGoesOn \/ ConsumerLeaves \/ StreamEnds
  PROVE  RecognitionInv'
<1>1. RecognitionTypeOK /\ SegmentShape /\ ResultShape /\ RecognitionIsWhole
  BY DEF RecognitionInv
<1>2. ASSUME hearing = "connecting" PROVE packer = "none" /\ results = <<>> /\ result = "none"
             /\ segment = NoSegment /\ packets = <<>> /\ cut = 0 /\ taken = 0
  BY <1>1, <1>2 DEF SegmentShape, ResultShape
<1>3. CASE Connect
  <2>1. RecognitionTypeOK'
    BY <1>1, <1>3 DEF Connect, RecognitionTypeOK
  <2>2. SegmentShape' /\ ResultShape'
    BY <1>1, <1>2, <1>3, RecognitionAssumption DEF Connect, SegmentShape, ResultShape, Packing
  <2>3. RecognitionIsWhole'
    BY <1>2, <1>3 DEF Connect, RecognitionIsWhole, Gapless
  <2> QED BY <2>1, <2>2, <2>3 DEF RecognitionInv
<1>4. CASE HandshakeFails \/ (hearing = "connecting" /\ ConsumerLeaves)
  <2>1. /\ hearing = "connecting" /\ hearing' = "ended" /\ result' \in {"failed", "left"}
        /\ UNCHANGED <<packerVars, latest, results, socket, answers, answered>>
    BY <1>4 DEF HandshakeFails, ConsumerLeaves, packerVars
  <2>2. RecognitionTypeOK'
    BY <1>1, <2>1 DEF RecognitionTypeOK, packerVars
  <2>3. SegmentShape' /\ ResultShape'
    BY <1>1, <1>2, <2>1 DEF SegmentShape, ResultShape, Packing, packerVars
  <2>4. RecognitionIsWhole'
    BY <1>2, <2>1 DEF RecognitionIsWhole, Gapless, Packing, packerVars
  <2> QED BY <2>2, <2>3, <2>4 DEF RecognitionInv
<1>5. CASE hearing # "connecting" /\ ConsumerLeaves
  BY <1>5, CleansKeepsInv DEF ConsumerLeaves
<1>6. CASE ProviderAnswers \/ ProviderCloses \/ ConsumerGoesOn \/ StreamEnds
  <2>1. UNCHANGED <<packerVars, result, latest, results>>
    BY <1>6 DEF ProviderAnswers, ProviderCloses, ConsumerGoesOn, StreamEnds, hearingVars
  <2>2. \/ hearing' = hearing
        \/ hearing = "yielded" /\ hearing' = "listening"
        \/ hearing = "cleaning" /\ hearing' = "ended"
    BY <1>6 DEF ProviderAnswers, ProviderCloses, ConsumerGoesOn, StreamEnds, hearingVars
  <2>3. socket' \in {"open", "closed"} /\ answers' \in Seq(Answer) /\ answered' \in 0 .. MaxAnswers
    <3>1. CASE ProviderAnswers
      BY <1>1, <3>1, RecognitionAssumption DEF ProviderAnswers, RecognitionTypeOK
    <3>2. CASE ProviderCloses \/ ConsumerGoesOn \/ StreamEnds
      BY <1>1, <3>2 DEF ProviderCloses, ConsumerGoesOn, StreamEnds, RecognitionTypeOK
    <3> QED BY <1>6, <3>1, <3>2
  <2>4. RecognitionTypeOK'
    BY <1>1, <2>1, <2>2, <2>3 DEF RecognitionTypeOK, packerVars
  <2>5. SegmentShape'
    BY <1>1, <2>1 DEF SegmentShape, SentTo, Packing, packerVars
  <2>6. ResultShape'
    BY <1>1, <2>1, <2>2 DEF ResultShape, packerVars
  <2>7. RecognitionIsWhole'
    BY <1>1, <2>1, <2>2 DEF RecognitionIsWhole, Gapless, AllSent, Packing, packerVars
  <2> QED BY <2>4, <2>5, <2>6, <2>7 DEF RecognitionInv
<1> QED BY <1>3, <1>4, <1>5, <1>6

\* The shapes of the segment kept back and of what has been told hold in every state, for any
\* packet size and any number of samples and answers (DoubaoStreamingASR).
THEOREM RecognitionInvariant == RecognitionSpec => []RecognitionInv
<1>1. RecognitionInit => RecognitionInv
  <2> SUFFICES ASSUME RecognitionInit PROVE RecognitionInv
    OBVIOUS
  <2>1. RecognitionTypeOK
    BY RecognitionAssumption DEF RecognitionInit, RecognitionTypeOK, Segments, NoSegment
  <2>2. SegmentShape /\ ResultShape
    BY DEF RecognitionInit, SegmentShape, ResultShape, Packing
  <2>3. RecognitionIsWhole
    BY DEF RecognitionInit, RecognitionIsWhole, Gapless, Packing
  <2> QED BY <2>1, <2>2, <2>3 DEF RecognitionInv
<1>2. RecognitionInv /\ [RecognitionNext]_recognitionVars => RecognitionInv'
  <2> SUFFICES ASSUME RecognitionInv, [RecognitionNext]_recognitionVars PROVE RecognitionInv'
    OBVIOUS
  <2>1. CASE RecognitionNext
    <3>1. CASE ChunkTaken \/ PacketCut \/ SpeechOver \/ RestKept \/ LastSent
      BY <3>1, PackerKeepsInv
    <3>2. CASE ReceiveFails
      BY <3>2, CleansKeepsInv DEF ReceiveFails
    <3> QED BY <2>1, <3>1, <3>2, ResponseReadKeepsInv, SenderEndsKeepsInv, OthersKeepInv DEF RecognitionNext
  <2>2. CASE UNCHANGED recognitionVars
    <3>1. UNCHANGED <<packer, taken, cut, segment, packets, hearing, result, latest, results, socket, answers, answered>>
      BY <2>2 DEF recognitionVars, packerVars, hearingVars
    <3>2. RecognitionTypeOK' /\ SegmentShape' /\ ResultShape'
      BY <3>1 DEF RecognitionInv, RecognitionTypeOK, SegmentShape, SentTo, ResultShape, Packing
    <3>3. RecognitionIsWhole'
      BY <3>1 DEF RecognitionInv, RecognitionIsWhole, Gapless, AllSent, Packing
    <3> QED BY <3>2, <3>3 DEF RecognitionInv
  <2> QED BY <2>1, <2>2
<1> QED BY <1>1, <1>2, PTL DEF RecognitionSpec

\* The provider is given the whole utterance in order and its end once; a final result is the
\* last told, and only when all of the audio has been sent; the task of a recognition that has
\* ended sends no more (DoubaoStreamingASR).
THEOREM RecognitionStaysWhole == RecognitionSpec => []RecognitionIsWhole
<1>1. RecognitionInv => RecognitionIsWhole
  BY DEF RecognitionInv
<1> QED BY <1>1, RecognitionInvariant, PTL
-----------------------------------------------------------------------------
(***************************************************************************)
(* The reply: the marks that end the text and the audio come last, what    *)
(* was put and what was heard add up to the text that was made, and until  *)
(* the first text nothing is spoken.                                       *)
(***************************************************************************)
Early == stage \in {"preload", "model", "text", "tool", "action"}
Speaking == voice \in {"open", "start", "frame"}
TextEndings == {"text_end", "text_failure"}
TextOutputs == {"text", "action"} \cup TextEndings
VoiceOutputs == AudioOutputs \cup {"voice_end"}
Silence == {"audio_failed", "voice_end"}

\* A tool is run only of what is offered, and after the first only its follow-ups are.
ToolShape ==
    /\ Len(used) <= toolCalls
    /\ stage = "tool" => Len(calls) = 1 /\ Len(used) < toolCalls
    /\ stage \in {"preload", "model", "text", "tool"} /\ Len(used) = 1 => offered \subseteq FollowUps[used[1]]
    /\ ToolsAreDeclared

TextCount == reader # "left" => Said(heard) + Said(outputs) + (IF stage = "text" THEN 1 ELSE 0) = texts

\* After the end of the text there is no more of it.
TextFlow ==
    /\ \A i \in DOMAIN outputs : outputs[i] \in TextEndings =>
          /\ stage = "done" /\ "text" \notin stopped
          /\ \A j \in DOMAIN outputs : j > i => outputs[j] \notin TextOutputs
    /\ "text" \in stopped => stage = "done" /\ \A i \in DOMAIN outputs : outputs[i] \notin TextOutputs

\* After the end of the voice there is no more of it, and nothing after a closing but that end.
VoiceFlow ==
    /\ \A i \in DOMAIN outputs : outputs[i] = "voice_end" =>
          /\ voice = "done" /\ "voice" \notin stopped
          /\ \A j \in DOMAIN outputs : j > i => outputs[j] \notin VoiceOutputs
    /\ "voice" \in stopped => voice = "done" /\ \A i \in DOMAIN outputs : outputs[i] \notin VoiceOutputs
    /\ \A i \in DOMAIN outputs : outputs[i] \in Closings =>
          voice \in {"over", "done"} /\ \A j \in DOMAIN outputs : j > i => outputs[j] \notin AudioOutputs
    /\ \A i \in DOMAIN heard : heard[i] \in Closings =>
          /\ voice \in {"over", "done"}
          /\ \A j \in DOMAIN heard : j > i => heard[j] \notin AudioOutputs
          /\ \A j \in DOMAIN outputs : outputs[j] \notin AudioOutputs
    /\ voice \in {"over", "done"} /\ reader # "left" /\ spoken > 0 =>
          (\E i \in DOMAIN outputs : outputs[i] \in Closings) \/ (\E i \in DOMAIN heard : heard[i] \in Closings)

\* The session and its task live as long as the voice speaks, and the task ends after the text.
SessionShape ==
    /\ talker = "running" \/ ttsSession = "started" => Speaking
    /\ Early => (Speaking => talker # "done") /\ \A i \in DOMAIN speech : speech[i] # "end"
    /\ reader \in {"completed", "failed"} => {"text", "voice"} \subseteq stopped
    /\ reader = "left" => voice = "done" /\ stage = "done"

\* Until there is text nothing is spoken, and an action comes without text.
ActionShape ==
    /\ Early /\ texts = 0 =>
          /\ speech = <<>> /\ spoken = 0 /\ frames = 0 /\ voice \notin {"start", "frame", "end"}
          /\ \A i \in DOMAIN outputs : outputs[i] \in Silence
          /\ \A i \in DOMAIN heard : heard[i] = "audio_failed"
    /\ stage \in {"preload", "model", "text"} => texts = roundTexts
    /\ stage \in {"tool", "action"} => texts = 0
    /\ \A i \in DOMAIN outputs : outputs[i] = "action" =>
          /\ \A j \in DOMAIN outputs : (j < i => outputs[j] \in Silence) /\ (j # i => outputs[j] # "action")
          /\ \A j \in DOMAIN heard : heard[j] = "audio_failed"
    /\ \A i \in DOMAIN heard : heard[i] = "action" =>
          reader \in {"leaving", "left"} /\ \A j \in DOMAIN heard : heard[j] \in {"action", "audio_failed"}

ReplyInv == ReplyTypeOK /\ ToolShape /\ TextCount /\ TextFlow /\ VoiceFlow /\ SessionShape /\ ActionShape

\* Counting the text in a sequence: it is finite, and an output more counts when it is text.
LEMMA SaidOfPut ==
  ASSUME NEW s \in Seq(Outputs), NEW o \in Outputs
  PROVE  /\ Said(s) \in Nat
         /\ Said(Append(s, o)) = Said(s) + (IF o = "text" THEN 1 ELSE 0)
<1> DEFINE T == {i \in DOMAIN s : s[i] = "text"}
           U == {i \in DOMAIN Append(s, o) : Append(s, o)[i] = "text"}
<1>1. Len(s) \in Nat /\ DOMAIN s = 1 .. Len(s)
  OBVIOUS
<1>2. IsFiniteSet(1 .. Len(s)) /\ T \in SUBSET (1 .. Len(s))
  BY <1>1, FS_Interval
<1>3. IsFiniteSet(T) /\ Cardinality(T) \in Nat
  BY <1>2, FS_Subset, FS_CardinalityType
<1>4. /\ DOMAIN Append(s, o) = 1 .. Len(s) + 1
      /\ \A i \in 1 .. Len(s) : Append(s, o)[i] = s[i]
      /\ Append(s, o)[Len(s) + 1] = o
  OBVIOUS
<1>5. U = IF o = "text" THEN T \cup {Len(s) + 1} ELSE T
  BY <1>1, <1>4
<1>6. Len(s) + 1 \notin T
  BY <1>1
<1>7. Cardinality(T \cup {Len(s) + 1}) = Cardinality(T) + 1
  BY <1>3, <1>6, FS_AddElement
<1> HIDE DEF T, U
<1>8. Cardinality(U) = Cardinality(T) + (IF o = "text" THEN 1 ELSE 0)
  BY <1>3, <1>5, <1>7
<1> QED BY <1>3, <1>8 DEF T, U, Said

\* An output less counts when it was text.
LEMMA SaidOfTail ==
  ASSUME NEW s \in Seq(Outputs), s # <<>>
  PROVE  /\ Said(Tail(s)) \in Nat
         /\ Said(s) = Said(Tail(s)) + (IF Head(s) = "text" THEN 1 ELSE 0)
<1> DEFINE n == Len(s)
           t == Tail(s)
           T == {i \in DOMAIN t : t[i] = "text"}
           V == {i \in 2 .. n : s[i] = "text"}
           U == {i \in DOMAIN s : s[i] = "text"}
           f == [i \in T |-> i + 1]
<1>1. /\ n \in Nat /\ n >= 1 /\ DOMAIN s = 1 .. n
      /\ t \in Seq(Outputs) /\ DOMAIN t = 1 .. n - 1
      /\ \A i \in 1 .. n - 1 : t[i] = s[i + 1]
      /\ Head(s) = s[1]
  OBVIOUS
<1> HIDE DEF n, t
<1>2. IsFiniteSet(1 .. n - 1) /\ T \in SUBSET (1 .. n - 1)
  BY <1>1, FS_Interval
<1>3. IsFiniteSet(T) /\ Cardinality(T) \in Nat
  BY <1>2, FS_Subset, FS_CardinalityType
<1>4. f \in Bijection(T, V)
  <2>1. \A i \in T : i + 1 \in V
    BY <1>1
  <2>2. f \in [T -> V] /\ \A a, b \in T : f[a] = f[b] => a = b
    BY <1>1, <2>1
  <2>3. \A v \in V : v - 1 \in T /\ f[v - 1] = v
    BY <1>1
  <2> HIDE DEF f, T, V
  <2> QED BY <2>2, <2>3 DEF Bijection, Injection, Surjection, IsInjective
<1>5. IsFiniteSet(V) /\ Cardinality(V) = Cardinality(T)
  BY <1>3, <1>4, FS_Bijection DEF ExistsBijection
<1>6. U = IF Head(s) = "text" THEN V \cup {1} ELSE V
  BY <1>1
<1>7. 1 \notin V
  OBVIOUS
<1>8. Cardinality(V \cup {1}) = Cardinality(V) + 1
  BY <1>5, <1>7, FS_AddElement
<1> HIDE DEF T, U, V
<1>9. Cardinality(U) = Cardinality(T) + (IF Head(s) = "text" THEN 1 ELSE 0)
  BY <1>3, <1>5, <1>6, <1>8
<1>10. Said(s) = Cardinality(U) /\ Said(t) = Cardinality(T)
  BY DEF Said, U, T
<1> QED BY <1>3, <1>9, <1>10 DEF t

\* What is put and what is left to speak keep their types.
LEMMA PutKeepsType ==
  ASSUME ReplyTypeOK, NEW o \in Outputs, outputs' = Append(outputs, o)
  PROVE  outputs' \in Seq(Outputs) /\ (Room => Len(outputs') <= OutputSize)
<1>1. outputs \in Seq(Outputs) /\ Len(outputs) \in Nat /\ OutputSize \in Nat
  BY ReplyAssumption DEF ReplyTypeOK
<1>2. outputs' \in Seq(Outputs) /\ Len(outputs') = Len(outputs) + 1
  BY <1>1
<1> QED BY <1>1, <1>2 DEF Room

LEMMA EndKeepsType ==
  ASSUME ReplyTypeOK, NEW how, TextEnds(how)
  PROVE  stage' = how /\ speech' \in Seq({"segment", "end"})
<1>1. speech \in Seq({"segment", "end"})
  BY DEF ReplyTypeOK
<1>2. /\ Append(speech, "end") \in Seq({"segment", "end"})
      /\ speech \o <<"segment", "end">> \in Seq({"segment", "end"})
  BY <1>1
<1>3. speech' \in {Append(speech, "end"), speech \o <<"segment", "end">>}
  BY DEF TextEnds
<1> QED BY <1>2, <1>3 DEF TextEnds

\* The types: every value goes where it may.
LEMMA ReplyTypesKept ==
  ASSUME ReplyTypeOK, SessionShape, ToolShape, [ReplyNext]_replyVars
  PROVE  ReplyTypeOK'
<1>0. /\ MaxTexts \in Nat /\ MaxAudio \in Nat /\ OutputSize \in Nat /\ OutputSize >= 1
      /\ texts \in Nat /\ roundTexts \in Nat /\ toolCalls \in Nat /\ frames \in Nat /\ spoken \in Nat
      /\ Len(outputs) \in Nat
  BY ReplyAssumption DEF ReplyTypeOK
<1> USE DEF ReplyTypeOK, textSide, voiceSide, readSide
<1>1. CASE Preloaded
  BY <1>1 DEF Preloaded
<1>2. CASE ModelSpeaks
  BY <1>0, <1>2 DEF ModelSpeaks
<1>3. CASE ModelCalls
  BY <1>3 DEF ModelCalls
<1>4. CASE TextPut
  <2>1. outputs' = Append(outputs, "text") /\ "text" \in Outputs /\ Room
    BY <1>4 DEF TextPut, Outputs
  <2>2. outputs' \in Seq(Outputs) /\ Len(outputs') <= OutputSize
    BY <2>1, PutKeepsType
  <2>3. speech' \in Seq({"segment", "end"})
    <3>1. speech \in Seq({"segment", "end"}) /\ Append(speech, "segment") \in Seq({"segment", "end"})
      OBVIOUS
    <3>2. speech' \in {speech, Append(speech, "segment")}
      BY <1>4 DEF TextPut
    <3> QED BY <3>1, <3>2
  <2> QED BY <1>4, <2>2, <2>3 DEF TextPut
<1>5. CASE RoundEnds
  <2>1. CASE stage' = "tool" /\ UNCHANGED speech
    BY <1>0, <1>5, <2>1 DEF RoundEnds, TooMany, TextEnds
  <2>2. CASE \E how \in {"ended", "failing"} : TextEnds(how) /\ toolCalls' = toolCalls
    <3>1. stage' \in {"ended", "failing"} /\ speech' \in Seq({"segment", "end"})
      BY <2>2, EndKeepsType
    <3> QED BY <1>5, <2>2, <3>1 DEF RoundEnds
  <2> QED BY <1>5, <2>1, <2>2 DEF RoundEnds
<1>6. CASE ToolReturns
  <2>1. used' \in Seq(Tools)
    <3>1. used \in Seq(Tools) /\ offered \subseteq Tools
      OBVIOUS
    <3>2. calls[1] \in offered => Append(used, calls[1]) \in Seq(Tools)
      BY <3>1
    <3> QED BY <1>6, <3>1, <3>2 DEF ToolReturns
  <2>2. offered' \subseteq Tools /\ calls' \in Seq(Tools) /\ roundTexts' \in 0 .. texts
        /\ stage' \in {"action", "model"}
    <3>1. /\ offered' \in {offered, Following(calls[1]), {}} /\ calls' \in {calls, <<>>}
          /\ roundTexts' \in {roundTexts, 0} /\ stage' \in {"action", "model"}
      BY <1>6 DEF ToolReturns, NextRound
    <3>2. offered \subseteq Tools /\ Following(calls[1]) \subseteq Tools /\ calls \in Seq(Tools) /\ <<>> \in Seq(Tools)
      BY DEF Following
    <3>3. offered' \subseteq Tools
      BY <3>1, <3>2
    <3>4. roundTexts' \in 0 .. texts
      BY <1>0, <3>1
    <3>5. calls' \in Seq(Tools)
      BY <3>1, <3>2
    <3> QED BY <3>1, <3>3, <3>4, <3>5
  <2> QED BY <1>6, <2>1, <2>2 DEF ToolReturns
<1>7. CASE ActionPut
  <2>1. outputs' = Append(outputs, "action") /\ "action" \in Outputs /\ Room /\ TextEnds("ended")
    BY <1>7 DEF ActionPut, Outputs
  <2>2. outputs' \in Seq(Outputs) /\ Len(outputs') <= OutputSize
    BY <2>1, PutKeepsType
  <2>3. stage' = "ended" /\ speech' \in Seq({"segment", "end"})
    BY <2>1, EndKeepsType
  <2> QED BY <1>7, <2>2, <2>3 DEF ActionPut
<1>8. CASE TextFails
  <2>1. stage' = "failing" /\ speech' \in Seq({"segment", "end"})
    BY <1>8, EndKeepsType DEF TextFails
  <2> QED BY <1>8, <2>1 DEF TextFails
<1>9. CASE TextDone
  BY <1>0, <1>9 DEF TextDone, Announces, Room, Outputs
<1>10. CASE SessionOpens
  BY <1>10 DEF SessionOpens
<1>11. CASE Speaks
  BY <1>0, <1>11 DEF Speaks
<1>12. CASE FrameArrives
  BY <1>0, <1>12 DEF FrameArrives
<1>13. CASE SessionFinishes
  BY <1>13 DEF SessionFinishes
<1>14. CASE SessionFails
  BY <1>14 DEF SessionFails, LeftSession
<1>15. CASE VoicePut
  <2>1. PICK o \in Outputs : outputs' = Append(outputs, o)
    BY <1>15 DEF VoicePut, Outputs
  <2> QED BY <1>0, <1>15, <2>1 DEF VoicePut, Room
<1>16. CASE Reads
  BY <1>0, <1>16 DEF Reads
<1>17. CASE ActionTaken \/ TurnLeaves
  BY <1>17 DEF ActionTaken, TurnLeaves, Leaves, LeftSession
<1>18. CASE UNCHANGED replyVars
  BY <1>18 DEF replyVars
<1> QED BY <1>1, <1>2, <1>3, <1>4, <1>5, <1>6, <1>7, <1>8, <1>9, <1>10, <1>11, <1>12, <1>13, <1>14, <1>15,
           <1>16, <1>17, <1>18 DEF ReplyNext, ReplyProgress

\* The rounds of the model put nothing out.
RoundStep == Preloaded \/ ModelSpeaks \/ ModelCalls \/ RoundEnds \/ ToolReturns \/ TextFails

LEMMA RoundStepKeepsInv ==
  ASSUME ReplyInv, RoundStep, ReplyTypeOK'
  PROVE  ReplyInv'
<1>0. /\ ReplyTypeOK /\ ToolShape /\ TextCount /\ TextFlow /\ VoiceFlow /\ SessionShape /\ ActionShape
      /\ texts \in Nat /\ roundTexts \in Nat /\ toolCalls \in Nat /\ used \in Seq(Tools) /\ Len(used) \in Nat
      /\ offered \subseteq Tools
  BY SMTT(30) DEF ReplyInv, ReplyTypeOK
<1>1. Early /\ stage # "text" /\ stage # "action" /\ UNCHANGED <<outputs, voiceSide, readSide>>
  BY DEF RoundStep, Preloaded, ModelSpeaks, ModelCalls, RoundEnds, ToolReturns, TextFails, Early
<1>2. UNCHANGED <<outputs, heard, reader, stopped, voice, talker, ttsSession, spoken, frames>>
  BY <1>1 DEF voiceSide, readSide
<1>3. Early' => speech' = speech
  BY <1>1 DEF RoundStep, Preloaded, ModelSpeaks, ModelCalls, RoundEnds, ToolReturns, TextFails, TextEnds, Early
<1>4. \/ stage' = "text" /\ texts' = texts + 1
      \/ stage' # "text" /\ texts' = texts
  BY <1>1 DEF RoundStep, Preloaded, ModelSpeaks, ModelCalls, RoundEnds, ToolReturns, TextFails, TextEnds,
              NextRound, Early
<1>5. ToolShape'
  <2>1. CASE Preloaded \/ ModelSpeaks \/ ModelCalls
    <3>1. /\ stage \in {"preload", "model"} /\ stage' \in {"model", "text"}
          /\ UNCHANGED <<offered, used, toolCalls>>
      BY <2>1 DEF Preloaded, ModelSpeaks, ModelCalls
    <3> QED BY <1>0, <3>1 DEF ToolShape, ToolsAreDeclared
  <2>2. CASE RoundEnds \/ TextFails
    <3>1. /\ stage \in {"model", "tool"} /\ UNCHANGED <<offered, used, calls>>
          /\ \/ stage' \in {"ended", "failing"} /\ toolCalls' = toolCalls
             \/ /\ stage = "model" /\ stage' = "tool" /\ toolCalls' = toolCalls + 1
                /\ calls # <<>> /\ ~(Len(calls) > 1)
      BY <2>2 DEF RoundEnds, TextFails, TextEnds
    <3>2. calls \in Seq(Tools)
      BY <1>0 DEF ReplyTypeOK
    <3>3. stage' = "tool" => Len(calls') = 1
      <4>1. Len(calls) \in Nat /\ (calls # <<>> => Len(calls) # 0)
        BY <3>2
      <4> QED BY SMTT(30), <3>1, <4>1
    <3>4. Len(used) <= toolCalls /\ ToolsAreDeclared
      BY <1>0, <3>1 DEF ToolShape
    <3> QED BY <1>0, <3>1, <3>3, <3>4 DEF ToolShape, ToolsAreDeclared
  <2>3. CASE ToolReturns
    <3> DEFINE t == calls[1]
    <3>1. /\ stage = "tool" /\ toolCalls' = toolCalls /\ toolCalls \in 0 .. 2
          /\ used' = IF t \in offered THEN Append(used, t) ELSE used
          /\ stage' \in {"action", "model"}
          /\ stage' = "model" => offered' \in {{}, Following(t)}
      BY <1>0, <2>3 DEF ToolReturns, NextRound, ReplyTypeOK
    <3>2. Len(used) < toolCalls /\ (Len(used) = 1 => offered \subseteq FollowUps[used[1]])
      BY <1>0, <3>1 DEF ToolShape
    <3>3. CASE t \in offered /\ used = <<>>
      <4>1. used' = <<t>> /\ Len(used') = 1 /\ used'[1] = t
        BY <3>1, <3>3
      <4>2. Following(t) \subseteq FollowUps[t]
        BY DEF Following
      <4> QED BY <1>0, <3>1, <3>2, <4>1, <4>2 DEF ToolShape, ToolsAreDeclared
    <3>4. CASE t \in offered /\ used # <<>>
      <4>0. Len(used) # 0
        BY <1>0, <3>4
      <4>1. Len(used) = 1 /\ toolCalls = 2
        <5>1. toolCalls \in 0 .. 2 /\ Len(used) \in Nat /\ Len(used) < toolCalls
          BY <1>0, <3>1, <3>2
        <5> HIDE DEF t
        <5> QED BY <4>0, <5>1
      <4>a. t \in Tools
        BY <1>0, <3>4
      <4> HIDE DEF t
      <4>2. used' = Append(used, t) /\ Len(used') = 2 /\ used'[1] = used[1] /\ used'[2] = t
        BY <1>0, <3>1, <3>4, <4>1, <4>a
      <4> QED BY <3>1, <3>2, <3>4, <4>1, <4>2 DEF ToolShape, ToolsAreDeclared
    <3>5. CASE t \notin offered
      <4>1. used' = used /\ Following(t) = {}
        BY <3>1, <3>5 DEF Following
      <4> QED BY <1>0, <3>1, <3>2, <4>1 DEF ToolShape, ToolsAreDeclared
    <3> QED BY <3>3, <3>4, <3>5
  <2> QED BY <2>1, <2>2, <2>3 DEF RoundStep
<1>6. TextCount'
  <2>1. Said(heard) \in Nat /\ Said(outputs) \in Nat
    BY <1>0, SaidOfPut DEF ReplyTypeOK, Outputs
  <2>2. reader # "left" => Said(heard) + Said(outputs) = texts
    BY <1>0, <1>1, <2>1 DEF TextCount
  <2>3. heard' = heard /\ outputs' = outputs /\ reader' = reader
    BY <1>2
  <2>4. Said(heard)' = Said(heard) /\ Said(outputs)' = Said(outputs)
    BY <2>3
  <2> QED BY <1>0, <1>4, <2>1, <2>2, <2>3, <2>4 DEF TextCount
<1>7. TextFlow'
  BY <1>0, <1>1, <1>2 DEF TextFlow, Early
<1>8. VoiceFlow'
  BY <1>0, <1>2 DEF VoiceFlow
<1>9. SessionShape'
  <2>1. reader # "left"
    BY <1>0, <1>1 DEF SessionShape, Early
  <2> QED BY <1>0, <1>1, <1>2, <1>3, <2>1 DEF SessionShape, Speaking
<1>10. ActionShape'
  <2>1. texts' = 0 => texts = 0
    BY <1>0, <1>4
  <2>2. stage' \in {"preload", "model", "text"} => texts' = roundTexts'
    <3>1. CASE Preloaded \/ ModelSpeaks \/ ModelCalls
      BY <1>0, <3>1 DEF Preloaded, ModelSpeaks, ModelCalls, ActionShape
    <3>2. CASE RoundEnds \/ TextFails
      BY <3>2 DEF RoundEnds, TextFails, TextEnds
    <3>3. CASE ToolReturns
      BY <1>0, <3>3 DEF ToolReturns, NextRound, ActionShape
    <3> QED BY <3>1, <3>2, <3>3 DEF RoundStep
  <2>3. stage' \in {"tool", "action"} => texts' = 0
    <3>1. CASE Preloaded \/ ModelSpeaks \/ ModelCalls \/ TextFails
      BY <3>1 DEF Preloaded, ModelSpeaks, ModelCalls, TextFails, TextEnds
    <3>2. CASE RoundEnds
      BY <1>0, <3>2 DEF RoundEnds, TextEnds, Mixed, ActionShape
    <3>3. CASE ToolReturns
      BY <1>0, <3>3 DEF ToolReturns, ActionShape
    <3> QED BY <3>1, <3>2, <3>3 DEF RoundStep
  <2> QED BY <1>0, <1>1, <1>2, <1>3, <2>1, <2>2, <2>3 DEF ActionShape
<1> QED BY <1>5, <1>6, <1>7, <1>8, <1>9, <1>10 DEF ReplyInv

\* What is in a sequence with one element more.
LEMMA AppendEntries ==
  ASSUME NEW S, NEW s \in Seq(S), NEW e \in S
  PROVE  \A i \in DOMAIN Append(s, e) : Append(s, e)[i] = e \/ (i \in DOMAIN s /\ Append(s, e)[i] = s[i])
<1> DEFINE a == Append(s, e)
           n == Len(s)
<1>1. /\ n \in Nat /\ DOMAIN s = 1 .. n /\ DOMAIN a = 1 .. n + 1 /\ a[n + 1] = e
      /\ \A i \in 1 .. n : a[i] = s[i]
  OBVIOUS
<1> HIDE DEF a, n
<1>2. \A i \in DOMAIN a : a[i] = e \/ (i \in DOMAIN s /\ a[i] = s[i])
  BY <1>1
<1> QED BY <1>2 DEF a

\* The voice goes on without putting anything out.
VoiceStep == SessionOpens \/ Speaks \/ FrameArrives \/ SessionFinishes \/ SessionFails

LEMMA VoiceStepKeepsInv ==
  ASSUME ReplyInv, VoiceStep, ReplyTypeOK'
  PROVE  ReplyInv'
<1>0. /\ ReplyTypeOK /\ ToolShape /\ TextCount /\ TextFlow /\ VoiceFlow /\ SessionShape /\ ActionShape
      /\ spoken \in Nat /\ frames \in Nat
  BY DEF ReplyInv, ReplyTypeOK
<1>1. UNCHANGED <<stage, offered, calls, roundTexts, used, toolCalls, texts, outputs, stopped, reader, heard>>
  BY DEF VoiceStep, SessionOpens, Speaks, FrameArrives, SessionFinishes, SessionFails, textSide, readSide
<1>2. /\ voice \notin {"over", "done"} /\ voice' # "done"
      /\ voice' = "over" => spoken' = 0
  BY <1>0 DEF VoiceStep, SessionOpens, Speaks, FrameArrives, SessionFinishes, SessionFails, SessionShape, Speaking
<1>3. /\ \A i \in DOMAIN outputs : outputs[i] # "voice_end" /\ outputs[i] \notin Closings
      /\ \A i \in DOMAIN heard : heard[i] \notin Closings
      /\ "voice" \notin stopped /\ reader # "left"
  BY <1>0, <1>2 DEF VoiceFlow, SessionShape
<1>4. ToolShape'
  BY <1>0, <1>1 DEF ToolShape, ToolsAreDeclared
<1>5. TextCount'
  BY <1>0, <1>1 DEF TextCount, Said
<1>6. TextFlow'
  BY <1>0, <1>1 DEF TextFlow
<1>7. VoiceFlow'
  BY <1>0, <1>1, <1>2, <1>3 DEF VoiceFlow
<1>8. SessionShape' /\ ActionShape'
  <2>1. CASE SessionOpens
    BY <1>0, <1>1, <2>1 DEF SessionOpens, SessionShape, ActionShape, Speaking, Early
  <2>2. CASE Speaks
    <3>1. Speaking /\ UNCHANGED <<voice, ttsSession, frames>> /\ speech # <<>> /\ speech' = Tail(speech)
          /\ talker' \in {"running", "done"} /\ (talker' = "done" => Head(speech) = "end")
      BY <1>0, <2>2 DEF Speaks, SessionShape
    <3>2. /\ Head(speech) = speech[1] /\ 1 \in DOMAIN speech
          /\ \A i \in DOMAIN speech' : i + 1 \in DOMAIN speech /\ speech'[i] = speech[i + 1]
      BY SMTT(30), <1>0, <3>1 DEF ReplyTypeOK
    <3>3. SessionShape'
      BY <1>0, <1>1, <3>1, <3>2 DEF SessionShape, Speaking, Early
    <3>4. ~(Early /\ texts = 0)
      BY <1>0, <3>1 DEF ActionShape
    <3> QED BY <1>0, <1>1, <3>3, <3>4 DEF ActionShape, Early
  <2>3. CASE FrameArrives
    BY <1>0, <1>1, <2>3 DEF FrameArrives, SessionShape, ActionShape, Speaking, Early
  <2>4. CASE SessionFinishes
    BY <1>0, <1>1, <2>4 DEF SessionFinishes, SessionShape, ActionShape, Speaking, Early
  <2>5. CASE SessionFails
    BY <1>0, <1>1, <2>5 DEF SessionFails, SessionShape, ActionShape, Speaking, Early, LeftSession, ReplyTypeOK
  <2> QED BY <2>1, <2>2, <2>3, <2>4, <2>5 DEF VoiceStep
<1> QED BY <1>4, <1>5, <1>6, <1>7, <1>8 DEF ReplyInv

\* An output is put at the end of the queue.
LEMMA PutFacts ==
  ASSUME ReplyTypeOK, NEW o \in Outputs, outputs' = Append(outputs, o)
  PROVE  /\ Len(outputs) \in Nat /\ DOMAIN outputs = 1 .. Len(outputs)
         /\ DOMAIN outputs' = 1 .. Len(outputs) + 1
         /\ \A i \in DOMAIN outputs : outputs'[i] = outputs[i] /\ i # Len(outputs) + 1 /\ i < Len(outputs) + 1
         /\ outputs'[Len(outputs) + 1] = o
         /\ \A i \in DOMAIN outputs' : i \in DOMAIN outputs \/ i = Len(outputs) + 1
         /\ Said(outputs') = Said(outputs) + (IF o = "text" THEN 1 ELSE 0)
         /\ Said(outputs) \in Nat /\ Said(heard) \in Nat
<1>1. outputs \in Seq(Outputs) /\ heard \in Seq(Outputs)
  BY DEF ReplyTypeOK
<1>2. Said(outputs') = Said(Append(outputs, o)) /\ Said(heard) \in Nat
  BY <1>1, SaidOfPut
<1> QED BY <1>1, <1>2, SaidOfPut

\* The text puts a delta, an action or its end.
LEMMA TextPutKeepsInv ==
  ASSUME ReplyInv, TextPut \/ ActionPut \/ TextDone, ReplyTypeOK'
  PROVE  ReplyInv'
<1>0. /\ ReplyTypeOK /\ ToolShape /\ TextCount /\ TextFlow /\ VoiceFlow /\ SessionShape /\ ActionShape
      /\ texts \in Nat
  BY DEF ReplyInv, ReplyTypeOK
<1>1. PICK o \in TextOutputs : outputs' = Append(outputs, o)
        /\ \/ stage = "text" /\ stage' = "model" /\ o = "text"
           \/ stage = "action" /\ stage' = "ended" /\ o = "action"
           \/ stage \in {"ended", "failing"} /\ stage' = "done" /\ o \in TextEndings
  BY DEF TextPut, ActionPut, TextDone, Announces, TextEnds, TextOutputs, TextEndings
<1>2. /\ UNCHANGED <<offered, calls, roundTexts, used, toolCalls, texts>>
      /\ UNCHANGED <<voice, talker, ttsSession, spoken, frames, stopped, reader, heard>>
  BY DEF TextPut, ActionPut, TextDone, TextEnds, voiceSide, readSide
<1>3. /\ o \in Outputs /\ o \notin VoiceOutputs /\ o \notin Closings /\ o \notin Silence
      /\ (o = "text" \/ o = "action" \/ o \in TextEndings)
  BY DEF TextOutputs, TextEndings, VoiceOutputs, AudioOutputs, Closings, Silence, Outputs
<1> DEFINE n == Len(outputs) + 1
<1>4. /\ \A i \in DOMAIN outputs : outputs'[i] = outputs[i] /\ i \in DOMAIN outputs' /\ i < n /\ i # n /\ ~(n < i)
      /\ outputs'[n] = o /\ n \in DOMAIN outputs'
      /\ \A i \in DOMAIN outputs' : i \in DOMAIN outputs \/ i = n
      /\ ~(n < n)
      /\ Said(outputs') = Said(outputs) + (IF o = "text" THEN 1 ELSE 0)
      /\ Said(outputs) \in Nat /\ Said(heard) \in Nat
  BY <1>0, <1>1, <1>3, PutFacts
<1> HIDE DEF n
<1>5. stage # "done" /\ "text" \notin stopped /\ \A i \in DOMAIN outputs : outputs[i] \notin TextEndings
  BY <1>0, <1>1 DEF TextFlow
<1>6. ToolShape'
  BY <1>0, <1>1, <1>2 DEF ToolShape, ToolsAreDeclared
<1>7. TextCount'
  <2>1. CASE o = "text"
    <3>1. stage = "text" /\ stage' = "model"
      BY <1>1, <2>1 DEF TextEndings
    <3> QED BY <1>0, <1>2, <1>4, <2>1, <3>1 DEF TextCount
  <2>2. CASE o # "text"
    <3>1. stage # "text" /\ stage' # "text"
      BY <1>1, <2>2
    <3> QED BY <1>0, <1>2, <1>4, <2>2, <3>1 DEF TextCount
  <2> QED BY <2>1, <2>2
<1>8. TextFlow'
  <2>1. o \in TextEndings => stage' = "done"
    BY <1>1 DEF TextEndings
  <2>2. ASSUME NEW i \in DOMAIN outputs', outputs'[i] \in TextEndings
        PROVE  i = n /\ stage' = "done"
    BY <1>3, <1>4, <1>5, <2>1, <2>2
  <2>3. \A j \in DOMAIN outputs' : ~(j > n)
    BY <1>4
  <2> QED BY <1>2, <1>5, <2>2, <2>3 DEF TextFlow
<1>9. VoiceFlow'
  <2>1. \A i \in DOMAIN outputs' : outputs'[i] = "voice_end" =>
          /\ voice = "done" /\ "voice" \notin stopped
          /\ \A j \in DOMAIN outputs' : j > i => outputs'[j] \notin VoiceOutputs
    BY <1>0, <1>3, <1>4 DEF VoiceFlow, VoiceOutputs
  <2>2. "voice" \in stopped => voice = "done" /\ \A i \in DOMAIN outputs' : outputs'[i] \notin VoiceOutputs
    BY <1>0, <1>3, <1>4 DEF VoiceFlow
  <2>3. \A i \in DOMAIN outputs' : outputs'[i] \in Closings =>
          voice \in {"over", "done"} /\ \A j \in DOMAIN outputs' : j > i => outputs'[j] \notin AudioOutputs
    BY <1>0, <1>3, <1>4 DEF VoiceFlow, VoiceOutputs
  <2>4. \A i \in DOMAIN heard : heard[i] \in Closings =>
          /\ voice \in {"over", "done"}
          /\ \A j \in DOMAIN heard : j > i => heard[j] \notin AudioOutputs
          /\ \A j \in DOMAIN outputs' : outputs'[j] \notin AudioOutputs
    BY <1>0, <1>3, <1>4 DEF VoiceFlow, VoiceOutputs
  <2>5. voice \in {"over", "done"} /\ reader # "left" /\ spoken > 0 =>
          (\E i \in DOMAIN outputs' : outputs'[i] \in Closings) \/ (\E i \in DOMAIN heard : heard[i] \in Closings)
    BY <1>0, <1>4 DEF VoiceFlow
  <2> QED BY <1>2, <2>1, <2>2, <2>3, <2>4, <2>5 DEF VoiceFlow
<1>10. SessionShape'
  <2>1. Early' => Early /\ \A i \in DOMAIN speech' : speech'[i] # "end"
    <3>1. ASSUME Early' PROVE stage = "text" /\ speech' \in {speech, Append(speech, "segment")}
      <4>1. stage = "text" /\ o = "text"
        BY <1>1, <3>1 DEF Early
      <4> QED BY <4>1 DEF TextPut, ActionPut, TextDone, Announces
    <3>2. Early' => Early
      BY <3>1 DEF Early
    <3>3. speech \in Seq({"segment", "end"})
      BY <1>0 DEF ReplyTypeOK
    <3>4. \A i \in DOMAIN Append(speech, "segment") :
             \/ Append(speech, "segment")[i] = "segment"
             \/ i \in DOMAIN speech /\ Append(speech, "segment")[i] = speech[i]
      <4> DEFINE S == {"segment", "end"}
      <4>1. speech \in Seq(S) /\ "segment" \in S
        BY <3>3
      <4> HIDE DEF S
      <4> QED BY <4>1, AppendEntries
    <3> QED BY <1>0, <3>1, <3>2, <3>4 DEF SessionShape
  <2>2. reader # "left"
    BY <1>0, <1>1, <1>5 DEF SessionShape
  <2> QED BY <1>0, <1>2, <2>1, <2>2 DEF SessionShape, Speaking
<1>11. ActionShape'
  <2>1. stage = "text" => texts > 0
    BY <1>0, <1>4 DEF TextCount, SessionShape
  <2>2. /\ ~(Early' /\ texts' = 0)
        /\ stage' \in {"preload", "model", "text"} => stage = "text"
        /\ stage' \notin {"tool", "action"}
    BY <1>1, <1>2, <2>1 DEF Early
  <2>3. stage = "text" => texts = roundTexts
    BY <1>0 DEF ActionShape
  <2>4. ASSUME NEW i \in DOMAIN outputs', outputs'[i] = "action"
        PROVE  /\ \A j \in DOMAIN outputs' : (j < i => outputs'[j] \in Silence) /\ (j # i => outputs'[j] # "action")
               /\ \A j \in DOMAIN heard : heard[j] = "audio_failed"
    <3>1. CASE i = n
      <4>1. o = "action" /\ stage = "action" /\ texts = 0
        BY <1>0, <1>1, <1>4, <2>4, <3>1 DEF TextEndings, ActionShape
      <4>2. /\ \A j \in DOMAIN outputs : outputs[j] \in Silence
            /\ \A j \in DOMAIN heard : heard[j] = "audio_failed"
        BY <1>0, <4>1 DEF ActionShape, Early
      <4> QED BY <1>4, <3>1, <4>2 DEF Silence
    <3>2. CASE i \in DOMAIN outputs
      <4>1. outputs[i] = "action" /\ i < n
        BY <1>4, <2>4, <3>2
      <4>2. /\ \A j \in DOMAIN outputs : (j < i => outputs[j] \in Silence) /\ (j # i => outputs[j] # "action")
            /\ \A j \in DOMAIN heard : heard[j] = "audio_failed"
        BY <1>0, <3>2, <4>1 DEF ActionShape
      <4>3. stage # "action"
        <5>1. ASSUME stage = "action" PROVE outputs[i] \in Silence
          BY <1>0, <3>2, <5>1 DEF ActionShape, Early
        <5> QED BY <4>1, <5>1 DEF Silence
      <4>4. o # "action"
        BY <1>1, <4>3 DEF TextEndings
      <4>5. ~(n < i)
        BY <1>0, <1>4, <3>2
      <4> QED BY <1>4, <3>2, <4>2, <4>4, <4>5
    <3> QED BY <1>4, <3>1, <3>2
  <2> QED BY <1>0, <1>2, <2>2, <2>3, <2>4 DEF ActionShape
<1> QED BY <1>6, <1>7, <1>8, <1>9, <1>10, <1>11 DEF ReplyInv

\* The voice puts its start, a frame, a closing or its end.
LEMMA VoicePutKeepsInv ==
  ASSUME ReplyInv, VoicePut, ReplyTypeOK'
  PROVE  ReplyInv'
<1>0. /\ ReplyTypeOK /\ ToolShape /\ TextCount /\ TextFlow /\ VoiceFlow /\ SessionShape /\ ActionShape
  BY DEF ReplyInv
<1>1. PICK o \in VoiceOutputs : outputs' = Append(outputs, o)
        /\ \/ voice = "start" /\ voice' = "frame" /\ o = "audio_start"
           \/ voice = "frame" /\ voice' = "open" /\ o = "audio_frame"
           \/ voice \in {"end", "failure"} /\ voice' = "over" /\ o \in Closings /\ (voice = "failure" => o = "audio_failed")
           \/ voice = "over" /\ voice' = "done" /\ o = "voice_end"
  BY DEF VoicePut, VoiceOutputs, AudioOutputs, Closings
<1>2. UNCHANGED <<stage, offered, calls, roundTexts, used, toolCalls, texts, speech, talker, ttsSession, spoken, frames,
                  stopped, reader, heard>>
  BY DEF VoicePut, textSide, readSide
<1>3. /\ o \in Outputs /\ o \notin TextOutputs /\ o \notin TextEndings /\ o # "text" /\ o # "action"
      /\ (o = "voice_end" \/ o \in AudioOutputs)
  BY DEF TextOutputs, TextEndings, VoiceOutputs, AudioOutputs, Outputs
<1> DEFINE n == Len(outputs) + 1
<1>4. /\ \A i \in DOMAIN outputs : outputs'[i] = outputs[i] /\ i \in DOMAIN outputs' /\ i < n /\ i # n /\ ~(n < i)
      /\ outputs'[n] = o /\ n \in DOMAIN outputs'
      /\ \A i \in DOMAIN outputs' : i \in DOMAIN outputs \/ i = n
      /\ ~(n < n)
      /\ Said(outputs') = Said(outputs)
      /\ Said(outputs) \in Nat
  BY <1>0, <1>1, <1>3, PutFacts
<1> HIDE DEF n
<1>5. /\ voice # "done" /\ "voice" \notin stopped /\ reader # "left"
      /\ \A i \in DOMAIN outputs : outputs[i] # "voice_end"
  BY <1>0, <1>1 DEF VoiceFlow, SessionShape
<1>6. voice # "over" => /\ \A i \in DOMAIN outputs : outputs[i] \notin Closings
                        /\ \A i \in DOMAIN heard : heard[i] \notin Closings
  BY <1>0, <1>5 DEF VoiceFlow
<1>7. ToolShape'
  BY <1>0, <1>2 DEF ToolShape, ToolsAreDeclared
<1>8. TextCount'
  BY <1>0, <1>2, <1>4 DEF TextCount
<1>9. TextFlow'
  BY <1>0, <1>2, <1>3, <1>4 DEF TextFlow
<1>10. VoiceFlow'
  <2>1. ASSUME NEW i \in DOMAIN outputs', outputs'[i] = "voice_end"
        PROVE  i = n /\ voice' = "done"
    <3>1. i = n /\ o = "voice_end"
      BY <1>4, <1>5, <2>1
    <3> QED BY <1>1, <3>1 DEF Closings
  <2>2. ASSUME NEW i \in DOMAIN outputs', outputs'[i] \in Closings
        PROVE  /\ voice' \in {"over", "done"}
               /\ \A j \in DOMAIN outputs' : j > i => outputs'[j] \notin AudioOutputs
    <3>1. CASE i = n
      <4>1. voice' = "over"
        BY <1>1, <1>4, <2>2, <3>1 DEF Closings
      <4> QED BY <1>4, <3>1, <4>1
    <3>2. CASE i \in DOMAIN outputs
      <4>1. voice = "over" /\ voice' = "done" /\ o = "voice_end"
        BY <1>1, <1>4, <1>6, <2>2, <3>2
      <4>2. \A j \in DOMAIN outputs : j > i => outputs[j] \notin AudioOutputs
        BY <1>0, <1>4, <2>2, <3>2 DEF VoiceFlow
      <4>3. "voice_end" \notin AudioOutputs
        BY DEF AudioOutputs
      <4> QED BY <1>4, <4>1, <4>2, <4>3
    <3> QED BY <1>4, <3>1, <3>2
  <2>3. ASSUME NEW i \in DOMAIN heard, heard[i] \in Closings
        PROVE  /\ voice' \in {"over", "done"}
               /\ \A j \in DOMAIN heard : j > i => heard[j] \notin AudioOutputs
               /\ \A j \in DOMAIN outputs' : outputs'[j] \notin AudioOutputs
    <3>1. voice = "over" /\ voice' = "done" /\ o = "voice_end"
      BY <1>1, <1>6, <2>3
    <3>2. "voice_end" \notin AudioOutputs
      BY DEF AudioOutputs
    <3>3. /\ \A j \in DOMAIN heard : j > i => heard[j] \notin AudioOutputs
          /\ \A j \in DOMAIN outputs : outputs[j] \notin AudioOutputs
      BY <1>0, <2>3 DEF VoiceFlow
    <3> QED BY <1>4, <3>1, <3>2, <3>3
  <2>4. voice' \in {"over", "done"} /\ spoken > 0 =>
          (\E i \in DOMAIN outputs' : outputs'[i] \in Closings) \/ (\E i \in DOMAIN heard : heard[i] \in Closings)
    <3>1. CASE o \in Closings
      BY <1>4, <3>1
    <3>2. CASE voice = "over"
      BY <1>0, <1>4, <1>5, <3>2 DEF VoiceFlow
    <3> QED BY <1>1, <3>1, <3>2
  <2>5. \A i \in DOMAIN outputs' : ~(i > n)
    BY <1>4
  <2> QED BY <1>2, <1>5, <2>1, <2>2, <2>3, <2>4, <2>5 DEF VoiceFlow
<1>11. SessionShape'
  BY <1>0, <1>1, <1>2, <1>5 DEF SessionShape, Speaking, Early
<1>12. ActionShape'
  <2>1. ASSUME Early, texts = 0
        PROVE  /\ voice' \notin {"start", "frame", "end"}
               /\ \A i \in DOMAIN outputs' : outputs'[i] \in Silence
    <3>1. voice \notin {"start", "frame", "end"} /\ \A i \in DOMAIN outputs : outputs[i] \in Silence
      BY <1>0, <2>1 DEF ActionShape
    <3>2. o \in Silence /\ voice' \in {"over", "done"}
      BY <1>1, <3>1 DEF Silence, Closings
    <3> QED BY <1>4, <3>1, <3>2
  <2>2. ASSUME NEW i \in DOMAIN outputs', outputs'[i] = "action"
        PROVE  /\ \A j \in DOMAIN outputs' : (j < i => outputs'[j] \in Silence) /\ (j # i => outputs'[j] # "action")
               /\ \A j \in DOMAIN heard : heard[j] = "audio_failed"
    <3>1. i \in DOMAIN outputs /\ outputs[i] = "action" /\ ~(n < i)
      BY <1>3, <1>4, <2>2
    <3>2. /\ \A j \in DOMAIN outputs : (j < i => outputs[j] \in Silence) /\ (j # i => outputs[j] # "action")
          /\ \A j \in DOMAIN heard : heard[j] = "audio_failed"
      BY <1>0, <3>1 DEF ActionShape
    <3> QED BY <1>3, <1>4, <3>1, <3>2
  <2> QED BY <1>0, <1>2, <2>1, <2>2 DEF ActionShape, Early
<1> QED BY <1>7, <1>8, <1>9, <1>10, <1>11, <1>12 DEF ReplyInv

\* The turn task reads the oldest output and hears it unless it only marks an end.
LEMMA ReadsKeepsInv ==
  ASSUME ReplyInv, Reads, ReplyTypeOK'
  PROVE  ReplyInv'
<1>0. /\ ReplyTypeOK /\ ToolShape /\ TextCount /\ TextFlow /\ VoiceFlow /\ SessionShape /\ ActionShape
      /\ outputs \in Seq(Outputs) /\ heard \in Seq(Outputs) /\ texts \in Nat
  BY SMTT(30) DEF ReplyInv, ReplyTypeOK
<1>1. PICK o \in Outputs :
        /\ o = Head(outputs) /\ reader = "reading" /\ outputs # <<>> /\ outputs' = Tail(outputs)
        /\ IF o \in {"text_end", "voice_end"} THEN heard' = heard ELSE heard' = Append(heard, o)
        /\ stopped' = IF o \in TextEndings THEN stopped \cup {"text"}
                      ELSE IF o = "voice_end" THEN stopped \cup {"voice"} ELSE stopped
        /\ reader' \in {"leaving", "reading", "failed", "completed"}
        /\ reader' = "leaving" <=> o = "action"
        /\ reader' \in {"failed", "completed"} => {"text", "voice"} \subseteq stopped'
  <2> DEFINE o == Head(outputs)
  <2>1. o \in Outputs /\ reader = "reading" /\ outputs # <<>> /\ outputs' = Tail(outputs)
    BY <1>0 DEF Reads
  <2>2. IF o \in {"text_end", "voice_end"} THEN heard' = heard ELSE heard' = Append(heard, o)
    BY DEF Reads
  <2>3. stopped' = IF o \in TextEndings THEN stopped \cup {"text"}
                   ELSE IF o = "voice_end" THEN stopped \cup {"voice"} ELSE stopped
    BY DEF Reads, TextEndings
  <2>4. /\ reader' \in {"leaving", "reading", "failed", "completed"}
        /\ reader' = "leaving" <=> o = "action"
        /\ reader' \in {"failed", "completed"} => BothStopped(stopped')
    BY DEF Reads
  <2> QED BY <2>1, <2>2, <2>3, <2>4 DEF BothStopped
<1>2. UNCHANGED <<stage, offered, calls, roundTexts, used, toolCalls, texts, speech,
                  voice, talker, ttsSession, spoken, frames>>
  BY DEF Reads, textSide, voiceSide
<1>3. /\ outputs[1] = o /\ 1 \in DOMAIN outputs
      /\ \A i \in DOMAIN outputs' : outputs'[i] = outputs[i + 1] /\ i + 1 \in DOMAIN outputs /\ i + 1 > 1 /\ i \in Nat
      /\ \A i \in DOMAIN outputs : i = 1 \/ (i - 1 \in DOMAIN outputs' /\ outputs'[i - 1] = outputs[i])
  <2>1. /\ Len(outputs) \in Nat /\ Len(outputs) >= 1 /\ DOMAIN outputs = 1 .. Len(outputs)
        /\ DOMAIN outputs' = 1 .. Len(outputs) - 1
        /\ \A i \in 1 .. Len(outputs) - 1 : outputs'[i] = outputs[i + 1]
        /\ outputs[1] = o
    BY <1>0, <1>1
  <2> QED BY <2>1
<1> DEFINE n == Len(heard) + 1
<1>4. /\ \A i \in DOMAIN heard : i \in DOMAIN heard' /\ heard'[i] = heard[i] /\ i < n /\ ~(n < i)
      /\ o \notin {"text_end", "voice_end"} => n \in DOMAIN heard' /\ heard'[n] = o
      /\ \A i \in DOMAIN heard' : i \in DOMAIN heard \/ (i = n /\ heard'[i] = o /\ o \notin {"text_end", "voice_end"})
      /\ ~(n < n)
  <2>1. Len(heard) \in Nat /\ DOMAIN heard = 1 .. Len(heard)
    BY <1>0
  <2>2. CASE heard' = heard /\ o \in {"text_end", "voice_end"}
    BY <2>1, <2>2
  <2>3. CASE heard' = Append(heard, o) /\ o \notin {"text_end", "voice_end"}
    <3>1. DOMAIN heard' = 1 .. n /\ heard'[n] = o /\ \A i \in 1 .. Len(heard) : heard'[i] = heard[i]
      BY <1>0, <2>3
    <3> QED BY <2>1, <2>3, <3>1
  <2> QED BY <1>1, <2>2, <2>3
<1> HIDE DEF n
<1>5. ToolShape'
  BY <1>0, <1>2 DEF ToolShape, ToolsAreDeclared
<1>6. TextCount'
  <2>1. /\ Said(outputs) = Said(outputs') + (IF o = "text" THEN 1 ELSE 0) /\ Said(outputs') \in Nat
        /\ Said(heard) \in Nat
    BY <1>0, <1>1, SaidOfTail, SaidOfPut
  <2>2. Said(heard') = Said(heard) + (IF o = "text" THEN 1 ELSE 0)
    <3>1. CASE o \in {"text_end", "voice_end"}
      BY <1>1, <2>1, <3>1
    <3>2. CASE o \notin {"text_end", "voice_end"}
      BY <1>0, <1>1, <3>2, SaidOfPut
    <3> QED BY <3>1, <3>2
  <2>3. reader # "left" /\ Said(heard) + Said(outputs) + (IF stage = "text" THEN 1 ELSE 0) = texts
    BY <1>0, <1>1 DEF TextCount
  <2> QED BY <1>2, <2>1, <2>2, <2>3 DEF TextCount
<1>7. TextFlow'
  <2>1. ASSUME NEW i \in DOMAIN outputs', outputs'[i] \in TextEndings
        PROVE  /\ stage = "done" /\ "text" \notin stopped'
               /\ \A j \in DOMAIN outputs' : j > i => outputs'[j] \notin TextOutputs
    <3>1. /\ stage = "done" /\ "text" \notin stopped
          /\ \A j \in DOMAIN outputs : j > i + 1 => outputs[j] \notin TextOutputs
      BY <1>0, <1>3, <2>1 DEF TextFlow
    <3>2. o \notin TextEndings
      BY <1>0, <1>3, <2>1 DEF TextFlow, TextOutputs
    <3> QED BY <1>1, <1>3, <3>1, <3>2
  <2>2. ASSUME "text" \in stopped'
        PROVE  stage = "done" /\ \A i \in DOMAIN outputs' : outputs'[i] \notin TextOutputs
    <3>1. o \in TextEndings \/ "text" \in stopped
      BY <1>1, <2>2
    <3> QED BY <1>0, <1>3, <3>1 DEF TextFlow
  <2> QED BY <1>2, <2>1, <2>2 DEF TextFlow
<1>8. VoiceFlow'
  <2>1. ASSUME NEW i \in DOMAIN outputs', outputs'[i] = "voice_end"
        PROVE  /\ voice = "done" /\ "voice" \notin stopped'
               /\ \A j \in DOMAIN outputs' : j > i => outputs'[j] \notin VoiceOutputs
    <3>1. /\ voice = "done" /\ "voice" \notin stopped
          /\ \A j \in DOMAIN outputs : j > i + 1 => outputs[j] \notin VoiceOutputs
      BY <1>0, <1>3, <2>1 DEF VoiceFlow
    <3>2. o # "voice_end"
      BY <1>0, <1>3, <2>1 DEF VoiceFlow, VoiceOutputs
    <3> QED BY <1>1, <1>3, <3>1, <3>2
  <2>2. ASSUME "voice" \in stopped'
        PROVE  voice = "done" /\ \A i \in DOMAIN outputs' : outputs'[i] \notin VoiceOutputs
    <3>1. o = "voice_end" \/ "voice" \in stopped
      BY <1>1, <2>2
    <3> QED BY <1>0, <1>3, <3>1 DEF VoiceFlow
  <2>3. ASSUME NEW i \in DOMAIN outputs', outputs'[i] \in Closings
        PROVE  /\ voice \in {"over", "done"}
               /\ \A j \in DOMAIN outputs' : j > i => outputs'[j] \notin AudioOutputs
    <3>1. /\ voice \in {"over", "done"}
          /\ \A j \in DOMAIN outputs : j > i + 1 => outputs[j] \notin AudioOutputs
      BY <1>0, <1>3, <2>3 DEF VoiceFlow
    <3> QED BY <1>3, <3>1
  <2>4. ASSUME NEW i \in DOMAIN heard', heard'[i] \in Closings
        PROVE  /\ voice \in {"over", "done"}
               /\ \A j \in DOMAIN heard' : j > i => heard'[j] \notin AudioOutputs
               /\ \A j \in DOMAIN outputs' : outputs'[j] \notin AudioOutputs
    <3>1. CASE i \in DOMAIN heard
      <4>1. /\ voice \in {"over", "done"}
            /\ \A j \in DOMAIN heard : j > i => heard[j] \notin AudioOutputs
            /\ \A j \in DOMAIN outputs : outputs[j] \notin AudioOutputs
        BY <1>0, <1>4, <2>4, <3>1 DEF VoiceFlow
      <4> QED BY <1>3, <1>4, <4>1
    <3>2. CASE i = n /\ heard'[i] = o
      <4>1. outputs[1] \in Closings
        BY <1>3, <2>4, <3>2
      <4>2. /\ voice \in {"over", "done"}
            /\ \A j \in DOMAIN outputs : j > 1 => outputs[j] \notin AudioOutputs
        BY <1>0, <1>3, <4>1 DEF VoiceFlow
      <4>3. \A j \in DOMAIN heard' : ~(j > n)
        BY <1>4
      <4> QED BY <1>3, <3>2, <4>2, <4>3
    <3> QED BY <1>4, <3>1, <3>2
  <2>5. voice \in {"over", "done"} /\ spoken > 0 =>
          (\E i \in DOMAIN outputs' : outputs'[i] \in Closings) \/ (\E i \in DOMAIN heard' : heard'[i] \in Closings)
    <3> SUFFICES ASSUME voice \in {"over", "done"}, spoken > 0
                 PROVE  (\E i \in DOMAIN outputs' : outputs'[i] \in Closings)
                          \/ (\E i \in DOMAIN heard' : heard'[i] \in Closings)
      OBVIOUS
    <3>1. (\E i \in DOMAIN outputs : outputs[i] \in Closings) \/ (\E i \in DOMAIN heard : heard[i] \in Closings)
      BY <1>0, <1>1 DEF VoiceFlow
    <3>2. CASE \E i \in DOMAIN heard : heard[i] \in Closings
      BY <1>4, <3>2
    <3>3. ASSUME NEW i \in DOMAIN outputs, outputs[i] \in Closings
          PROVE  (\E k \in DOMAIN outputs' : outputs'[k] \in Closings) \/ (\E k \in DOMAIN heard' : heard'[k] \in Closings)
      <4>1. CASE i = 1
        <5>1. o \in Closings /\ o \notin {"text_end", "voice_end"}
          BY <1>3, <3>3, <4>1 DEF Closings
        <5> QED BY <1>4, <5>1
      <4>2. CASE i # 1
        BY <1>3, <3>3, <4>2
      <4> QED BY <4>1, <4>2
    <3> QED BY <3>1, <3>2, <3>3
  <2> QED BY <1>2, <2>1, <2>2, <2>3, <2>4, <2>5 DEF VoiceFlow
<1>9. SessionShape'
  BY <1>0, <1>1, <1>2 DEF SessionShape, Speaking, Early
<1>10. ActionShape'
  <2>1. ASSUME Early, texts = 0
        PROVE  /\ \A i \in DOMAIN outputs' : outputs'[i] \in Silence
               /\ \A i \in DOMAIN heard' : heard'[i] = "audio_failed"
    <3>1. /\ \A i \in DOMAIN outputs : outputs[i] \in Silence
          /\ \A i \in DOMAIN heard : heard[i] = "audio_failed"
      BY <1>0, <2>1 DEF ActionShape
    <3> QED BY <1>3, <1>4, <3>1 DEF Silence
  <2>2. ASSUME NEW i \in DOMAIN outputs', outputs'[i] = "action"
        PROVE  /\ \A j \in DOMAIN outputs' : (j < i => outputs'[j] \in Silence) /\ (j # i => outputs'[j] # "action")
               /\ \A j \in DOMAIN heard' : heard'[j] = "audio_failed"
    <3>1. /\ \A j \in DOMAIN outputs : (j < i + 1 => outputs[j] \in Silence) /\ (j # i + 1 => outputs[j] # "action")
          /\ \A j \in DOMAIN heard : heard[j] = "audio_failed"
      BY <1>0, <1>3, <2>2 DEF ActionShape
    <3>2. o \in Silence
      BY <1>3, <3>1
    <3> QED BY <1>3, <1>4, <3>1, <3>2 DEF Silence
  <2>3. ASSUME NEW i \in DOMAIN heard', heard'[i] = "action"
        PROVE  reader' = "leaving" /\ \A j \in DOMAIN heard' : heard'[j] \in {"action", "audio_failed"}
    <3>1. i \notin DOMAIN heard
      BY <1>0, <1>1, <1>4, <2>3 DEF ActionShape
    <3>2. o = "action"
      BY <1>4, <2>3, <3>1
    <3>3. \A j \in DOMAIN heard : heard[j] = "audio_failed"
      BY <1>0, <1>3, <3>2 DEF ActionShape
    <3> QED BY <1>1, <1>4, <3>2, <3>3
  <2> QED BY <1>0, <1>2, <2>1, <2>2, <2>3 DEF ActionShape, Early
<1> QED BY <1>5, <1>6, <1>7, <1>8, <1>9, <1>10 DEF ReplyInv

\* The turn task leaves; both producers end.
LEMMA LeavesKeepsInv ==
  ASSUME ReplyInv, Leaves, ReplyTypeOK'
  PROVE  ReplyInv'
<1>1. /\ ReplyTypeOK /\ ToolShape /\ TextFlow /\ VoiceFlow /\ ActionShape
  BY DEF ReplyInv
<1>2. /\ reader' = "left" /\ stage' = "done" /\ voice' = "done" /\ talker' # "running" /\ ttsSession' # "started"
      /\ UNCHANGED <<used, toolCalls, outputs, stopped, heard>>
  BY DEF Leaves, LeftSession
<1>3. ToolShape' /\ TextCount' /\ TextFlow' /\ VoiceFlow'
  BY <1>1, <1>2 DEF ToolShape, ToolsAreDeclared, TextCount, TextFlow, VoiceFlow
<1>4. SessionShape' /\ ActionShape'
  BY <1>1, <1>2 DEF SessionShape, ActionShape, Early
<1> QED BY <1>3, <1>4 DEF ReplyInv

\* What was made, put and heard fits together in every state, for any tools, texts, frames and
\* size of the queue, and wherever the turn task leaves (ChatService.stream_reply).
THEOREM ReplyInvariant == ReplySafety => []ReplyInv
<1>1. ReplyInit => ReplyInv
  <2> SUFFICES ASSUME ReplyInit PROVE ReplyInv
    OBVIOUS
  <2>1. ReplyTypeOK
    BY ReplyAssumption DEF ReplyInit, ReplyTypeOK
  <2>2. TextCount
    <3>1. {i \in DOMAIN <<>> : <<>>[i] = "text"} = {}
      OBVIOUS
    <3> QED BY <3>1, FS_EmptySet DEF ReplyInit, TextCount, Said
  <2>3. ToolShape /\ TextFlow /\ VoiceFlow /\ SessionShape /\ ActionShape
    BY DEF ReplyInit, ToolShape, ToolsAreDeclared, TextFlow, VoiceFlow, SessionShape, ActionShape, Speaking
  <2> QED BY <2>1, <2>2, <2>3 DEF ReplyInv
<1>2. ReplyInv /\ [ReplyNext]_replyVars => ReplyInv'
  <2> SUFFICES ASSUME ReplyInv, [ReplyNext]_replyVars PROVE ReplyInv'
    OBVIOUS
  <2>1. ReplyTypeOK'
    BY ReplyTypesKept DEF ReplyInv
  <2>2. CASE ReplyNext
    <3>1. CASE RoundStep
      BY <2>1, <3>1, RoundStepKeepsInv
    <3>2. CASE VoiceStep
      BY <2>1, <3>2, VoiceStepKeepsInv
    <3>3. CASE TextPut \/ ActionPut \/ TextDone
      BY <2>1, <3>3, TextPutKeepsInv
    <3>4. CASE ActionTaken \/ TurnLeaves
      BY <2>1, <3>4, LeavesKeepsInv DEF ActionTaken, TurnLeaves
    <3> QED BY <2>1, <2>2, <3>1, <3>2, <3>3, <3>4, VoicePutKeepsInv, ReadsKeepsInv
            DEF ReplyNext, ReplyProgress, RoundStep, VoiceStep
  <2>3. CASE UNCHANGED replyVars
    <3>1. UNCHANGED <<stage, offered, calls, roundTexts, used, toolCalls, texts, speech, voice, talker, ttsSession,
                      spoken, frames, outputs, stopped, reader, heard>>
      BY <2>3 DEF replyVars, textSide, voiceSide, readSide
    <3>2. ToolShape' /\ TextCount' /\ TextFlow'
      BY <3>1 DEF ReplyInv, ToolShape, ToolsAreDeclared, TextCount, Said, TextFlow
    <3>3. VoiceFlow' /\ SessionShape' /\ ActionShape'
      BY <3>1 DEF ReplyInv, VoiceFlow, SessionShape, ActionShape, Speaking, Early
    <3> QED BY <2>1, <3>2, <3>3 DEF ReplyInv
  <2> QED BY <2>2, <2>3
<1> QED BY <1>1, <1>2, PTL DEF ReplySafety

\* A completed reply delivered all of its text and closed its audio; an action comes alone; no
\* session stays open; only declared tools follow a tool (ChatService.stream_reply, stream_turn).
THEOREM RepliesAreWhole == ReplySafety => []ReplyIsWhole
<1>1. ReplyInv => ReplyIsWhole
  <2> SUFFICES ASSUME ReplyInv PROVE ReplyIsWhole
    OBVIOUS
  <2>1. /\ ReplyTypeOK /\ ToolShape /\ TextCount /\ TextFlow /\ VoiceFlow /\ SessionShape /\ ActionShape
        /\ outputs \in Seq(Outputs) /\ heard \in Seq(Outputs) /\ texts \in Nat
    BY DEF ReplyInv, ReplyTypeOK
  <2>2. ASSUME reader = "completed"
        PROVE  Said(heard) = texts /\ (spoken > 0 => \E i \in DOMAIN heard : heard[i] \in Closings)
    <3>1. {"text", "voice"} \subseteq stopped
      BY <2>1, <2>2 DEF SessionShape
    <3>2. /\ stage = "done" /\ voice = "done"
          /\ \A i \in DOMAIN outputs : outputs[i] # "text" /\ outputs[i] \notin Closings
      BY <2>1, <3>1 DEF TextFlow, VoiceFlow, TextOutputs, VoiceOutputs, AudioOutputs, Closings
    <3>3. {i \in DOMAIN outputs : outputs[i] = "text"} = {}
      BY <3>2
    <3>4. Said(outputs) = 0 /\ Said(heard) \in Nat
      BY <2>1, <3>3, FS_EmptySet, SaidOfPut DEF Said, Outputs
    <3>5. Said(heard) = texts
      BY <2>1, <2>2, <3>2, <3>4 DEF TextCount
    <3>6. spoken > 0 => \E i \in DOMAIN heard : heard[i] \in Closings
      BY <2>1, <2>2, <3>2 DEF VoiceFlow
    <3> QED BY <3>5, <3>6
  <2>3. \A i, j \in DOMAIN heard : i < j /\ heard[i] \in Closings => heard[j] \notin AudioOutputs
    BY <2>1 DEF VoiceFlow
  <2>4. "action" \in {heard[i] : i \in DOMAIN heard} => {heard[i] : i \in DOMAIN heard} \subseteq {"action", "audio_failed"}
    BY <2>1 DEF ActionShape
  <2>5. Over => ttsSession # "started" /\ talker # "running"
    BY <2>1 DEF Over, SessionShape, VoiceFlow, Speaking
  <2>6. ToolsAreDeclared
    BY <2>1 DEF ToolShape
  <2> QED BY <2>2, <2>3, <2>4, <2>5, <2>6 DEF ReplyIsWhole
<1> QED BY <1>1, ReplyInvariant, PTL

-----------------------------------------------------------------------------
(***************************************************************************)
(* The limit of recovery attempts: the attempts let through in time order, *)
(* those in memory the last of them, those of a row the last of them too,  *)
(* and between an attempt and the one that would be too many a whole span. *)
(***************************************************************************)
\* Of a sequence of numbers: it is in order, its elements are a span before the m-th after them,
\* and those that are within a span up to x.
Ordered(p) == \A i, j \in DOMAIN p : i <= j => p[i] <= p[j]
Spaced(p, m, span) == \A i \in DOMAIN p : i + m \in DOMAIN p => p[i] <= p[i + m] - span
Within(p, span, x) == {j \in DOMAIN p : x - span < p[j] /\ p[j] <= x}

\* Attempts are let through in the order of time.
TimesRise ==
    /\ Ordered(passed)
    /\ \A i \in DOMAIN passed : passed[i] <= clock

\* What memory has dropped is outside the window.
MemoryShape == store = "memory" =>
    /\ \A a \in Attempts : asked[a].at # "inserted"
    /\ Len(times) <= Len(passed)
    /\ \A i \in DOMAIN times : times[i] = passed[Len(passed) - Len(times) + i]
    /\ \A i \in 1 .. Len(passed) - Len(times) : passed[i] <= clock - Window
    /\ Spaced(passed, MaxAttempts, Window)

\* What was let through before the window of the row was let through until soon after it
\* began, and before the window before it, a span before it began.
RowShape == store = "database" =>
    /\ \A a \in Attempts : asked[a].at = "inserted" => asked[a].now <= clock /\ clock <= asked[a].now + Wait
    /\ ~limitRow.exists => passed = <<>>
    /\ limitRow.since <= clock /\ limitRow.count <= Len(passed)
    /\ \A i \in 1 .. Len(passed) - limitRow.count : passed[i] <= limitRow.since + Wait
    /\ \A i \in 1 .. Len(passed) - limitRow.count - MaxAttempts : passed[i] <= limitRow.since - (Window - Wait)
    /\ Spaced(passed, 2 * MaxAttempts, Window - Wait)

RecoveryInv == RecoveryTypeOK /\ TimesRise /\ MemoryShape /\ RowShape

\* A nonempty set of numbers has a least element.
LEMMA LeastNumber ==
  ASSUME NEW S \in SUBSET Nat, S # {}
  PROVE  \E n \in S : \A m \in S : n <= m
<1> DEFINE R == {ss \in Nat \X Nat : ss[1] < ss[2]}
<1>1. IsWellFoundedOn(R, Nat)
  BY NatLessThanWellFounded DEF OpToRel
<1> HIDE DEF R
<1>2. PICK n \in S : \A m \in S : ~(<<m, n>> \in R)
  BY <1>1, WFMin
<1>3. ASSUME NEW m \in S PROVE n <= m
  <2>1. m \in Nat /\ n \in Nat /\ <<m, n>> \notin R
    BY <1>2
  <2>2. ~(m < n)
    BY <2>1 DEF R
  <2> QED BY <2>1, <2>2
<1> QED BY <1>3

\* Sequences: their elements, one more at the end, and what is left when the first are cut off.
LEMMA Elements ==
  ASSUME NEW S, NEW s \in Seq(S)
  PROVE  DOMAIN s = 1 .. Len(s) /\ Len(s) \in Nat /\ \A i \in DOMAIN s : s[i] \in S
OBVIOUS

\* One more at the end.
LEMMA OneMore ==
  ASSUME NEW S, NEW s \in Seq(S), NEW e \in S
  PROVE  /\ Append(s, e) \in Seq(S) /\ Len(Append(s, e)) = Len(s) + 1 /\ DOMAIN Append(s, e) = 1 .. Len(s) + 1
         /\ Append(s, e)[Len(s) + 1] = e
         /\ \A i \in DOMAIN s : Append(s, e)[i] = s[i]
OBVIOUS

\* The first n are cut off.
LEMMA CutOff ==
  ASSUME NEW S, NEW s \in Seq(S), NEW n \in 0 .. Len(s)
  PROVE  LET r == SubSeq(s, n + 1, Len(s)) IN
         /\ r \in Seq(S) /\ Len(r) = Len(s) - n /\ Len(r) \in Nat /\ DOMAIN r = 1 .. Len(s) - n
         /\ \A i \in 1 .. Len(s) - n : r[i] = s[n + i]
OBVIOUS

\* Of a sequence in order whose elements are a span before the m-th after them, at most m are
\* within a span.
LEMMA FewWithin ==
  ASSUME NEW P \in SUBSET Nat, NEW p \in Seq(P), NEW m \in Nat, NEW span \in Nat, NEW x \in Nat,
         Ordered(p), Spaced(p, m, span)
  PROVE  Cardinality(Within(p, span, x)) <= m
<1> USE DEF Ordered, Spaced
<1> DEFINE S == {j \in DOMAIN p : x - span < p[j] /\ p[j] <= x}
<1> DEFINE B == {n \in 0 .. Len(p) : \A j \in S : j <= n}
<1>1. DOMAIN p = 1 .. Len(p) /\ Len(p) \in Nat /\ \A i \in DOMAIN p : p[i] \in Nat
  BY Elements
<1>2. Len(p) \in B
  BY <1>1
<1>3. PICK n \in B : \A k \in B : n <= k
  <2> HIDE DEF B
  <2>1. B \in SUBSET Nat
    BY <1>1 DEF B
  <2> QED BY <2>1, <1>2, LeastNumber
<1>4. n \in 0 .. Len(p) /\ \A j \in S : j <= n
  BY <1>3
<1>5. S \subseteq (n - m + 1) .. n
  <2> SUFFICES ASSUME NEW j \in S, j <= n - m PROVE FALSE
    BY <1>1, <1>4
  <2>1. j \in DOMAIN p /\ j \in Nat /\ j >= 1 /\ j <= n /\ j + m <= n /\ x - span < p[j]
    BY <1>1, <1>4
  <2>2. CASE n \in S
    <3>1. n - m \in DOMAIN p /\ n \in DOMAIN p /\ p[n] <= x /\ n - m + m = n
      BY <2>1, <2>2, <1>1, <1>4
    <3>2. p[n - m] <= p[n] - span
      <4> DEFINE i == n - m
      <4>1. i \in DOMAIN p /\ i + m \in DOMAIN p /\ i + m = n
        BY <3>1
      <4> QED BY <4>1
    <3>3. p[j] <= p[n - m]
      BY <3>1, <2>1
    <3> QED BY <3>1, <3>2, <3>3, <2>1, <1>1
  <2>3. CASE n \notin S
    <3>1. n - 1 \in 0 .. Len(p) /\ \A k \in S : k <= n - 1
      BY <2>1, <2>3, <1>1, <1>4
    <3> HIDE DEF S
    <3>2. n - 1 \in B
      BY <3>1
    <3> HIDE DEF B
    <3>3. n <= n - 1
      BY <3>2, <1>3
    <3> QED BY <3>3, <1>4
  <2> QED BY <2>2, <2>3
<1> HIDE DEF S, B
<1>6. n \in Int /\ n - m + 1 \in Int
  BY <1>4
<1>7. IsFiniteSet((n - m + 1) .. n) /\ Cardinality((n - m + 1) .. n) = m
  BY <1>6, FS_Interval
<1>8. Cardinality(S) <= m
  BY <1>5, <1>7, FS_Subset
<1> QED BY <1>8 DEF S, Within

\* A sequence that grows by an attempt at the present time keeps what was said of the others.
LEMMA OnePasses ==
  ASSUME RecoveryTypeOK, TimesRise, NEW a, LetThrough(a), UNCHANGED clock
  PROVE  /\ passed' \in Seq(0 .. LastTime) /\ TimesRise'
         /\ Len(passed') = Len(passed) + 1 /\ Len(passed) \in Nat
         /\ DOMAIN passed' = 1 .. Len(passed) + 1 /\ DOMAIN passed = 1 .. Len(passed)
         /\ passed'[Len(passed) + 1] = clock
         /\ \A i \in DOMAIN passed : passed'[i] = passed[i]
<1>1. passed \in Seq(0 .. LastTime) /\ clock \in 0 .. LastTime /\ passed' = Append(passed, clock)
  BY DEF RecoveryTypeOK, LetThrough
<1> DEFINE T == 0 .. LastTime
<1>2. /\ DOMAIN passed = 1 .. Len(passed) /\ Len(passed) \in Nat /\ \A i \in DOMAIN passed : passed[i] \in T
      /\ passed' \in Seq(T) /\ Len(passed') = Len(passed) + 1
      /\ DOMAIN passed' = 1 .. Len(passed) + 1
      /\ passed'[Len(passed) + 1] = clock
      /\ \A i \in DOMAIN passed : passed'[i] = passed[i]
  <2>1. passed \in Seq(T) /\ clock \in T
    BY <1>1
  <2> HIDE DEF T
  <2> QED BY <2>1, <1>1, Elements, OneMore
<1>4. TimesRise'
  BY <1>1, <1>2 DEF TimesRise, Ordered
<1> QED BY <1>2, <1>4

\* When all that is m before the new attempt is a span before the present, attempts stay apart.
LEMMA StaysApart ==
  ASSUME RecoveryTypeOK, TimesRise, NEW a, LetThrough(a), UNCHANGED clock,
         NEW m \in Nat \ {0}, NEW span \in Int, Spaced(passed, m, span),
         \A i \in DOMAIN passed : i + m = Len(passed) + 1 => passed[i] <= clock - span
  PROVE  Spaced(passed, m, span)'
<1>1. /\ DOMAIN passed' = 1 .. Len(passed) + 1 /\ DOMAIN passed = 1 .. Len(passed) /\ Len(passed) \in Nat
      /\ passed'[Len(passed) + 1] = clock
      /\ \A i \in DOMAIN passed : passed'[i] = passed[i]
  BY OnePasses
<1>2. SUFFICES ASSUME NEW i \in DOMAIN passed', i + m \in DOMAIN passed'
               PROVE  passed'[i] <= passed'[i + m] - span
  BY DEF Spaced
<1>3. i \in DOMAIN passed /\ passed'[i] = passed[i]
  BY <1>1, <1>2
<1>4. CASE i + m = Len(passed) + 1
  BY <1>1, <1>3, <1>4
<1>5. CASE i + m # Len(passed) + 1
  <2>1. i + m \in DOMAIN passed
    BY <1>1, <1>2, <1>5
  <2>2. passed'[i + m] = passed[i + m]
    BY <1>1, <2>1
  <2> QED BY <1>3, <2>1, <2>2 DEF Spaced
<1> QED BY <1>4, <1>5

\* The steps that let nobody through and touch neither the attempts kept nor the row.
LEMMA RequestMoves ==
  ASSUME RecoveryInv, NEW a \in Attempts, NEW to \in {"passed", "refused", "failed", "recovered"}, Goes(a, to)
  PROVE  /\ asked' \in [Attempts -> [at : {"none", "inserted", "passed", "refused", "failed", "recovered"},
                                     now : 0 .. LastTime]]
         /\ \A b \in Attempts : asked'[b].at = "inserted" => asked'[b] = asked[b]
<1>1. 0 \in 0 .. LastTime
  BY RecoveryAssumption
<1>2. asked \in [Attempts -> [at : {"none", "inserted", "passed", "refused", "failed", "recovered"},
                              now : 0 .. LastTime]]
  BY DEF RecoveryInv, RecoveryTypeOK
<1>3. asked' = [asked EXCEPT ![a] = [at |-> to, now |-> 0]]
  BY DEF Goes
<1> QED BY <1>1, <1>2, <1>3

\* Time goes on.
LEMMA TickKeepsInv ==
  ASSUME RecoveryInv, Tick
  PROVE  RecoveryInv'
<1>1. clock \in 0 .. LastTime /\ clock' = clock + 1 /\ clock < LastTime /\ LastTime \in Nat
  BY RecoveryAssumption DEF RecoveryInv, RecoveryTypeOK, Tick
<1>2. RecoveryTypeOK'
  BY <1>1 DEF RecoveryInv, RecoveryTypeOK, Tick
<1>3. \A i \in DOMAIN passed : passed[i] \in 0 .. LastTime
  BY Elements, Zenon DEF RecoveryInv, RecoveryTypeOK
<1>4. passed \in Seq(0 .. LastTime) /\ DOMAIN passed = 1 .. Len(passed) /\ Len(passed) \in Nat
  BY DEF RecoveryInv, RecoveryTypeOK
<1>5. Window \in Nat /\ Wait \in Nat
  BY RecoveryAssumption
<1>6. TimesRise'
  BY <1>1, <1>3 DEF RecoveryInv, TimesRise, Ordered, Tick
<1>7. MemoryShape'
  <2> SUFFICES ASSUME store = "memory" PROVE MemoryShape'
    BY DEF MemoryShape, Tick
  <2>1. UNCHANGED <<store, asked, times, passed>>
    BY DEF Tick
  <2>2. times \in Seq(0 .. LastTime)
    BY DEF RecoveryInv, RecoveryTypeOK
  <2>3. \A i \in 1 .. Len(passed) - Len(times) : i \in DOMAIN passed
    BY <1>4, <2>2
  <2>4. \A i \in 1 .. Len(passed) - Len(times) : passed[i] <= clock' - Window
    BY <1>1, <1>3, <1>5, <2>3 DEF RecoveryInv, MemoryShape
  <2> QED BY <2>1, <2>4 DEF RecoveryInv, MemoryShape, Spaced
<1>8. RowShape'
  <2> SUFFICES ASSUME store = "database" PROVE RowShape'
    BY DEF RowShape, Tick
  <2>1. UNCHANGED <<store, asked, limitRow, passed>>
    BY DEF Tick
  <2>2. limitRow.since \in 0 .. LastTime
    BY DEF RecoveryInv, RecoveryTypeOK
  <2>3. \A a \in Attempts : asked[a].at = "inserted" => asked[a].now <= clock' /\ clock' <= asked[a].now + Wait
    <3> SUFFICES ASSUME NEW a \in Attempts, asked[a].at = "inserted"
                 PROVE  asked[a].now <= clock' /\ clock' <= asked[a].now + Wait
      OBVIOUS
    <3>1. asked[a].now \in 0 .. LastTime
      BY DEF RecoveryInv, RecoveryTypeOK
    <3>2. clock < asked[a].now + Wait
      BY DEF Tick
    <3>3. asked[a].now <= clock
      BY DEF RecoveryInv, RowShape
    <3> QED BY <3>1, <3>2, <3>3, <1>1, <1>5
  <2>4. limitRow.since <= clock'
    BY <1>1, <2>2 DEF RecoveryInv, RowShape
  <2> QED BY <2>1, <2>3, <2>4 DEF RecoveryInv, RowShape, Spaced
<1> QED BY <1>2, <1>6, <1>7, <1>8 DEF RecoveryInv

\* What is kept in memory, cut where the window begins, is still the last of what was let through.
LEMMA CutIsLast ==
  ASSUME RecoveryInv, store = "memory", NEW kept \in {times, Pruned(times)},
         NEW n \in 0 .. Len(kept), Expired(kept, n)
  PROVE  LET recent == SubSeq(kept, n + 1, Len(kept)) IN
         /\ recent \in Seq(0 .. LastTime) /\ Len(recent) \in Nat
         /\ Len(recent) <= MaxAttempts /\ Len(recent) <= Len(passed)
         /\ \A i \in DOMAIN recent : recent[i] = passed[Len(passed) - Len(recent) + i]
         /\ \A i \in 1 .. Len(passed) - Len(recent) : passed[i] <= clock - Window
<1> DEFINE recent == SubSeq(kept, n + 1, Len(kept))
<1>1. /\ times \in Seq(0 .. LastTime) /\ passed \in Seq(0 .. LastTime) /\ clock \in 0 .. LastTime
      /\ Len(times) \in Nat /\ Len(passed) \in Nat /\ Len(times) <= MaxAttempts /\ Len(times) <= Len(passed)
      /\ DOMAIN times = 1 .. Len(times) /\ DOMAIN passed = 1 .. Len(passed)
      /\ \A i \in DOMAIN times : times[i] = passed[Len(passed) - Len(times) + i]
      /\ \A i \in 1 .. Len(passed) - Len(times) : passed[i] <= clock - Window
  BY DEF RecoveryInv, RecoveryTypeOK, MemoryShape
<1>2. MaxAttempts \in Nat /\ Window \in Nat
  BY RecoveryAssumption
<1>3. \A i \in DOMAIN passed : passed[i] \in Nat
  <2>1. \A i \in DOMAIN passed : passed[i] \in 0 .. LastTime
    BY <1>1, Elements, Zenon
  <2> QED BY <2>1
<1>4. CASE kept = times
  <2>0. n \in Nat /\ n <= Len(times)
    BY <1>1, <1>4
  <2>1. /\ recent \in Seq(0 .. LastTime) /\ Len(recent) = Len(times) - n /\ Len(recent) \in Nat
        /\ DOMAIN recent = 1 .. Len(times) - n
        /\ \A i \in 1 .. Len(times) - n : recent[i] = times[n + i]
    BY <1>1, <1>4, CutOff, Zenon
  <2> HIDE DEF recent
  <2>2. ASSUME NEW i \in DOMAIN recent PROVE recent[i] = passed[Len(passed) - Len(recent) + i]
    <3>1. n + i \in DOMAIN times /\ recent[i] = times[n + i]
      BY <2>0, <2>1, <1>1
    <3>2. times[n + i] = passed[Len(passed) - Len(times) + (n + i)]
      BY <3>1, <1>1
    <3>3. Len(passed) - Len(times) + (n + i) = Len(passed) - Len(recent) + i
      BY <2>0, <2>1, <1>1
    <3> QED BY <3>1, <3>2, <3>3
  <2>3. ASSUME NEW i \in 1 .. Len(passed) - Len(recent) PROVE passed[i] <= clock - Window
    <3>1. CASE i <= Len(passed) - Len(times)
      BY <3>1, <1>1
    <3>2. CASE ~(i <= Len(passed) - Len(times))
      <4> DEFINE k == i - (Len(passed) - Len(times))
      <4>1. k \in 1 .. n /\ k \in DOMAIN times /\ Len(passed) - Len(times) + k = i
        BY <3>2, <2>0, <2>1, <1>1
      <4> HIDE DEF k
      <4>2. times[k] <= clock - Window
        BY <4>1, <1>4 DEF Expired
      <4>3. times[k] = passed[i]
        BY <4>1, <1>1
      <4> QED BY <4>2, <4>3
    <3> QED BY <3>1, <3>2
  <2>4. Len(recent) \in Nat /\ Len(recent) <= MaxAttempts /\ Len(recent) <= Len(passed)
    BY <2>0, <2>1, <1>1, <1>2
  <2> QED BY <2>1, <2>2, <2>3, <2>4 DEF recent
<1>5. CASE kept # times
  <2>1. kept = <<>> /\ (times = <<>> \/ ~(times[Len(times)] > clock - Window))
    BY <1>5 DEF Pruned
  <2>2. times # <<>>
    BY <2>1, <1>5
  <2>3. Len(times) \in DOMAIN times /\ Len(times) # 0
    BY <2>2, <1>1
  <2>4. times[Len(times)] = passed[Len(passed)]
    <3>1. times[Len(times)] = passed[Len(passed) - Len(times) + Len(times)]
      BY <2>3, <1>1
    <3> QED BY <3>1, <1>1
  <2>5. Len(passed) \in DOMAIN passed
    BY <2>3, <1>1
  <2>6. passed[Len(passed)] <= clock - Window
    BY <2>1, <2>2, <2>4, <2>5, <1>3, <1>1, <1>2
  <2>7. \A i \in DOMAIN passed : passed[i] <= clock - Window
    <3> TAKE i \in DOMAIN passed
    <3>1. passed[i] <= passed[Len(passed)]
      BY <1>1, <2>5 DEF RecoveryInv, TimesRise, Ordered
    <3> QED BY SMTT(30), <3>1, <2>5, <2>6, <1>1, <1>2, <1>3
  <2>8. recent = <<>>
    <3>1. n = 0 /\ Len(kept) = 0
      BY <2>1
    <3> QED BY <3>1, <2>1
  <2>9. <<>> \in Seq(0 .. LastTime) /\ Len(<<>>) = 0 /\ DOMAIN <<>> = {}
    OBVIOUS
  <2> HIDE DEF recent
  <2>10. /\ Len(recent) = 0 /\ recent \in Seq(0 .. LastTime) /\ DOMAIN recent = {}
    BY <2>8, <2>9
  <2>11. \A i \in 1 .. Len(passed) - Len(recent) : passed[i] <= clock - Window
    BY <2>7, <2>10, <1>1
  <2> QED BY <2>10, <2>11, <1>1, <1>2 DEF recent
<1> QED BY <1>4, <1>5

\* A request is checked in memory.
LEMMA CheckInMemoryKeepsInv ==
  ASSUME RecoveryInv, NEW a \in Attempts, CheckInMemory(a)
  PROVE  RecoveryInv'
<1>1. store = "memory" /\ UNCHANGED <<store, clock, limitRow>>
  BY DEF CheckInMemory
<1>0. PICK kept \in {times, Pruned(times)} : \E n \in 0 .. Len(kept) :
        /\ Expired(kept, n)
        /\ LET recent == SubSeq(kept, n + 1, Len(kept))
           IN  IF Len(recent) >= MaxAttempts
                 THEN Refused(a) /\ times' = recent
                 ELSE LetThrough(a) /\ times' = Append(recent, clock)
  BY DEF CheckInMemory
<1>2. PICK n \in 0 .. Len(kept) :
        /\ Expired(kept, n)
        /\ LET recent == SubSeq(kept, n + 1, Len(kept))
           IN  IF Len(recent) >= MaxAttempts
                 THEN Refused(a) /\ times' = recent
                 ELSE LetThrough(a) /\ times' = Append(recent, clock)
  BY <1>0
<1> DEFINE recent == SubSeq(kept, n + 1, Len(kept))
<1>3. /\ recent \in Seq(0 .. LastTime) /\ Len(recent) \in Nat
      /\ Len(recent) <= MaxAttempts /\ Len(recent) <= Len(passed)
      /\ \A i \in DOMAIN recent : recent[i] = passed[Len(passed) - Len(recent) + i]
      /\ \A i \in 1 .. Len(passed) - Len(recent) : passed[i] <= clock - Window
  BY <1>1, <1>2, CutIsLast
<1>4. IF Len(recent) >= MaxAttempts THEN Refused(a) /\ times' = recent
                                    ELSE LetThrough(a) /\ times' = Append(recent, clock)
  BY <1>2
<1> HIDE DEF recent
<1>5. MaxAttempts \in Nat \ {0} /\ Window \in Nat /\ clock \in 0 .. LastTime /\ passed \in Seq(0 .. LastTime)
  BY RecoveryAssumption DEF RecoveryInv, RecoveryTypeOK
<1>6. DOMAIN passed = 1 .. Len(passed) /\ Len(passed) \in Nat /\ DOMAIN recent = 1 .. Len(recent)
  BY <1>3, <1>5, Elements, Zenon
<1>7. CASE Refused(a) /\ times' = recent
  <2>1. /\ asked' \in [Attempts -> [at : {"none", "inserted", "passed", "refused", "failed", "recovered"},
                                    now : 0 .. LastTime]]
        /\ \A b \in Attempts : asked'[b].at = "inserted" => asked'[b] = asked[b]
    BY <1>7, RequestMoves DEF Refused
  <2>2. UNCHANGED passed
    BY <1>7 DEF Refused
  <2>3. RecoveryTypeOK'
    BY <1>1, <1>3, <1>7, <2>1, <2>2 DEF RecoveryInv, RecoveryTypeOK
  <2>4. TimesRise' /\ RowShape'
    BY <1>1, <2>2 DEF RecoveryInv, TimesRise, Ordered, RowShape
  <2>5. MemoryShape'
    BY <1>1, <1>3, <1>7, <2>1, <2>2 DEF RecoveryInv, MemoryShape, Spaced
  <2> QED BY <2>3, <2>4, <2>5 DEF RecoveryInv
<1>8. CASE Len(recent) < MaxAttempts /\ LetThrough(a) /\ times' = Append(recent, clock)
  <2>1. /\ asked' \in [Attempts -> [at : {"none", "inserted", "passed", "refused", "failed", "recovered"},
                                    now : 0 .. LastTime]]
        /\ \A b \in Attempts : asked'[b].at = "inserted" => asked'[b] = asked[b]
    BY <1>8, RequestMoves DEF LetThrough
  <2>2. RecoveryTypeOK /\ TimesRise /\ MemoryShape /\ UNCHANGED clock
    BY <1>1 DEF RecoveryInv
  <2>3. /\ passed' \in Seq(0 .. LastTime) /\ TimesRise' /\ Len(passed') = Len(passed) + 1
        /\ DOMAIN passed' = 1 .. Len(passed) + 1
        /\ passed'[Len(passed) + 1] = clock
        /\ \A i \in DOMAIN passed : passed'[i] = passed[i]
    BY <1>8, <2>2, OnePasses, Zenon
  <2>4. /\ times' \in Seq(0 .. LastTime) /\ Len(times') = Len(recent) + 1 /\ DOMAIN times' = 1 .. Len(recent) + 1
        /\ times'[Len(recent) + 1] = clock
        /\ \A i \in DOMAIN recent : times'[i] = recent[i]
    <3> DEFINE longer == Append(recent, clock)
    <3>1. /\ longer \in Seq(0 .. LastTime) /\ Len(longer) = Len(recent) + 1 /\ DOMAIN longer = 1 .. Len(recent) + 1
          /\ longer[Len(recent) + 1] = clock
          /\ \A i \in DOMAIN recent : longer[i] = recent[i]
      <4> DEFINE T == 0 .. LastTime
      <4>1. recent \in Seq(T) /\ clock \in T
        BY <1>3, <1>5
      <4> HIDE DEF T
      <4>2. /\ longer \in Seq(T) /\ Len(longer) = Len(recent) + 1 /\ DOMAIN longer = 1 .. Len(recent) + 1
            /\ longer[Len(recent) + 1] = clock
            /\ \A i \in DOMAIN recent : longer[i] = recent[i]
        BY <4>1, OneMore
      <4> QED BY <4>2 DEF T
    <3>2. times' = longer
      BY <1>8
    <3> HIDE DEF longer
    <3> QED BY <3>1, <3>2
  <2>5. RecoveryTypeOK'
    <3>1. Len(times') <= MaxAttempts
      BY <1>3, <1>5, <1>8, <2>4
    <3> QED BY <1>1, <2>1, <2>3, <2>4, <3>1 DEF RecoveryInv, RecoveryTypeOK
  <2>6. RowShape'
    BY <1>1 DEF RowShape
  <2>7. Spaced(passed, MaxAttempts, Window)'
    <3>1. \A i \in DOMAIN passed : i + MaxAttempts = Len(passed) + 1 => passed[i] <= clock - Window
      BY SMTT(30), <1>3, <1>5, <1>6, <1>8
    <3>2. Spaced(passed, MaxAttempts, Window)
      BY <1>1, <2>2 DEF MemoryShape
    <3>3. Window \in Int
      BY <1>5
    <3> HIDE DEF recent
    <3> QED BY <3>1, <3>2, <3>3, <1>5, <1>8, <2>2, StaysApart, Zenon
  <2>8. \A i \in DOMAIN times' : times'[i] = passed'[Len(passed') - Len(times') + i]
    <3> TAKE i \in DOMAIN times'
    <3>1. CASE i \in DOMAIN recent
      <4>1. Len(passed') - Len(times') + i = Len(passed) - Len(recent) + i
            /\ Len(passed) - Len(recent) + i \in DOMAIN passed
        BY <2>3, <2>4, <1>3, <1>6, <3>1
      <4> QED BY <4>1, <3>1, <2>3, <2>4, <1>3
    <3>2. CASE i \notin DOMAIN recent
      <4>1. i = Len(recent) + 1 /\ Len(passed') - Len(times') + i = Len(passed) + 1
        BY <2>3, <2>4, <1>3, <1>6, <3>2
      <4> QED BY <4>1, <2>3, <2>4
    <3> QED BY <3>1, <3>2
  <2>9. \A i \in 1 .. Len(passed') - Len(times') : passed'[i] <= clock' - Window
    <3> TAKE i \in 1 .. Len(passed') - Len(times')
    <3>1. i \in 1 .. Len(passed) - Len(recent) /\ i \in DOMAIN passed
      BY <2>3, <2>4, <1>3, <1>6
    <3> QED BY <3>1, <1>1, <1>3, <2>3
  <2>10. Len(times') <= Len(passed')
    BY <2>3, <2>4, <1>3, <1>6
  <2>11. MemoryShape'
    BY <2>1, <2>2, <2>7, <2>8, <2>9, <2>10, <1>1 DEF MemoryShape
  <2> QED BY <2>3, <2>5, <2>6, <2>11 DEF RecoveryInv
<1> QED BY <1>3, <1>4, <1>5, <1>7, <1>8

\* A request finds the row or makes it.
LEMMA CheckInsertsKeepsInv ==
  ASSUME RecoveryInv, NEW a \in Attempts, CheckInserts(a)
  PROVE  RecoveryInv'
<1>1. /\ store = "database" /\ UNCHANGED <<store, clock, times, passed>>
      /\ asked' = [asked EXCEPT ![a] = [at |-> "inserted", now |-> clock]]
      /\ limitRow' = IF limitRow.exists THEN limitRow ELSE [exists |-> TRUE, since |-> clock, count |-> 0]
  BY DEF CheckInserts
<1>2. /\ clock \in 0 .. LastTime /\ Wait \in Nat /\ MaxAttempts \in Nat
      /\ limitRow \in [exists : BOOLEAN, since : 0 .. LastTime, count : 0 .. MaxAttempts]
      /\ asked \in [Attempts -> [at : {"none", "inserted", "passed", "refused", "failed", "recovered"},
                                 now : 0 .. LastTime]]
  BY RecoveryAssumption DEF RecoveryInv, RecoveryTypeOK
<1>3. RecoveryTypeOK'
  <2>1. limitRow' \in [exists : BOOLEAN, since : 0 .. LastTime, count : 0 .. MaxAttempts]
    BY <1>1, <1>2
  <2>2. asked' \in [Attempts -> [at : {"none", "inserted", "passed", "refused", "failed", "recovered"},
                                 now : 0 .. LastTime]]
    BY <1>1, <1>2
  <2> QED BY <1>1, <2>1, <2>2 DEF RecoveryInv, RecoveryTypeOK
<1>4. TimesRise' /\ MemoryShape'
  BY <1>1 DEF RecoveryInv, TimesRise, Ordered, MemoryShape
<1>5. \A b \in Attempts : asked'[b].at = "inserted" => asked'[b].now <= clock /\ clock <= asked'[b].now + Wait
  BY <1>1, <1>2 DEF RecoveryInv, RowShape
<1>6. CASE limitRow.exists
  <2>1. limitRow' = limitRow
    BY <1>1, <1>6
  <2>2. RowShape'
    BY <1>1, <1>5, <1>6, <2>1 DEF RecoveryInv, RowShape, Spaced
  <2> QED BY <1>3, <1>4, <2>2 DEF RecoveryInv
<1>7. CASE ~limitRow.exists
  <2>1. passed = <<>>
    BY <1>1, <1>7 DEF RecoveryInv, RowShape
  <2>2. Len(passed) = 0 /\ DOMAIN passed = {}
    BY <2>1
  <2>3. limitRow'.exists /\ limitRow'.since = clock /\ limitRow'.count = 0
    BY <1>1, <1>7
  <2>4. /\ \A i \in 1 .. Len(passed) - limitRow'.count : passed[i] <= limitRow'.since + Wait
        /\ \A i \in 1 .. Len(passed) - limitRow'.count - MaxAttempts : passed[i] <= limitRow'.since - (Window - Wait)
    BY <2>2, <2>3, <1>2
  <2>5. RowShape'
    BY <1>1, <1>2, <1>5, <2>1, <2>2, <2>3, <2>4 DEF RowShape, Spaced
  <2> QED BY <1>3, <1>4, <2>5 DEF RecoveryInv
<1> QED BY <1>6, <1>7

\* The row's attempts are counted on: the row as the request leaves it.
LEMMA RowRenewed ==
  ASSUME RecoveryInv, NEW a \in Attempts, asked[a].at = "inserted", limitRow.exists, store = "database"
  PROVE  LET row == Renewed(limitRow, asked[a].now) IN
         /\ row \in [exists : BOOLEAN, since : 0 .. LastTime, count : 0 .. MaxAttempts] /\ row.exists
         /\ row.since <= clock /\ row.count <= Len(passed)
         /\ \A i \in 1 .. Len(passed) - row.count : passed[i] <= row.since + Wait
         /\ \A i \in 1 .. Len(passed) - row.count - MaxAttempts : passed[i] <= row.since - (Window - Wait)
<1> DEFINE row == Renewed(limitRow, asked[a].now)
           now == asked[a].now
<1>1. /\ clock \in 0 .. LastTime /\ Wait \in Nat /\ MaxAttempts \in Nat /\ Window \in Nat /\ Wait <= Window
      /\ limitRow \in [exists : BOOLEAN, since : 0 .. LastTime, count : 0 .. MaxAttempts]
      /\ passed \in Seq(0 .. LastTime)
      /\ now \in 0 .. LastTime
  BY RecoveryAssumption DEF RecoveryInv, RecoveryTypeOK
<1>2. DOMAIN passed = 1 .. Len(passed) /\ Len(passed) \in Nat /\ \A i \in DOMAIN passed : passed[i] \in 0 .. LastTime
  BY <1>1, Elements, Zenon
<1>3. /\ now <= clock /\ clock <= now + Wait
      /\ limitRow.since <= clock /\ limitRow.count <= Len(passed)
      /\ \A i \in 1 .. Len(passed) - limitRow.count : passed[i] <= limitRow.since + Wait
      /\ \A i \in 1 .. Len(passed) - limitRow.count - MaxAttempts : passed[i] <= limitRow.since - (Window - Wait)
      /\ \A i \in DOMAIN passed : passed[i] <= clock
  BY DEF RecoveryInv, RowShape, TimesRise, Ordered
<1> HIDE DEF now
<1>4. CASE limitRow.since <= now - Window
  <2>1. row = [limitRow EXCEPT !.since = now, !.count = 0]
    BY <1>4 DEF Renewed, now
  <2>2. row \in [exists : BOOLEAN, since : 0 .. LastTime, count : 0 .. MaxAttempts]
        /\ row.exists /\ row.since = now /\ row.count = 0
    <3>1. row = [exists |-> TRUE, since |-> now, count |-> 0]
      BY <2>1, <1>1
    <3> HIDE DEF row
    <3>2. 0 \in 0 .. MaxAttempts
      BY <1>1
    <3> QED BY <3>1, <3>2, <1>1
  <2> HIDE DEF row
  <2>3. ASSUME NEW i \in 1 .. Len(passed) - row.count PROVE passed[i] <= row.since + Wait
    <3>1. i \in DOMAIN passed
      BY <1>2, <2>2
    <3> QED BY <3>1, <1>1, <1>2, <1>3, <2>2
  <2>4. ASSUME NEW i \in 1 .. Len(passed) - row.count - MaxAttempts PROVE passed[i] <= row.since - (Window - Wait)
    <3>1. i \in DOMAIN passed /\ i \in 1 .. Len(passed) - limitRow.count
      BY <1>1, <1>2, <2>2
    <3>2. passed[i] <= limitRow.since + Wait
      BY <3>1, <1>3
    <3> QED BY <3>1, <3>2, <1>1, <1>2, <1>4, <2>2
  <2>5. row.since <= clock /\ row.count <= Len(passed)
    BY <2>2, <1>2, <1>3
  <2> QED BY <2>2, <2>3, <2>4, <2>5 DEF row
<1>5. CASE ~(limitRow.since <= now - Window)
  <2>1. row = limitRow
    BY <1>5 DEF Renewed, now
  <2> QED BY <2>1, <1>1, <1>3
<1> QED BY <1>4, <1>5

\* A request is counted, refused, or finds that the row has been cleared.
LEMMA CheckCountsKeepsInv ==
  ASSUME RecoveryInv, NEW a \in Attempts, CheckCounts(a)
  PROVE  RecoveryInv'
<1>1. asked[a].at = "inserted" /\ UNCHANGED <<store, clock, times>>
  BY DEF CheckCounts
<1>2. store = "database"
  BY <1>1 DEF RecoveryInv, RecoveryTypeOK, MemoryShape
<1>3. MemoryShape'
  BY <1>1, <1>2 DEF MemoryShape
<1>4. ASSUME NEW to \in {"passed", "refused", "failed"}, Goes(a, to)
      PROVE  /\ asked' \in [Attempts -> [at : {"none", "inserted", "passed", "refused", "failed", "recovered"},
                                         now : 0 .. LastTime]]
             /\ \A b \in Attempts : asked'[b].at = "inserted" => asked'[b].now <= clock /\ clock <= asked'[b].now + Wait
  <2>1. /\ asked' \in [Attempts -> [at : {"none", "inserted", "passed", "refused", "failed", "recovered"},
                                    now : 0 .. LastTime]]
        /\ \A b \in Attempts : asked'[b].at = "inserted" => asked'[b] = asked[b]
    BY <1>4, RequestMoves
  <2> QED BY <2>1, <1>2 DEF RecoveryInv, RowShape
<1>5. CASE ~limitRow.exists \/ Renewed(limitRow, asked[a].now).count >= MaxAttempts
  <2>1. (Goes(a, "failed") \/ Goes(a, "refused")) /\ UNCHANGED <<limitRow, passed>>
    BY <1>5 DEF CheckCounts, Refused
  <2>2. /\ asked' \in [Attempts -> [at : {"none", "inserted", "passed", "refused", "failed", "recovered"},
                                    now : 0 .. LastTime]]
        /\ \A b \in Attempts : asked'[b].at = "inserted" => asked'[b].now <= clock /\ clock <= asked'[b].now + Wait
    BY <2>1, <1>4
  <2>3. RecoveryTypeOK' /\ TimesRise'
    BY <1>1, <2>1, <2>2 DEF RecoveryInv, RecoveryTypeOK, TimesRise, Ordered
  <2>4. RowShape'
    BY <1>1, <1>2, <2>1, <2>2 DEF RecoveryInv, RowShape, Spaced
  <2> QED BY <1>3, <2>3, <2>4 DEF RecoveryInv
<1>6. CASE limitRow.exists /\ ~(Renewed(limitRow, asked[a].now).count >= MaxAttempts)
  <2> DEFINE row == Renewed(limitRow, asked[a].now)
  <2>1. LetThrough(a) /\ limitRow' = [row EXCEPT !.count = @ + 1]
    BY <1>6 DEF CheckCounts
  <2>2. /\ row \in [exists : BOOLEAN, since : 0 .. LastTime, count : 0 .. MaxAttempts] /\ row.exists
        /\ row.since <= clock /\ row.count <= Len(passed)
        /\ \A i \in 1 .. Len(passed) - row.count : passed[i] <= row.since + Wait
        /\ \A i \in 1 .. Len(passed) - row.count - MaxAttempts : passed[i] <= row.since - (Window - Wait)
    BY <1>1, <1>2, <1>6, RowRenewed
  <2>3. row.count < MaxAttempts /\ MaxAttempts \in Nat \ {0} /\ Window \in Nat /\ Wait \in Nat /\ clock \in 0 .. LastTime
    BY <1>6, <2>2, RecoveryAssumption DEF RecoveryInv, RecoveryTypeOK
  <2> HIDE DEF row
  <2>4. /\ limitRow' \in [exists : BOOLEAN, since : 0 .. LastTime, count : 0 .. MaxAttempts]
        /\ limitRow'.exists /\ limitRow'.since = row.since /\ limitRow'.count = row.count + 1
    <3>1. limitRow' = [exists |-> TRUE, since |-> row.since, count |-> row.count + 1]
      BY <2>1, <2>2
    <3>2. row.count + 1 \in 0 .. MaxAttempts /\ row.since \in 0 .. LastTime
      BY <2>2, <2>3
    <3> QED BY <3>1, <3>2
  <2>5. RecoveryTypeOK /\ TimesRise /\ UNCHANGED clock
    BY <1>1 DEF RecoveryInv
  <2>6. /\ passed' \in Seq(0 .. LastTime) /\ TimesRise'
        /\ Len(passed') = Len(passed) + 1 /\ Len(passed) \in Nat
        /\ DOMAIN passed' = 1 .. Len(passed) + 1 /\ DOMAIN passed = 1 .. Len(passed)
        /\ passed'[Len(passed) + 1] = clock
        /\ \A i \in DOMAIN passed : passed'[i] = passed[i]
    BY <2>1, <2>5, OnePasses, Zenon
  <2>7. /\ asked' \in [Attempts -> [at : {"none", "inserted", "passed", "refused", "failed", "recovered"},
                                    now : 0 .. LastTime]]
        /\ \A b \in Attempts : asked'[b].at = "inserted" => asked'[b].now <= clock /\ clock <= asked'[b].now + Wait
    BY <2>1, <1>4 DEF LetThrough
  <2>8. RecoveryTypeOK'
    BY <1>1, <2>4, <2>6, <2>7 DEF RecoveryInv, RecoveryTypeOK
  <2>9. Spaced(passed, 2 * MaxAttempts, Window - Wait)'
    <3> DEFINE m == 2 * MaxAttempts
               span == Window - Wait
    <3>1. m \in Nat \ {0} /\ span \in Int
      BY <2>3
    <3>2. \A i \in DOMAIN passed : i + m = Len(passed) + 1 => passed[i] <= clock - span
      <4> TAKE i \in DOMAIN passed
      <4> HAVE i + m = Len(passed) + 1
      <4>1. i \in 1 .. Len(passed) - row.count - MaxAttempts
        BY <2>2, <2>3, <2>6
      <4>2. passed[i] <= row.since - span
        BY <4>1, <2>2
      <4>3. passed[i] \in 0 .. LastTime
        BY <2>5, Elements, Zenon DEF RecoveryTypeOK
      <4> QED BY <4>2, <4>3, <2>2, <2>3
    <3>3. Spaced(passed, m, span)
      BY <1>2 DEF RecoveryInv, RowShape
    <3> HIDE DEF m, span
    <3>4. Spaced(passed, m, span)'
      BY <3>1, <3>2, <3>3, <2>1, <2>5, StaysApart, Zenon
    <3> QED BY <3>4 DEF m, span
  <2>10. /\ \A i \in 1 .. Len(passed') - limitRow'.count : passed'[i] <= limitRow'.since + Wait
         /\ \A i \in 1 .. Len(passed') - limitRow'.count - MaxAttempts : passed'[i] <= limitRow'.since - (Window - Wait)
    <3>1. \A i \in 1 .. Len(passed') - limitRow'.count : i \in 1 .. Len(passed) - row.count /\ i \in DOMAIN passed
      BY <2>2, <2>4, <2>6
    <3>2. \A i \in 1 .. Len(passed') - limitRow'.count - MaxAttempts :
             i \in 1 .. Len(passed) - row.count - MaxAttempts /\ i \in DOMAIN passed
      BY <2>2, <2>3, <2>4, <2>6
    <3> QED BY <3>1, <3>2, <2>2, <2>4, <2>6
  <2>11. limitRow'.since <= clock' /\ limitRow'.count <= Len(passed')
    BY <1>1, <2>2, <2>4, <2>6
  <2>12. RowShape'
    BY <1>1, <2>4, <2>7, <2>9, <2>10, <2>11 DEF RowShape
  <2> QED BY <1>3, <2>6, <2>8, <2>12 DEF RecoveryInv
<1> QED BY <1>5, <1>6

\* The device is recovered and the limit cleared.
LEMMA CodeIsRightKeepsInv ==
  ASSUME RecoveryInv, NEW a \in Attempts, CodeIsRight(a)
  PROVE  RecoveryInv'
<1>1. Goes(a, "recovered") /\ times' = <<>> /\ limitRow' = NoLimit /\ passed' = <<>> /\ UNCHANGED <<store, clock>>
  BY DEF CodeIsRight
<1>2. /\ asked' \in [Attempts -> [at : {"none", "inserted", "passed", "refused", "failed", "recovered"},
                                  now : 0 .. LastTime]]
      /\ \A b \in Attempts : asked'[b].at = "inserted" => asked'[b] = asked[b]
  BY <1>1, RequestMoves
<1>3. clock \in 0 .. LastTime /\ Wait \in Nat /\ MaxAttempts \in Nat /\ LastTime \in Nat
  BY RecoveryAssumption DEF RecoveryInv, RecoveryTypeOK
<1>4. limitRow' = [exists |-> FALSE, since |-> 0, count |-> 0]
  BY <1>1 DEF NoLimit
<1>5. RecoveryTypeOK'
  <2>1. limitRow' \in [exists : BOOLEAN, since : 0 .. LastTime, count : 0 .. MaxAttempts]
    BY <1>3, <1>4
  <2>2. /\ times' \in Seq(0 .. LastTime) /\ Len(times') <= MaxAttempts /\ passed' \in Seq(0 .. LastTime)
    BY <1>1, <1>3
  <2> QED BY <1>1, <1>2, <2>1, <2>2 DEF RecoveryInv, RecoveryTypeOK
<1>6. Len(passed') = 0 /\ Len(times') = 0 /\ DOMAIN passed' = {} /\ DOMAIN times' = {}
  BY <1>1
<1>7. TimesRise'
  BY <1>6 DEF TimesRise, Ordered
<1>8. MemoryShape'
  <2>1. \A i \in 1 .. Len(passed') - Len(times') : FALSE
    BY <1>6
  <2> QED BY <1>1, <1>2, <1>6, <2>1 DEF RecoveryInv, MemoryShape, Spaced
<1>9. RowShape'
  <2>1. /\ \A i \in 1 .. Len(passed') - limitRow'.count : FALSE
        /\ \A i \in 1 .. Len(passed') - limitRow'.count - MaxAttempts : FALSE
    BY <1>3, <1>4, <1>6
  <2>2. limitRow'.since <= clock' /\ limitRow'.count <= Len(passed')
    BY <1>1, <1>3, <1>4, <1>6
  <2> QED BY <1>1, <1>2, <1>6, <2>1, <2>2 DEF RecoveryInv, RowShape, Spaced
<1> QED BY <1>5, <1>7, <1>8, <1>9 DEF RecoveryInv

\* The attempts are kept as they were let through, and apart, in memory and in the database.
THEOREM RecoveryInvariant == RecoverySpec => []RecoveryInv
<1>1. RecoveryInit => RecoveryInv
  <2> SUFFICES ASSUME RecoveryInit PROVE RecoveryInv
    OBVIOUS
  <2>1. 0 \in 0 .. LastTime /\ MaxAttempts \in Nat /\ 0 \in 0 .. MaxAttempts
    BY RecoveryAssumption
  <2>2. passed = <<>> /\ times = <<>> /\ clock = 0 /\ limitRow = [exists |-> FALSE, since |-> 0, count |-> 0]
        /\ asked = [a \in Attempts |-> [at |-> "none", now |-> 0]]
    BY DEF RecoveryInit, NoLimit
  <2>3. Len(passed) = 0 /\ Len(times) = 0 /\ DOMAIN passed = {} /\ DOMAIN times = {}
    BY <2>2
  <2>4. RecoveryTypeOK
    BY <2>1, <2>2, <2>3 DEF RecoveryInit, RecoveryTypeOK
  <2>5. /\ \A i \in 1 .. Len(passed) - limitRow.count : FALSE
        /\ \A i \in 1 .. Len(passed) - limitRow.count - MaxAttempts : FALSE
        /\ \A i \in 1 .. Len(passed) - Len(times) : FALSE
    BY <2>1, <2>2, <2>3
  <2>6. TimesRise /\ MemoryShape /\ RowShape
    BY <2>2, <2>3, <2>5 DEF TimesRise, Ordered, MemoryShape, RowShape, Spaced
  <2> QED BY <2>4, <2>6 DEF RecoveryInv
<1>2. RecoveryInv /\ [RecoveryNext]_recoveryVars => RecoveryInv'
  <2> SUFFICES ASSUME RecoveryInv, [RecoveryNext]_recoveryVars PROVE RecoveryInv'
    OBVIOUS
  <2>1. CASE Tick
    BY <2>1, TickKeepsInv
  <2>2. CASE \E a \in Attempts : CheckInMemory(a) \/ CheckInserts(a) \/ CheckCounts(a) \/ CodeIsRight(a)
    BY <2>2, CheckInMemoryKeepsInv, CheckInsertsKeepsInv, CheckCountsKeepsInv, CodeIsRightKeepsInv
  <2>3. CASE UNCHANGED recoveryVars
    BY <2>3 DEF recoveryVars, RecoveryInv, RecoveryTypeOK, TimesRise, Ordered, MemoryShape, RowShape, Spaced
  <2> QED BY <2>1, <2>2, <2>3 DEF RecoveryNext
<1> QED BY <1>1, <1>2, PTL DEF RecoverySpec

\* However attempts arrive, are pruned and cleared, and however long a check waits for its row,
\* memory lets at most max_attempts through in a window, the database at most twice as many in a
\* window less the wait (InMemoryRecoveryRateLimiter and SqlAlchemyRecoveryRateLimiter.check).
THEOREM AttemptsAreLimited == RecoverySpec => []RateIsLimited
<1>1. RecoveryInv => RateIsLimited
  <2> SUFFICES ASSUME RecoveryInv PROVE RateIsLimited
    OBVIOUS
  <2> DEFINE span == IF store = "memory" THEN Window ELSE Window - Wait
             most == IF store = "memory" THEN MaxAttempts ELSE 2 * MaxAttempts
  <2>1. span \in Nat /\ most \in Nat
    BY RecoveryAssumption
  <2>2. Spaced(passed, most, span)
    BY DEF RecoveryInv, RecoveryTypeOK, MemoryShape, RowShape
  <2>3. Ordered(passed)
    BY DEF RecoveryInv, TimesRise
  <2>4. \A i \in DOMAIN passed : passed[i] \in Nat
    <3>1. \A i \in DOMAIN passed : passed[i] \in 0 .. LastTime
      BY Elements, Zenon DEF RecoveryInv, RecoveryTypeOK
    <3> QED BY <3>1
  <2> DEFINE P == 0 .. LastTime
  <2>5. passed \in Seq(P) /\ P \in SUBSET Nat
    BY DEF RecoveryInv, RecoveryTypeOK
  <2> HIDE DEF P
  <2> HIDE DEF span, most
  <2>6. ASSUME NEW i \in DOMAIN passed
        PROVE  Cardinality({j \in DOMAIN passed : passed[i] - span < passed[j] /\ passed[j] <= passed[i]}) <= most
    <3> DEFINE x == passed[i]
    <3>1. x \in Nat
      BY <2>4, <2>6
    <3> HIDE DEF x
    <3>2. Cardinality(Within(passed, span, x)) <= most
      BY <3>1, <2>1, <2>2, <2>3, <2>5, FewWithin
    <3> QED BY <3>2 DEF x, Within
  <2> QED BY <2>6 DEF RateIsLimited, span, most
<1> QED BY <1>1, RecoveryInvariant, PTL

-----------------------------------------------------------------------------
(***************************************************************************)
(* The detector: its window holds the last judgements since the last end,  *)
(* so what it counts is what confirms a speech at the present window.      *)
(***************************************************************************)
\* where the last end was: the last mark, but for the start of a speech under way
LastEnd == LET k == Len(marks) - (IF inSpeech THEN 1 ELSE 0) IN IF k = 0 THEN 0 ELSE marks[k].at

Fill(n) == IF n < WindowSize THEN n ELSE WindowSize

WindowShape ==
    /\ LastEnd \in Nat /\ LastEnd <= processed /\ Len(voiceWindow) = Fill(processed - LastEnd)
    /\ \A i \in DOMAIN voiceWindow : voiceWindow[i] = judged[processed - Len(voiceWindow) + i]

\* the voiced windows of j that count at p, when the last end was at e
Counted(j, p, e) == {i \in e + 1 .. p : i > p - WindowSize /\ j[i]}
Heard(j, p, e) == Cardinality(Counted(j, p, e)) >= StartThreshold

\* what SpeechIsBounded says of the k-th of the marks m
MarkOK(j, m, k) ==
    LET before == IF k = 1 THEN 0 ELSE m[k - 1].at
        e == IF k = 2 THEN 0 ELSE m[k - 2].at
    IN  IF k % 2 = 1
        THEN /\ m[k].kind = "speech_start"
             /\ \A p \in before + 1 .. m[k].at : Heard(j, p, before) <=> (p = m[k].at)
        ELSE /\ m[k].kind = "speech_end" /\ m[k].at = m[k].voice + MinSilence
             /\ \A p \in m[k].voice .. m[k].at : Heard(j, p, e) <=> (p = m[k].voice)

\* a speech under way was last confirmed at lastVoice; without one nothing was, since the last end
SpeechShape ==
    /\ (inSpeech <=> Len(marks) % 2 = 1)
    /\ \A k \in DOMAIN marks : MarkOK(judged, marks, k) /\ marks[k].at <= processed
    /\ IF inSpeech
         THEN /\ processed - lastVoice < MinSilence
              /\ \A p \in lastVoice .. processed : Heard(judged, p, LastEnd) <=> (p = lastVoice)
         ELSE \A p \in LastEnd + 1 .. processed : ~Heard(judged, p, LastEnd)

ActivityInv == ActivityTypeOK /\ WindowShape /\ SpeechShape

MarkRecord == [kind : {"speech_start", "speech_end"}, at : 1 .. LastWindow, voice : 0 .. LastWindow]

\* A window that holds the last judgements up to p has as many voiced ones as count at p.
LEMMA WindowCounts ==
  ASSUME NEW w \in Seq(BOOLEAN), NEW j \in Seq(BOOLEAN), NEW p \in Nat, NEW e \in Nat, e <= p, p <= Len(j),
         Len(w) = Fill(p - e), \A i \in DOMAIN w : w[i] = j[p - Len(w) + i]
  PROVE  Voiced(w) = Cardinality(Counted(j, p, e))
<1> DEFINE S == {i \in DOMAIN w : w[i]}
           T == Counted(j, p, e)
           d == p - Len(w)
           F == [i \in S |-> d + i]
<1>1. DOMAIN w = 1 .. Len(w) /\ Len(w) \in Nat /\ DOMAIN j = 1 .. Len(j) /\ Len(j) \in Nat
  BY Elements
<1>2. d \in Nat /\ d >= e /\ d + Len(w) = p /\ WindowSize \in Nat
  <2>1. WindowSize \in Nat /\ p - e \in Nat
    BY ActivityAssumption
  <2>2. Len(w) \in Nat /\ Len(w) <= p - e
    BY <1>1, <2>1 DEF Fill
  <2> QED BY <2>1, <2>2
<1>3. \A i \in e + 1 .. p : i > p - WindowSize <=> i > d
  BY <1>1, <1>2 DEF Fill
<1>4. \A i \in S : d + i \in T
  <2> TAKE i \in S
  <2>1. i \in 1 .. Len(w) /\ w[i] /\ w[i] = j[d + i]
    BY <1>1
  <2>2. d + i \in e + 1 .. p /\ d + i > d
    BY <1>2, <2>1, <1>1
  <2> QED BY <2>1, <2>2, <1>3 DEF Counted
<1>5. \A t \in T : t - d \in S /\ d + (t - d) = t
  <2> TAKE t \in T
  <2>1. t \in e + 1 .. p /\ t > d /\ j[t]
    BY <1>3 DEF Counted
  <2>2. t - d \in 1 .. Len(w) /\ d + (t - d) = t
    <3>1. t \in Int /\ d \in Int /\ p \in Int /\ Len(w) \in Int /\ t <= p /\ t > d /\ d + Len(w) = p
      BY <2>1, <1>1, <1>2
    <3> HIDE DEF d
    <3> QED BY <3>1
  <2>3. w[t - d] = j[d + (t - d)]
    BY <2>2, <1>1
  <2> QED BY <2>1, <2>2, <2>3, <1>1
<1>6. \A i \in S : i \in Nat
  BY <1>1
<1>7. IsFiniteSet(S)
  <2>1. IsFiniteSet(1 .. Len(w))
    BY <1>1, FS_Interval
  <2>2. S \in SUBSET (1 .. Len(w))
    BY <1>1
  <2> QED BY <2>1, <2>2, FS_Subset
<1> HIDE DEF S, T, d
<1>8. F \in [S -> T]
  BY <1>4
<1>9. \A a, b \in S : F[a] = F[b] => a = b
  BY <1>2, <1>6
<1>10. \A t \in T : \E i \in S : F[i] = t
  BY <1>5
<1> HIDE DEF F
<1>11. F \in Bijection(S, T)
  BY <1>8, <1>9, <1>10, Fun_IsBij
<1>12. Cardinality(T) = Cardinality(S)
  BY <1>7, <1>11, Fun_ExistsBij, FS_Bijection
<1> QED BY <1>12 DEF Voiced, S, T

\* What is judged later does not change what counted at p.
LEMMA CountedStays ==
  ASSUME NEW j \in Seq(BOOLEAN), NEW v \in BOOLEAN, NEW e \in Nat, NEW p \in Int, p <= Len(j)
  PROVE  Heard(Append(j, v), p, e) <=> Heard(j, p, e)
<1> DEFINE g == Append(j, v)
<1>1. \A i \in DOMAIN j : g[i] = j[i]
  BY OneMore
<1>2. DOMAIN j = 1 .. Len(j) /\ Len(j) \in Nat
  BY Elements
<1>3. \A i \in e + 1 .. p : i \in DOMAIN j
  BY <1>2
<1> HIDE DEF g
<1>4. Counted(g, p, e) = Counted(j, p, e)
  BY <1>1, <1>3 DEF Counted
<1> QED BY <1>4 DEF Heard, g

\* The deque takes the new judgement.
LEMMA PushedIs ==
  ASSUME NEW v \in BOOLEAN, NEW n \in Nat, NEW e \in Nat, e <= n,
         voiceWindow \in Seq(BOOLEAN), judged \in Seq(BOOLEAN), Len(judged) = n,
         Len(voiceWindow) = Fill(n - e),
         \A i \in DOMAIN voiceWindow : voiceWindow[i] = judged[n - Len(voiceWindow) + i]
  PROVE  /\ Pushed(v) \in Seq(BOOLEAN) /\ Len(Pushed(v)) = Fill(n + 1 - e)
         /\ \A i \in DOMAIN Pushed(v) : Pushed(v)[i] = Append(judged, v)[n + 1 - Len(Pushed(v)) + i]
<1> DEFINE w == Append(voiceWindow, v)
           g == Append(judged, v)
           l == Len(voiceWindow)
<1>1. /\ w \in Seq(BOOLEAN) /\ Len(w) = l + 1 /\ DOMAIN w = 1 .. l + 1 /\ w[l + 1] = v
      /\ \A i \in DOMAIN voiceWindow : w[i] = voiceWindow[i]
      /\ DOMAIN voiceWindow = 1 .. l /\ l \in Nat
  BY OneMore, Elements
<1>2. /\ g \in Seq(BOOLEAN) /\ g[n + 1] = v /\ DOMAIN judged = 1 .. n
      /\ \A i \in DOMAIN judged : g[i] = judged[i]
  BY OneMore, Elements
<1>3. WindowSize \in Nat \ {0}
  BY ActivityAssumption
<1> HIDE DEF w, g
<1>4. l = Fill(n - e) /\ \A i \in 1 .. l : voiceWindow[i] = judged[n - l + i]
  BY <1>1
<1> HIDE DEF l
<1>5. ASSUME NEW i \in 1 .. l + 1 PROVE w[i] = g[n - l + i]
  <2>1. CASE i = l + 1
    <3>1. n - l + i = n + 1
      BY <2>1, <1>1
    <3> QED BY <2>1, <3>1, <1>1, <1>2
  <2>2. CASE i # l + 1
    <3>1. i \in 1 .. l /\ n - l + i \in 1 .. n
      BY <2>2, <1>1, <1>3, <1>4 DEF Fill
    <3> QED BY <3>1, <1>1, <1>2, <1>4
  <2> QED BY <2>1, <2>2
<1>6. CASE l + 1 > WindowSize
  <2>1. Pushed(v) = Tail(w)
    BY <1>1, <1>6 DEF Pushed, w
  <2>2. w # <<>>
    BY <1>1
  <2>3. Tail(w) \in Seq(BOOLEAN) /\ Len(Tail(w)) = l /\ DOMAIN Tail(w) = 1 .. l /\ \A i \in 1 .. l : Tail(w)[i] = w[i + 1]
    BY <1>1, <2>2
  <2>4. l = Fill(n + 1 - e)
    BY <1>1, <1>3, <1>4, <1>6 DEF Fill
  <2>5. ASSUME NEW i \in 1 .. l PROVE Tail(w)[i] = g[n + 1 - l + i]
    <3>1. i + 1 \in 1 .. l + 1 /\ n - l + (i + 1) = n + 1 - l + i
      BY <1>1
    <3>2. w[i + 1] = g[n - l + (i + 1)]
      BY <3>1, <1>5
    <3> QED BY <3>1, <3>2, <2>3
  <2> QED BY <2>1, <2>3, <2>4, <2>5 DEF g
<1>7. CASE ~(l + 1 > WindowSize)
  <2>1. Pushed(v) = w
    BY <1>1, <1>7 DEF Pushed, w
  <2>2. l + 1 = Fill(n + 1 - e)
    BY <1>1, <1>3, <1>4, <1>7 DEF Fill
  <2>3. \A i \in 1 .. l + 1 : w[i] = g[n + 1 - (l + 1) + i]
    <3> TAKE i \in 1 .. l + 1
    <3>1. n - l + i = n + 1 - (l + 1) + i
      BY <1>1
    <3> QED BY <3>1, <1>5
  <2> QED BY <2>1, <2>2, <2>3, <1>1 DEF g
<1> QED BY <1>6, <1>7

\* What was said of the marks before stays so when more is judged and marked.
LEMMA MarksStay ==
  ASSUME NEW j \in Seq(BOOLEAN), NEW v \in BOOLEAN, NEW m, NEW n, NEW k \in 1 .. Len(m), Len(m) \in Nat,
         \A i \in 1 .. Len(m) : n[i] = m[i] /\ m[i] \in MarkRecord, MarkOK(j, m, k), m[k].at <= Len(j)
  PROVE  MarkOK(Append(j, v), n, k)
<1> DEFINE before == IF k = 1 THEN 0 ELSE m[k - 1].at
           e == IF k = 2 THEN 0 ELSE m[k - 2].at
           g == Append(j, v)
<1>1. \A i \in 1 .. Len(m) : m[i].at \in Nat /\ m[i].voice \in Nat
  BY DEF MarkRecord
<1>2. Len(j) \in Nat
  BY Elements
<1>3. k \in Nat /\ k >= 1 /\ k <= Len(m) /\ n[k] = m[k] /\ m[k].at \in Nat /\ m[k].voice \in Nat
  BY <1>1
<1>4. ASSUME NEW p \in Int, p <= Len(j), NEW f \in Nat PROVE (Heard(g, p, f) <=> Heard(j, p, f))
  BY <1>4, CountedStays
<1> HIDE DEF g
<1>5. CASE k % 2 = 1
  <2>1. before = (IF k = 1 THEN 0 ELSE n[k - 1].at) /\ before \in Nat
    <3>1. CASE k = 1
      BY <3>1
    <3>2. CASE k # 1
      <4>1. k - 1 \in 1 .. Len(m)
        BY <1>3, <3>2
      <4> QED BY <4>1, <1>1, <3>2
    <3> QED BY <3>1, <3>2
  <2>2. /\ m[k].kind = "speech_start"
        /\ \A p \in before + 1 .. m[k].at : Heard(j, p, before) <=> (p = m[k].at)
    BY <1>5 DEF MarkOK
  <2> HIDE DEF before
  <2>3. \A p \in before + 1 .. m[k].at : Heard(g, p, before) <=> (p = m[k].at)
    BY <1>2, <1>3, <1>4, <2>1, <2>2
  <2>4. \A p \in before + 1 .. n[k].at : Heard(g, p, before) <=> (p = n[k].at)
    BY <2>3, <1>3
  <2> QED BY <1>3, <1>5, <2>1, <2>2, <2>4 DEF MarkOK, g
<1>6. CASE k % 2 # 1
  <2>0. k # 1
    BY <1>6
  <2>1. e = (IF k = 2 THEN 0 ELSE n[k - 2].at) /\ e \in Nat
    <3>1. CASE k = 2
      BY <3>1
    <3>2. CASE k # 2
      <4>1. k - 2 \in 1 .. Len(m)
        BY <1>3, <3>2, <2>0
      <4> QED BY <4>1, <1>1, <3>2
    <3> QED BY <3>1, <3>2
  <2>2. /\ m[k].kind = "speech_end" /\ m[k].at = m[k].voice + MinSilence
        /\ \A p \in m[k].voice .. m[k].at : Heard(j, p, e) <=> (p = m[k].voice)
    BY <1>6 DEF MarkOK
  <2> HIDE DEF e
  <2>3. \A p \in m[k].voice .. m[k].at : Heard(g, p, e) <=> (p = m[k].voice)
    BY <1>2, <1>3, <1>4, <2>1, <2>2
  <2>4. \A p \in n[k].voice .. n[k].at : Heard(g, p, e) <=> (p = n[k].voice)
    BY <2>3, <1>3
  <2> QED BY <1>3, <1>6, <2>1, <2>2, <2>4 DEF MarkOK, g
<1> QED BY <1>5, <1>6

\* What the invariant says of a window, and the judgement and the deque that the next one makes.
Processes(v, n, e) ==
    /\ n \in Nat /\ n = processed /\ n < LastWindow /\ v \in BOOLEAN
    /\ e = LastEnd /\ e \in Nat /\ e <= n
    /\ processed' = n + 1 /\ judged' = Append(judged, v) /\ judged' \in Seq(BOOLEAN)
    /\ Len(judged) = n /\ Len(judged') = n + 1
    /\ Pushed(v) \in Seq(BOOLEAN) /\ Len(Pushed(v)) = Fill(n + 1 - e)
    /\ \A i \in DOMAIN Pushed(v) : Pushed(v)[i] = judged'[n + 1 - Len(Pushed(v)) + i]
    /\ (Voiced(Pushed(v)) >= StartThreshold) <=> Heard(judged', n + 1, e)
    /\ \A p \in Int : p <= n => (Heard(judged', p, e) <=> Heard(judged, p, e))
    /\ \A k \in DOMAIN marks : /\ MarkOK(judged, marks, k) /\ marks[k].at <= n
                               /\ marks[k] \in MarkRecord
    /\ marks \in Seq(MarkRecord) /\ DOMAIN marks = 1 .. Len(marks) /\ Len(marks) \in Nat

\* A window is judged.
LEMMA Judges ==
  ASSUME ActivityInv, NEW v \in BOOLEAN, processed < LastWindow, processed' = processed + 1,
         judged' = Append(judged, v)
  PROVE  \E n, e \in Nat : Processes(v, n, e)
<1>1. /\ voiceWindow \in Seq(BOOLEAN) /\ judged \in Seq(BOOLEAN) /\ Len(judged) = processed
      /\ processed \in 0 .. LastWindow /\ LastWindow \in Nat /\ marks \in Seq(MarkRecord)
  BY ActivityAssumption DEF ActivityInv, ActivityTypeOK, MarkRecord
<1>2. /\ LastEnd \in Nat /\ LastEnd <= processed /\ Len(voiceWindow) = Fill(processed - LastEnd)
      /\ \A i \in DOMAIN voiceWindow : voiceWindow[i] = judged[processed - Len(voiceWindow) + i]
  BY DEF ActivityInv, WindowShape
<1>3. PICK n \in Nat : n = processed
  BY <1>1
<1>4. PICK e \in Nat : e = LastEnd
  BY <1>2
<1>5. /\ Pushed(v) \in Seq(BOOLEAN) /\ Len(Pushed(v)) = Fill(n + 1 - e)
      /\ \A i \in DOMAIN Pushed(v) : Pushed(v)[i] = judged'[n + 1 - Len(Pushed(v)) + i]
  BY <1>1, <1>2, <1>3, <1>4, PushedIs
<1>6. PICK j : j = judged'
  OBVIOUS
<1>7. j \in Seq(BOOLEAN) /\ Len(j) = n + 1
  BY <1>1, <1>3, <1>6, OneMore
<1>8. (Voiced(Pushed(v)) >= StartThreshold) <=> Heard(judged', n + 1, e)
  <2>1. n + 1 \in Nat /\ e <= n + 1
    BY <1>2, <1>3, <1>4
  <2>2. Voiced(Pushed(v)) = Cardinality(Counted(j, n + 1, e))
    <3>1. PICK w : w = Pushed(v)
      OBVIOUS
    <3>2. PICK p \in Nat : p = n + 1
      BY <2>1
    <3>3. w \in Seq(BOOLEAN) /\ Len(w) = Fill(p - e)
      BY <1>5, <3>1, <3>2
    <3>4. \A i \in DOMAIN w : w[i] = judged'[n + 1 - Len(w) + i]
      BY <1>5, <3>1
    <3>5. \A i \in DOMAIN w : w[i] = j[p - Len(w) + i]
      <4> TAKE i \in DOMAIN w
      <4>1. w[i] = judged'[n + 1 - Len(w) + i]
        BY <3>4
      <4>2. judged'[n + 1 - Len(w) + i] = j[p - Len(w) + i]
        <5>1. n + 1 - Len(w) + i = p - Len(w) + i
          BY <3>2
        <5> QED BY <5>1, <1>6
      <4> QED BY <4>1, <4>2
    <3>6. p <= Len(j) /\ e <= p
      BY <1>7, <2>1, <3>2
    <3>7. Voiced(w) = Cardinality(Counted(j, p, e))
      BY <3>3, <3>5, <3>6, <1>7, WindowCounts
    <3> QED BY <3>1, <3>2, <3>7
  <2> QED BY <2>2, <1>6 DEF Heard
<1>9. \A p \in Int : p <= n => (Heard(judged', p, e) <=> Heard(judged, p, e))
  BY <1>1, <1>3, CountedStays
<1>10. DOMAIN marks = 1 .. Len(marks) /\ Len(marks) \in Nat /\ \A k \in DOMAIN marks : marks[k] \in MarkRecord
  BY <1>1, Elements
<1>11. \A k \in DOMAIN marks : MarkOK(judged, marks, k) /\ marks[k].at <= n
  BY <1>3 DEF ActivityInv, SpeechShape
<1> QED BY <1>1, <1>2, <1>3, <1>4, <1>5, <1>6, <1>7, <1>8, <1>9, <1>10, <1>11 DEF Processes

\* The marks of before, and the k-th of them.
LEMMA OldMarks ==
  ASSUME ActivityInv, NEW v \in BOOLEAN, NEW n \in Nat, NEW e \in Nat, Processes(v, n, e),
         NEW m, \A i \in 1 .. Len(marks) : m[i] = marks[i]
  PROVE  \A k \in 1 .. Len(marks) : MarkOK(judged', m, k) /\ m[k].at <= n + 1
<1> TAKE k \in 1 .. Len(marks)
<1>1. /\ judged' = Append(judged, v) /\ judged \in Seq(BOOLEAN) /\ Len(judged) = n
      /\ Len(marks) \in Nat
      /\ \A i \in 1 .. Len(marks) : marks[i] \in MarkRecord /\ MarkOK(judged, marks, i) /\ marks[i].at <= n
  BY DEF Processes, ActivityInv, ActivityTypeOK
<1>2. \A i \in 1 .. Len(marks) : m[i] = marks[i] /\ marks[i] \in MarkRecord
  BY <1>1
<1>3. MarkOK(Append(judged, v), m, k)
  BY <1>1, <1>2, MarksStay
<1>4. m[k].at <= n + 1
  <2>1. m[k] = marks[k] /\ marks[k].at <= n /\ marks[k].at \in Nat
    BY <1>1 DEF MarkRecord
  <2> QED BY <2>1
<1> QED BY <1>1, <1>3, <1>4

\* A window that is marked: the marks with the new one, and where the last end then was.
LEMMA NewMark ==
  ASSUME ActivityInv, NEW v \in BOOLEAN, NEW n \in Nat, NEW e \in Nat, Processes(v, n, e),
         NEW kind \in {"speech_start", "speech_end"}, Mark(kind), lastVoice' \in 0 .. LastWindow,
         (inSpeech <=> kind = "speech_end"), inSpeech' <=> ~inSpeech
  PROVE  /\ marks' \in Seq(MarkRecord) /\ Len(marks') = Len(marks) + 1 /\ DOMAIN marks' = 1 .. Len(marks) + 1
         /\ \A i \in 1 .. Len(marks) : marks'[i] = marks[i]
         /\ marks'[Len(marks) + 1] = [kind |-> kind, at |-> n + 1, voice |-> lastVoice']
         /\ LastEnd' = IF kind = "speech_end" THEN n + 1 ELSE e
         /\ kind = "speech_start" => (Len(marks) + 1) % 2 = 1 /\ e = IF Len(marks) + 1 = 1 THEN 0 ELSE marks'[Len(marks)].at
         /\ kind = "speech_end" => (Len(marks) + 1) % 2 # 1 /\ e = IF Len(marks) + 1 = 2 THEN 0 ELSE marks'[Len(marks) - 1].at
<1> DEFINE r == [kind |-> kind, at |-> n + 1, voice |-> lastVoice']
           l == Len(marks)
<1>1. /\ marks \in Seq(MarkRecord) /\ DOMAIN marks = 1 .. l /\ l \in Nat /\ n < LastWindow /\ processed' = n + 1
      /\ e = LastEnd /\ LastWindow \in Nat
  BY ActivityAssumption DEF Processes
<1>2. marks' = Append(marks, r)
  BY <1>1 DEF Mark
<1>3. r \in MarkRecord
  BY <1>1 DEF MarkRecord
<1> HIDE DEF r
<1>4. /\ marks' \in Seq(MarkRecord) /\ Len(marks') = l + 1 /\ DOMAIN marks' = 1 .. l + 1
      /\ \A i \in 1 .. l : marks'[i] = marks[i]
      /\ marks'[l + 1] = r
  BY <1>1, <1>2, <1>3, OneMore
<1>5. (inSpeech <=> l % 2 = 1) /\ inSpeech \in BOOLEAN
  BY DEF ActivityInv, SpeechShape, ActivityTypeOK
<1>6. CASE kind = "speech_start"
  <2>1. ~inSpeech /\ inSpeech' /\ l % 2 # 1
    BY <1>5, <1>6
  <2>2. e = IF l = 0 THEN 0 ELSE marks[l].at
    BY <1>1, <2>1 DEF LastEnd
  <2>3. LastEnd' = IF l = 0 THEN 0 ELSE marks'[l].at
    BY <1>1, <1>4, <2>1 DEF LastEnd
  <2>4. l # 0 => marks'[l] = marks[l]
    BY <1>1, <1>4
  <2>5. (l + 1) % 2 = 1
    BY <1>1, <2>1
  <2> QED BY <1>1, <1>4, <1>6, <2>2, <2>3, <2>4, <2>5 DEF r
<1>7. CASE kind = "speech_end"
  <2>0. inSpeech /\ ~inSpeech' /\ l % 2 = 1
    BY <1>5, <1>7
  <2>1. inSpeech /\ ~inSpeech' /\ l % 2 = 1 /\ l >= 1
    <3>1. l # 0
      BY <2>0
    <3> QED BY <1>1, <2>0, <3>1
  <2>2. e = IF l = 1 THEN 0 ELSE marks[l - 1].at
    BY <1>1, <2>1 DEF LastEnd
  <2>3. LastEnd' = marks'[l + 1].at
    BY <1>1, <1>4, <2>1 DEF LastEnd
  <2>4. marks'[l + 1].at = n + 1
    BY <1>4 DEF r
  <2>5. l # 1 => marks'[l - 1] = marks[l - 1]
    BY <1>1, <1>4, <2>1
  <2>6. (l + 1) % 2 # 1
    BY <1>1, <2>1
  <2>7. l + 1 = 2 <=> l = 1
    <3>1. l \in Nat
      BY <1>1
    <3> HIDE DEF l
    <3> QED BY <3>1
  <2>8. e = IF l + 1 = 2 THEN 0 ELSE marks'[l - 1].at
    BY <2>2, <2>5, <2>7
  <2> QED BY <1>4, <1>7, <2>3, <2>4, <2>6, <2>8 DEF r
<1> QED BY <1>6, <1>7

\* The deque has taken the judgement and the end is where it was.
LEMMA WindowKept ==
  ASSUME ActivityInv, NEW v \in BOOLEAN, NEW n \in Nat, NEW e \in Nat, Processes(v, n, e),
         voiceWindow' = Pushed(v), LastEnd' = e
  PROVE  WindowShape'
<1>1. PICK w : w = Pushed(v)
  OBVIOUS
<1>2. Len(w) = Fill(n + 1 - e) /\ \A i \in DOMAIN w : w[i] = judged'[n + 1 - Len(w) + i]
  BY <1>1 DEF Processes
<1>3. processed' = n + 1 /\ e <= n /\ voiceWindow' = w
  BY <1>1 DEF Processes
<1>4. Len(voiceWindow') = Fill(processed' - LastEnd')
  BY <1>2, <1>3
<1>5. \A i \in DOMAIN voiceWindow' : voiceWindow'[i] = judged'[processed' - Len(voiceWindow') + i]
  BY <1>2, <1>3
<1>6. LastEnd' \in Nat /\ LastEnd' <= processed'
  BY <1>3
<1> QED BY <1>4, <1>5, <1>6 DEF WindowShape

\* The first judgements that confirm a speech begin it.
LEMMA StartKeepsInv ==
  ASSUME ActivityInv, NEW v \in BOOLEAN, NEW n \in Nat, NEW e \in Nat, Processes(v, n, e),
         Heard(judged', n + 1, e), voiceWindow' = Pushed(v), lastVoice' = n + 1, inSpeech' = TRUE,
         IF inSpeech THEN UNCHANGED marks ELSE Mark("speech_start")
  PROVE  LastEnd' = e /\ SpeechShape' /\ marks' \in Seq(MarkRecord)
<1>1. /\ n < LastWindow /\ LastWindow \in Nat /\ processed' = n + 1 /\ e = LastEnd /\ e <= n
      /\ marks \in Seq(MarkRecord) /\ DOMAIN marks = 1 .. Len(marks) /\ Len(marks) \in Nat
      /\ \A p \in Int : p <= n => (Heard(judged', p, e) <=> Heard(judged, p, e))
      /\ MinSilence \in Nat \ {0}
  BY ActivityAssumption DEF Processes
<1>2. \A p \in lastVoice' .. processed' : Heard(judged', p, e) <=> (p = lastVoice')
  <2>1. \A p \in lastVoice' .. processed' : p = n + 1
    BY <1>1
  <2> QED BY <2>1
<1>3. processed' - lastVoice' < MinSilence
  BY <1>1
<1>4. CASE inSpeech
  <2>1. marks' = marks /\ LastEnd' = e
    BY <1>1, <1>4 DEF LastEnd
  <2>2. Len(marks) % 2 = 1
    BY <1>4 DEF ActivityInv, SpeechShape
  <2>3. \A k \in 1 .. Len(marks) : MarkOK(judged', marks, k) /\ marks[k].at <= n + 1
    BY OldMarks
  <2>4. SpeechShape'
    BY <1>1, <1>2, <1>3, <2>1, <2>2, <2>3 DEF SpeechShape
  <2> QED BY <1>1, <2>1, <2>4
<1>5. CASE ~inSpeech
  <2> DEFINE l == Len(marks)
             k == l + 1
  <2>0. (inSpeech <=> "speech_start" = "speech_end") /\ (inSpeech' <=> ~inSpeech) /\ Mark("speech_start")
        /\ lastVoice' \in 0 .. LastWindow
    BY <1>1, <1>5 DEF ActivityInv, ActivityTypeOK
  <2>1. /\ marks' \in Seq(MarkRecord) /\ Len(marks') = l + 1 /\ DOMAIN marks' = 1 .. l + 1
        /\ \A i \in 1 .. l : marks'[i] = marks[i]
        /\ marks'[l + 1] = [kind |-> "speech_start", at |-> n + 1, voice |-> lastVoice']
        /\ LastEnd' = e
        /\ (l + 1) % 2 = 1 /\ e = IF l + 1 = 1 THEN 0 ELSE marks'[l].at
    BY <2>0, NewMark
  <2>2. \A i \in 1 .. l : MarkOK(judged', marks', i) /\ marks'[i].at <= n + 1
    BY <2>1, OldMarks
  <2>3. \A p \in e + 1 .. n + 1 : Heard(judged', p, e) <=> (p = n + 1)
    <3> TAKE p \in e + 1 .. n + 1
    <3>1. CASE p = n + 1
      BY <3>1
    <3>2. CASE p # n + 1
      <4>1. p \in e + 1 .. processed /\ p <= n /\ p \in Int
        BY <3>2 DEF Processes
      <4>2. ~Heard(judged, p, e)
        BY <4>1, <1>1, <1>5 DEF ActivityInv, SpeechShape
      <4>3. ~Heard(judged', p, e)
        BY <4>1, <4>2, <1>1
      <4> QED BY <4>3, <3>2
    <3> QED BY <3>1, <3>2
  <2>4. MarkOK(judged', marks', k)
    <3>1. k % 2 = 1 /\ k - 1 = l
      BY <2>1, <1>1
    <3>2. (IF k = 1 THEN 0 ELSE marks'[k - 1].at) = e
      BY <2>1, <3>1
    <3>3. marks'[k].kind = "speech_start" /\ marks'[k].at = n + 1
      BY <2>1
    <3> QED BY <2>3, <3>1, <3>2, <3>3 DEF MarkOK
  <2>5. \A i \in DOMAIN marks' : MarkOK(judged', marks', i) /\ marks'[i].at <= n + 1
    <3> TAKE i \in DOMAIN marks'
    <3>1. i \in 1 .. l \/ i = k
      <4>1. i \in 1 .. l + 1 /\ l \in Nat
        BY <2>1, <1>1
      <4> HIDE DEF l
      <4> QED BY <4>1
    <3>2. marks'[k].at <= n + 1
      BY <2>1
    <3> QED BY <3>1, <3>2, <2>2, <2>4
  <2>6. (inSpeech' <=> Len(marks') % 2 = 1)
    BY <2>1
  <2>7. SpeechShape'
    BY <1>1, <1>2, <1>3, <2>1, <2>5, <2>6 DEF SpeechShape
  <2> QED BY <2>1, <2>7
<1> QED BY <1>4, <1>5 DEF ActivityInv, ActivityTypeOK

\* A long enough silence ends it.
LEMMA EndKeepsInv ==
  ASSUME ActivityInv, NEW v \in BOOLEAN, NEW n \in Nat, NEW e \in Nat, Processes(v, n, e),
         ~Heard(judged', n + 1, e), inSpeech, SilentLongEnough, voiceWindow' = <<>>, inSpeech' = FALSE,
         lastVoice' = lastVoice, Mark("speech_end")
  PROVE  WindowShape' /\ SpeechShape' /\ marks' \in Seq(MarkRecord)
<1> DEFINE l == Len(marks)
           k == l + 1
<1>1. /\ n < LastWindow /\ LastWindow \in Nat /\ n = processed /\ processed' = n + 1 /\ e = LastEnd /\ e <= n
      /\ DOMAIN marks = 1 .. l /\ l \in Nat
      /\ \A p \in Int : p <= n => (Heard(judged', p, e) <=> Heard(judged, p, e))
      /\ MinSilence \in Nat \ {0} /\ WindowSize \in Nat
  BY ActivityAssumption DEF Processes
<1>2. lastVoice \in Nat /\ lastVoice <= n
  BY <1>1 DEF ActivityInv, ActivityTypeOK
<1>3. /\ n - lastVoice < MinSilence
      /\ \A p \in lastVoice .. n : Heard(judged, p, e) <=> (p = lastVoice)
  BY <1>1 DEF ActivityInv, SpeechShape
<1>4. n + 1 = lastVoice + MinSilence
  <2>1. n + 1 - lastVoice >= MinSilence
    BY <1>1 DEF SilentLongEnough
  <2> QED BY <2>1, <1>1, <1>2, <1>3
<1>5. /\ marks' \in Seq(MarkRecord) /\ Len(marks') = l + 1 /\ DOMAIN marks' = 1 .. l + 1
      /\ \A i \in 1 .. l : marks'[i] = marks[i]
      /\ marks'[l + 1] = [kind |-> "speech_end", at |-> n + 1, voice |-> lastVoice']
      /\ LastEnd' = n + 1
      /\ (l + 1) % 2 # 1 /\ e = IF l + 1 = 2 THEN 0 ELSE marks'[l - 1].at
  <2>1. (inSpeech <=> "speech_end" = "speech_end") /\ (inSpeech' <=> ~inSpeech) /\ lastVoice' \in 0 .. LastWindow
    BY <1>1, <1>2 DEF ActivityInv, ActivityTypeOK
  <2> QED BY <2>1, NewMark
<1>6. \A i \in 1 .. l : MarkOK(judged', marks', i) /\ marks'[i].at <= n + 1
  BY <1>5, OldMarks
<1>7. \A p \in lastVoice .. n + 1 : Heard(judged', p, e) <=> (p = lastVoice)
  <2> TAKE p \in lastVoice .. n + 1
  <2>1. CASE p = n + 1
    BY <2>1, <1>1, <1>4
  <2>2. CASE p # n + 1
    <3>1. p \in lastVoice .. n /\ p \in Int /\ p <= n
      BY <2>2, <1>2
    <3> QED BY <3>1, <1>1, <1>3
  <2> QED BY <2>1, <2>2
<1>8. MarkOK(judged', marks', k)
  <2>1. k % 2 # 1 /\ k - 2 = l - 1
    BY <1>1, <1>5
  <2>2. (IF k = 2 THEN 0 ELSE marks'[k - 2].at) = e
    BY <1>5, <2>1
  <2>3. marks'[k].kind = "speech_end" /\ marks'[k].at = n + 1 /\ marks'[k].voice = lastVoice
    BY <1>5
  <2> QED BY <1>4, <1>7, <2>1, <2>2, <2>3 DEF MarkOK
<1>9. \A i \in DOMAIN marks' : MarkOK(judged', marks', i) /\ marks'[i].at <= n + 1
  <2> TAKE i \in DOMAIN marks'
  <2>1. i \in 1 .. l \/ i = k
    BY <1>1, <1>5
  <2>2. marks'[k].at <= n + 1
    BY <1>5
  <2> QED BY <2>1, <2>2, <1>6, <1>8
<1>10. SpeechShape'
  <2>1. (inSpeech' <=> Len(marks') % 2 = 1)
    BY <1>5
  <2>2. \A p \in LastEnd' + 1 .. processed' : FALSE
    BY <1>1, <1>5
  <2> QED BY <1>1, <1>9, <2>1, <2>2 DEF SpeechShape
<1>11. WindowShape'
  <2>1. Len(voiceWindow') = 0 /\ DOMAIN voiceWindow' = {}
    OBVIOUS
  <2>2. processed' - LastEnd' = 0
    BY <1>1, <1>5
  <2>3. Fill(0) = 0
    BY <1>1 DEF Fill
  <2> QED BY <1>1, <1>5, <2>1, <2>2, <2>3 DEF WindowShape
<1> QED BY <1>5, <1>10, <1>11

\* Neither.
LEMMA GoesOnKeepsInv ==
  ASSUME ActivityInv, NEW v \in BOOLEAN, NEW n \in Nat, NEW e \in Nat, Processes(v, n, e),
         ~Heard(judged', n + 1, e), ~(inSpeech /\ SilentLongEnough), UNCHANGED <<lastVoice, inSpeech, marks>>
  PROVE  LastEnd' = e /\ SpeechShape'
<1>1. /\ n = processed /\ processed' = n + 1 /\ e = LastEnd /\ e <= n /\ MinSilence \in Nat
      /\ DOMAIN marks = 1 .. Len(marks) /\ Len(marks) \in Nat
      /\ \A p \in Int : p <= n => (Heard(judged', p, e) <=> Heard(judged, p, e))
  BY ActivityAssumption DEF Processes
<1>2. LastEnd' = e
  BY <1>1 DEF LastEnd
<1>3. lastVoice \in Nat /\ lastVoice <= n
  BY <1>1 DEF ActivityInv, ActivityTypeOK
<1>4. \A k \in DOMAIN marks' : MarkOK(judged', marks', k) /\ marks'[k].at <= processed'
  <2>1. \A k \in 1 .. Len(marks) : MarkOK(judged', marks, k) /\ marks[k].at <= n + 1
    BY OldMarks
  <2> QED BY <1>1, <2>1
<1>5. (inSpeech' <=> Len(marks') % 2 = 1)
  BY DEF ActivityInv, SpeechShape
<1>6. CASE inSpeech
  <2>1. \A p \in lastVoice .. n : Heard(judged, p, e) <=> (p = lastVoice)
    BY <1>1, <1>6 DEF ActivityInv, SpeechShape
  <2>2. ASSUME NEW p \in lastVoice .. n + 1 PROVE Heard(judged', p, e) <=> (p = lastVoice)
    <3>1. CASE p = n + 1
      BY <3>1, <1>3
    <3>2. CASE p # n + 1
      <4>1. p \in lastVoice .. n /\ p \in Int /\ p <= n
        BY <3>2, <1>3
      <4> QED BY <4>1, <1>1, <2>1
    <3> QED BY <3>1, <3>2
  <2>3. processed' - lastVoice < MinSilence
    BY <1>1, <1>3, <1>6 DEF SilentLongEnough
  <2>4. SpeechShape'
    BY <1>1, <1>2, <1>4, <1>5, <1>6, <2>2, <2>3 DEF SpeechShape
  <2> QED BY <1>2, <2>4
<1>7. CASE ~inSpeech
  <2>1. \A p \in e + 1 .. n : ~Heard(judged, p, e)
    BY <1>1, <1>7 DEF ActivityInv, SpeechShape
  <2>2. ASSUME NEW p \in e + 1 .. n + 1 PROVE ~Heard(judged', p, e)
    <3>1. CASE p = n + 1
      BY <3>1
    <3>2. CASE p # n + 1
      <4>1. p \in e + 1 .. n /\ p \in Int /\ p <= n
        BY <3>2
      <4> QED BY <4>1, <1>1, <2>1
    <3> QED BY <3>1, <3>2
  <2>3. SpeechShape'
    BY <1>1, <1>2, <1>4, <1>5, <1>7, <2>2 DEF SpeechShape
  <2> QED BY <1>2, <2>3
<1> QED BY <1>6, <1>7 DEF ActivityInv, ActivityTypeOK

\* One window of the capture.
LEMMA ProcessWindowKeepsInv ==
  ASSUME ActivityInv, NEW level \in Levels, ProcessWindow(level)
  PROVE  ActivityInv'
<1> DEFINE v == IsVoice(level)
           w == Pushed(v)
<1>1. v \in BOOLEAN
  BY DEF IsVoice, ActivityInv, ActivityTypeOK
<1>2. processed < LastWindow /\ processed' = processed + 1 /\ judged' = Append(judged, v) /\ captures' = captures
  BY DEF ProcessWindow
<1>3. \/ /\ Voiced(w) >= StartThreshold
         /\ voiceWindow' = w /\ lastIsVoice' = v /\ lastVoice' = processed' /\ inSpeech' = TRUE
         /\ IF inSpeech THEN UNCHANGED marks ELSE Mark("speech_start")
      \/ /\ ~(Voiced(w) >= StartThreshold) /\ inSpeech /\ SilentLongEnough
         /\ voiceWindow' = <<>> /\ lastIsVoice' = FALSE /\ inSpeech' = FALSE
         /\ UNCHANGED lastVoice /\ Mark("speech_end")
      \/ /\ ~(Voiced(w) >= StartThreshold) /\ ~(inSpeech /\ SilentLongEnough)
         /\ voiceWindow' = w /\ lastIsVoice' = v /\ UNCHANGED <<lastVoice, inSpeech, marks>>
  <2>1. Voiced(w) < StartThreshold => ~(Voiced(w) >= StartThreshold)
    <3>1. StartThreshold \in Int /\ Voiced(w) \in Int
      <4>1. w \in Seq(BOOLEAN)
        BY <1>1, <1>2, Judges DEF Processes
      <4>2. IsFiniteSet(DOMAIN w)
        <5>1. DOMAIN w = 1 .. Len(w) /\ Len(w) \in Nat
          BY <4>1, Elements
        <5> QED BY <5>1, FS_Interval
      <4>3. {i \in DOMAIN w : w[i]} \in SUBSET DOMAIN w
        OBVIOUS
      <4>4. Cardinality({i \in DOMAIN w : w[i]}) \in Nat
        BY <4>2, <4>3, FS_Subset, FS_CardinalityType
      <4> QED BY <4>4, ActivityAssumption DEF Voiced
    <3> HIDE DEF w
    <3> QED BY <3>1
  <2> HIDE DEF v
  <2> QED BY <2>1 DEF ProcessWindow, WindowCleared, v
<1> HIDE DEF v
<1>4. PICK n \in Nat, e \in Nat : Processes(v, n, e)
  BY <1>1, <1>2, Judges
<1>5. /\ n = processed /\ n < LastWindow /\ processed' = n + 1 /\ LastWindow \in Nat
      /\ Pushed(v) \in Seq(BOOLEAN) /\ Len(Pushed(v)) = Fill(n + 1 - e) /\ e <= n
      /\ judged' \in Seq(BOOLEAN) /\ Len(judged') = n + 1
      /\ (Voiced(Pushed(v)) >= StartThreshold) <=> Heard(judged', n + 1, e)
      /\ marks \in Seq(MarkRecord)
  BY <1>4, ActivityAssumption DEF Processes
<1>6. Len(Pushed(v)) <= WindowSize /\ WindowSize \in Nat
  BY <1>5, ActivityAssumption DEF Fill
<1>7. lastVoice \in Nat /\ lastVoice <= n /\ captures \in 0 .. MaxCaptures
  BY <1>5 DEF ActivityInv, ActivityTypeOK
<1>8. ASSUME /\ voiceWindow' \in Seq(BOOLEAN) /\ Len(voiceWindow') <= WindowSize
             /\ lastIsVoice' \in BOOLEAN /\ inSpeech' \in BOOLEAN
             /\ lastVoice' \in {lastVoice, n + 1} /\ marks' \in Seq(MarkRecord)
      PROVE  ActivityTypeOK'
  <2>1. processed' \in 0 .. LastWindow /\ lastVoice' \in 0 .. processed'
    BY <1>5, <1>7, <1>8
  <2> QED BY <1>2, <1>5, <1>7, <1>8, <2>1 DEF ActivityTypeOK, MarkRecord
<1>9. CASE /\ Voiced(w) >= StartThreshold
           /\ voiceWindow' = w /\ lastIsVoice' = v /\ lastVoice' = processed' /\ inSpeech' = TRUE
           /\ IF inSpeech THEN UNCHANGED marks ELSE Mark("speech_start")
  <2>1. Heard(judged', n + 1, e) /\ lastVoice' = n + 1
    BY <1>5, <1>9
  <2>2. LastEnd' = e /\ SpeechShape' /\ marks' \in Seq(MarkRecord)
    BY <1>1, <1>4, <1>9, <2>1, StartKeepsInv
  <2>3. WindowShape'
    BY <1>1, <1>4, <1>9, <2>2, WindowKept
  <2>4. ActivityTypeOK'
    BY <1>1, <1>5, <1>6, <1>8, <1>9, <2>1, <2>2
  <2> QED BY <2>2, <2>3, <2>4 DEF ActivityInv
<1>10. CASE /\ ~(Voiced(w) >= StartThreshold) /\ inSpeech /\ SilentLongEnough
            /\ voiceWindow' = <<>> /\ lastIsVoice' = FALSE /\ inSpeech' = FALSE
            /\ UNCHANGED lastVoice /\ Mark("speech_end")
  <2>1. ~Heard(judged', n + 1, e)
    BY <1>5, <1>10
  <2>2. WindowShape' /\ SpeechShape' /\ marks' \in Seq(MarkRecord)
    BY <1>1, <1>4, <1>10, <2>1, EndKeepsInv
  <2>3. voiceWindow' \in Seq(BOOLEAN) /\ Len(voiceWindow') <= WindowSize
    BY <1>6, <1>10
  <2>4. ActivityTypeOK'
    BY <1>8, <1>10, <2>2, <2>3
  <2> QED BY <2>2, <2>4 DEF ActivityInv
<1>11. CASE /\ ~(Voiced(w) >= StartThreshold) /\ ~(inSpeech /\ SilentLongEnough)
            /\ voiceWindow' = w /\ lastIsVoice' = v /\ UNCHANGED <<lastVoice, inSpeech, marks>>
  <2>1. ~Heard(judged', n + 1, e)
    BY <1>5, <1>11
  <2>2. LastEnd' = e /\ SpeechShape'
    BY <1>1, <1>4, <1>11, <2>1, GoesOnKeepsInv
  <2>3. WindowShape'
    BY <1>1, <1>4, <1>11, <2>2, WindowKept
  <2>4. inSpeech \in BOOLEAN
    BY DEF ActivityInv, ActivityTypeOK
  <2>5. ActivityTypeOK'
    BY <1>1, <1>5, <1>6, <1>8, <1>11, <2>4
  <2> QED BY <2>2, <2>3, <2>5 DEF ActivityInv
<1> QED BY <1>3, <1>9, <1>10, <1>11

\* A capture that begins.
FreshCapture ==
    /\ voiceWindow = <<>> /\ lastIsVoice = FALSE /\ inSpeech = FALSE /\ processed = 0 /\ lastVoice = 0
    /\ judged = <<>> /\ marks = <<>> /\ captures \in 0 .. MaxCaptures

\* It has the invariant.
LEMMA FreshCaptureHasInv == FreshCapture => ActivityInv
<1> SUFFICES ASSUME FreshCapture PROVE ActivityInv
  OBVIOUS
<1> USE DEF FreshCapture
<1>1. Len(voiceWindow) = 0 /\ DOMAIN voiceWindow = {} /\ Len(judged) = 0 /\ Len(marks) = 0 /\ DOMAIN marks = {}
  OBVIOUS
<1>2. WindowSize \in Nat /\ LastWindow \in Nat /\ StartThreshold \in 1 .. WindowSize
  BY ActivityAssumption
<1>3. ActivityTypeOK
  <2>1. \A S : <<>> \in Seq(S)
    OBVIOUS
  <2>2. voiceWindow \in Seq(BOOLEAN) /\ judged \in Seq(BOOLEAN) /\ marks \in Seq(MarkRecord)
    BY <2>1
  <2>3. processed \in 0 .. LastWindow /\ lastVoice \in 0 .. processed /\ Len(voiceWindow) <= WindowSize
    BY <1>1, <1>2
  <2> QED BY <1>1, <2>2, <2>3 DEF ActivityTypeOK, MarkRecord
<1>4. LastEnd = 0
  BY <1>1 DEF LastEnd
<1>5. WindowShape
  <2>1. Fill(0) = 0
    BY <1>2 DEF Fill
  <2> QED BY <1>1, <1>4, <2>1 DEF WindowShape
<1>6. SpeechShape
  <2>1. \A p \in 0 + 1 .. 0 : FALSE
    OBVIOUS
  <2> QED BY <1>1, <1>4, <2>1 DEF SpeechShape
<1> QED BY <1>3, <1>5, <1>6 DEF ActivityInv

\* The deque holds the last judgements, and the marks are where they should be.
THEOREM ActivityInvariant == ActivitySpec => []ActivityInv
<1>1. FreshCapture' => ActivityInv'
  BY FreshCaptureHasInv, PTL
<1>2. ActivityInit => ActivityInv
  BY FreshCaptureHasInv, ActivityAssumption DEF ActivityInit, FreshCapture
<1>3. ActivityInv /\ [ActivityNext]_activityVars => ActivityInv'
  <2> SUFFICES ASSUME ActivityInv, [ActivityNext]_activityVars PROVE ActivityInv'
    OBVIOUS
  <2>1. CASE Flush
    <3>1. FreshCapture'
      BY <2>1, ActivityAssumption DEF Flush, FreshCapture, ActivityInv, ActivityTypeOK
    <3> QED BY <3>1, <1>1
  <2>2. CASE \E level \in Levels : ProcessWindow(level)
    BY <2>2, ProcessWindowKeepsInv
  <2>3. CASE UNCHANGED activityVars
    BY <2>3 DEF activityVars, ActivityInv, ActivityTypeOK, WindowShape, SpeechShape, LastEnd
  <2> QED BY <2>1, <2>2, <2>3 DEF ActivityNext
<1> QED BY <1>2, <1>3, PTL DEF ActivitySpec

\* However the probabilities go, starts and ends alternate, a speech begins at the first window
\* that confirms it and ends after exactly the minimum of silence, and each end counts none of
\* what was heard before it (SileroVadStream.process).
THEOREM SpeechStaysBounded == ActivitySpec => []SpeechIsBounded
<1>1. ActivityInv => SpeechIsBounded
  <2> SUFFICES ASSUME ActivityInv PROVE SpeechIsBounded
    OBVIOUS
  <2>1. /\ DOMAIN marks = 1 .. Len(marks) /\ Len(marks) \in Nat
        /\ \A k \in DOMAIN marks : marks[k] \in MarkRecord
    BY Elements DEF ActivityInv, ActivityTypeOK, MarkRecord
  <2>2. \A p, e : Confirmed(p, e) <=> Heard(judged, p, e)
    BY DEF Confirmed, Since, Heard, Counted
  <2>3. /\ (inSpeech <=> Len(marks) % 2 = 1) /\ inSpeech \in BOOLEAN
        /\ \A k \in DOMAIN marks : MarkOK(judged, marks, k)
    BY DEF ActivityInv, ActivityTypeOK, SpeechShape
  <2>4. \A p, e : Confirmed(p, e) \in BOOLEAN
    BY DEF Confirmed
  <2>5. inSpeech = (marks # <<>> /\ marks[Len(marks)].kind = "speech_start")
    <3>1. CASE marks = <<>>
      <4>1. Len(marks) = 0
        BY <3>1
      <4>2. ~inSpeech
        BY <4>1, <2>3
      <4> QED BY <3>1, <4>2, <2>3
    <3>2. CASE marks # <<>>
      <4>1. Len(marks) # 0
        BY <3>2, <2>1 DEF ActivityInv, ActivityTypeOK
      <4>2. Len(marks) \in DOMAIN marks
        BY <4>1, <2>1
      <4>3. MarkOK(judged, marks, Len(marks))
        BY <4>2, <2>3
      <4>4. Len(marks) % 2 = 1 <=> marks[Len(marks)].kind = "speech_start"
        BY <4>3 DEF MarkOK
      <4> QED BY <3>2, <4>4, <2>3
    <3> QED BY <3>1, <3>2
  <2>6. ASSUME NEW k \in DOMAIN marks
        PROVE  IF k % 2 = 1
               THEN /\ marks[k].kind = "speech_start"
                    /\ \A p \in EndBefore(k) + 1 .. marks[k].at : Confirmed(p, EndBefore(k)) = (p = marks[k].at)
               ELSE LET e == IF k = 2 THEN 0 ELSE marks[k - 2].at
                    IN  /\ marks[k].kind = "speech_end" /\ marks[k].at = marks[k].voice + MinSilence
                        /\ \A p \in marks[k].voice .. marks[k].at : Confirmed(p, e) = (p = marks[k].voice)
    <3>1. MarkOK(judged, marks, k)
      BY <2>3
    <3>2. CASE k % 2 = 1
      <4>1. /\ marks[k].kind = "speech_start"
            /\ \A p \in EndBefore(k) + 1 .. marks[k].at : Heard(judged, p, EndBefore(k)) <=> (p = marks[k].at)
        BY <3>1, <3>2 DEF MarkOK, EndBefore
      <4> QED BY <3>2, <4>1, <2>2, <2>4
    <3>3. CASE k % 2 # 1
      <4> DEFINE e == IF k = 2 THEN 0 ELSE marks[k - 2].at
      <4>1. /\ marks[k].kind = "speech_end" /\ marks[k].at = marks[k].voice + MinSilence
            /\ \A p \in marks[k].voice .. marks[k].at : Heard(judged, p, e) <=> (p = marks[k].voice)
        BY <3>1, <3>3 DEF MarkOK
      <4> HIDE DEF e
      <4>2. \A p \in marks[k].voice .. marks[k].at : Confirmed(p, e) = (p = marks[k].voice)
        BY <4>1, <2>2, <2>4
      <4> QED BY <3>3, <4>1, <4>2 DEF e
    <3> QED BY <3>2, <3>3
  <2>7. ASSUME ~inSpeech
        PROVE  LET e == IF marks = <<>> THEN 0 ELSE marks[Len(marks)].at
               IN  \A p \in e + 1 .. processed : ~Confirmed(p, e)
    <3>1. \A p \in LastEnd + 1 .. processed : ~Heard(judged, p, LastEnd)
      BY <2>7 DEF ActivityInv, SpeechShape
    <3>2. LastEnd = IF marks = <<>> THEN 0 ELSE marks[Len(marks)].at
      <4>1. Len(marks) = 0 <=> marks = <<>>
        BY DEF ActivityInv, ActivityTypeOK
      <4> QED BY <4>1, <2>1, <2>7 DEF LastEnd
    <3> QED BY <3>1, <3>2, <2>2
  <2>8. inSpeech => processed - lastVoice < MinSilence
    BY DEF ActivityInv, SpeechShape
  <2> QED BY <2>5, <2>6, <2>7, <2>8 DEF SpeechIsBounded
<1> QED BY <1>1, ActivityInvariant, PTL

-----------------------------------------------------------------------------
(***************************************************************************)
(* ContextBudget: what the loops of fit_request leave of a conversation.   *)
(***************************************************************************)

\* Induction, over a set: one that holds 0 and what follows each of its numbers holds them all.
LEMMA NumbersInTurn ==
  ASSUME NEW S \in SUBSET Nat, 0 \in S, \A n \in S : n + 1 \in S
  PROVE  Nat \subseteq S
<1>1. SUFFICES ASSUME NEW k \in Nat, k \notin S PROVE FALSE
  OBVIOUS
<1> DEFINE Left == Nat \ S
<1>2. Left \in SUBSET Nat /\ Left # {}
  BY <1>1
<1>3. PICK n \in Left : \A m \in Left : n <= m
  <2> HIDE DEF Left
  <2> QED BY <1>2, LeastNumber
<1>4. n \in Nat /\ n \notin S /\ n # 0
  BY <1>3
<1>5. n - 1 \in Nat /\ n - 1 \in S
  BY <1>3, <1>4
<1>6. (n - 1) + 1 \in S /\ (n - 1) + 1 = n
  BY <1>4, <1>5
<1> QED BY <1>4, <1>6

\* What the first messages cost, message by message.
AddsUp(f, N, costs, S) ==
    /\ f[0] = 0
    /\ \A n \in 1 .. N : f[n] = f[n - 1] + (IF n \in S THEN costs[n] ELSE 0)
    /\ Sum(costs, S) = f[N]

\* Sum adds up.
LEMMA SumIsUpTo ==
  ASSUME NEW N \in Nat, NEW costs, Len(costs) = N, \A n \in 1 .. N : costs[n] \in Int, NEW S
  PROVE  \E f \in [0 .. N -> Int] : AddsUp(f, N, costs, S)
<1> DEFINE Term(n) == IF n \in S THEN costs[n] ELSE 0
           Sums(f, m) == f = [n \in 0 .. m |-> IF n = 0 THEN 0 ELSE f[n - 1] + Term(n)]
           Reached == {m \in Nat : m <= N => \E f \in [0 .. m -> Int] : Sums(f, m)}
<1>0. \A n \in 1 .. N : Term(n) \in Int
  OBVIOUS
<1>1. 0 \in Reached
  <2>1. Sums([n \in 0 .. 0 |-> 0], 0)
    BY Z3
  <2>2. [n \in 0 .. 0 |-> 0] \in [0 .. 0 -> Int]
    OBVIOUS
  <2> QED BY <2>1, <2>2
<1>2. ASSUME NEW m \in Reached, m + 1 <= N
      PROVE  \E f \in [0 .. m + 1 -> Int] : Sums(f, m + 1)
  <2>1. m \in Nat /\ m <= N /\ N \in Nat
    BY <1>2
  <2>2. PICK f \in [0 .. m -> Int] : Sums(f, m)
    BY <1>2, <2>1
  <2>3. \A n \in 0 .. m : f[n] = IF n = 0 THEN 0 ELSE f[n - 1] + Term(n)
    <3> HIDE DEF Term
    <3> QED BY <2>2
  <2> DEFINE g == [n \in 0 .. m + 1 |-> IF n = m + 1 THEN f[m] + Term(m + 1) ELSE f[n]]
  <2>4. Term(m + 1) \in Int
    BY <1>0, <1>2, <2>1
  <2> HIDE DEF Term
  <2>5. g \in [0 .. m + 1 -> Int]
    BY <2>1, <2>2, <2>4
  <2>6. \A n \in 0 .. m + 1 : g[n] = IF n = 0 THEN 0 ELSE g[n - 1] + Term(n)
    BY SMTT(30), <2>1, <2>2, <2>3
  <2>7. g = [n \in 0 .. m + 1 |-> g[n]]
    OBVIOUS
  <2> HIDE DEF g
  <2>8. Sums(g, m + 1)
    BY <2>6, <2>7
  <2> QED BY <2>5, <2>8
<1>3. \A m \in Reached : m + 1 \in Reached
  <2> TAKE m \in Reached
  <2>1. m + 1 \in Nat
    OBVIOUS
  <2> QED BY <1>2, <2>1
<1>4. Reached \in SUBSET Nat
  OBVIOUS
<1>5. N \in Reached
  <2> HIDE DEF Reached
  <2> QED BY <1>1, <1>3, <1>4, NumbersInTurn
<1>6. PICK h \in [0 .. N -> Int] : Sums(h, N)
  BY <1>5
<1> DEFINE f == CHOOSE f : Sums(f, N)
<1>7. Sums(f, N)
  <2> HIDE DEF Sums
  <2> QED BY <1>6
<1>8. Sum(costs, S) = f[N]
  BY DEF Sum
<1> HIDE DEF f
<1>9. f[0] = 0 /\ \A n \in 1 .. N : f[n] = f[n - 1] + Term(n)
  <2> HIDE DEF Term
  <2> QED BY <1>7
<1>10. h[0] = 0 /\ \A n \in 1 .. N : h[n] = h[n - 1] + Term(n)
  <2> HIDE DEF Term
  <2> QED BY <1>6
<1>11. \A n \in 0 .. N : f[n] = h[n]
  <2> DEFINE Same == {m \in Nat : m <= N => f[m] = h[m]}
  <2>1. 0 \in Same
    BY <1>9, <1>10
  <2>2. \A m \in Same : m + 1 \in Same
    <3> HIDE DEF Term
    <3>1. ASSUME NEW m \in Same, m + 1 <= N PROVE f[m + 1] = h[m + 1]
      <4>1. m \in Nat /\ m + 1 \in 1 .. N /\ f[m] = h[m] /\ (m + 1) - 1 = m
        BY <3>1
      <4> QED BY <4>1, <1>9, <1>10
    <3> QED BY <3>1
  <2>3. Same \in SUBSET Nat
    OBVIOUS
  <2>4. Nat \subseteq Same
    <3> HIDE DEF Same
    <3> QED BY <2>1, <2>2, <2>3, NumbersInTurn
  <2> QED BY <2>4
<1>12. f \in [0 .. N -> Int]
  <2>1. f = [n \in 0 .. N |-> f[n]]
    <3>1. DOMAIN f = 0 .. N
      <4> HIDE DEF Term
      <4> QED BY <1>7
    <3>2. f = [n \in 0 .. N |-> IF n = 0 THEN 0 ELSE f[n - 1] + Term(n)]
      BY <1>7
    <3> HIDE DEF Term
    <3> QED BY <3>1, <3>2
  <2>2. \A n \in 0 .. N : f[n] \in Int
    BY <1>6, <1>11
  <2> QED BY <2>1, <2>2
<1>13. AddsUp(f, N, costs, S)
  BY <1>8, <1>9 DEF AddsUp
<1> QED BY <1>12, <1>13

\* Costs that add up message by message add up in all.
AddEachTime(N, a, S, b, T, c, U) ==
    \A n \in 1 .. N : (IF n \in S THEN a[n] ELSE 0) = (IF n \in T THEN b[n] ELSE 0) + (IF n \in U THEN c[n] ELSE 0)

\* Sum is additive.
LEMMA SumAdds ==
  ASSUME NEW N \in Nat, NEW a, NEW S, NEW b, NEW T, NEW c, NEW U,
         Len(a) = N, Len(b) = N, Len(c) = N,
         \A n \in 1 .. N : a[n] \in Int /\ b[n] \in Int /\ c[n] \in Int,
         AddEachTime(N, a, S, b, T, c, U)
  PROVE  /\ Sum(a, S) = Sum(b, T) + Sum(c, U)
         /\ Sum(a, S) \in Int /\ Sum(b, T) \in Int /\ Sum(c, U) \in Int
<1> DEFINE A(n) == IF n \in S THEN a[n] ELSE 0
           B(n) == IF n \in T THEN b[n] ELSE 0
           C(n) == IF n \in U THEN c[n] ELSE 0
<1>1. PICK f \in [0 .. N -> Int] : AddsUp(f, N, a, S)
  BY SumIsUpTo
<1>2. PICK g \in [0 .. N -> Int] : AddsUp(g, N, b, T)
  BY SumIsUpTo
<1>3. PICK h \in [0 .. N -> Int] : AddsUp(h, N, c, U)
  BY SumIsUpTo
<1>4. \A n \in 1 .. N : A(n) = B(n) + C(n) /\ A(n) \in Int /\ B(n) \in Int /\ C(n) \in Int
  BY DEF AddEachTime
<1>5. \A n \in 1 .. N : f[n] = f[n - 1] + A(n) /\ g[n] = g[n - 1] + B(n) /\ h[n] = h[n - 1] + C(n)
  BY <1>1, <1>2, <1>3 DEF AddsUp
<1>6. f[0] = 0 /\ g[0] = 0 /\ h[0] = 0 /\ Sum(a, S) = f[N] /\ Sum(b, T) = g[N] /\ Sum(c, U) = h[N]
  BY <1>1, <1>2, <1>3 DEF AddsUp
<1> HIDE DEF A, B, C
<1> DEFINE Agrees == {m \in Nat : m <= N => f[m] = g[m] + h[m]}
<1>7. 0 \in Agrees
  BY <1>6
<1>8. \A m \in Agrees : m + 1 \in Agrees
  <2>1. ASSUME NEW m \in Agrees, m + 1 <= N PROVE f[m + 1] = g[m + 1] + h[m + 1]
    <3>1. m \in Nat /\ m + 1 \in 1 .. N /\ m \in 0 .. N /\ f[m] = g[m] + h[m] /\ (m + 1) - 1 = m
      BY <2>1
    <3>2. f[m + 1] = f[m] + A(m + 1) /\ g[m + 1] = g[m] + B(m + 1) /\ h[m + 1] = h[m] + C(m + 1)
      BY <3>1, <1>5
    <3>3. f[m] \in Int /\ g[m] \in Int /\ h[m] \in Int
      BY <3>1
    <3>4. A(m + 1) = B(m + 1) + C(m + 1) /\ B(m + 1) \in Int /\ C(m + 1) \in Int
      BY <3>1, <1>4
    <3> QED BY <3>1, <3>2, <3>3, <3>4
  <2> QED BY <2>1
<1>9. Agrees \in SUBSET Nat
  OBVIOUS
<1>10. N \in Agrees
  <2> HIDE DEF Agrees
  <2> QED BY <1>7, <1>8, <1>9, NumbersInTurn
<1>11. f[N] = g[N] + h[N] /\ f[N] \in Int /\ g[N] \in Int /\ h[N] \in Int
  BY <1>10
<1> QED BY <1>11, <1>6

\* Messages that are left out cost nothing, and one message costs what it does.
LEMMA SumOfOne ==
  ASSUME NEW N \in Nat, NEW c, Len(c) = N, \A n \in 1 .. N : c[n] \in Int, NEW i \in 1 .. N
  PROVE  Sum(c, {i}) = c[i]
<1>1. PICK f \in [0 .. N -> Int] : AddsUp(f, N, c, {i})
  BY SumIsUpTo
<1>2. \A n \in 1 .. N : f[n] = f[n - 1] + (IF n = i THEN c[i] ELSE 0)
  BY <1>1 DEF AddsUp
<1>3. f[0] = 0 /\ Sum(c, {i}) = f[N]
  BY <1>1 DEF AddsUp
<1> DEFINE Known == {m \in Nat : m <= N => f[m] = IF m < i THEN 0 ELSE c[i]}
<1>4. 0 \in Known
  BY <1>3
<1>5. \A m \in Known : m + 1 \in Known
  <2>1. ASSUME NEW m \in Known, m + 1 <= N PROVE f[m + 1] = IF m + 1 < i THEN 0 ELSE c[i]
    <3>1. m \in Nat /\ m + 1 \in 1 .. N /\ (f[m] = IF m < i THEN 0 ELSE c[i]) /\ (m + 1) - 1 = m
      BY <2>1
    <3>2. f[m + 1] = f[m] + (IF m + 1 = i THEN c[i] ELSE 0)
      BY <3>1, <1>2
    <3>3. c[i] \in Int
      OBVIOUS
    <3> QED BY <3>1, <3>2, <3>3
  <2> QED BY <2>1
<1>6. Known \in SUBSET Nat
  OBVIOUS
<1>7. N \in Known
  <2> HIDE DEF Known
  <2> QED BY <1>4, <1>5, <1>6, NumbersInTurn
<1> QED BY <1>7, <1>3

\* A list of costs.
LEMMA CostsHaveALength ==
  ASSUME NEW N \in Nat, NEW c \in [1 .. N -> Int]
  PROVE  Len(c) = N /\ \A n \in 1 .. N : c[n] \in Int
<1>1. c \in Seq(Int)
  BY SMT
<1>2. Len(c) \in Nat /\ DOMAIN c = 1 .. Len(c) /\ DOMAIN c = 1 .. N
  BY <1>1
<1> QED BY <1>2

\* The same costs of the same messages.
LEMMA SumSame ==
  ASSUME NEW N \in Nat, NEW a \in [1 .. N -> Int], NEW S, NEW b \in [1 .. N -> Int], NEW T,
         \A n \in 1 .. N : (n \in S <=> n \in T) /\ (n \in S => a[n] = b[n])
  PROVE  Sum(a, S) = Sum(b, T)
<1> DEFINE none == [n \in 1 .. N |-> 0]
<1>1. none \in [1 .. N -> Int] /\ \A n \in 1 .. N : none[n] = 0
  OBVIOUS
<1> HIDE DEF none
<1>2. /\ Len(a) = N /\ Len(b) = N /\ Len(none) = N
      /\ \A n \in 1 .. N : a[n] \in Int /\ b[n] \in Int /\ none[n] \in Int
  BY <1>1, CostsHaveALength
<1>3. AddEachTime(N, none, {}, none, {}, none, {})
  BY DEF AddEachTime
<1>4. Sum(none, {}) = Sum(none, {}) + Sum(none, {}) /\ Sum(none, {}) \in Int
  BY <1>2, <1>3, SumAdds
<1>5. AddEachTime(N, a, S, b, T, none, {})
  BY <1>2 DEF AddEachTime
<1>6. Sum(a, S) = Sum(b, T) + Sum(none, {}) /\ Sum(b, T) \in Int
  BY <1>2, <1>5, SumAdds
<1>7. Sum(none, {}) = 0
  BY <1>4
<1> QED BY <1>6, <1>7

\* Messages apart.
LEMMA SumApart ==
  ASSUME NEW N \in Nat, NEW c \in [1 .. N -> Int], NEW S, NEW T, S \cap T = {}
  PROVE  Sum(c, S \cup T) = Sum(c, S) + Sum(c, T) /\ Sum(c, S \cup T) \in Int /\ Sum(c, S) \in Int /\ Sum(c, T) \in Int
<1>1. Len(c) = N /\ \A n \in 1 .. N : c[n] \in Int
  BY CostsHaveALength
<1>2. AddEachTime(N, c, S \cup T, c, S, c, T)
  BY <1>1 DEF AddEachTime
<1> QED BY <1>1, <1>2, SumAdds

\* One message costs something else.
LEMMA SumOfChanged ==
  ASSUME NEW N \in Nat, NEW a \in [1 .. N -> Int], NEW b \in [1 .. N -> Int], NEW i \in 1 .. N, NEW S, i \in S,
         \A n \in 1 .. N : n # i => a[n] = b[n]
  PROVE  Sum(b, S) = Sum(a, S) + b[i] - a[i] /\ Sum(a, S) \in Int
<1> DEFINE R == S \ {i}
<1>1. S = R \cup {i} /\ R \cap {i} = {}
  OBVIOUS
<1>2. \A n \in 1 .. N : (n \in R <=> n \in R) /\ (n \in R => a[n] = b[n])
  OBVIOUS
<1> HIDE DEF R
<1>3. Sum(a, S) = Sum(a, R) + Sum(a, {i}) /\ Sum(a, S) \in Int /\ Sum(a, R) \in Int
  BY <1>1, SumApart
<1>4. Sum(b, S) = Sum(b, R) + Sum(b, {i})
  BY <1>1, SumApart
<1>5. Sum(a, R) = Sum(b, R)
  BY <1>2, SumSame
<1>6. Len(a) = N /\ Len(b) = N /\ \A n \in 1 .. N : a[n] \in Int /\ b[n] \in Int
  BY CostsHaveALength
<1>7. Sum(a, {i}) = a[i] /\ Sum(b, {i}) = b[i]
  BY <1>6, SumOfOne
<1> QED BY <1>3, <1>4, <1>5, <1>6, <1>7

-----------------------------------------------------------------------------
\* What a pass of truncations leaves, message by message.
Truncates(after, start, S) ==
    /\ after[0] = start
    /\ \A n \in 1 .. Len(context) : after[n] = IF n \in S THEN Truncate(after[n - 1], n) ELSE after[n - 1]
    /\ Pass(Truncate, start, S) = after[Len(context)]

\* The loops over the memories end.
LEMMA PassTruncates ==
  ASSUME NEW start, NEW S, Len(context) \in Nat
  PROVE  \E after : Truncates(after, start, S)
<1> DEFINE N == Len(context)
           Next(g, n) == IF n = 0 THEN start ELSE IF n \in S THEN Truncate(g[n - 1], n) ELSE g[n - 1]
           Runs(g, m) == g = [n \in 0 .. m |-> Next(g, n)]
           Reached == {m \in Nat : \E g : Runs(g, m)}
<1>1. 0 \in Reached
  <2> DEFINE g == [n \in 0 .. 0 |-> start]
  <2>1. \A n \in 0 .. 0 : Next(g, n) = start
    BY Z3
  <2>2. g = [n \in 0 .. 0 |-> Next(g, n)]
    <3> HIDE DEF Next
    <3> QED BY <2>1
  <2> QED BY <2>2
<1>2. ASSUME NEW m \in Reached
      PROVE  \E g : Runs(g, m + 1)
  <2>1. m \in Nat
    BY <1>2
  <2>2. PICK f : Runs(f, m)
    BY <1>2
  <2>3. \A n \in 0 .. m : f[n] = Next(f, n)
    <3> HIDE DEF Next
    <3> QED BY <2>2
  <2> DEFINE g == [n \in 0 .. m + 1 |-> IF n = m + 1 THEN Next(f, m + 1) ELSE f[n]]
  <2>4. \A n \in 0 .. m + 1 : g[n] = IF n = m + 1 THEN Next(f, m + 1) ELSE f[n]
    <3> HIDE DEF Next
    <3> QED OBVIOUS
  <2>5. \A n \in 0 .. m : g[n] = f[n]
    <3> HIDE DEF Next, g
    <3> QED BY <2>1, <2>4
  <2>6. \A n \in 0 .. m + 1 : n # 0 => g[n - 1] = f[n - 1]
    <3> HIDE DEF Next, g
    <3> QED BY <2>1, <2>5
  <2>7. \A n \in 0 .. m + 1 : Next(g, n) = Next(f, n)
    <3> HIDE DEF g
    <3> QED BY <2>6 DEF Next
  <2>8. \A n \in 0 .. m + 1 : g[n] = Next(g, n)
    <3> HIDE DEF Next, g
    <3> QED BY <2>1, <2>3, <2>4, <2>7
  <2>9. g = [n \in 0 .. m + 1 |-> g[n]]
    <3> HIDE DEF Next
    <3> QED OBVIOUS
  <2>10. Runs(g, m + 1)
    <3> HIDE DEF Next, g
    <3> QED BY <2>8, <2>9
  <2> QED BY <2>10
<1>3. Reached \in SUBSET Nat /\ \A m \in Reached : m + 1 \in Reached
  <2> HIDE DEF Runs
  <2> QED BY <1>2
<1>4. N \in Reached
  <2> HIDE DEF Reached
  <2> QED BY <1>1, <1>3, NumbersInTurn
<1> DEFINE after == CHOOSE g : Runs(g, N)
<1>5. Runs(after, N)
  <2> HIDE DEF Runs
  <2> QED BY <1>4
<1>6. Pass(Truncate, start, S) = after[N]
  BY DEF Pass
<1> HIDE DEF after
<1>7. \A n \in 0 .. N : after[n] = Next(after, n)
  <2> HIDE DEF Next
  <2> QED BY <1>5
<1>8. Truncates(after, start, S)
  BY <1>6, <1>7 DEF Truncates
<1> QED BY <1>8

-----------------------------------------------------------------------------
\* The messages of a conversation, its budget and what they cost.
LEMMA Conversation ==
  ASSUME BudgetTypeOK
  PROVE  /\ Len(context) \in Nat /\ DOMAIN context = 1 .. Len(context)
         /\ \A i \in 1 .. Len(context) : context[i].cost \in Nat
         /\ limit \in Nat /\ Overhead \in Nat /\ ShortCost \in Nat
<1>1. Limits \subseteq Nat /\ Costs \subseteq Nat /\ Overhead \in Nat /\ ShortCost \in Nat
  BY BudgetAssumption
<1>2. Len(context) \in Nat /\ DOMAIN context = 1 .. Len(context) /\ limit \in Nat
  BY <1>1 DEF BudgetTypeOK
<1>3. ASSUME NEW i \in 1 .. Len(context) PROVE context[i].cost \in Costs
  <2> DEFINE Message == [kind : {"system", "media", "user", "assistant", "memory", "call", "recall", "tool"},
                         cost : Costs]
  <2>1. context \in Seq(Message)
    BY DEF BudgetTypeOK
  <2>2. context[i] \in Message
    <3> HIDE DEF Message
    <3> QED BY <2>1
  <2> QED BY <2>2
<1> QED BY <1>1, <1>2, <1>3

\* The memories a shorter note can take the place of.
Shortenable == {i \in Kind({"memory", "recall"}) : context[i].cost > ShortCost}

\* A request on the way through fit_request.
Draft == [costs : [1 .. Len(context) -> Nat], total : Int, truncated : SUBSET (1 .. Len(context)),
          removed : SUBSET (1 .. Len(context))]

\* With the memories of D seen: no history is removed, the costs are those of the notes where a
\* memory gave way, the total is what the messages cost, all memories of D gave way or the
\* total fits; they did from the first on, and the last that did had to.
TruncatedTo(r, D) ==
    /\ r \in Draft /\ r.removed = {} /\ r.truncated \subseteq D \cap Shortenable
    /\ \A i \in 1 .. Len(context) : r.costs[i] = IF i \in r.truncated THEN ShortCost ELSE context[i].cost
    /\ r.total = Overhead + Sum(r.costs, 1 .. Len(context))
    /\ r.total <= limit \/ r.truncated = D \cap Shortenable
    /\ \A i \in r.truncated, j \in (D \cap Shortenable) \ r.truncated : i < j
    /\ r.truncated # {} =>
          \E i \in r.truncated :
             /\ \A j \in r.truncated : j <= i
             /\ Overhead + Sum([r.costs EXCEPT ![i] = context[i].cost], 1 .. Len(context)) > limit

\* One more memory is looked at, after all those of D.
LEMMA TruncateKeeps ==
  ASSUME BudgetTypeOK, NEW r, NEW D, TruncatedTo(r, D), NEW i \in Kind({"memory", "recall"}), \A j \in D : j < i
  PROVE  TruncatedTo(Truncate(r, i), D \cup {i})
<1> DEFINE N == Len(context)
<1>1. /\ N \in Nat /\ DOMAIN context = 1 .. N /\ \A j \in 1 .. N : context[j].cost \in Nat
      /\ limit \in Nat /\ Overhead \in Nat /\ ShortCost \in Nat
  BY Conversation
<1>2. i \in 1 .. N /\ i \notin D
  BY <1>1 DEF Kind
<1>3. /\ r \in Draft /\ r.removed = {} /\ r.truncated \subseteq D \cap Shortenable
      /\ \A j \in 1 .. N : r.costs[j] = IF j \in r.truncated THEN ShortCost ELSE context[j].cost
      /\ r.total = Overhead + Sum(r.costs, 1 .. N)
      /\ r.total <= limit \/ r.truncated = D \cap Shortenable
      /\ \A k \in r.truncated, j \in (D \cap Shortenable) \ r.truncated : k < j
  BY DEF TruncatedTo
<1>4. r.costs \in [1 .. N -> Nat] /\ r.total \in Int /\ r.truncated \subseteq 1 .. N /\ r.costs[i] = context[i].cost
  BY <1>2, <1>3 DEF Draft
<1>5. i \in Shortenable <=> r.costs[i] > ShortCost
  BY <1>4 DEF Shortenable
<1>6. CASE r.total <= limit \/ ShortCost >= r.costs[i]
  <2>1. Truncate(r, i) = r
    BY <1>6 DEF Truncate
  <2>2. r.truncated \subseteq (D \cup {i}) \cap Shortenable
    BY <1>3
  <2>3. r.total <= limit \/ r.truncated = (D \cup {i}) \cap Shortenable
    <3>1. CASE r.total <= limit
      BY <3>1
    <3>2. CASE r.total > limit /\ ShortCost >= r.costs[i]
      <4>1. r.costs[i] \in Nat
        BY <1>2, <1>4
      <4>2. i \notin Shortenable
        BY <4>1, <1>1, <1>5, <3>2
      <4>3. (D \cup {i}) \cap Shortenable = D \cap Shortenable
        BY <4>2
      <4> QED BY <4>3, <1>3
    <3> QED BY <3>1, <3>2, <1>1, <1>4, <1>6
  <2>4. ASSUME NEW k \in r.truncated, NEW j \in ((D \cup {i}) \cap Shortenable) \ r.truncated PROVE k < j
    BY <1>3
  <2> QED BY <2>1, <2>2, <2>3, <2>4, <1>3 DEF TruncatedTo
<1>7. CASE ~(r.total <= limit \/ ShortCost >= r.costs[i])
  <2> DEFINE costs == [r.costs EXCEPT ![i] = ShortCost]
  <2>1. costs \in [1 .. N -> Nat] /\ costs[i] = ShortCost /\ \A j \in 1 .. N : j # i => costs[j] = r.costs[j]
    BY <1>1, <1>2, <1>4
  <2>2. PICK q : q = Truncate(r, i)
    OBVIOUS
  <2>3. q = [r EXCEPT !.total = @ + ShortCost - r.costs[i], !.costs[i] = ShortCost, !.truncated = @ \cup {i}]
    BY <1>7, <2>2 DEF Truncate
  <2>4. q.costs = costs /\ q.total = r.total + ShortCost - r.costs[i] /\ q.truncated = r.truncated \cup {i} /\ q.removed = {}
    <3>1. r \in [costs : [1 .. N -> Nat], total : Int, truncated : SUBSET (1 .. N), removed : SUBSET (1 .. N)]
      BY <1>3 DEF Draft
    <3> QED BY <3>1, <1>3, <2>3
  <2>5. r.total > limit /\ r.costs[i] > ShortCost /\ i \in Shortenable /\ r.truncated = D \cap Shortenable
    <3>1. r.costs[i] \in Nat
      BY <1>2, <1>4
    <3> QED BY <3>1, <1>1, <1>3, <1>4, <1>5, <1>7
  <2>6. q.truncated = (D \cup {i}) \cap Shortenable
    BY <2>4, <2>5
  <2> HIDE DEF costs
  <2>7. q \in Draft
    <3>1. q.total \in Int
      BY <1>1, <1>2, <1>4, <2>4
    <3>2. r \in [costs : [1 .. N -> Nat], total : Int, truncated : SUBSET (1 .. N), removed : SUBSET (1 .. N)]
      BY <1>3 DEF Draft
    <3>3. q.truncated \in SUBSET (1 .. N)
      BY <1>2, <1>4, <2>4
    <3>4. q = [r EXCEPT !.total = q.total, !.costs = q.costs, !.truncated = q.truncated]
      BY <2>3, <2>4, <3>2 DEF costs
    <3> QED BY <2>1, <2>4, <3>1, <3>2, <3>3, <3>4 DEF Draft
  <2>8. \A j \in 1 .. N : q.costs[j] = IF j \in q.truncated THEN ShortCost ELSE context[j].cost
    BY <2>1, <2>4, <1>3
  <2>9. Sum(costs, 1 .. N) = Sum(r.costs, 1 .. N) + ShortCost - r.costs[i] /\ Sum(r.costs, 1 .. N) \in Int
    <3>1. costs \in [1 .. N -> Int] /\ r.costs \in [1 .. N -> Int] /\ i \in 1 .. N /\ N \in Nat
             /\ \A n \in 1 .. N : n # i => r.costs[n] = costs[n]
      BY <2>1, <1>4, <1>2, <1>1
    <3> HIDE DEF N
    <3>2. Sum(costs, 1 .. N) = Sum(r.costs, 1 .. N) + costs[i] - r.costs[i] /\ Sum(r.costs, 1 .. N) \in Int
      BY <3>1, SumOfChanged
    <3> QED BY <3>2, <2>1
  <2>10. q.total = Overhead + Sum(q.costs, 1 .. N)
    <3>1. r.costs[i] \in Nat
      BY <1>2, <1>4
    <3> QED BY <3>1, <2>4, <2>9, <1>1, <1>3
  <2>11. Overhead + Sum([q.costs EXCEPT ![i] = context[i].cost], 1 .. N) > limit
    <3>1. [costs EXCEPT ![i] = context[i].cost] = r.costs
      BY <2>1, <1>2, <1>4
    <3> QED BY <3>1, <2>4, <2>5, <1>3
  <2>12. \A j \in q.truncated : j <= i
    <3>1. \A j \in r.truncated : j < i
      BY <1>3
    <3>2. \A j \in q.truncated : j \in 1 .. N
      BY <1>2, <1>4, <2>4
    <3> QED BY <3>1, <3>2, <2>4, <1>2
  <2> QED BY <2>2, <2>4, <2>6, <2>7, <2>8, <2>10, <2>11, <2>12 DEF TruncatedTo
<1> QED BY <1>6, <1>7

\* A whole loop over memories that come after those of D.
LEMMA PassShortens ==
  ASSUME BudgetTypeOK, NEW r, NEW D, TruncatedTo(r, D), NEW S, S \subseteq Kind({"memory", "recall"}),
         \A j \in D, i \in S : j < i
  PROVE  TruncatedTo(Pass(Truncate, r, S), D \cup S)
<1> DEFINE N == Len(context)
<1>1. N \in Nat /\ DOMAIN context = 1 .. N
  BY Conversation
<1>2. PICK after : Truncates(after, r, S)
  BY <1>1, PassTruncates
<1>3. \A i \in S : i \in Nat /\ 1 <= i /\ i <= N
  BY <1>1 DEF Kind
<1> DEFINE Seen(n) == {i \in S : i <= n}
           Fine == {n \in Nat : n <= N => TruncatedTo(after[n], D \cup Seen(n))}
<1>4. 0 \in Fine
  <2>1. Seen(0) = {}
    <3>1. \A i \in S : ~(i <= 0)
      BY <1>3
    <3> QED BY <3>1
  <2>2. after[0] = r /\ D \cup {} = D
    BY <1>2 DEF Truncates
  <2> QED BY <2>1, <2>2
<1>5. ASSUME NEW n \in Fine, n + 1 <= N PROVE TruncatedTo(after[n + 1], D \cup Seen(n + 1))
  <2>1. n \in Nat /\ n + 1 \in 1 .. N /\ (n + 1) - 1 = n /\ n <= N
    BY <1>1, <1>5
  <2>2. TruncatedTo(after[n], D \cup Seen(n))
    BY <2>1
  <2>3. after[n + 1] = IF n + 1 \in S THEN Truncate(after[n], n + 1) ELSE after[n]
    <3>1. \A k \in 1 .. N : after[k] = IF k \in S THEN Truncate(after[k - 1], k) ELSE after[k - 1]
      BY <1>2 DEF Truncates
    <3> QED BY <3>1, <2>1
  <2>4. CASE n + 1 \in S
    <3>1. D \cup Seen(n + 1) = (D \cup Seen(n)) \cup {n + 1}
      <4>1. \A i \in S : i <= n + 1 <=> i <= n \/ i = n + 1
        BY <1>3, <2>1
      <4> QED BY <4>1, <2>4
    <3>2. \A j \in D \cup Seen(n) : j < n + 1
      <4>1. \A i \in S : i <= n => i < n + 1
        BY <1>3, <2>1
      <4> QED BY <4>1, <2>4
    <3>3. n + 1 \in Kind({"memory", "recall"})
      BY <2>4
    <3> HIDE DEF Seen
    <3>4. TruncatedTo(Truncate(after[n], n + 1), (D \cup Seen(n)) \cup {n + 1})
      BY <2>2, <3>2, <3>3, TruncateKeeps
    <3> QED BY <2>3, <2>4, <3>1, <3>4
  <2>5. CASE n + 1 \notin S
    <3>1. Seen(n + 1) = Seen(n)
      <4>1. \A i \in S : i <= n + 1 <=> i <= n \/ i = n + 1
        BY <1>3, <2>1
      <4> QED BY <4>1, <2>5
    <3> QED BY <2>2, <2>3, <2>5, <3>1
  <2> QED BY <2>4, <2>5
<1>6. Fine \in SUBSET Nat /\ \A n \in Fine : n + 1 \in Fine
  <2>1. ASSUME NEW n \in Fine PROVE n + 1 \in Fine
    <3>1. n \in Nat /\ n + 1 \in Nat
      OBVIOUS
    <3>2. n + 1 <= N => TruncatedTo(after[n + 1], D \cup Seen(n + 1))
      BY <1>5
    <3> HIDE DEF Seen
    <3> QED BY <3>1, <3>2
  <2> QED BY <2>1
<1>7. N \in Fine
  <2> HIDE DEF Fine
  <2> QED BY <1>1, <1>4, <1>6, NumbersInTurn
<1>8. Seen(N) = S
  BY <1>1, <1>3
<1>9. Pass(Truncate, r, S) = after[N]
  BY <1>2 DEF Truncates
<1> HIDE DEF Seen
<1> QED BY <1>1, <1>7, <1>8, <1>9

-----------------------------------------------------------------------------
\* The history that is gone once the groups up to the message p are.
GoneUpTo(p) == {j \in Removable : \A g \in Heads : g <= p \/ j < g}

\* Groups follow each other, and together they are the history.
LEMMA GroupsInTurn ==
  ASSUME BudgetTypeOK, Input \in 1 .. Len(context)
  PROVE  /\ Removable \subseteq 1 .. Len(context) /\ Heads \subseteq Removable
         /\ GoneUpTo(0) = {} /\ GoneUpTo(Len(context)) = Removable
         /\ \A n \in Nat : n + 1 \notin Heads => GoneUpTo(n + 1) = GoneUpTo(n)
         /\ \A n \in Nat : n + 1 \in Heads => /\ GoneUpTo(n + 1) = GoneUpTo(n) \cup Group(n + 1)
                                              /\ GoneUpTo(n) \cap Group(n + 1) = {}
<1> DEFINE N == Len(context)
<1>1. N \in Nat
  BY Conversation
<1>2. Removable \subseteq 1 .. N /\ Heads \subseteq Removable
  BY <1>1 DEF Removable, Heads
<1>3. \A j \in Removable : j \in Nat /\ 1 <= j /\ j <= N
  BY <1>1, <1>2
<1>4. \A j \in Heads : j \in Nat /\ 1 <= j /\ j <= N
  BY <1>2, <1>3
<1>5. ASSUME NEW j \in GoneUpTo(0) PROVE FALSE
  <2>1. j \in Removable /\ Removable # {}
    BY <1>5 DEF GoneUpTo
  <2>2. Removable \in SUBSET Nat
    BY <1>3
  <2>3. PICK k \in Removable : \A i \in Removable : k <= i
    BY <2>1, <2>2, LeastNumber
  <2>4. k \in Heads
    BY <2>3 DEF Heads
  <2>5. k <= 0 \/ j < k
    BY <1>5, <2>4 DEF GoneUpTo
  <2> QED BY <2>1, <2>3, <2>5, <1>3
<1>6. GoneUpTo(N) = Removable
  BY <1>4 DEF GoneUpTo
<1>7. ASSUME NEW n \in Nat, n + 1 \notin Heads PROVE GoneUpTo(n + 1) = GoneUpTo(n)
  <2>1. \A g \in Heads : g <= n + 1 <=> g <= n
    BY <1>4, <1>7
  <2> QED BY <2>1 DEF GoneUpTo
<1>8. ASSUME NEW n \in Nat, n + 1 \in Heads
      PROVE  GoneUpTo(n + 1) = GoneUpTo(n) \cup Group(n + 1) /\ GoneUpTo(n) \cap Group(n + 1) = {}
  <2>1. \A g \in Heads : g <= n + 1 <=> (g <= n \/ g = n + 1)
    BY <1>4
  <2>2. \A j \in GoneUpTo(n) : j < n + 1
    <3>1. ~(n + 1 <= n)
      OBVIOUS
    <3> QED BY <3>1, <1>8 DEF GoneUpTo
  <2>3. ASSUME NEW j \in GoneUpTo(n + 1) PROVE j \in GoneUpTo(n) \cup Group(n + 1)
    <3>1. j \in Removable /\ \A g \in Heads : g <= n + 1 \/ j < g
      BY <2>3 DEF GoneUpTo
    <3>2. CASE n + 1 <= j
      BY <3>1, <3>2 DEF Group
    <3>3. CASE j < n + 1
      <4>1. \A g \in Heads : g <= n \/ j < g
        BY <2>1, <3>1, <3>3
      <4> QED BY <3>1, <4>1 DEF GoneUpTo
    <3> QED BY <3>1, <3>2, <3>3, <1>3
  <2>4. ASSUME NEW j \in GoneUpTo(n) PROVE j \in GoneUpTo(n + 1)
    BY <2>1, <2>4 DEF GoneUpTo
  <2>5. Group(n + 1) \subseteq GoneUpTo(n + 1)
    BY DEF Group, GoneUpTo
  <2>6. ASSUME NEW j \in GoneUpTo(n), j \in Group(n + 1) PROVE FALSE
    <3>1. j < n + 1 /\ n + 1 <= j /\ j \in Nat
      BY <2>2, <2>6, <1>3 DEF Group
    <3> QED BY <3>1
  <2> QED BY <2>3, <2>4, <2>5, <2>6
<1> QED BY <1>2, <1>5, <1>6, <1>7, <1>8

\* With the groups up to n seen: the notes stay, the total is what is left of the messages, all
\* groups are gone or the total fits; where some are, the memories were not enough and the last
\* group had to go.
RemovedTo(s, r, n) ==
    /\ r \in Draft /\ r.costs = s.costs /\ r.truncated = s.truncated
    /\ r.total = Overhead + Sum(s.costs, (1 .. Len(context)) \ r.removed)
    /\ r.total <= limit \/ r.removed = GoneUpTo(n)
    /\ \/ r.removed = {}
       \/ /\ s.total > limit
          /\ \E h \in Heads :
                /\ r.removed = GoneUpTo(h)
                /\ Overhead + Sum(s.costs, ((1 .. Len(context)) \ GoneUpTo(h)) \cup Group(h)) > limit

\* The next group is looked at.
LEMMA RemovalKeeps ==
  ASSUME BudgetTypeOK, Input \in 1 .. Len(context),
         NEW s, s \in Draft, s.total = Overhead + Sum(s.costs, 1 .. Len(context)),
         NEW r, NEW n \in Nat, n + 1 \in Heads, RemovedTo(s, r, n)
  PROVE  RemovedTo(s, Removal(r, n + 1), n + 1)
<1> DEFINE N == Len(context)
           h == n + 1
<1>1. /\ N \in Nat /\ limit \in Nat /\ Overhead \in Nat
      /\ Removable \subseteq 1 .. N
      /\ GoneUpTo(h) = GoneUpTo(n) \cup Group(h) /\ GoneUpTo(n) \cap Group(h) = {}
  BY Conversation, GroupsInTurn
<1>2. /\ r \in Draft /\ r.costs = s.costs /\ r.truncated = s.truncated
      /\ r.total = Overhead + Sum(s.costs, (1 .. N) \ r.removed)
      /\ r.total <= limit \/ r.removed = GoneUpTo(n)
  BY DEF RemovedTo
<1>3. CASE r.total <= limit
  <2>1. Removal(r, h) = r
    BY <1>3 DEF Removal
  <2> QED BY <2>1, <1>3 DEF RemovedTo
<1>4. CASE ~(r.total <= limit)
  <2> DEFINE q == Removal(r, h)
  <2>1. q = [r EXCEPT !.total = @ - Sum(r.costs, Group(h)), !.removed = @ \cup Group(h)]
    BY <1>4 DEF Removal
  <2> HIDE DEF q
  <2>2. r \in [costs : [1 .. N -> Nat], total : Int, truncated : SUBSET (1 .. N), removed : SUBSET (1 .. N)]
    BY <1>2 DEF Draft
  <2>3. /\ q.costs = s.costs /\ q.truncated = s.truncated
        /\ q.total = r.total - Sum(s.costs, Group(h)) /\ q.removed = r.removed \cup Group(h)
    BY <2>1, <2>2, <1>2
  <2>4. r.removed = GoneUpTo(n) /\ q.removed = GoneUpTo(h) /\ r.total > limit
    <3>1. r.total \in Int
      BY <2>2
    <3> QED BY <3>1, <1>1, <1>2, <1>4, <2>3
  <2>5. s.costs \in [1 .. N -> Int]
    BY DEF Draft
  <2>6. Group(h) \subseteq 1 .. N
    BY <1>1 DEF Group
  <2> DEFINE A == (1 .. N) \ GoneUpTo(h)
             B == Group(h)
  <2>7. A \cap B = {} /\ A \cup B = (1 .. N) \ GoneUpTo(n)
    BY <1>1, <2>6
  <2>8. Sum(s.costs, A \cup B) = Sum(s.costs, A) + Sum(s.costs, B) /\ Sum(s.costs, A \cup B) \in Int
          /\ Sum(s.costs, A) \in Int /\ Sum(s.costs, B) \in Int
    <3> HIDE DEF A, B
    <3>1. PICK c : c = s.costs
      OBVIOUS
    <3>2. c \in [1 .. N -> Int]
      BY <2>5, <3>1
    <3> HIDE DEF N
    <3>3. Sum(c, A \cup B) = Sum(c, A) + Sum(c, B) /\ Sum(c, A \cup B) \in Int /\ Sum(c, A) \in Int /\ Sum(c, B) \in Int
      BY <1>1, <2>7, <3>2, SumApart
    <3> QED BY <3>1, <3>3
  <2>9. q.total = Overhead + Sum(s.costs, (1 .. N) \ q.removed) /\ q.total \in Int
    <3>1. r.total = Overhead + Sum(s.costs, A \cup B)
      BY <1>2, <2>4, <2>7
    <3>2. q.total = r.total - Sum(s.costs, B) /\ (1 .. N) \ q.removed = A
      BY <2>3, <2>4
    <3> HIDE DEF A, B
    <3>3. q.total = Overhead + Sum(s.costs, A) /\ q.total \in Int
      BY <3>1, <3>2, <2>8, <1>1
    <3> QED BY <3>2, <3>3
  <2>10. Overhead + Sum(s.costs, ((1 .. N) \ GoneUpTo(h)) \cup Group(h)) > limit
    BY <1>2, <2>4, <2>7
  <2>11. s.total > limit
    <3>1. CASE r.removed = {}
      <4>1. (1 .. N) \ r.removed = 1 .. N
        BY <3>1
      <4> QED BY <4>1, <1>2, <2>4
    <3>2. CASE r.removed # {}
      BY <3>2 DEF RemovedTo
    <3> QED BY <3>1, <3>2
  <2>12. q \in Draft
    <3>1. q.removed \in SUBSET (1 .. N)
      BY <2>2, <2>3, <2>6
    <3>2. q = [r EXCEPT !.total = q.total, !.removed = q.removed]
      BY <2>1, <2>2, <2>3, <1>2
    <3>3. q \in [costs : [1 .. N -> Nat], total : Int, truncated : SUBSET (1 .. N), removed : SUBSET (1 .. N)]
      BY <2>2, <2>9, <3>1, <3>2
    <3> QED BY <3>3 DEF Draft
  <2>13. RemovedTo(s, q, h)
    <3>1. h \in Heads
      OBVIOUS
    <3> HIDE DEF A, B, h
    <3> QED BY <2>3, <2>4, <2>9, <2>10, <2>11, <2>12, <3>1 DEF RemovedTo
  <2> QED BY <2>13 DEF q
<1> QED BY <1>3, <1>4

\* What a pass of removals leaves, group by group.
Drops(after, start, S) ==
    /\ after[0] = start
    /\ \A n \in 1 .. Len(context) : after[n] = IF n \in S THEN Removal(after[n - 1], n) ELSE after[n - 1]
    /\ Pass(Removal, start, S) = after[Len(context)]

\* The loop over the groups ends.
LEMMA PassDrops ==
  ASSUME NEW start, NEW S, Len(context) \in Nat
  PROVE  \E after : Drops(after, start, S)
<1> DEFINE N == Len(context)
           Next(g, n) == IF n = 0 THEN start ELSE IF n \in S THEN Removal(g[n - 1], n) ELSE g[n - 1]
           Runs(g, m) == g = [n \in 0 .. m |-> Next(g, n)]
           Reached == {m \in Nat : \E g : Runs(g, m)}
<1>1. 0 \in Reached
  <2> DEFINE g == [n \in 0 .. 0 |-> start]
  <2>1. \A n \in 0 .. 0 : Next(g, n) = start
    BY Z3
  <2>2. g = [n \in 0 .. 0 |-> Next(g, n)]
    <3> HIDE DEF Next
    <3> QED BY <2>1
  <2> QED BY <2>2
<1>2. ASSUME NEW m \in Reached
      PROVE  \E g : Runs(g, m + 1)
  <2>1. m \in Nat
    BY <1>2
  <2>2. PICK f : Runs(f, m)
    BY <1>2
  <2>3. \A n \in 0 .. m : f[n] = Next(f, n)
    <3> HIDE DEF Next
    <3> QED BY <2>2
  <2> DEFINE g == [n \in 0 .. m + 1 |-> IF n = m + 1 THEN Next(f, m + 1) ELSE f[n]]
  <2>4. \A n \in 0 .. m + 1 : g[n] = IF n = m + 1 THEN Next(f, m + 1) ELSE f[n]
    <3> HIDE DEF Next
    <3> QED OBVIOUS
  <2>5. \A n \in 0 .. m : g[n] = f[n]
    <3> HIDE DEF Next, g
    <3> QED BY <2>1, <2>4
  <2>6. \A n \in 0 .. m + 1 : n # 0 => g[n - 1] = f[n - 1]
    <3> HIDE DEF Next, g
    <3> QED BY <2>1, <2>5
  <2>7. \A n \in 0 .. m + 1 : Next(g, n) = Next(f, n)
    <3> HIDE DEF g
    <3> QED BY <2>6 DEF Next
  <2>8. \A n \in 0 .. m + 1 : g[n] = Next(g, n)
    <3> HIDE DEF Next, g
    <3> QED BY <2>1, <2>3, <2>4, <2>7
  <2>9. g = [n \in 0 .. m + 1 |-> g[n]]
    <3> HIDE DEF Next
    <3> QED OBVIOUS
  <2>10. Runs(g, m + 1)
    <3> HIDE DEF Next, g
    <3> QED BY <2>8, <2>9
  <2> QED BY <2>10
<1>3. Reached \in SUBSET Nat /\ \A m \in Reached : m + 1 \in Reached
  <2> HIDE DEF Runs
  <2> QED BY <1>2
<1>4. N \in Reached
  <2> HIDE DEF Reached
  <2> QED BY <1>1, <1>3, NumbersInTurn
<1> DEFINE after == CHOOSE g : Runs(g, N)
<1>5. Runs(after, N)
  <2> HIDE DEF Runs
  <2> QED BY <1>4
<1>6. Pass(Removal, start, S) = after[N]
  BY DEF Pass
<1> HIDE DEF after
<1>7. \A n \in 0 .. N : after[n] = Next(after, n)
  <2> HIDE DEF Next
  <2> QED BY <1>5
<1>8. Drops(after, start, S)
  BY <1>6, <1>7 DEF Drops
<1> QED BY <1>8


\* The whole loop over the groups.
LEMMA PassRemoves ==
  ASSUME BudgetTypeOK, Input \in 1 .. Len(context),
         NEW s, s \in Draft, s.total = Overhead + Sum(s.costs, 1 .. Len(context)), s.removed = {}
  PROVE  RemovedTo(s, Pass(Removal, s, Heads), Len(context))
<1> DEFINE N == Len(context)
<1>1. N \in Nat
  BY Conversation
<1>2. PICK after : Drops(after, s, Heads)
  BY <1>1, PassDrops
<1> DEFINE Fine == {n \in Nat : n <= N => RemovedTo(s, after[n], n)}
<1>3. 0 \in Fine
  <2>1. after[0] = s
    BY <1>2 DEF Drops
  <2>2. (1 .. N) \ s.removed = 1 .. N /\ GoneUpTo(0) = {}
    BY GroupsInTurn
  <2>3. RemovedTo(s, s, 0)
    BY <2>2 DEF RemovedTo
  <2> QED BY <2>1, <2>3
<1>4. ASSUME NEW n \in Fine, n + 1 <= N PROVE RemovedTo(s, after[n + 1], n + 1)
  <2>1. n \in Nat /\ n + 1 \in 1 .. N /\ (n + 1) - 1 = n /\ n <= N
    BY <1>1, <1>4
  <2>2. RemovedTo(s, after[n], n)
    BY <2>1
  <2>3. after[n + 1] = IF n + 1 \in Heads THEN Removal(after[n], n + 1) ELSE after[n]
    <3>1. \A k \in 1 .. N : after[k] = IF k \in Heads THEN Removal(after[k - 1], k) ELSE after[k - 1]
      BY <1>2 DEF Drops
    <3> QED BY <3>1, <2>1
  <2>4. CASE n + 1 \in Heads
    <3>1. RemovedTo(s, Removal(after[n], n + 1), n + 1)
      BY <2>1, <2>2, <2>4, RemovalKeeps
    <3> QED BY <3>1, <2>3, <2>4
  <2>5. CASE n + 1 \notin Heads
    <3>1. GoneUpTo(n + 1) = GoneUpTo(n)
      BY <2>1, <2>5, GroupsInTurn
    <3>2. RemovedTo(s, after[n], n + 1)
      BY <2>2, <3>1 DEF RemovedTo
    <3> QED BY <3>2, <2>3, <2>5
  <2> QED BY <2>4, <2>5
<1>5. Fine \in SUBSET Nat /\ \A n \in Fine : n + 1 \in Fine
  <2>1. ASSUME NEW n \in Fine PROVE n + 1 \in Fine
    <3>1. n + 1 \in Nat
      OBVIOUS
    <3> QED BY <3>1, <1>4
  <2> QED BY <2>1
<1>6. N \in Fine
  <2> HIDE DEF Fine
  <2> QED BY <1>1, <1>3, <1>5, NumbersInTurn
<1>7. Pass(Removal, s, Heads) = after[N]
  BY <1>2 DEF Drops
<1> QED BY <1>1, <1>6, <1>7

-----------------------------------------------------------------------------
(***************************************************************************)
(* The shape of a conversation: an answer follows its question, and        *)
(* between the tool rounds and what was said before is the turn's input.   *)
(***************************************************************************)
ToolKinds == {"call", "recall", "tool"}

InputAt(u) ==
    /\ u \in DOMAIN context /\ context[u].kind = "user"
    /\ \A i \in DOMAIN context : i > u => context[i].kind \in ToolKinds
    /\ \A i \in DOMAIN context : i < u => context[i].kind \notin ToolKinds

ContextShape ==
    /\ \A i \in DOMAIN context : context[i].kind = "assistant" => i > 1 /\ context[i - 1].kind = "user"
    /\ asking \in {"system", "media", "history", "input"} =>
          \A i \in DOMAIN context : context[i].kind \notin ToolKinds
    /\ asking \in {"request", "sent", "refused"} => \E u \in DOMAIN context : InputAt(u)

\* What fit_request calls the current input is the turn's.
LEMMA InputIsTheInput ==
  ASSUME BudgetTypeOK, NEW u, InputAt(u)
  PROVE  Input = u
<1>1. Len(context) \in Nat /\ DOMAIN context = 1 .. Len(context)
  BY Conversation
<1> DEFINE S == Kind({"user", "media", "memory"})
<1>2. u \in S /\ \A j \in S : j <= u
  <2>1. u \in S
    BY DEF Kind, InputAt
  <2>2. ASSUME NEW j \in S, j > u PROVE FALSE
    BY <2>2 DEF Kind, InputAt, ToolKinds
  <2>3. \A j \in S : j \in 1 .. Len(context)
    BY <1>1 DEF Kind
  <2> HIDE DEF S
  <2>4. \A j \in S : j <= u
    <3>1. ASSUME NEW j \in S PROVE j <= u
      <4>1. j \in 1 .. Len(context) /\ u \in 1 .. Len(context) /\ ~(j > u)
        BY <2>1, <2>2, <2>3
      <4> QED BY <4>1, <1>1
    <3> QED BY <3>1
  <2> QED BY <2>1, <2>4
<1>3. \A k \in S : (\A j \in S : j <= k) => k = u
  <2>1. S \subseteq 1 .. Len(context)
    BY <1>1 DEF Kind
  <2> HIDE DEF S
  <2> QED BY <1>1, <1>2, <2>1
<1>4. Input = CHOOSE i \in S : \A j \in S : j <= i
  BY DEF Input
<1> HIDE DEF S
<1> QED BY <1>2, <1>3, <1>4

-----------------------------------------------------------------------------
(***************************************************************************)
(* What fit_request returns.                                               *)
(***************************************************************************)
\* What is left of the request f would cost with the messages of S back and whole.
CostWith(f, S) ==
    Overhead + Sum([i \in DOMAIN context |-> IF i \in S THEN context[i].cost ELSE f.costs[i]],
                   (DOMAIN context \ f.removed) \cup S)

\* BudgetIsSpent, of a request f and its answer.
Spent(f, answer) ==
    /\ f.total = CostWith(f, {})
    /\ (answer = "sent" <=> f.total <= limit)
    /\ answer = "refused" => f.removed = Removable /\ f.truncated = Shortenable
    /\ f.removed \subseteq Removable /\ f.truncated \subseteq Shortenable
    /\ \A i \in f.removed, j \in Removable \ f.removed : i < j
    /\ \A i \in Removable \ f.removed : context[i].kind = "assistant" => i - 1 \in DOMAIN context \ f.removed
    /\ f.removed # {} =>
          /\ f.truncated = Shortenable
          /\ \E i \in f.removed : CostWith(f, {j \in f.removed : i <= j}) > limit
                /\ \A j \in f.removed : j > i => context[j].kind = "assistant"
    /\ \A i \in f.truncated, j \in Shortenable \ f.truncated : i < j
    /\ f.truncated # {} /\ f.removed = {} =>
          \E i \in f.truncated : CostWith(f, {i}) > limit /\ \A j \in f.truncated : j <= i

\* The request as it is before anything is given up.
LEMMA WholeIsADraft ==
  ASSUME BudgetTypeOK, NEW costs, costs = [i \in DOMAIN context |-> context[i].cost],
         NEW r, r = [costs |-> costs, total |-> Overhead + Sum(costs, DOMAIN context), truncated |-> {}, removed |-> {}]
  PROVE  TruncatedTo(r, {})
<1> DEFINE N == Len(context)
<1>1. /\ N \in Nat /\ DOMAIN context = 1 .. N /\ \A i \in 1 .. N : context[i].cost \in Nat
      /\ Overhead \in Nat
  BY Conversation
<1>2. costs \in [1 .. N -> Nat] /\ \A i \in 1 .. N : costs[i] = context[i].cost
  BY <1>1
<1>3. Sum(costs, 1 .. N) \in Int
  <2>1. costs \in [1 .. N -> Int]
    BY <1>2
  <2>2. (1 .. N) \cap {} = {} /\ (1 .. N) \cup {} = 1 .. N
    OBVIOUS
  <2> HIDE DEF N
  <2> QED BY <1>1, <2>1, <2>2, SumApart
<1>4. r.costs = costs /\ r.total = Overhead + Sum(costs, 1 .. N) /\ r.truncated = {} /\ r.removed = {}
  BY <1>1
<1>5. r \in Draft
  BY <1>1, <1>2, <1>3 DEF Draft
<1> QED BY <1>1, <1>2, <1>4, <1>5 DEF TruncatedTo

\* The loops of fit_request, one after the other.
LEMMA FittedInTwoPasses ==
  ASSUME BudgetTypeOK, NEW u, InputAt(u)
  PROVE  \E s : TruncatedTo(s, Kind({"memory", "recall"})) /\ RemovedTo(s, Fitted, Len(context))
<1> DEFINE N == Len(context)
           costs == [i \in DOMAIN context |-> context[i].cost]
           whole == [costs |-> costs, total |-> Overhead + Sum(costs, DOMAIN context), truncated |-> {}, removed |-> {}]
           s1 == Pass(Truncate, whole, Kind({"memory"}))
           s == Pass(Truncate, s1, SearchResults)
<1>1. N \in Nat /\ DOMAIN context = 1 .. N
  BY Conversation
<1>2. Input = u /\ u \in 1 .. N
  BY <1>1, InputIsTheInput DEF InputAt
<1>3. Fitted = Pass(Removal, s, Heads)
  BY DEF Fitted
<1>4. TruncatedTo(whole, {})
  <2> HIDE DEF s1, s
  <2> QED BY WholeIsADraft
<1> HIDE DEF costs, whole
<1>5. TruncatedTo(s1, Kind({"memory"}))
  <2>1. Kind({"memory"}) \subseteq Kind({"memory", "recall"})
    BY DEF Kind
  <2>2. TruncatedTo(Pass(Truncate, whole, Kind({"memory"})), {} \cup Kind({"memory"}))
    BY <1>4, <2>1, PassShortens
  <2>3. {} \cup Kind({"memory"}) = Kind({"memory"})
    OBVIOUS
  <2> QED BY <2>2, <2>3
<1> HIDE DEF s1
<1>6. \A j \in Kind({"memory"}) : j < u
  <2>1. \A j \in Kind({"memory"}) : j \in 1 .. N /\ ~(j > u) /\ j # u
    BY <1>1 DEF Kind, InputAt, ToolKinds
  <2>2. ASSUME NEW j \in Kind({"memory"}) PROVE j < u
    <3>1. j \in 1 .. N /\ ~(j > u) /\ j # u
      BY <2>1
    <3> QED BY <3>1, <1>1, <1>2
  <2> QED BY <2>2
<1>7. SearchResults = Kind({"recall"}) /\ \A i \in SearchResults : i > u
  <2>1. ASSUME NEW i \in Kind({"recall"}) PROVE i > u
    <3>1. i \in 1 .. N /\ ~(i < u) /\ i # u
      BY <1>1 DEF Kind, InputAt, ToolKinds
    <3> QED BY <3>1, <1>1, <1>2
  <2> QED BY <2>1, <1>2 DEF SearchResults
<1>8. TruncatedTo(s, Kind({"memory", "recall"}))
  <2>1. SearchResults \subseteq Kind({"memory", "recall"})
    BY <1>7 DEF Kind
  <2>2. \A j \in Kind({"memory"}), i \in SearchResults : j < i
    <3>1. ASSUME NEW j \in Kind({"memory"}), NEW i \in SearchResults PROVE j < i
      <4>1. j \in 1 .. N /\ i \in 1 .. N /\ j < u /\ u < i
        BY <1>1, <1>6, <1>7 DEF Kind
      <4> QED BY <4>1, <1>1, <1>2
    <3> QED BY <3>1
  <2>3. TruncatedTo(Pass(Truncate, s1, SearchResults), Kind({"memory"}) \cup SearchResults)
    BY <1>5, <2>1, <2>2, PassShortens
  <2>4. Kind({"memory"}) \cup SearchResults = Kind({"memory", "recall"})
    BY <1>7 DEF Kind
  <2> QED BY <2>3, <2>4
<1> HIDE DEF s
<1>9. s \in Draft /\ s.total = Overhead + Sum(s.costs, 1 .. N) /\ s.removed = {}
  BY <1>8 DEF TruncatedTo
<1>10. RemovedTo(s, Pass(Removal, s, Heads), N)
  BY <1>2, <1>9, PassRemoves
<1> QED BY <1>3, <1>8, <1>10

\* fit_request spends the budget.
LEMMA FittedIsSpent ==
  ASSUME BudgetTypeOK, ContextShape, asking = "request",
         NEW answer, answer = IF Fitted.total > limit THEN "refused" ELSE "sent"
  PROVE  Spent(Fitted, answer) /\ Fitted.truncated \subseteq DOMAIN context /\ Fitted.removed \subseteq DOMAIN context
<1> DEFINE N == Len(context)
<1>1. PICK u : InputAt(u)
  BY DEF ContextShape
<1>2. /\ N \in Nat /\ DOMAIN context = 1 .. N /\ \A i \in 1 .. N : context[i].cost \in Nat
      /\ limit \in Nat /\ Overhead \in Nat /\ ShortCost \in Nat
  BY Conversation
<1>3. Input = u /\ u \in 1 .. N
  BY <1>1, <1>2, InputIsTheInput DEF InputAt
<1>4. PICK s : TruncatedTo(s, Kind({"memory", "recall"})) /\ RemovedTo(s, Fitted, N)
  BY <1>1, FittedInTwoPasses
<1>5. PICK f : f = Fitted
  OBVIOUS
<1>6. /\ Removable \subseteq 1 .. N /\ Heads \subseteq Removable /\ GoneUpTo(N) = Removable
  BY <1>3, GroupsInTurn
<1>7. Kind({"memory", "recall"}) \cap Shortenable = Shortenable
  BY DEF Shortenable
<1>8. /\ s \in Draft /\ s.truncated \subseteq Shortenable
      /\ s.total = Overhead + Sum(s.costs, 1 .. N)
      /\ s.total <= limit \/ s.truncated = Shortenable
      /\ \A i \in s.truncated, j \in Shortenable \ s.truncated : i < j
  BY <1>4, <1>7 DEF TruncatedTo
<1>9. \A i \in 1 .. N : s.costs[i] = IF i \in s.truncated THEN ShortCost ELSE context[i].cost
  BY <1>4 DEF TruncatedTo
<1>10. /\ f \in Draft /\ f.costs = s.costs /\ f.truncated = s.truncated
       /\ f.total = Overhead + Sum(s.costs, (1 .. N) \ f.removed)
       /\ f.total <= limit \/ f.removed = Removable
  BY <1>4, <1>5, <1>6 DEF RemovedTo
<1>11. f.removed # {} =>
          /\ s.total > limit
          /\ \E h \in Heads : /\ f.removed = GoneUpTo(h)
                              /\ Overhead + Sum(s.costs, ((1 .. N) \ GoneUpTo(h)) \cup Group(h)) > limit
  BY <1>4, <1>5 DEF RemovedTo
<1>12. s.costs \in [1 .. N -> Nat] /\ s.total \in Int /\ f.total \in Int
         /\ f.truncated \subseteq 1 .. N /\ f.removed \subseteq 1 .. N
  BY <1>8, <1>10 DEF Draft
<1>13. f.removed \subseteq Removable
  BY <1>11 DEF GoneUpTo
<1>14. f.truncated \cap Removable = {}
  <2>1. \A i \in Shortenable : context[i].kind \in {"memory", "recall"}
    BY DEF Shortenable, Kind
  <2>2. \A i \in Removable : context[i].kind \notin {"memory", "recall"}
    <3>1. ASSUME NEW i \in Removable PROVE context[i].kind # "recall"
      <4>1. i \in DOMAIN context /\ i < u
        BY <1>2, <1>3, <1>6 DEF Removable
      <4> QED BY <4>1, <1>1 DEF InputAt, ToolKinds
    <3> QED BY <3>1 DEF Removable
  <2> QED BY <2>1, <2>2, <1>8, <1>10
<1>15. f.total = CostWith(f, {})
  <2>1. [i \in DOMAIN context |-> IF i \in {} THEN context[i].cost ELSE f.costs[i]] = s.costs
    BY <1>2, <1>10, <1>12
  <2>2. (DOMAIN context \ f.removed) \cup {} = (1 .. N) \ f.removed
    BY <1>2
  <2> QED BY <2>1, <2>2, <1>10 DEF CostWith
<1>16. answer = "sent" <=> f.total <= limit
  BY <1>2, <1>5, <1>12
<1>17. ASSUME answer = "refused" PROVE f.removed = Removable /\ f.truncated = Shortenable
  <2>1. f.total > limit
    BY <1>5, <1>17
  <2>2. f.removed = Removable
    BY <2>1, <1>2, <1>10, <1>12
  <2>3. s.total > limit
    <3>1. CASE f.removed = {}
      <4>1. (1 .. N) \ f.removed = 1 .. N
        BY <3>1
      <4> QED BY <4>1, <2>1, <1>8, <1>10
    <3>2. CASE f.removed # {}
      BY <3>2, <1>11
    <3> QED BY <3>1, <3>2
  <2> QED BY <2>2, <2>3, <1>2, <1>8, <1>10, <1>12
<1>18. ASSUME NEW i \in f.removed, NEW j \in Removable \ f.removed PROVE i < j
  <2>1. PICK h \in Heads : f.removed = GoneUpTo(h)
    BY <1>11
  <2>2. PICK g \in Heads : ~(g <= h \/ j < g)
    BY <2>1 DEF GoneUpTo
  <2>3. g <= h \/ i < g
    BY <2>1, <2>2 DEF GoneUpTo
  <2>4. i \in 1 .. N /\ j \in 1 .. N /\ g \in 1 .. N
    BY <1>6, <1>12, <2>2
  <2> QED BY <2>2, <2>3, <2>4, <1>2
<1>19. ASSUME NEW i \in Removable \ f.removed, context[i].kind = "assistant"
       PROVE  i - 1 \in DOMAIN context \ f.removed
  <2>1. i \in 1 .. N /\ i > 1 /\ context[i - 1].kind = "user" /\ i <= u - 1
    <3>1. i \in DOMAIN context /\ i \in 1 .. N
      BY <1>2, <1>6
    <3>2. i \in 1 .. u - 1
      BY <1>3, <1>19 DEF Removable
    <3>3. i > 1 /\ context[i - 1].kind = "user"
      BY <3>1, <1>19 DEF ContextShape
    <3> QED BY <3>1, <3>2, <3>3, <1>2, <1>3
  <2>2. i - 1 \in 1 .. N /\ i - 1 \in 1 .. Input - 1 /\ i - 1 < i
    BY <1>2, <1>3, <2>1
  <2>3. i - 1 \in Removable
    BY <2>1, <2>2 DEF Removable
  <2>4. ASSUME i - 1 \in f.removed PROVE FALSE
    <3>1. PICK h \in Heads : f.removed = GoneUpTo(h)
      BY <1>11, <2>4
    <3>2. PICK g \in Heads : ~(g <= h \/ i < g)
      BY <3>1, <1>19 DEF GoneUpTo
    <3>3. i - 1 < g
      BY <3>1, <3>2, <2>4 DEF GoneUpTo
    <3>4. g \in 1 .. N
      BY <1>6, <3>2
    <3>5. g = i
      BY <3>2, <3>3, <3>4, <2>1, <1>2
    <3>6. i <= i - 1
      BY <3>2, <3>5, <1>19, <2>3 DEF Heads
    <3> QED BY <3>6, <2>1, <1>2
  <2> QED BY <2>2, <2>4, <1>2
<1>20. ASSUME f.removed # {}
       PROVE  /\ f.truncated = Shortenable
              /\ \E i \in f.removed : /\ CostWith(f, {j \in f.removed : i <= j}) > limit
                                      /\ \A j \in f.removed : j > i => context[j].kind = "assistant"
  <2>1. f.truncated = Shortenable
    BY <1>20, <1>2, <1>8, <1>10, <1>11, <1>12
  <2>2. PICK h \in Heads : /\ f.removed = GoneUpTo(h)
                           /\ Overhead + Sum(s.costs, ((1 .. N) \ GoneUpTo(h)) \cup Group(h)) > limit
    BY <1>11, <1>20
  <2>3. h \in f.removed
    BY <2>2, <1>6 DEF GoneUpTo
  <2>4. {j \in f.removed : h <= j} = Group(h)
    BY <2>2 DEF GoneUpTo, Group
  <2>5. CostWith(f, Group(h)) > limit
    <3>1. [i \in DOMAIN context |-> IF i \in Group(h) THEN context[i].cost ELSE f.costs[i]] = s.costs
      <4>1. Group(h) \cap f.truncated = {}
        BY <1>14 DEF Group
      <4>2. \A i \in 1 .. N : (IF i \in Group(h) THEN context[i].cost ELSE f.costs[i]) = s.costs[i]
        BY <4>1, <1>9, <1>10
      <4> QED BY <4>2, <1>2, <1>12
    <3>2. (DOMAIN context \ f.removed) \cup Group(h) = ((1 .. N) \ GoneUpTo(h)) \cup Group(h)
      BY <2>2, <1>2
    <3> QED BY <3>1, <3>2, <2>2 DEF CostWith
  <2>6. ASSUME NEW j \in f.removed, j > h PROVE context[j].kind = "assistant"
    <3>1. j \in Removable /\ j \in Nat /\ h \in Nat
      BY <1>2, <1>6, <1>12, <1>13
    <3>2. j \notin Heads
      <4>1. j \in Heads => j <= h \/ j < j
        BY <2>2, <2>6 DEF GoneUpTo
      <4> QED BY <4>1, <3>1, <2>6
    <3> QED BY <3>1, <3>2 DEF Heads
  <2> QED BY <2>1, <2>3, <2>4, <2>5, <2>6
<1>21. ASSUME f.truncated # {}, f.removed = {}
       PROVE  \E i \in f.truncated : CostWith(f, {i}) > limit /\ \A j \in f.truncated : j <= i
  <2>1. PICK i \in s.truncated :
           /\ \A j \in s.truncated : j <= i
           /\ Overhead + Sum([s.costs EXCEPT ![i] = context[i].cost], 1 .. N) > limit
    BY <1>4, <1>10, <1>21 DEF TruncatedTo
  <2>2. i \in 1 .. N
    BY <1>10, <1>12
  <2>3. [k \in DOMAIN context |-> IF k \in {i} THEN context[k].cost ELSE f.costs[k]] = [s.costs EXCEPT ![i] = context[i].cost]
    BY <2>2, <1>2, <1>10, <1>12
  <2>4. (DOMAIN context \ f.removed) \cup {i} = 1 .. N
    BY <2>2, <1>2, <1>21
  <2>5. CostWith(f, {i}) > limit
    BY <2>1, <2>3, <2>4 DEF CostWith
  <2> QED BY <2>1, <2>5, <1>10
<1>22. \A i \in f.truncated, j \in Shortenable \ f.truncated : i < j
  BY <1>8, <1>10
<1>23. f.truncated \subseteq Shortenable
  BY <1>8, <1>10
<1>24. Spent(f, answer)
  BY <1>13, <1>15, <1>16, <1>17, <1>18, <1>19, <1>20, <1>21, <1>22, <1>23 DEF Spent
<1> QED BY <1>2, <1>5, <1>12, <1>24

-----------------------------------------------------------------------------
(***************************************************************************)
(* The inductive invariant: what the variables hold, the shape of the      *)
(* conversation, and the property of the last request.                     *)
(***************************************************************************)
BudgetInv == BudgetTypeOK /\ ContextShape /\ BudgetIsSpent

MessageKinds == {"system", "media", "user", "assistant", "memory", "call", "recall", "tool"}
Messages == [kind : MessageKinds, cost : Costs]

\* One message more.
LEMMA OneMoreMessage ==
  ASSUME BudgetTypeOK, NEW kind \in MessageKinds, Says(kind)
  PROVE  /\ context' \in Seq(Messages) /\ Len(context') = Len(context) + 1
         /\ DOMAIN context' = 1 .. Len(context) + 1
         /\ context'[Len(context) + 1].kind = kind
         /\ \A i \in 1 .. Len(context) : context'[i] = context[i]
<1>1. context \in Seq(Messages)
  BY DEF BudgetTypeOK, Messages, MessageKinds
<1>2. PICK m \in Messages : context' = Append(context, m) /\ m.kind = kind
  BY DEF Says, Messages
<1>3. /\ Append(context, m) \in Seq(Messages) /\ Len(Append(context, m)) = Len(context) + 1
      /\ Append(context, m)[Len(context) + 1] = m
      /\ \A i \in 1 .. Len(context) : Append(context, m)[i] = context[i]
  <2> HIDE DEF Messages
  <2> QED BY <1>1
<1>4. DOMAIN Append(context, m) = 1 .. Len(context) + 1
  <2> HIDE DEF Messages
  <2> QED BY <1>1, <1>3
<1> QED BY <1>2, <1>3, <1>4

\* A call and its result.
LEMMA TwoMoreMessages ==
  ASSUME BudgetTypeOK, ToolRound
  PROVE  /\ context' \in Seq(Messages) /\ Len(context') = Len(context) + 2
         /\ DOMAIN context' = 1 .. Len(context) + 2
         /\ \A i \in {Len(context) + 1, Len(context) + 2} : context'[i].kind \in ToolKinds
         /\ \A i \in 1 .. Len(context) : context'[i] = context[i]
<1>1. context \in Seq(Messages) /\ Len(context) \in Nat
  BY DEF BudgetTypeOK, Messages, MessageKinds
<1>2. PICK m \in Messages, q \in Messages :
         context' = context \o <<m, q>> /\ m.kind \in ToolKinds /\ q.kind \in ToolKinds
  <2>1. PICK c \in Costs, d \in Costs, kind \in {"recall", "tool"} :
           context' = context \o <<[kind |-> "call", cost |-> c], [kind |-> kind, cost |-> d]>>
    BY DEF ToolRound
  <2>2. [kind |-> "call", cost |-> c] \in Messages /\ [kind |-> kind, cost |-> d] \in Messages
    BY DEF Messages, MessageKinds
  <2>3. [kind |-> "call", cost |-> c].kind \in ToolKinds /\ [kind |-> kind, cost |-> d].kind \in ToolKinds
    BY DEF ToolKinds
  <2> QED BY <2>1, <2>2, <2>3
<1> HIDE DEF Messages
<1>3. <<m, q>> \in Seq(Messages) /\ Len(<<m, q>>) = 2 /\ <<m, q>>[1] = m /\ <<m, q>>[2] = q
  OBVIOUS
<1>4. PICK more \in Seq(Messages) : more = <<m, q>>
  BY <1>3
<1>5. /\ context \o more \in Seq(Messages) /\ Len(context \o more) = Len(context) + Len(more)
      /\ \A i \in 1 .. Len(context) : (context \o more)[i] = context[i]
      /\ \A i \in 1 .. Len(more) : (context \o more)[Len(context) + i] = more[i]
  BY <1>1
<1>6. context' = context \o more /\ Len(more) = 2 /\ more[1] = m /\ more[2] = q
  BY <1>2, <1>3, <1>4
<1>7. context'[Len(context) + 1] = m /\ context'[Len(context) + 2] = q
  BY <1>5, <1>6
<1>8. DOMAIN context' = 1 .. Len(context')
  BY <1>5, <1>6
<1> QED BY <1>1, <1>2, <1>5, <1>6, <1>7, <1>8

\* What the variables hold and the shape of the conversation, as it is put together.
LEMMA ShapeStep ==
  ASSUME BudgetTypeOK, ContextShape, BudgetNext
  PROVE  /\ context' \in Seq(Messages) /\ DOMAIN context \subseteq DOMAIN context'
         /\ limit' = limit
         /\ asking' \in {"system", "media", "history", "input", "request", "sent", "refused"}
         /\ ContextShape'
<1> DEFINE N == Len(context)
<1>1. context \in Seq(Messages) /\ N \in Nat /\ DOMAIN context = 1 .. N
  BY DEF BudgetTypeOK, Messages, MessageKinds
<1>2. ASSUME UNCHANGED context, asking' = "request" => asking \in {"request", "sent", "refused"},
             asking' \in {"sent", "refused"} => asking = "request",
             asking' \in {"media", "history", "input"} => asking \in {"system", "media", "history", "input"},
             asking' \in {"media", "history", "input", "request", "sent", "refused"}
      PROVE  ContextShape'
  <2>1. \A i \in DOMAIN context' : context'[i].kind = "assistant" => i > 1 /\ context'[i - 1].kind = "user"
    BY <1>2 DEF ContextShape
  <2>2. asking' \in {"system", "media", "history", "input"} => \A i \in DOMAIN context' : context'[i].kind \notin ToolKinds
    BY <1>2 DEF ContextShape
  <2>3. asking' \in {"request", "sent", "refused"} => \E u \in DOMAIN context' : InputAt(u)'
    <3>1. ASSUME NEW u PROVE InputAt(u)' <=> InputAt(u)
      BY <1>2 DEF InputAt
    <3> QED BY <3>1, <1>2 DEF ContextShape
  <2> QED BY <2>1, <2>2, <2>3 DEF ContextShape
<1>3. ASSUME NEW kind \in MessageKinds \ (ToolKinds \cup {"assistant"}), Says(kind),
             asking \in {"system", "media", "history"}, asking' \in {"media", "history", "input"}
      PROVE  ContextShape'
  <2>1. /\ DOMAIN context' = 1 .. N + 1 /\ context'[N + 1].kind = kind /\ \A i \in 1 .. N : context'[i] = context[i]
    BY <1>3, OneMoreMessage
  <2>2. ASSUME NEW i \in DOMAIN context', context'[i].kind = "assistant"
        PROVE  i > 1 /\ context'[i - 1].kind = "user"
    <3>1. i \in 1 .. N
      BY <1>1, <1>3, <2>1, <2>2
    <3>2. i > 1 /\ context[i - 1].kind = "user"
      BY <3>1, <1>1, <2>1, <2>2 DEF ContextShape
    <3>3. i - 1 \in 1 .. N
      BY <3>1, <3>2, <1>1
    <3> QED BY <3>2, <3>3, <2>1
  <2>3. ASSUME NEW i \in DOMAIN context' PROVE context'[i].kind \notin ToolKinds
    <3>1. i \in 1 .. N \/ i = N + 1
      BY <1>1, <2>1
    <3> QED BY <3>1, <1>1, <1>3, <2>1 DEF ContextShape
  <2> QED BY <2>2, <2>3, <1>3 DEF ContextShape
<1>4. CASE AddsSystem
  <2>1. CASE Says("system")
    BY <1>3, <1>4, <2>1, OneMoreMessage, <1>1 DEF AddsSystem, MessageKinds, ToolKinds
  <2>2. CASE UNCHANGED context
    BY <1>1, <1>2, <1>4, <2>2 DEF AddsSystem
  <2> QED BY <2>1, <2>2, <1>4 DEF AddsSystem
<1>5. CASE AddsMedia
  <2>1. CASE Says("media")
    BY <1>3, <1>5, <2>1, OneMoreMessage, <1>1 DEF AddsMedia, MessageKinds, ToolKinds
  <2>2. CASE UNCHANGED context
    BY <1>1, <1>2, <1>5, <2>2 DEF AddsMedia
  <2> QED BY <2>1, <2>2, <1>5 DEF AddsMedia
<1>6. CASE AddsTurn
  <2>1. CASE Says("user")
    BY <1>3, <1>6, <2>1, OneMoreMessage, <1>1 DEF AddsTurn, MessageKinds, ToolKinds
  <2>2. CASE context # <<>> /\ context[Len(context)].kind = "user" /\ Says("assistant")
    <3>1. /\ context' \in Seq(Messages) /\ DOMAIN context' = 1 .. N + 1 /\ context'[N + 1].kind = "assistant"
          /\ \A i \in 1 .. N : context'[i] = context[i]
      BY <2>2, OneMoreMessage DEF MessageKinds
    <3>2. N > 0
      BY <1>1, <2>2
    <3>3. ASSUME NEW i \in DOMAIN context', context'[i].kind = "assistant"
          PROVE  i > 1 /\ context'[i - 1].kind = "user"
      <4>1. CASE i \in 1 .. N
        <5>1. i > 1 /\ context[i - 1].kind = "user"
          BY <4>1, <1>1, <3>1, <3>3 DEF ContextShape
        <5>2. i - 1 \in 1 .. N
          BY <4>1, <5>1, <1>1
        <5> QED BY <5>1, <5>2, <3>1
      <4>2. CASE i = N + 1
        <5>1. i - 1 = N /\ N \in 1 .. N /\ i > 1
          BY <4>2, <3>2, <1>1
        <5> QED BY <5>1, <2>2, <3>1
      <4> QED BY <4>1, <4>2, <3>1, <1>1
    <3>4. ASSUME NEW i \in DOMAIN context' PROVE context'[i].kind \notin ToolKinds
      <4>1. i \in 1 .. N \/ i = N + 1
        BY <1>1, <3>1
      <4>2. \A k \in 1 .. N : context[k].kind \notin ToolKinds
        BY <1>1, <1>6 DEF ContextShape, AddsTurn
      <4> QED BY <4>1, <4>2, <3>1 DEF ToolKinds
    <3>5. asking' = "history" /\ limit' = limit
      BY <1>6 DEF AddsTurn
    <3>6. ContextShape'
      BY <3>3, <3>4, <3>5 DEF ContextShape
    <3>7. DOMAIN context \subseteq DOMAIN context'
      BY <1>1, <3>1
    <3> QED BY <3>1, <3>5, <3>6, <3>7
  <2> QED BY <2>1, <2>2, <1>6 DEF AddsTurn
<1>7. CASE AddsMemories
  <2>1. CASE Says("memory")
    BY <1>3, <1>7, <2>1, OneMoreMessage, <1>1 DEF AddsMemories, MessageKinds, ToolKinds
  <2>2. CASE UNCHANGED context
    BY <1>1, <1>2, <1>7, <2>2 DEF AddsMemories
  <2> QED BY <2>1, <2>2, <1>7 DEF AddsMemories
<1>8. CASE AddsInput
  <2>1. /\ context' \in Seq(Messages) /\ DOMAIN context' = 1 .. N + 1 /\ context'[N + 1].kind = "user"
        /\ \A i \in 1 .. N : context'[i] = context[i]
    BY <1>8, OneMoreMessage DEF AddsInput, MessageKinds
  <2>2. ASSUME NEW i \in DOMAIN context', context'[i].kind = "assistant"
        PROVE  i > 1 /\ context'[i - 1].kind = "user"
    <3>1. i \in 1 .. N
      BY <1>1, <2>1, <2>2
    <3>2. i > 1 /\ context[i - 1].kind = "user"
      BY <3>1, <1>1, <2>1, <2>2 DEF ContextShape
    <3>3. i - 1 \in 1 .. N
      BY <3>1, <3>2, <1>1
    <3> QED BY <3>2, <3>3, <2>1
  <2>3. \A k \in 1 .. N : context[k].kind \notin ToolKinds
    BY <1>1, <1>8 DEF ContextShape, AddsInput
  <2>4. \E u \in DOMAIN context' : InputAt(u)'
    <3>1. PICK u : u = N + 1
      OBVIOUS
    <3>2. u \in DOMAIN context' /\ context'[u].kind = "user"
      BY <1>1, <2>1, <3>1
    <3>3. ASSUME NEW i \in DOMAIN context', i > u PROVE context'[i].kind \in ToolKinds
      BY <3>3, <3>1, <1>1, <2>1
    <3>4. ASSUME NEW i \in DOMAIN context', i < u PROVE context'[i].kind \notin ToolKinds
      <4>1. i \in 1 .. N
        BY <3>4, <3>1, <1>1, <2>1
      <4> QED BY <4>1, <2>1, <2>3
    <3>5. InputAt(u)'
      BY <3>2, <3>3, <3>4 DEF InputAt
    <3> QED BY <3>2, <3>5
  <2>5. asking' = "request" /\ limit' = limit
    BY <1>8 DEF AddsInput
  <2>6. ContextShape'
    BY <2>2, <2>4, <2>5 DEF ContextShape
  <2>7. DOMAIN context \subseteq DOMAIN context'
    BY <1>1, <2>1
  <2> QED BY <2>1, <2>5, <2>6, <2>7
<1>9. CASE Request
  <2>1. asking = "request" /\ asking' \in {"sent", "refused"} /\ UNCHANGED <<limit, context>>
    BY <1>9 DEF Request
  <2>2. ContextShape'
    BY <1>2, <2>1
  <2> QED BY <2>1, <2>2, <1>1
<1>10. CASE ToolRound
  <2>1. /\ context' \in Seq(Messages) /\ DOMAIN context' = 1 .. N + 2
        /\ \A i \in {N + 1, N + 2} : context'[i].kind \in ToolKinds
        /\ \A i \in 1 .. N : context'[i] = context[i]
    BY <1>10, TwoMoreMessages
  <2>2. PICK u : InputAt(u)
    BY <1>10 DEF ContextShape, ToolRound
  <2>3. u \in 1 .. N /\ context[u].kind = "user"
    BY <1>1, <2>2 DEF InputAt
  <2>4. \A i \in DOMAIN context' : i \in 1 .. N \/ (i \in {N + 1, N + 2} /\ i > u)
    BY <1>1, <2>1, <2>3
  <2>5. InputAt(u)'
    <3>1. u \in DOMAIN context' /\ context'[u].kind = "user"
      BY <1>1, <2>1, <2>3
    <3>2. ASSUME NEW i \in DOMAIN context', i > u PROVE context'[i].kind \in ToolKinds
      BY <3>2, <1>1, <2>1, <2>2, <2>4 DEF InputAt
    <3>3. ASSUME NEW i \in DOMAIN context', i < u PROVE context'[i].kind \notin ToolKinds
      <4>1. i \in 1 .. N
        BY <3>3, <2>3, <2>4, <1>1
      <4> QED BY <4>1, <3>3, <1>1, <2>1, <2>2 DEF InputAt
    <3> QED BY <3>1, <3>2, <3>3 DEF InputAt
  <2>6. ASSUME NEW i \in DOMAIN context', context'[i].kind = "assistant"
        PROVE  i > 1 /\ context'[i - 1].kind = "user"
    <3>1. i \in 1 .. N
      BY <2>1, <2>4, <2>6 DEF ToolKinds
    <3>2. i > 1 /\ context[i - 1].kind = "user"
      BY <3>1, <1>1, <2>1, <2>6 DEF ContextShape
    <3>3. i - 1 \in 1 .. N
      BY <3>1, <3>2, <1>1
    <3> QED BY <3>2, <3>3, <2>1
  <2>7. asking' = "request" /\ limit' = limit
    BY <1>10 DEF ToolRound
  <2>8. ContextShape'
    <3>1. \E v \in DOMAIN context' : InputAt(v)'
      BY <2>5, <2>3, <1>1, <2>1
    <3> QED BY <2>6, <2>7, <3>1 DEF ContextShape
  <2>9. DOMAIN context \subseteq DOMAIN context'
    BY <1>1, <2>1
  <2> QED BY <2>1, <2>7, <2>8, <2>9
<1> QED BY <1>4, <1>5, <1>6, <1>7, <1>8, <1>9, <1>10 DEF BudgetNext

\* The property, of the last request.
LEMMA SpentIsBudgetIsSpent ==
  ASSUME asking \in {"sent", "refused"}
  PROVE  BudgetIsSpent <=> Spent(fitted, asking)
BY DEF BudgetIsSpent, Spent, CostWith, With, Kept, Shortenable

\* The same, of the next state.
LEMMA SpentIsKept ==
  ASSUME UNCHANGED <<limit, context>>, NEW f, NEW answer, f = fitted', answer = asking', Spent(f, answer)
  PROVE  BudgetIsSpent'
<1>1. Kind({"memory", "recall"})' = Kind({"memory", "recall"}) /\ Input' = Input
  BY DEF Kind, Input
<1>2. Removable' = Removable
  BY <1>1 DEF Removable
<1>3. Kept' = DOMAIN context \ f.removed
  BY DEF Kept
<1>4. ASSUME NEW S PROVE With(S)' = CostWith(f, S)
  BY <1>3 DEF With, CostWith
<1> QED BY <1>1, <1>2, <1>3, <1>4 DEF BudgetIsSpent, Spent, Shortenable

\* Every step keeps the invariant.
LEMMA BudgetStep ==
  ASSUME BudgetInv, [BudgetNext]_budgetVars
  PROVE  BudgetInv'
<1> USE DEF BudgetInv
<1>1. CASE UNCHANGED budgetVars
  <2>1. UNCHANGED <<limit, asking, context, fitted>>
    BY <1>1 DEF budgetVars
  <2>2. BudgetTypeOK'
    BY <2>1 DEF BudgetTypeOK
  <2>3. ContextShape'
    BY <2>1 DEF ContextShape, InputAt
  <2>4. BudgetIsSpent'
    <3>1. CASE asking \in {"sent", "refused"}
      <4>1. PICK f, answer : f = fitted' /\ answer = asking'
        OBVIOUS
      <4>2. f = fitted /\ answer = asking
        BY <2>1, <4>1
      <4>3. Spent(f, answer)
        BY <3>1, <4>2, SpentIsBudgetIsSpent
      <4> QED BY <2>1, <3>1, <4>1, <4>3, SpentIsKept
    <3>2. CASE asking \notin {"sent", "refused"}
      BY <2>1, <3>2 DEF BudgetIsSpent
    <3> QED BY <3>1, <3>2
  <2> QED BY <2>2, <2>3, <2>4
<1>2. CASE BudgetNext /\ ~Request
  <2>1. fitted' = fitted /\ asking' \notin {"sent", "refused"}
    BY <1>2 DEF BudgetNext, AddsSystem, AddsMedia, AddsTurn, AddsMemories, AddsInput, ToolRound
  <2>2. /\ context' \in Seq(Messages) /\ DOMAIN context \subseteq DOMAIN context' /\ limit' = limit
        /\ asking' \in {"system", "media", "history", "input", "request", "sent", "refused"}
        /\ ContextShape'
    BY <1>2, ShapeStep
  <2>3. BudgetTypeOK'
    BY <2>1, <2>2 DEF BudgetTypeOK, Messages, MessageKinds
  <2>4. BudgetIsSpent'
    BY <2>1 DEF BudgetIsSpent
  <2> QED BY <2>2, <2>3, <2>4
<1>3. CASE Request
  <2>1. /\ asking = "request" /\ fitted' = Fitted /\ UNCHANGED <<limit, context>>
        /\ asking' = IF Fitted.total > limit THEN "refused" ELSE "sent"
    BY <1>3 DEF Request
  <2>2. ContextShape'
    BY <1>3, ShapeStep DEF BudgetNext
  <2>3. PICK f, answer : f = fitted' /\ answer = asking'
    OBVIOUS
  <2>4. Spent(f, answer) /\ f.truncated \subseteq DOMAIN context /\ f.removed \subseteq DOMAIN context
    <3>1. f = Fitted /\ answer = IF Fitted.total > limit THEN "refused" ELSE "sent"
      BY <2>1, <2>3
    <3> QED BY <3>1, <2>1, FittedIsSpent
  <2>5. answer \in {"sent", "refused"}
    BY <2>1, <2>3
  <2>6. BudgetTypeOK'
    BY <2>1, <2>3, <2>4, <2>5 DEF BudgetTypeOK
  <2>7. BudgetIsSpent'
    BY <2>1, <2>3, <2>4, <2>5, SpentIsKept
  <2> QED BY <2>2, <2>6, <2>7
<1> QED BY <1>1, <1>2, <1>3

\* The inductive invariant of the request budget.
THEOREM BudgetInvariant == BudgetSpec => []BudgetInv
<1>1. BudgetInit => BudgetInv
  <2> SUFFICES ASSUME BudgetInit PROVE BudgetInv
    OBVIOUS
  <2>1. BudgetTypeOK
    BY DEF BudgetInit, BudgetTypeOK, NotFitted
  <2>2. ContextShape
    BY DEF BudgetInit, ContextShape
  <2>3. BudgetIsSpent
    BY DEF BudgetInit, BudgetIsSpent
  <2> QED BY <2>1, <2>2, <2>3 DEF BudgetInv
<1>2. BudgetInv /\ [BudgetNext]_budgetVars => BudgetInv'
  BY BudgetStep
<1> QED BY <1>1, <1>2, PTL DEF BudgetSpec

\* The variables of the conversation and of its last request hold what they should.
THEOREM BudgetTypes == BudgetSpec => []BudgetTypeOK
<1>1. BudgetInv => BudgetTypeOK
  BY DEF BudgetInv
<1> QED BY <1>1, BudgetInvariant, PTL

\* fit_request spends the budget, in every round of every turn: what is sent fits, no more is given
\* up than that takes, memories before history and the oldest first, and a refusal means that
\* everything that may go is gone.
THEOREM BudgetIsAlwaysSpent == BudgetSpec => []BudgetIsSpent
<1>1. BudgetInv => BudgetIsSpent
  BY DEF BudgetInv
<1> QED BY <1>1, BudgetInvariant, PTL

=============================================================================
