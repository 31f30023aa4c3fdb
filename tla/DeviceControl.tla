---------------------------- MODULE DeviceControl ----------------------------
(***************************************************************************)
(* The device controls of one connection (stop the reply, microphone or    *)
(* camera off, disconnect): asked for by button, text or voice, each in a  *)
(* task of its own, or by the model's tool within its turn; executed by    *)
(* the page, which answers; waited for under a timeout.                    *)
(***************************************************************************)
EXTENDS Integers, Sequences, FiniteSets

CONSTANTS
    LastControl,    \* bound: controls asked for
    MaxControls     \* _MAX_PENDING_DEVICE_CONTROLS

ASSUME ControlAssumption == LastControl \in Nat /\ MaxControls \in Nat \ {0}

VARIABLES
    line,       \* the connection: open, closing, commands (its tasks are cancelled), closed
    speaking,   \* the active turn: none, running, controlled (it has used the tool)
    keeper,     \* _turn_transition_lock: nobody, a turn that starts, a control that cancels
    control,    \* [Controls -> the action, the step of its task and of its receipt]
    toPage,     \* device_control and device_control_status on their way to the page
    fromPage,   \* device_control_result on their way back
    doing,      \* [Controls -> cleanups the page has left to do, Done when it does nothing]
    gone        \* the page has closed the connection

controlVars == <<line, speaking, keeper, control, toPage, fromPage, doing, gone>>

Controls == 1 .. LastControl
Nobody == 0
Turn == -1
Done == -1
NoControl == [action |-> "none", task |-> "none", receipt |-> "none"]

ControlInit ==
    /\ line = "open" /\ speaking = "none" /\ keeper = Nobody
    /\ control = [n \in Controls |-> NoControl]
    /\ toPage = <<>> /\ fromPage = <<>> /\ doing = [n \in Controls |-> Done] /\ gone = FALSE

InTask == {n \in Controls : control[n].task \in {"new", "lock", "cancelling", "sending"}}
Pending == {n \in Controls : control[n].receipt \in {"waiting", "answered"}}
Fresh(n) == control[n] = NoControl /\ \A m \in 1 .. n - 1 : control[m] # NoControl
Actions == {"stop_reply", "microphone_off", "disconnect"}

Busy == Cardinality(InTask) + Cardinality(Pending) >= MaxControls

(***************************************************************************)
(* submit_device_control and request_device_control                        *)
(***************************************************************************)
TaskGoes(n, to) == control' = [control EXCEPT ![n].task = to]

SubmitControl(n) ==
    /\ line = "open" /\ Fresh(n)
    /\ \E a \in Actions : control' = [control EXCEPT ![n].action = a,
                                                     ![n].task = IF Busy THEN "refused" ELSE "new"]
    /\ UNCHANGED <<line, speaking, keeper, toPage, fromPage, doing, gone>>

\* the receipt task and the frame
Registers(n) ==
    /\ control' = [control EXCEPT ![n].task = "sending", ![n].receipt = "waiting"]
    /\ toPage' = Append(toPage, [type |-> "control", of |-> n])

\* the first step of the task; reply and connection are only stopped without the turn
ControlBegins(n) ==
    /\ control[n].task = "new"
    /\ IF line # "open" THEN TaskGoes(n, "done") /\ UNCHANGED toPage
       ELSE IF Cardinality(Pending) >= MaxControls THEN TaskGoes(n, "refused") /\ UNCHANGED toPage
       ELSE IF control[n].action = "microphone_off" THEN Registers(n)
       ELSE TaskGoes(n, "lock") /\ UNCHANGED toPage
    /\ UNCHANGED <<line, speaking, keeper, fromPage, doing, gone>>

\* cancel_turn: with nothing to cancel it returns at once; whether the connection closes
\* meanwhile is not looked at again
TakesLock(n) ==
    /\ control[n].task = "lock" /\ keeper = Nobody
    /\ IF speaking # "none" THEN TaskGoes(n, "cancelling") /\ keeper' = n /\ UNCHANGED toPage
                   ELSE Registers(n) /\ UNCHANGED keeper
    /\ speaking' = "none"
    /\ UNCHANGED <<line, fromPage, doing, gone>>

TurnCancelled(n) ==
    /\ control[n].task = "cancelling" /\ keeper' = Nobody
    /\ Registers(n)
    /\ UNCHANGED <<line, speaking, fromPage, doing, gone>>

\* the frame was written, or the sender has stopped
Delivered(n) ==
    /\ control[n].task = "sending"
    /\ \/ TaskGoes(n, "done")
       \/ control' = [control EXCEPT ![n].task = "done", ![n].receipt = "cancelled"]
    /\ UNCHANGED <<line, speaking, keeper, toPage, fromPage, doing, gone>>

TurnBegins ==
    /\ line = "open" /\ keeper = Nobody /\ keeper' = Turn /\ speaking' = "none"
    /\ UNCHANGED <<line, control, toPage, fromPage, doing, gone>>

TurnBegun ==
    /\ keeper = Turn /\ keeper' = Nobody /\ speaking' = "running"
    /\ UNCHANGED <<line, control, toPage, fromPage, doing, gone>>

ControlledTurnEnds ==
    /\ speaking # "none" /\ keeper = Nobody /\ speaking' = "none"
    /\ UNCHANGED <<line, keeper, control, toPage, fromPage, doing, gone>>

\* the tool of the running turn: only receipts count
TurnControls(n) ==
    /\ line = "open" /\ speaking = "running" /\ Fresh(n)
    /\ speaking' = "controlled"
    /\ \E a \in Actions :
          IF Cardinality(Pending) >= MaxControls
            THEN /\ control' = [control EXCEPT ![n] = [action |-> a, task |-> "refused", receipt |-> "none"]]
                 /\ UNCHANGED toPage
            ELSE /\ control' = [control EXCEPT ![n] = [action |-> a, task |-> "turn", receipt |-> "waiting"]]
                 /\ toPage' = Append(toPage, [type |-> "control", of |-> n])
    /\ UNCHANGED <<line, keeper, fromPage, doing, gone>>

(***************************************************************************)
(* _wait_device_control and device_control_result                          *)
(***************************************************************************)
ResultArrives ==
    LET n == Head(fromPage)
    IN  /\ line = "open" /\ fromPage # <<>> /\ fromPage' = Tail(fromPage)
        /\ control' = [control EXCEPT ![n].receipt = IF @ = "waiting" THEN "answered" ELSE @]
        /\ UNCHANGED <<line, speaking, keeper, toPage, doing, gone>>

\* the answer, or unknown after the timeout; the late one is turned away
ReceiptEnds(n) ==
    /\ control[n].receipt \in {"waiting", "answered"}
    /\ control' = [control EXCEPT ![n].receipt = IF @ = "waiting" THEN "unknown" ELSE "confirmed"]
    /\ toPage' = Append(toPage, [type |-> "status", of |-> n])
    /\ UNCHANGED <<line, speaking, keeper, fromPage, doing, gone>>

ControlCloses ==
    /\ line = "open" /\ line' = "closing"
    /\ UNCHANGED <<speaking, keeper, control, toPage, fromPage, doing, gone>>

Cancelled(S, field) == [n \in Controls |->
    IF n \notin S THEN control[n]
    ELSE IF field = "receipt" THEN [control[n] EXCEPT !.receipt = "cancelled"]
    ELSE [control[n] EXCEPT !.task = "done", !.receipt = IF @ = "none" THEN @ ELSE "cancelled"]]

FirstCancelled == Cancelled(InTask, "task")

\* mutant: the tasks are cancelled last
LastCancelled_tasks == Cancelled(InTask, "task")

\* the tasks first: they may still register a receipt until they end
LastCancelled == Cancelled(Pending, "receipt")

CloseTasks ==
    /\ line = "closing" /\ line' = "commands"
    /\ control' = FirstCancelled
    /\ keeper' = IF keeper \in InTask THEN Nobody ELSE keeper
    /\ UNCHANGED <<speaking, toPage, fromPage, doing, gone>>

CloseReceipts ==
    /\ line = "commands" /\ line' = "closed"
    /\ control' = LastCancelled
    /\ UNCHANGED <<speaking, keeper, toPage, fromPage, doing, gone>>

(***************************************************************************)
(* The page: createDeviceControls                                          *)
(***************************************************************************)
PageHears ==
    LET f == Head(toPage)
    IN  /\ toPage # <<>> /\ toPage' = Tail(toPage)
        /\ doing' = IF gone \/ f.type = "status" THEN doing
                    ELSE [doing EXCEPT ![f.of] = IF control[f.of].action = "disconnect" THEN 3 ELSE 1]
        /\ UNCHANGED <<line, speaking, keeper, control, fromPage, gone>>

\* one cleanup ends, fails or runs into its own timeout; the last one answers
PageCleans(n) ==
    /\ doing[n] > 0 /\ doing' = [doing EXCEPT ![n] = @ - 1]
    /\ UNCHANGED <<line, speaking, keeper, control, toPage, fromPage, gone>>

PageAnswers(n) ==
    /\ doing[n] = 0 /\ doing' = [doing EXCEPT ![n] = Done]
    /\ fromPage' = IF gone THEN fromPage ELSE Append(fromPage, n)
    /\ gone' = (gone \/ control[n].action = "disconnect")
    /\ UNCHANGED <<line, speaking, keeper, control, toPage>>

ControlNext ==
    \/ \E n \in Controls :
          \/ SubmitControl(n) \/ ControlBegins(n) \/ TakesLock(n) \/ TurnCancelled(n) \/ Delivered(n)
          \/ TurnControls(n) \/ ReceiptEnds(n) \/ PageCleans(n) \/ PageAnswers(n)
    \/ TurnBegins \/ TurnBegun \/ ControlledTurnEnds \/ ResultArrives \/ ControlCloses \/ CloseTasks \/ CloseReceipts
    \/ PageHears

ControlSpec == ControlInit /\ [][ControlNext]_controlVars

(***************************************************************************)
(* Properties.                                                             *)
(***************************************************************************)
ControlRecord == [
    action : Actions \cup {"none"},
    task : {"none", "new", "lock", "cancelling", "sending", "turn", "done", "refused"},
    receipt : {"none", "waiting", "answered", "confirmed", "unknown", "cancelled"}]

\* What the variables hold.
ControlTypeOK ==
    /\ line \in {"open", "closing", "commands", "closed"} /\ speaking \in {"none", "running", "controlled"}
    /\ keeper \in {Nobody, Turn} \cup Controls
    /\ control \in [Controls -> ControlRecord]
    /\ toPage \in Seq([type : {"control", "status"}, of : Controls]) /\ fromPage \in Seq(Controls)
    /\ doing \in [Controls -> Done .. 3]
    /\ gone \in BOOLEAN

\* A closed connection leaves nothing behind that waits for the page: a control under way
\* when the closing began may still have registered its receipt.
NothingWaitsAfterClose == line = "closed" => InTask = {} /\ Pending = {}

=============================================================================
