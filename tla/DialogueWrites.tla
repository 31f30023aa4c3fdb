--------------------------- MODULE DialogueWrites ---------------------------
(***************************************************************************)
(* The dialogue of one device: the window every open connection keeps in   *)
(* memory, the rows of the database, and the tasks that write them: the    *)
(* independent task that stores an accepted input, the turn that completes *)
(* it with the reply, a clear, the removal of a member, and connections    *)
(* that open (reading a snapshot first) and close.                         *)
(*                                                                         *)
(* Turns are numbered in the order their inputs are accepted, which is the *)
(* order of created_at, so a window and the rows are sets of numbers.      *)
(* A step between two awaits is one action; every await may be overtaken.  *)
(***************************************************************************)
EXTENDS Integers, FiniteSets, FiniteSetsExt

CONSTANTS
    Connections,    \* the WebSocket connections of the device
    Members,        \* the members registered on the device
    Guest,          \* a speaker without identity_id
    Nobody,         \* no speaker, no holder, no turn
    MaxTurns,       \* bound: inputs accepted altogether
    WindowSize,     \* dialogue_max_turns
    MaxPending,     \* _MAX_PENDING_INPUT_WRITES
    MaxClears,      \* bound: clears
    MaxOpens        \* bound: connections opened, reconnections included

ASSUME DialogueAssumption ==
    /\ MaxTurns \in Nat /\ WindowSize \in Nat \ {0} /\ MaxPending \in Nat \ {0}
    /\ MaxClears \in Nat /\ MaxOpens \in Nat
    /\ Guest \notin Members /\ Nobody \notin Members \cup {Guest} \cup Connections
    /\ Nobody \notin ({"input", "turn"} \X (1 .. MaxTurns)) \cup ({"clear"} \X Connections)
                      \cup ({"worker"} \X Members)       \* no holder of the lock

VARIABLES
    link,       \* [Connections -> off, read, listed, on, closing]
    snapshot,   \* what an opening connection read: set of turns, and those answered
    window,     \* _exchanges of the connection's DialogueSession: set of turns
    answered,   \* those of them with an assistant_text
    heard,      \* the member found for an input on its way into start_turn
    clearing,   \* clear_dialogue of the connection: no, wait, rows, windows
    turn,       \* [1..MaxTurns -> the turn task]
    input,      \* [1..MaxTurns -> the input task]
    row,        \* dialogue_exchanges: none, user or full
    lock,       \* holder of DialogueWriteScope.lock
    scope,      \* revision and removed_identities of the scope
    member,     \* active, pending, gone
    removal,    \* how far the deletion of a member is, here
    epoch,      \* history: clears committed to the database
    opens       \* opens so far

opening == <<link, snapshot, opens>>
windows == <<window, answered>>
requests == <<heard, clearing>>
tasks == <<turn, input>>
guard == <<lock, scope>>
members == <<member, removal>>
database == <<row, epoch>>
dialogueVars == <<opening, windows, requests, tasks, guard, members, database>>

Turn == 1 .. MaxTurns
Unused == [phase |-> "unused", conn |-> Nobody, who |-> Guest, revision |-> 0, epoch |-> 0]

(***************************************************************************)
(* The database as the rules see it.                                       *)
(***************************************************************************)
Latest(S, n) == {t \in S : Cardinality({u \in S : u > t}) < n}

Stored == {t \in Turn : row[t] # "none"}

\* open: the last WindowSize exchanges of each lane
Lane(t) == IF turn[t].who = Guest THEN "guest" ELSE "family"
Readable == UNION {Latest({t \in Stored : Lane(t) = l}, WindowSize) : l \in {"family", "guest"}}

IsActive(who) == who \in {Guest} \cup {m \in Members : member[m] = "active"}

(***************************************************************************)
(* The write scope and the windows of the coordinator.                     *)
(***************************************************************************)
Registered == {c \in Connections : link[c] \in {"on", "closing"}}

\* a scope lives as long as a runtime or the deletion worker refers to it
ScopeHeld == Registered # {} \/ \E m \in Members : removal[m].worker = "locked"
FreshScope == [revision |-> 0, removed |-> {}]

\* mutant: the revision of the scope is forgotten
Permits_anyRevision(t) == turn[t].who \notin scope.removed

Permits(t) == turn[t].revision = scope.revision /\ turn[t].who \notin scope.removed

Holds(who) == lock = who
Free == lock = Nobody

\* mutant: the oldest exchange stays
Accepted_unbounded(t) == [c \in Connections |->
    IF c \in Registered THEN window[c] \cup {t} ELSE window[c]]

\* accept_user_input in every registered window; the oldest exchange falls out
Accepted(t) == [c \in Connections |->
    IF c \in Registered THEN Latest(window[c] \cup {t}, WindowSize) ELSE window[c]]

\* coordinator.remove_identity: mark the scope, filter the registered windows
Forget(ms) ==
    /\ scope' = IF ScopeHeld THEN [scope EXCEPT !.removed = @ \cup ms] ELSE FreshScope
    /\ window' = [c \in Connections |-> IF c \in Registered
                    THEN {t \in window[c] : turn[t].who \notin ms} ELSE window[c]]
    /\ answered' = [c \in Connections |-> answered[c] \cap window'[c]]

DialogueInit ==
    /\ link = [c \in Connections |-> "off"]
    /\ snapshot = [c \in Connections |-> [seen |-> {}, full |-> {}]]
    /\ window = [c \in Connections |-> {}]
    /\ answered = [c \in Connections |-> {}]
    /\ heard = [c \in Connections |-> Nobody]
    /\ clearing = [c \in Connections |-> "no"]
    /\ turn = [t \in Turn |-> Unused]
    /\ input = [t \in Turn |-> "none"]
    /\ row = [t \in Turn |-> "none"]
    /\ lock = Nobody
    /\ scope = FreshScope
    /\ member = [m \in Members |-> "active"]
    /\ removal = [m \in Members |-> [noted |-> FALSE, worker |-> "idle", erased |-> FALSE]]
    /\ epoch = 0 /\ opens = 0

(***************************************************************************)
(* A connection opens: read the history, list the members, register.       *)
(***************************************************************************)
OpenSnapshot(c) ==
    /\ link[c] = "off" /\ opens < MaxOpens
    /\ opens' = opens + 1
    /\ link' = [link EXCEPT ![c] = "read"]
    /\ snapshot' = [snapshot EXCEPT ![c] =
            [seen |-> Readable, full |-> {t \in Readable : row[t] = "full"}]]
    /\ UNCHANGED <<windows, requests, tasks, guard, members, database>>

\* the history keeps guests and active members; the others are also forgotten
\* by the connections already open
ListMembers(c) ==
    LET visible == {t \in snapshot[c].seen : IsActive(turn[t].who)}
        inactive == {turn[t].who : t \in snapshot[c].seen \ visible}
    IN  /\ link[c] = "read"
        /\ link' = [link EXCEPT ![c] = "listed"]
        /\ snapshot' = [snapshot EXCEPT ![c] = [seen |-> visible, full |-> @.full \cap visible]]
        /\ Forget(inactive)
        /\ UNCHANGED <<requests, tasks, members, database, lock, opens>>

\* mutant: the snapshot goes before the window already open
Register_ownSnapshot(c) ==
    /\ link[c] = "listed"
    /\ link' = [link EXCEPT ![c] = "on"]
    /\ window' = [window EXCEPT ![c] = Latest(snapshot[c].seen, WindowSize)]
    /\ answered' = [answered EXCEPT ![c] = snapshot[c].full \cap window'[c]]
    /\ snapshot' = [snapshot EXCEPT ![c] = [seen |-> {}, full |-> {}]]
    /\ UNCHANGED <<requests, tasks, guard, members, database, opens>>

\* ConnectionRuntime(...): the window of a connection already open goes before the snapshot
Register(c) ==
    LET own == Latest(snapshot[c].seen, WindowSize)
    IN  /\ link[c] = "listed"
        /\ link' = [link EXCEPT ![c] = "on"]
        /\ \/ /\ Registered = {}
              /\ window' = [window EXCEPT ![c] = own]
              /\ answered' = [answered EXCEPT ![c] = snapshot[c].full \cap own]
           \/ \E d \in Registered :
              /\ window' = [window EXCEPT ![c] = window[d]]
              /\ answered' = [answered EXCEPT ![c] = answered[d]]
        /\ snapshot' = [snapshot EXCEPT ![c] = [seen |-> {}, full |-> {}]]
        /\ UNCHANGED <<requests, tasks, guard, members, database, opens>>

(***************************************************************************)
(* Cancelling a turn: it stops at the await it is in. Cancelled while the  *)
(* database completes the row or the memory writer inserts the job, it     *)
(* does not know whether the transaction was committed.                    *)
(***************************************************************************)
FreshTurns == {t \in Turn : turn[t].phase = "unused"}
Running(t) == turn[t].phase \notin {"unused", "ended"}
RunningOn(c) == {t \in Turn : turn[t].conn = c /\ Running(t)}
PendingOn(c) == {t \in Turn : turn[t].conn = c /\ input[t] \in {"wait", "append"}}

Ended(S) == [t \in Turn |-> IF t \in S THEN [turn[t] EXCEPT !.phase = "ended"] ELSE turn[t]]
MayBeFull(S) == {t \in S : turn[t].phase = "completing" /\ row[t] = "user"}

\* what the cancelled turns leave in the database
LeftBehind(S) ==
    /\ \E full \in SUBSET MayBeFull(S) :
          row' = [t \in Turn |-> IF t \in full THEN "full" ELSE row[t]]
    /\ lock' = IF \E t \in S : Holds(<<"turn", t>>) THEN Nobody ELSE lock

CancelTurn(c) ==
    /\ link[c] \in {"on", "closing"} /\ RunningOn(c) # {}
    /\ turn' = Ended(RunningOn(c))
    /\ LeftBehind(RunningOn(c))
    /\ UNCHANGED <<opening, windows, requests, members, input, scope, epoch>>

(***************************************************************************)
(* start_text_turn and _on_asr_event look the member up, then start_turn   *)
(* takes the place of the turn that runs. A guest is not looked up.        *)
(***************************************************************************)
LookUp(c, m) ==
    /\ link[c] = "on" /\ heard[c] = Nobody /\ IsActive(m)
    /\ FreshTurns # {}
    /\ heard' = [heard EXCEPT ![c] = m]
    /\ UNCHANGED <<opening, windows, tasks, guard, members, database, clearing>>

StartTurn(c) ==
    LET t == Min(FreshTurns)
        who == IF heard[c] = Nobody THEN Guest ELSE heard[c]
    IN  /\ link[c] = "on" /\ FreshTurns # {}
        /\ Cardinality(PendingOn(c)) < MaxPending
        /\ \E phase \in {"streaming", "ended"} :       \* ended: turn_started could not be sent
              turn' = [Ended(RunningOn(c)) EXCEPT ![t] =
                  [phase |-> phase, conn |-> c, who |-> who, revision |-> scope.revision,
                   epoch |-> epoch]]
        /\ LeftBehind(RunningOn(c))
        /\ window' = Accepted(t)
        /\ answered' = [d \in Connections |-> answered[d] \cap window'[d]]
        /\ input' = [input EXCEPT ![t] = "wait"]
        /\ heard' = [heard EXCEPT ![c] = Nobody]
        /\ UNCHANGED <<opening, members, clearing, scope, epoch>>

\* too many inputs still being written: the input is turned away, the turn goes on
StartRefused(c) ==
    /\ heard[c] # Nobody /\ Cardinality(PendingOn(c)) >= MaxPending
    /\ heard' = [heard EXCEPT ![c] = Nobody]
    /\ UNCHANGED <<opening, windows, tasks, guard, members, database, clearing>>

(***************************************************************************)
(* _persist_user_input: the lock, the permit, the member, the row.         *)
(***************************************************************************)
Settle(t, outcome) == input' = [input EXCEPT ![t] = outcome] /\ lock' = Nobody

\* _can_commit_turn is asked under the lock; a lookup that fails counts as a member
\* who is gone. What changes after it, append sees as well
InputLocks(t) ==
    /\ input[t] = "wait" /\ Free
    /\ \/ /\ Permits(t) /\ IsActive(turn[t].who)
          /\ input' = [input EXCEPT ![t] = "append"] /\ lock' = <<"input", t>>
       \/ /\ ~Permits(t) \/ turn[t].who # Guest
          /\ Settle(t, "skipped")
    /\ UNCHANGED <<opening, windows, requests, members, database, turn, scope>>

\* append locks the member's row and takes nothing from a member not active
InputAppends(t) ==
    /\ input[t] = "append"
    /\ \/ /\ IsActive(turn[t].who)
          /\ row' = [row EXCEPT ![t] = "user"] /\ Settle(t, "completed")
       \/ /\ ~IsActive(turn[t].who)
          /\ Settle(t, "skipped") /\ UNCHANGED row
       \/ Settle(t, "failed") /\ UNCHANGED row
    /\ UNCHANGED <<opening, windows, requests, members, turn, scope, epoch>>

(***************************************************************************)
(* _stream_turn once the reply is complete.                                *)
(***************************************************************************)
Goes(t, phase) == turn' = [turn EXCEPT ![t].phase = phase]

ReplyFails(t) ==
    /\ turn[t].phase = "streaming"
    /\ Goes(t, "ended")
    /\ UNCHANGED <<opening, windows, requests, guard, members, database, input>>

ReplyCompletes(t) ==
    /\ turn[t].phase = "streaming"
    /\ Goes(t, IF Permits(t) THEN "checking" ELSE "ended")
    /\ UNCHANGED <<opening, windows, requests, guard, members, database, input>>

\* the member is still active: complete the input in the windows that still hold it;
\* where none does, nothing is left to persist
TurnCommits(t) ==
    LET holding == {c \in Registered : t \in window[c]}
    IN  /\ turn[t].phase = "checking"
        /\ \/ /\ IsActive(turn[t].who)
              /\ Goes(t, IF holding # {} THEN "persisting" ELSE "ended")
              /\ answered' = [c \in Connections |->
                    IF c \in holding THEN answered[c] \cup {t} ELSE answered[c]]
           \/ /\ turn[t].who # Guest
              /\ Goes(t, "ended") /\ UNCHANGED answered
        /\ UNCHANGED <<opening, requests, guard, members, database, window, input>>

\* await asyncio.shield(accepted.persistence), and the lock once the input is stored
TurnLocks(t) ==
    /\ turn[t].phase = "persisting"
    /\ \/ /\ input[t] \in {"skipped", "failed"}
          /\ Goes(t, "ended") /\ UNCHANGED lock
       \/ /\ input[t] = "completed" /\ Free
          /\ IF Permits(t) /\ t \in window[turn[t].conn]
               THEN Goes(t, "completing") /\ lock' = <<"turn", t>>
               ELSE Goes(t, "ended") /\ UNCHANGED lock
    /\ UNCHANGED <<opening, windows, requests, members, database, input, scope>>

\* mutant: a reply whose row is gone inserts it again
CompleteRow_upsert(t) == "full"

\* complete: only a row that holds the input alone is completed, none is inserted
CompleteRow(t) == IF row[t] = "user" THEN "full" ELSE row[t]

TurnCompletesRow(t) ==
    /\ turn[t].phase = "completing"
    /\ lock' = Nobody
    /\ Goes(t, "ended")
    /\ \/ row' = [row EXCEPT ![t] = CompleteRow(t)]
       \/ UNCHANGED row
    /\ UNCHANGED <<opening, windows, requests, members, input, scope, epoch>>

(***************************************************************************)
(* clear_dialogue: cancel the own turn, delete the rows and empty every    *)
(* window under the lock.                                                  *)
(***************************************************************************)
ClearBegins(c) ==
    /\ link[c] = "on" /\ clearing[c] = "no" /\ epoch < MaxClears
    /\ clearing' = [clearing EXCEPT ![c] = "wait"]
    /\ turn' = Ended(RunningOn(c))
    /\ LeftBehind(RunningOn(c))
    /\ UNCHANGED <<opening, windows, members, heard, input, scope, epoch>>

ClearLocks(c) ==
    /\ clearing[c] = "wait" /\ Free
    /\ clearing' = [clearing EXCEPT ![c] = "rows"]
    /\ lock' = <<"clear", c>>
    /\ UNCHANGED <<opening, windows, tasks, members, database, heard, scope>>

ClearDeletesRows(c) ==
    /\ clearing[c] = "rows"
    /\ \/ /\ row' = [t \in Turn |-> "none"] /\ epoch' = epoch + 1
          /\ clearing' = [clearing EXCEPT ![c] = "windows"] /\ UNCHANGED lock
       \/ /\ clearing' = [clearing EXCEPT ![c] = "no"] /\ lock' = Nobody
          /\ UNCHANGED database
    /\ UNCHANGED <<opening, windows, tasks, members, heard, scope>>

ClearEmptiesWindows(c) ==
    /\ clearing[c] = "windows"
    /\ scope' = [scope EXCEPT !.revision = @ + 1]
    /\ window' = [d \in Connections |-> IF d \in Registered THEN {} ELSE window[d]]
    /\ answered' = [d \in Connections |-> IF d \in Registered THEN {} ELSE answered[d]]
    /\ clearing' = [clearing EXCEPT ![c] = "no"] /\ lock' = Nobody
    /\ UNCHANGED <<opening, tasks, members, database, heard>>

(***************************************************************************)
(* A member is deleted: the request schedules the deletion in the database *)
(* and then tells the connections; the worker erases the rows on its own.  *)
(***************************************************************************)
ScheduleRemoval(m) ==
    /\ member[m] = "active"
    /\ member' = [member EXCEPT ![m] = "pending"]
    /\ UNCHANGED <<opening, windows, requests, tasks, guard, database, removal>>

NoteRemoval(m) ==
    /\ member[m] # "active" /\ ~removal[m].noted
    /\ removal' = [removal EXCEPT ![m].noted = TRUE]
    /\ Forget({m})
    /\ UNCHANGED <<opening, requests, tasks, database, lock, member>>

\* the worker erases voiceprint and memory first; here it takes the lock of the scope
WorkerLocks(m) ==
    /\ member[m] = "pending" /\ removal[m].worker = "idle" /\ Free
    /\ removal' = [removal EXCEPT ![m].worker = "locked"]
    /\ lock' = <<"worker", m>>
    /\ UNCHANGED <<opening, windows, requests, tasks, database, scope, member>>

\* the scope is dropped with its last user
DropScope == IF Registered = {} THEN FreshScope ELSE scope

WorkerErases(m) ==
    /\ removal[m].worker = "locked"
    /\ lock' = Nobody
    /\ \/ /\ row' = [t \in Turn |-> IF turn[t].who = m THEN "none" ELSE row[t]]
          /\ removal' = [removal EXCEPT ![m].worker = "done", ![m].erased = TRUE]
       \/ /\ removal' = [removal EXCEPT ![m].worker = "idle"]      \* fails, retried later
          /\ UNCHANGED row
    /\ scope' = DropScope
    /\ UNCHANGED <<opening, windows, requests, tasks, member, epoch>>

(***************************************************************************)
(* A connection closes: its turn is cancelled, its inputs are not.         *)
(***************************************************************************)
BeginClose(c) ==
    /\ link[c] = "on" /\ clearing[c] = "no"
    /\ link' = [link EXCEPT ![c] = "closing"]
    /\ heard' = [heard EXCEPT ![c] = Nobody]
    /\ UNCHANGED <<windows, tasks, guard, members, database, snapshot, opens, clearing>>

EndClose(c) ==
    /\ link[c] = "closing" /\ RunningOn(c) = {} /\ PendingOn(c) = {}
    /\ link' = [link EXCEPT ![c] = "off"]
    /\ window' = [window EXCEPT ![c] = {}]
    /\ answered' = [answered EXCEPT ![c] = {}]
    /\ scope' = IF Registered = {c} /\ \A m \in Members : removal[m].worker # "locked"
                  THEN FreshScope ELSE scope
    /\ UNCHANGED <<requests, tasks, members, database, snapshot, lock, opens>>

\* the process is killed and started again: tasks, windows and scope are gone
Restart ==
    /\ \E c \in Connections : link[c] # "off"
    /\ link' = [c \in Connections |-> "off"]
    /\ snapshot' = [c \in Connections |-> [seen |-> {}, full |-> {}]]
    /\ window' = [c \in Connections |-> {}] /\ answered' = window'
    /\ heard' = [c \in Connections |-> Nobody]
    /\ clearing' = [c \in Connections |-> "no"]
    /\ turn' = Ended({t \in Turn : turn[t].phase # "unused"})
    /\ input' = [t \in Turn |-> IF input[t] \in {"wait", "append"} THEN "failed" ELSE input[t]]
    /\ lock' = Nobody /\ scope' = FreshScope
    /\ removal' = [m \in Members |-> [removal[m] EXCEPT
            !.noted = @ \/ member[m] # "active",
            !.worker = IF @ = "locked" THEN "idle" ELSE @]]
    /\ UNCHANGED <<database, member, opens>>

DialogueNext ==
    \/ \E c \in Connections : \/ OpenSnapshot(c) \/ ListMembers(c) \/ Register(c)
                              \/ CancelTurn(c) \/ StartTurn(c) \/ StartRefused(c)
                              \/ ClearBegins(c) \/ ClearLocks(c) \/ ClearDeletesRows(c)
                              \/ ClearEmptiesWindows(c) \/ BeginClose(c) \/ EndClose(c)
                              \/ \E m \in Members : LookUp(c, m)
    \/ \E t \in Turn : \/ InputLocks(t) \/ InputAppends(t)
                       \/ ReplyFails(t) \/ ReplyCompletes(t) \/ TurnCommits(t)
                       \/ TurnLocks(t) \/ TurnCompletesRow(t)
    \/ \E m \in Members : \/ ScheduleRemoval(m) \/ NoteRemoval(m)
                          \/ WorkerLocks(m) \/ WorkerErases(m)
    \/ Restart

DialogueSpec == DialogueInit /\ [][DialogueNext]_dialogueVars

(***************************************************************************)
(* Properties.                                                             *)
(***************************************************************************)

Phases == {"unused", "streaming", "checking", "persisting", "completing", "ended"}
Task == [phase : Phases, conn : Connections \cup {Nobody}, who : Members \cup {Guest},
         revision : Nat, epoch : Nat]
Holders == ({"input", "turn"} \X Turn) \cup ({"clear"} \X Connections) \cup ({"worker"} \X Members)

OpeningOK ==
    /\ link \in [Connections -> {"off", "read", "listed", "on", "closing"}]
    /\ snapshot \in [Connections -> [seen : SUBSET Turn, full : SUBSET Turn]]
    /\ opens \in Nat

WindowsOK ==
    /\ window \in [Connections -> SUBSET Turn] /\ answered \in [Connections -> SUBSET Turn]
    /\ \A c \in Connections : Cardinality(window[c]) <= WindowSize /\ answered[c] \subseteq window[c]

RequestsOK ==
    /\ heard \in [Connections -> Members \cup {Nobody}]
    /\ clearing \in [Connections -> {"no", "wait", "rows", "windows"}]

TasksOK ==
    /\ turn \in [Turn -> Task]
    /\ input \in [Turn -> {"none", "wait", "append", "completed", "skipped", "failed"}]

GuardOK == lock \in {Nobody} \cup Holders /\ scope \in [revision : Nat, removed : SUBSET Members]

MembersOK ==
    /\ member \in [Members -> {"active", "pending"}]
    /\ removal \in [Members -> [noted : BOOLEAN, worker : {"idle", "locked", "done"}, erased : BOOLEAN]]

DatabaseOK == row \in [Turn -> {"none", "user", "full"}] /\ epoch \in Nat

\* What the variables hold. A window never outgrows dialogue_max_turns, and an answer
\* is kept only with the input it belongs to (deque(maxlen), DialogueSession.commit).
DialogueTypeOK ==
    OpeningOK /\ WindowsOK /\ RequestsOK /\ TasksOK /\ GuardOK /\ MembersOK /\ DatabaseOK

\* A clear is final in the database: no input accepted before it, on whatever connection,
\* is stored or completed after it, however late its tasks come to write
\* (DialogueWriteScope.revision, docs/architecture.md).
ClearedStaysCleared == \A t \in Turn : row[t] # "none" => turn[t].epoch = epoch

\* Once the deletion worker has erased the exchanges of a member, none of them comes
\* back: not by an input accepted before, not by a reply that ends later.
ErasedLeavesNoRow ==
    \A m \in Members : removal[m].erased => \A t \in Turn : turn[t].who = m => row[t] = "none"

\* The registered windows of the device hold the same exchanges with the same answers,
\* whichever connection accepted, completed, cleared or opened last
\* (DialogueCacheCoordinator).
WindowsAgree ==
    \A c, d \in Registered : window[c] = window[d] /\ answered[c] = answered[d]

\* What the endpoint's comment promises: once the connections have been told that a
\* member is removed, no open connection has the member's exchanges in its window.
RemovedIsForgotten ==
    \A c \in Registered, m \in Members :
        removal[m].noted => \A t \in window[c] : turn[t].who # m

=============================================================================
