# Newtalk in TLA+

Newtalk is a voice companion for a household: browser pages talk over WebSocket
to one FastAPI process that recognises speech and speaker, asks a language
model, synthesises the reply, keeps the family's dialogue window, writes
long-term memories to an external provider (MemOS), plays media and speaks
reminders. This directory holds TLA+ specifications of the parts of it whose
correctness depends on the order of events, their model-checking
configurations, and machine-checked proofs of their safety properties: of the
two durable queues, the reminders, the dialogue window, the output of a
connection, its voice input, its media, the profile cache, the voiceprints and
the device controls.

The process is the only one: `docs/architecture.md:252` (connection registry,
memory worker, deletion worker) and `:145` (reminders) rule several processes
out. Within it every coroutine runs until its next `await`, so an action of a
module is what a handler does between two awaits at which another task can
change what it uses.

## 1. Inventory

Paths are under `src/src/newtalk/` unless they start with `src/` or `web/`.

| Component | State | Operations | Hard behaviour | What makes it correct | Module |
|---|---|---|---|---|---|
| Memory write pipeline (`memory/jobs.py`) | `memory_jobs` rows, lease, retry time, provider task id | enqueue, claim, submission guard, submit, poll, complete, fail | lost answers, crash between two steps, poll limit, member leaving meanwhile | submits only for active members, one outcome per turn, ends; a retry does not duplicate a known write | `MemoryDeletion` |
| Member deletion (`identity/deletion.py`) | `identity_deletion_jobs`, `identities.status` | schedule, claim, erase four stores in order, wait for submitted jobs, complete, retry | partial failure of any step, crash, write-back after the erasure | nothing is left behind, nothing known comes back, the member goes last, it ends | `MemoryDeletion`, `MemberErasure` |
| Reminders (`reminders/`) | `reminders` rows, connection registry | create, update, cancel, claim, replay, receipts, expire, connect, disconnect | four writers per row, deadlines, receipts out of time | outcomes are what the page reported, nothing plays after a cancellation, every delivery ends | `Reminders` |
| Reminder gate (`transport/runtime.py`) | held deliveries, exempt turn, receipt queue | hold, release, wait in the generation task | the release is an event that can be missed | never opened early, always opened in the end | `Reminders` |
| Reminder player (`web/reminder-*.js`, `web/reminders.js`) | waiting list, active job, busy flags | enqueue, start, play, stop, cancel, keep alive | stale view of the server | one sound at a time | `Reminders` |
| Dialogue window and its persistence (`chat/session.py`, `chat/persistence.py`, `transport/websocket.py`) | a window per connection, rows, write scope (lock, revision, removed members) | open, accept, store the input, complete, clear, remove a member, close | a clear or removal at any await of the others | cleared or erased exchanges are not stored again; windows of a device agree | `DialogueWrites` |
| Turns of a connection (`transport/runtime.py`) | turn state, transition lock, playback | start, replace, cancel, complete, close | receive loop, recognition and control tasks at once | one live turn; no orphan task | `TurnOutput` |
| Outbound sender (`transport/runtime.py:82`) | queue of frames, sender task | send, drop stale, close | the sender dies between put and wait | no sender waits for ever; no frame of a dead turn | `TurnOutput` |
| PCM player of the page (`web/app.js`) | active stream, generating turn | begin, push, end, stop, drained | its stop and its drained report cross | page and server agree once quiet | `TurnOutput` |
| Audio input (`audio/`) | utterance, bounded frame queue, recognition task | push, start, end, detach, stop, abort | full queue, a recogniser that ends by itself | an announced utterance is announced as ended; one failure | `VoiceInput` |
| Voice activity detector (`audio/vad.py`) | sliding window, counters of samples | process a window, begin and end a capture | boundaries of two thresholds and a silence that is no whole number of windows | starts and ends alternate, each at its window | `VoiceActivity` |
| Speech recognition provider (`asr/doubao.py`) | packing task, sequence numbers, answers read | send, receive, end, fail, leave | two tasks on one socket, an answer before the end of the audio | the whole utterance once and in order; one final result, the last | `SpeechRecognition` |
| Voice join (`transport/runtime.py`, `voiceprint/client.py`) | per utterance: transcript, speaker | recognise, match, time out, look up, discard | late answer after the timeout | nothing of an utterance survives its recognition | `VoiceInput` |
| Media session and page player (`media/session.py`, `web/media-player.js`) | revision, resolver, pending commands, observation; deck | submit, resolve, publish, report, play, interrupt, close | late resolutions, late reports, refused commands | the latest wish wins on both sides | `MediaSession` |
| Chat service and tool rounds (`chat/service.py`) | round, two producers, output queue | stream, call a tool, speak, read, leave | queue full, either producer fails, the reader leaves | a completed reply is whole; it ends | `ReplyStream` |
| Speech session (`tts/`) | provider session, sending task | open, send, receive, finish, cancel | failure in the middle | no session is left open | `ReplyStream` |
| Profile cache (`profile/session.py`, `memory/api.py`) | snapshot per connection, loads in flight | load, bind, retry, edit, close | a load racing an edit or another load | edits are not hidden by older loads | `ProfileCache` |
| Recovery limit (`identity/recovery_limit.py`) | window counters, in memory or in the database | check, prune, clear | concurrent checks, window boundary | the limit holds | `Recovery` |
| Voiceprints (`voiceprint/`, `src/services/voiceprint`) | templates in members' rows | enrol, delete, identify | a request given up is carried out all the same | no template of a member after the cleaning | `Voiceprints` |
| Device controls (`transport/runtime.py:577`) | receipts, control tasks | request, report, time out, close | a control under way when the connection closes | each ends once; none outlives the connection | `DeviceControl` |
| Reminder audio (`reminders/audio.py`) | cache, slots | render, serve | cancelled while rendered | nothing cancelled is served | its checks in `Reminders` |
| Memory provider and center (`profile/memos.py`, `memory/api.py`, `tools/memory.py`) | none here | add, status, search, edit, delete | remote tasks run on | see the queues | calls of the queues and profile |
| Identities and devices (`identity/`) | rows | CRUD, credentials, recovery | a member being deleted | single transactions | what others ask of it |
| Input budget (`chat/context_budget.py`) | none; a request's messages and their costs | shorten memories, remove history, refuse | the boundary of the budget, tool rounds that add to it | a request sent fits, and no more is given up than that takes | `ContextBudget` |
| Context debug, settings; migrations, scripts | - | - | - | - | not modelled |

The components meet in few places: a completed turn of `DialogueWrites` is the
`Enqueue` of `MemoryDeletion`; `Schedule` there is the removal of a member in
`DialogueWrites` and `Voiceprints`; a recognised utterance of `VoiceInput` is a
start of a turn in `TurnOutput` and an input in `DialogueWrites`; the turn task
of `TurnOutput` is the reader of `ReplyStream`; the turns of `Reminders` are
reduced to starting, waiting, running and over. Each module takes over from the
other what it needs as an unconstrained action (an input may come at any time,
a member may be removed at any time), so that it allows every order the others
produce, and more.

`PROJECT.json` lists the same components with their status and, under
`hazards`, the places in the code where the order of events bites.

## 2. The modules and the plan

| Module | What it is | Proofs |
|---|---|---|
| `MemoryDeletion` | both durable queues | `MemoryDeletionProofs` |
| `MemberErasure` | the abstract promise of the queues about a member | `MemoryDeletionProofs`: the refinement |
| `Reminders` | table, service, gate, page queue | `RemindersProofs` |
| `DialogueWrites` | windows, rows and write scope of a device | `DialogueWritesProofs` |
| `TurnOutput` | turn transitions, sender, wire, PCM player | `TurnOutputProofs` |
| `VoiceInput` | utterances, recognition, voice join | `VoiceInputProofs` |
| `MediaSession` | media of a connection and the page's player | `MediaSessionProofs` |
| `ProfileCache`, `Voiceprints`, `DeviceControl` | three small services | `ServicesProofs` |
| `ReplyStream` | the production of one reply | `ServicesProofs` |
| `Recovery` | the limit on recovery codes | `ServicesProofs` |
| `SpeechRecognition` | one recognition by the streaming provider | `ServicesProofs` |
| `VoiceActivity` | the detector over some captures | `ServicesProofs` |
| `ContextBudget` | the making and fitting of the requests of a turn | `ServicesProofs` |
| `MCMemoryDeletion`, `MCHousehold`, `MCReminders`, `MCDialogue`, `MCParts`, `MCProgress` | instances for TLC | `PartsProofs`, of `MCParts` |

`MCParts` and `MCProgress` put parts that share no state into one graph: the
initial state chooses the part, and only that part moves. A run of `MCParts` is
therefore the union of the graphs of its parts, not their product; nothing is
claimed there about an interaction of two parts.

The order followed was: the queues and their refinement, the reminders, the
dialogue window, the output, voice and media of a connection, the reply, the
small services, the parts that are algorithms; then the proofs in the same
order, and last of `ContextBudget` and of the parts together. No module uses RECURSIVE
operators, so that each can be proved about.

### How the proofs are laid out

Each proof module states an inductive invariant `XInv` as a conjunction of named
parts (types, then shapes that relate the variables), proves that the initial
state has it and that every step keeps it, and derives the properties. Every
invariant was checked by TLC on the small instance first. In the larger modules
the proof that a step keeps the invariant goes by conjunct: a lemma says which
actions touch the variables a conjunct speaks of, and the conjunct is proved
for those. The assumptions are those on the constants, which TLC evaluates in
every run; no theorem has any other.

An induction over data was needed where a list is filtered (`WithoutIs`),
where a window is cut to its newest exchanges (`LatestBounded`), where the
attempts within a window are counted (`FewWithin`) and where costs are added up
and messages gone through in a loop (`SumAdds`, `PassShortens`, `PassRemoves`). The induction
theorems of the library cannot be used because they take an operator, but a least
element of a set of numbers can be had from the well-founded order of the naturals
(`Least`, `LeastOfNat`, `LeastNumber`), which needs none.

## 3. MemoryDeletion

### What it models

The three tables (`identities.status`, `memory_jobs`,
`identity_deletion_jobs`), the memory worker, the deletion worker, and the
remote provider.

| Model | Code |
|---|---|
| `status`, `attempts`, `polls`, `task`, `due` | columns of `memory_jobs`; `due` is "available_at has come" |
| `wpc`, `wjob` | `MemoryWriteService._run`, `_process`: where the worker is and the job it holds |
| `dpc`, `dident` | `IdentityDeletionService._run`, `_process` |
| `RowLocked` | the row lock of `submission_guard`, held over Add Message and over the polling of a status |
| `remote`, `memories` | what became of each Add Message request and what it stored: external |
| `Enqueue`, `Schedule` | the entries from a completed turn and from the identity API |
| `Crash`, `MemoryAbort`, `DeletionAbort` | the end of the process, an exception nobody handles |

Jobs are numbered by `created_at`; a provider task id is the number of the
attempt that obtained it (0 is NULL). `orphaned`, `erased` and `faults` are
history variables: no guard reads them, except for the bound on faults.
Memory writing and the voiceprint service are taken as enabled. Left out: rows
of the deletion queue in the legacy `failed` state, which only `start()`
revives; the order in which deletion jobs are claimed; the attempt counter of
a deletion, which only sets a delay; a second enqueue of the same turn, which
changes nothing; the lengths of delays.

### What it implements

`MemberErasure` says what the two queues promise of a member together, without
rows, workers, retries or crashes: nothing is submitted for one who has left, a
member does not leave while something is being submitted, the memories go only
when no task is waited for, and the member goes when every store is erased. The
mapping is `INSTANCE MemberErasure WITH life <- identity, cleared <- erased,`
`submitting <-` the member whose Add Message is in flight, `waiting <-` the
members with submitted rows. `ImplementsErasure == Erasure!Spec` is a property
of the run `memory_deletion` and the theorem `QueuesImplementErasure`.

### What is checked

| Run | Instance | Shows |
|---|---|---|
| `memory_deletion` | 2 members, 2 attempts, 1 poll, 2 faults: either the turn of one and its deletion, with faults, or the turns and deletions of both, without (`MCHousehold`) | the safety properties, `RowsMoveForward` and `ImplementsErasure`, in every interleaving of a write, a retry, two crashes and a deletion; `KeepsMemoriesOfActive`: the deletion of one never takes the other's memories |
| `progress` (its queues) | 1 member, 1 turn, 2 attempts, 1 poll, 1 fault | `JobsEnd`, `DeletionEnds` |
| `no_write_back` (violation) | 1 turn, 1 attempt | a lost answer of Add Message lets a memory be stored after the erasure |
| `submissions_bounded` (violation) | 2 attempts, 1 fault | a claim cut short is taken again without a look at its attempts |

- `LeavingIsQuiet`: the row lock and the look at the member make an Add Message
  for a leaving member impossible (`SubmitsOnlyForActive`), and after the erasure
  no row of the member is submitted (`ErasedMeansQuiet`).
- `WriteBackOnlyFromOrphans`: what may still arrive after the erasure are exactly
  the requests the queue gave up knowing. The violation `NoWriteBack` shows that
  these exist; the invariant shows that there is no other way.
- `NoDuplicateWrite`: two requests of a turn store a memory only if one of them
  was orphaned.
- `OutcomeIsEarned`: completed means stored (or wiped), failed means that the
  attempts were used or the member left (`OutcomeIsTrue`), and attempts stay
  within the budget plus the interruptions (`AttemptBudget`).
- `RowsMoveForward`: an ended row stays ended, polls are never given back while
  the same task is polled, and scheduling a deletion forgets no submitted task.
- `RemovedOnlyWhenErased`: the member's row goes last.

Bounds: two attempts are the least with a retry, one poll the least with a
limit that is reached (`polls` saturates one above it, which is exact for its
only comparison), two faults the least with a crash during recovery from a
crash. More of any of them repeats the same steps of a row.

Fairness (`WorkerFairness`): WF on the steps of the memory
worker (the task runs as long as the process does and every call has a timeout)
and on `JobDue` (time passes); SF on `Claim`, because a row that is put off
becomes due again (`poll_seconds`, backoff) and the others are put off behind
it. `JobsEnd` assumes nothing of the provider. `DeletionEnds` holds under the
further assumption `DeletionFairness`, which it states: external calls succeed
now and then and remote tasks finish, without which a deletion is meant to be
retried for ever.

### What is proved

`MemoryDeletionProofs` proves for every set of members, any number of jobs and
every budget the theorems `TypeCorrect`, `LeavingQuiet` (from
`SubmissionGuarded` and `ErasureIsQuiet`), `WriteBackConfined`,
`RetriesDoNotDuplicate`, `OutcomesAreEarned` (from `OutcomesAreTrue` and
`AttemptsBounded`), `RemovalIsLast`, `MembersKeepMemories` (invariants) and `EndedJobsStayEnded`,
`DeletionWaits`, `PollsAreSpent`, `RowsOnlyMoveForward` (action properties)
from `InductiveInvariant == Spec => []Inductive`.

None of the properties is inductive as it stands. `Inductive` adds the shape of
rows and workers (which fields go with which status, which job the worker can
hold), that a job is untouched before its turn, that attempts not yet made are
fresh, and the fact the argument turns on, `RequestsAccounted`: a request that
may still store a memory is either in the worker's hands under the row lock, or
known to its row as a submitted task, or orphaned. The deletion worker checks
for submitted tasks only after `Schedule` took the row lock, so at the erasure
the first two cases are excluded and only orphans remain. The proof has a lemma
per conjunct and a step per action; the many outcomes of a worker step go
through one summary (`ResultStep`).

`MemoryDeletionProofs` also proves `QueuesImplementErasure == Spec =>
ImplementsErasure`: the initial states map to initial states (`ErasureInit`),
and under `Inductive` every step maps to a step of `MemberErasure` or to a
stutter (`ErasureStep`, with a lemma for each kind of step: a result, an
abandoned job, an erasure, a schedule, a completion).

The assumptions are those on the constants (`CountsAssumption`,
`OwnerAssumption`), which TLC evaluates in every run.

Only model-checked: `JobsEnd` and `DeletionEnds` (liveness under fairness is out
of the prover's reach), and both violations.

## 4. Reminders

### What it models

The reminders of one device. A delivery id is `<<r, n>>`, the n-th delivery of
reminder r.

| Model | Code |
|---|---|
| `row` | the `reminders` table; `due` and `late` are "due_at / delivery_deadline has passed" |
| `pages` | `ReminderService._connections`; the last one is the newest |
| `pc`, `todo`, `hand`, `aim`, `seen` | the polling worker (`tick`) and replay handlers: where each is, whom it has still to tell, the connection it chose, the row it read |
| `notices` | `reminder_cancelled` events a cancel handler has still to send |
| `gate`, `exempt`, `turn` | `_reminder_deliveries`, `_reminder_current_turn`, and the wait at the head of `_stream_turn` |
| `receipts`, `ending` | `_reminder_receipts` and the delivery whose end `ack` is about to tell |
| `chan` | frames in order on the WebSocket |
| `busy`, `waiting`, `active` | the page's queue |
| `said`, `faults` | history: what pages reported; timeouts and restarts |

The worker's round is `TickExpire`, `TickEnded`, `TickClaim`, then for each
claimed row `Announce` and `Announced`, or `NotAnnounced` and `GiveUp`. A replay
reads the row, then changes it under the condition of what it read. The
connection closes in three steps (`Disconnect`, `Unregister`,
`DisconnectExpire`), between which other tasks run. A frame queued before a
notice timed out may reach the page all the same.

`DeadlinePasses` does not happen to a delivery that is still being announced: a
batch takes at most 50 notices of a second each, the deadline is 90 seconds. The
other busy flags of the page (speech, chat audio) only delay a start and are
left out. The cap of 50 claims a round, the request key, contents and dates are
abstracted, and so is the cache of rendered audio.

### What is checked

| Run | Instance | Shows |
|---|---|---|
| `reminders` | 2 connections, 1 reminder delivered at most twice, 1 replay handler, receipt queue and waiting list of one, no turns | `GateHolds`, `OutcomeIsReported`, `CancelStopsPlayback`, `DeliveryOnlyMovesOn` |
| `reminders_go_on` | 1 connection with turns, 1 delivery, 1 fault | `TurnGoesOn`, `DeliveryEnds` |
| `reminder_gate` (violation) | 2 connections, no fault | `NothingHeldInVain` |
| `reminder_over_reply` (violation) | 1 connection with turns, 2 deliveries | `NoReminderOverReply` |

- `GateHolds`: no receipt, replay, expiry or cancellation of another delivery
  opens the gate while an announced reminder may still be played.
- `OutcomeIsReported`: a late receipt of an earlier delivery never settles a
  later one.
- `CancelStopsPlayback`: a page sounds a cancelled reminder only while the frame
  that stops it is on its way; the second check of the audio request is what
  makes the case "cancelled before it was announced" harmless.
- `DeliveryOnlyMovesOn`: the conditional updates of replay and ack keep two
  handlers from replacing a live delivery or re-opening an ended one.
- `TurnGoesOn` holds for a device with one connection and no timeout. With a
  second connection it does not, and `reminder_gate` shows why:
  `expire(now, connection_id=c)` ends deliveries of `c` *or past their
  deadline*, so a disconnection (or a failed notice) can end a delivery of
  another connection, and its result, which would have told that connection, is
  thrown away. The gate keeps a delivery no one will ever end, and every later
  turn stays in `turn_waiting`.
- `NoReminderOverReply`: `turn_waiting` clears the page's busy flag and no event
  sets it when the turn goes on, so the next reminder plays over that reply.

Bounds: two connections (symmetric in the run `reminders`) are the least for
"newest" and for one disconnection to touch the other's rows; two deliveries of
one reminder the least for a late receipt; queues of one are the smallest that
fill. `MaxFrames` limits how many
frames may be under way to a page when a turn begins; it does not limit frames
of reminders. Faults are one at most.

Fairness: WF on the tasks of the service and of the connection and on the page's
event loop; WF on `DeadlinePasses` because time passes; WF on the end of a
running reply (its providers have timeouts), not on the end of a waiting one; SF
on `PageStart`, because `pump` runs at every change of the busy flag. Nothing is
assumed of users and connections.

### What is proved

`RemindersProofs` proves for any number of pages, reminders, replay requests and
deliveries, any size of the queues and any number of faults the theorems
`ReminderTypes` (with the bounds of the receipt queue and of the waiting list),
`GatesHold`, `OutcomesAreReported`, `CancelledIsStopped` and, as an action
property, `DeliveriesMoveOn`, from `RemindersInvariant == Spec => []RemindersInv`.

`RemindersInv` adds to the properties:

- `LinkShape`, `RowShape`, `SenderShape`: which fields go together. A connection
  is registered exactly while it is open or closing; one that is not open has
  nothing to play, to send or to receive; a sender has nothing to announce when
  it looks for work.
- `ItemShape`: what a sender holds was claimed for the page it tells, unless the
  row has been delivered anew since; and what the worker tells the end of has
  ended (`Past`).
- `EndShape`: so has what `ack` is about to tell the end of. These two are why
  no end opens the gate for a delivery that still lives.
- `NoticeShape`: a notice of cancellation is about a cancelled reminder, which no
  step triggers again.
- `ReceiptShape`: the outcomes that wait to be recorded were reported.

The argument turns on the way a row moves: in every step each row either `Stays`
the delivery it is (it may go on or end) or is `Renewed` (its delivery has ended,
and the new one is in a sender's hands, unannounced). `RowMoves` shows this for
all four writers, and everything else is derived from it: `DeliveriesMoveOn`
directly, and `GatesHold` because an announced delivery leaves its gate only
through an end (`Past`), a cancellation, or a notice that failed, whose sender
then has it in hand until `GiveUp` ends it.

Only model-checked: `TurnGoesOn` and `DeliveryEnds` (liveness under fairness) and
the two violations.

## 5. DialogueWrites

| Model | Code |
|---|---|
| `link`, `snapshot` | `websocket_endpoint`: the reads before the registration, the registration, the close |
| `window`, `answered` | `_exchanges` of each `DialogueSession` |
| `heard` | the member an input was looked up for, on its way into `start_turn` |
| `turn`, `input` | the completing part of a turn task, the independent input task |
| `lock`, `scope` | `DialogueWriteScope`: lock, `revision`, `removed_identities` |
| `clearing`, `removal` | `clear_dialogue`; the deletion of a member as far as the dialogue goes |
| `row` | `dialogue_exchanges` |

Turns are numbered in the order their inputs are accepted (`created_at`), so a
window is a set of numbers and the newest `WindowSize` of them are kept.

Run `dialogue`: two connections of a device, a member and guests, two turns, a
window of one, one pending input write, one clear, two opens besides; the
connections are symmetric.

- `ClearedStaysCleared`: no input accepted before a clear is stored or
  completed after it, on whatever connection and however late.
- `ErasedLeavesNoRow`: after the deletion worker has erased a member's
  exchanges, none comes back.
- `WindowsAgree`: registered windows hold the same exchanges with the same
  answers, whoever accepted, completed, cleared or opened last.
- Run `stale_window` (violation), `RemovedIsForgotten`: `start_turn` accepts the
  input of a member looked up before it waited for the lock and for the old
  turn, and `websocket_endpoint` filters its snapshot by a member list read
  before the registration; either way a removed member's exchange is in an open
  window. Its row is not written (`ErasedLeavesNoRow`).

Two turns are the least for one to be accepted on each connection, around one
clear; a window of one is the smallest that evicts.

`DialogueWritesProofs` proves `DialogueTypes`, `ClearedStays`, `ErasedStays` and
`WindowsAlwaysAgree` for any connections, members, turns, clears and window size.
`DialogueInv` adds who holds the lock (`LockShape`), that a pending task belongs
to a registered connection (`TaskShape`), that a member whose rows are being
erased is no longer active (`RemovalShape`), and `RevisionShape`: an input that
the scope still permits was accepted since the last clear, except while a clear
has deleted the rows and has yet to count that, when it holds the lock and no
input can be appended. `LatestBounded` shows that the newest n of a set of turns
are at most n.

The scope of a device is held only by its
open connections (a weak reference): a clear that falls between the snapshot
and the registration of the only connection can leave the cleared history in
that window, which no property forbids.

## 6. TurnOutput

Three tasks may replace a turn: the receive loop, recognition tasks and device
control tasks (`Helpers`); each goes through `start_turn`/`cancel_turn` under
the transition lock, await by await. The turn task sends its frames, each
waiting for its delivery; the sender takes one frame at a time, drops those of a
turn that is no longer current, fails or is closed; the wire holds frames the
page has not seen; the PCM player reports what it has drained.

A turn that finds reminders being played sends `turn_waiting` before anything else
and waits (`runtime.py:1203-1211`); then it goes on (`TurnWakes`), or ends if it is no
longer wanted. When that is, is the matter of `Reminders`; here it may be at any time
or never, so `TurnWakes` is under no fairness. On `turn_waiting` the page clears
`generating`, its flag that a reply is being made (`app.js:788-795`), and no later frame
of that turn sets it again. `held`, a history variable, has the turn for which that
happened.

In `parts` (three turns, one cancellation, one helper, one frame on the wire):

- `NoOrphanTask`: a turn task that is not cancelled is the one the connection
  would cancel next, whatever replaced what at which await.
- `NoFrameAfterTheEnd`: no frame of a reply arrives after the page was told that
  the turn is over, though the sender queue may hold some when it is replaced.
- `PageAgrees`: once nothing is under way, the page is busy with the active turn and
  no other, or with none if it was told that the active turn waits. They do not agree
  on a turn that has gone on after its wait: that is the finding of the run
  `reminder_over_reply` (section 4), which shows what comes of it. The connection knows
  what plays; the player, which looks at no stream number, never gets a frame or a stop
  meant for another stream.

In `progress` (two turns): `CloseEnds`, a connection that begins to close is
closed, with the sender failing at any point. Fairness is one WF over the steps
of the server's tasks and of the page's event loop: a write to the socket ends
or fails, which the model takes from the server that carries it. Users do what
they like.

Three turns are the least for a replacement of a replacement. Two recognition
tasks may start their turns in the other order than their utterances; nothing in
the code or its documentation orders them.

`TurnOutputProofs` proves `OutputTypes`, `NoTaskIsOrphaned` and
`NothingFollowsTheEnd` for any number of turns, cancellations and helpers and any
length of the wire. `OutputInv` says that a call past the lock holds it and that
from the moment it has taken the old turn until it attaches the new one nothing
streams (`LockShape`, `CallShape`, `TurnShape`), that a waiter waits for a frame
of the step it is at (`OutboxShape`), that of the active turn the queue holds at
most one frame, whose sender waits for it (`QueueShape`), and that a turn the
page was told is over, or will be told by the frames under way, is not the active
one or has its last frame out (`ToldShape`).

`PageAndConnectionAgree` proves `PageAgrees`, from a second invariant on top of
that one, `AgreementInvariant`. What the page will sound or show cannot be read
off the page while frames are under way, so the invariant speaks of the page once
it has read the first n frames of the wire: `Hears(n, s)`, `Shows(n, t)`. The
last start, silence or marker among them decides, or what the page has now. A marker
is a first or a last frame of a turn or its `turn_waiting`; what a page shows is the
turn it is on (`OnPage`), busy with it or told that it waits, and never both.
`HeardShape` and `ShownShape` bound both by what the connection knows (`MayHear`,
`MayShow`): the stream of the active turn once it has begun, the stream that the
call past the lock has taken and will stop, nothing once its stop is sent, else
what plays. `StreamShape` says the same in the middle of the wire, for each
binary frame and each stop. These need that notices are waited for and are never
two (`NoticeShape`), that what plays for the connection is the stream of the
active turn (`PlayShape`), that a stream that has ended does not start again
(`EndShape`), and that a sender that has stopped has answered everybody
(`StopShape`). A stop whose caller was aborted stays in the queue: the invariant
holds it harmless because nobody is left who would start a turn after it.

`CloseEnds` is only model-checked.

## 7. VoiceInput

The receive loop (`push`, the VAD's start and end, stop, close), one recognition
task per utterance with a queue of `QueueSize`, one voiceprint request per
utterance, and their join. In `parts`: two utterances, a queue of two.

- `SpeechEndsAreTold`: an announced utterance is announced as ended, even when
  its recognition ended first or its queue was full.
- `VoiceReleased`: an ended recognition leaves no join and no request that could
  still answer, fails once at most although queue and task both report, and
  starts no turn afterwards.

`stop_audio_input` (`runtime.py:1009`) forgets the session before it has closed
it: when the connection is closed in that await, the session is not aborted and
its recognitions run on until they end by themselves, unheard (`EndsUnheard`).
`SpeechEndsAreTold` and the first half of `VoiceReleased` speak of open
connections.

`VoiceInputProofs` proves both (`EndsAreTold`, `VoiceIsReleased`) for any number
of utterances and any size of the queue. `VoiceInv` adds what the receive loop may
await (`LoopShape`), what the progress of a recognition says of its join
(`JoinShape`), that an utterance announced and not ended is the current one
(`AnnouncedShape`), and that an ended recognition which still holds its join is
the one whose full queue is being reported (`HeldShape`).

## 8. MediaSession

Operations from three sources, a resolver per operation, numbered submissions;
commands and status frames to the page, command results and player reports back;
the page's player with its interruptions. A late report may turn an operation
that failed into a completed one; results overdue after 90 s are `AckExpires`.
No tool returns a `MediaControl`, so `request_media_control` cannot be reached
through one. In `parts`: three submissions, one pending command, one event of
the player.

- `SilentWhenUnwanted`: with nothing under way, nothing plays after the user
  paused or stopped it, and what plays is the last prepared track.
- `ClientIsKnown`: with nothing under way, the session's view of the page is
  what the page does, and no operation is left shown as resolving.

A command refused because too many results are awaited is reported as an error
and leaves the player as it is; `SilentWhenUnwanted` excepts that case
(`refused`). One such refusal has a lasting effect: `_resolve`
(`session.py:211-227`) stores the new track before `publish_control` refuses to
announce it, so a later `resume` plays the track before it. One pending command
is the least bound, and three submissions the least that meet it while a
resolution is going on.

`MediaSessionProofs` proves `UnwantedIsSilent` and `PlayingIsKnown` for any number
of operations, interruptions and pending commands. `MediaInv` says that frames,
commands and tracks reach the page in the order they were sent (`FrameOrder`,
`CommandOrder`, `TrackOrder`); that one resolution at most pursues the current
revision, and a state shown as resolving has one (`TaskOrder`); that what is not
wanted will be silenced by a task still to begin or by the last command
(`WishShape`, `SilenceShape`); that what plays was asked for by a command
(`DeckShape`); that the result of a pending command is with the page or on its way
(`PendingShape`); and that the session knows whether the page plays or a report
that corrects it is on its way behind all others (`ReportShape`).

## 9. ReplyStream

The rounds of `stream_reply`, the text producer, the audio producer with its
speech session, the bounded queue and the reader. In `parts` (three tools, a
follow-up, a client tool; one text, two audio frames, a queue of one):

- `ReplyIsWhole`: at most one tool is called, then one it declares as follow-up
  (`ToolsAreDeclared`); a completed reply delivered all text and closed its audio
  once, after everything of it; an action of the page is all its turn says; no
  session and no task is left however the turn ended.

In `progress` (one client tool, one text, one frame): `RepliesEnd`, under one WF
over the producers and the reader: everything awaited has a timeout or is a task
of this process. A queue of one makes a producer wait at every second item.

`ServicesProofs` proves `RepliesAreWhole` for any tools, any numbers of texts and
frames and any size of the queue. `ReplyInv` says that after the first tool only
its follow-ups are offered (`ToolShape`); that the texts heard, those in the queue
and the one about to be put add up to those made (`TextCount`, by the cardinality
of the positions, so that no induction over the sequences is needed); that nothing
of the text follows its end and nothing of the voice its closing and its end
(`TextFlow`, `VoiceFlow`); that session and task live as long as the voice speaks
(`SessionShape`); and that before the first text nothing is spoken, put or heard
but a failure of the voice, which is why an action comes alone (`ActionShape`).

## 10. The small services

All in `parts`.

| Module | Instance | Property |
|---|---|---|
| `ProfileCache` | 2 caches, 2 editors, 1 outage | `ProfileFollowsEdits`: an open connection has no profile older than an answered edit, except through the windows the code leaves (`suspect`): an answer read before the edit, an edit that could not be read back; and loads that bind a member at once do not fail each other |
| `Recovery` | 6 attempts, limit 2, window 2, clock 3, a check waits 1 at most | `RateIsLimited`: at most the limit in any window in memory; at most twice the limit in a window shorter by the wait in the database, whose windows are fixed |
| `Voiceprints` | 1 member, 3 requests | `CleanedHasNoVoiceprint`: no template after the deletion worker was told it is gone |
| `DeviceControl` | 2 controls, 1 pending | `NothingWaitsAfterClose`: a closed connection waits for no receipt |

Notes. A database check whose row a clear deletes between its two statements
fails (500). A voiceprint removal the client gave up may be carried out after a
later enrolment, and takes it. The three cleanups of two seconds of a device
control may outlast its receipt timeout of five. The bound of 16 controls is
compared before `cancel_turn` is awaited and does not count the tasks, so it can
be exceeded, although `docs/architecture.md:127` and `docs/protocol.md:287` name
it as the limit; the model has this, no property is about it. What the control sends
of its receipt's status is folded into the step that ends it: nothing waits on that
frame. `suspect` takes a load that was answered before an edit out of
`ProfileFollowsEdits`: for that half of the race between loads and edits the code
promises nothing, and the property speaks of edits handed to open connections and of
loads that bind at once.

`ServicesProofs` proves `ProfilesFollow`, `RemovedVoiceprintStays` and
`NothingIsLeftWaiting` for any caches and editors, members and requests, and
controls. The first needs that the answers on their way to a cache that is not
suspect hold all edits (`AnswersAreFresh`), that a cache not yet open holds
nothing, and that a binding lost was lost to one that was made. The second rests
on `RemovalIsLate`: a removal is asked for once its member is no longer active,
and a template is stored only under the lock of the row of an active member. The
third on `ClosedInOrder`: the tasks are cancelled first, and the receipts they had
registered by then after them.

`AttemptsAreLimited` proves `RateIsLimited` for any number of attempts, limit,
window and wait. Attempts are let through in the order of time (`TimesRise`).
What memory holds are the last of them, and what it has dropped is outside the
window (`MemoryShape`); so an attempt comes a whole window after the one that the
limit places before it. What the row counts are the last of them too; those before
were let through until `since + Wait` at most, and those before the window
before it a span before `since` (`RowShape`); so an attempt of the database comes a window
less the wait after the one that twice the limit places before it. From such a distance
follows the bound on any interval (`FewWithin`): its attempts lie
among as many consecutive ones as the limit says, counted from the first of them.

## 11. Recognition, detection, budget

All in `parts`, but for one violation.

`SpeechRecognition` is one recognition of `DoubaoStreamingASR`: the task that
takes chunks from the queue and cuts them into packets, one kept back until it is
known not to be the last; the generator that reads the answers; failures of
either, the provider closing or answering early, the audio session leaving at any
point. Packets of two samples, an utterance of five, three answers, one text
besides the empty one: two full packets and a rest, and an answer more than the
final one and a repetition. `RecognitionIsWhole`: the provider gets the whole
utterance in order and its end once; a final result is the last one, has the last
text and is told only when all audio has been sent; however the recognition ends,
its task sends no more.

`VoiceActivity` is the Silero stream of one connection. The probability of a
window is free; samples are counted in windows, and the minimum of silence (600 ms
are 18.75 windows) is rounded up, as the comparison does at the end of a window.
A window of three with a threshold of two, a silence of three, ten windows, two
captures: room for a speech, its end, and another that must not count windows of
the first. `SpeechIsBounded`: starts and ends alternate; a speech begins at the
first window that confirms it and ends exactly the minimum of silence after the
last that did.

`ContextBudget` makes the conversation of a turn in the order the code does and
fits every request of it. Budgets of four and seven, costs of one and three, three
messages of history, one tool round: enough for each way to fit and for a refusal.
`BudgetIsSpent`: a request that is sent fits, and no more was given up of what
`fit_request` may remove than that takes: memories first, then whole groups from the
oldest on; one is refused only when all that may be removed is gone.

What may be removed (`Removable`) is more than history. The message with the state of
the media has the role of a user (`runtime.py:757-759`) and stands before the history, so
`fit_request` takes it for the oldest group and removes it first. `BudgetIsSpent`
describes that and does not claim it is meant: `docs/architecture.md:188` lets only
memories and groups of the history go, and `docs/architecture.md:85` and `:95` give the
state of the media to the turn. The run `media_stays` (violation) states the documented
promise, `MediaStays`: a request that is sent has the state of the media. It ends in a
request that keeps its history and has lost the media.

`ServicesProofs` proves `RecognitionStaysWhole` for any packet size and any numbers
of samples, texts and answers. `RecognitionInv` adds that the segment kept back
begins where the packets end, ends where the buffer begins and is full as long as
audio may follow (`SegmentShape`), and that the last result has the last text as
long as answers are read (`ResultShape`).

`SpeechStaysBounded` proves `SpeechIsBounded` for any size and threshold of the
window and any silence. The deque holds the last judgements since the last end of a
speech (`WindowShape`), so the voiced ones among them are as many as those the property
counts (`WindowCounts`, by a bijection). A speech under way was last confirmed at
`_last_voice_sample` and not since, and between speeches nothing has been confirmed
since the last end (`SpeechShape`); `MarkOK` is what the property says of one
mark, and stays true because judgements are only added.

`BudgetIsAlwaysSpent` proves `BudgetIsSpent` for any budgets, costs and lengths of the
history and of a turn. Two things had to be reasoned about that no single step shows.

- *Sums*. `Sum` adds up the costs of the kept messages one after the other, as
  `estimate_request_tokens` does, by a recursive function on `0 .. Len(costs)`. That
  there is a function with its equations takes a proof (`SumIsUpTo`); a sum whose every
  summand is that of two others together is their sum (`SumAdds`). From this
  follow the facts the loops need: what one message, a changed message and a set of
  messages apart from the rest contribute (`SumOfOne`, `SumOfChanged`, `SumApart`).
- *Loops*. `Pass` is a loop over the messages, again a recursive function; its state
  after `n` messages (`PassTruncates`, `PassDrops`) has an invariant (`TruncateKeeps`,
  `RemovalKeeps`: the total is the cost of what is left, what was given up is an initial
  part of what may be, and without the last of it the request did not fit), carried over
  the loop by `PassShortens` and `PassRemoves`.

The induction over the length is one lemma, `NumbersInTurn`: a set of numbers with 0
and, with each number, the next, has all of them. It is stated of a set instead of a
predicate and follows from `LeastNumber`, the smallest element of the complement.
`FittedIsSpent` composes the three loops; `ContextShape` says why they may take what they
take: the last message with the role of a user is the input (memories come before it, so
`Input` of a request never is one), calls and results follow it, and an answer of the
assistant follows the message of the user it belongs to, so that removing whole groups
leaves no half turn.

## 12. The runs `parts` and `progress`

| Run | Properties |
|---|---|
| `parts` | `PartsTypeOK` (the type invariants of the eleven parts, with the bounds of the wire, of an utterance's queue and of a reply's output queue) and the safety properties of sections 6 to 11 |
| `progress` | `JobsEnd`, `DeletionEnds` (`MemoryDeletion`), `CloseEnds` (`TurnOutput`), `RepliesEnd` (`ReplyStream`) |

`progress` assumes `WorkerFairness` and one WF over the progress steps of the
output or the reply, whichever is explored; no fair step of a part that is not
explored is enabled.

`PartsProofs` shows that the graph of `parts` is what it is meant to be: every step is a
step of one part and leaves the variables of all others alone (`OutputApart`,
`VoiceApart`, ...), so `PartsSpec` implements the specification of each part without
its fairness (`PartsAreApart`). Hence every theorem about a part holds in it:
`PartsAreTyped` (`PartsTypeOK`) and `PartsAreSafe` (all other invariants of the run), for
any values of the constants and not those of the configuration only.

What only TLC shows is liveness: `JobsEnd`, `DeletionEnds`, `TurnGoesOn`,
`DeliveryEnds`, `CloseEnds` and `RepliesEnd`, because the provers do not reach
fairness and ENABLED. Every invariant and every action property of the passing runs
is proved.

## 13. Not modelled

- *Context debug, settings and wiring*: diagnostics, the estimate of the cost of
  a message, parsing of the environment. No step of theirs
  interleaves with another and no other part reads their state.
- *Migrations and scripts*: schema history and one-off tools.
- *Encoding of the wire protocols of ASR and TTS, the network of the VAD, the
  segmenter*: bytes and sample arithmetic. What they decide (that a window is
  voiced, when a segment is complete, that a session fails) is left open in
  `VoiceActivity`, `VoiceInput` and `ReplyStream`.
- *Reminder audio*: synthesis, its cache and slots; the two checks around it are
  in `Reminders`.
- *Memory center, identity CRUD*: one request and one transaction each. Searching
  and editing single memories has no state here.
- *Web front end beyond the players, the reminder queue and the controls*: forms,
  layout, recording for an enrolment.
- *Removal of a member while its profile is being loaded*: the race is admitted
  by `docs/architecture.md:253`.
- *Authentication, contents, prompts, formats*: no property is about them.

## 14. Running

`tlc -config MCParts.cfg MCParts`, likewise with the other configurations
(`MCHousehold` configures the
module of its name, `MCNoWriteBack` and `MCSubmissionsBounded` configure
`MCMemoryDeletion`; `MCReminders`,
`MCRemindersGoOn`, `MCReminderGate` and `MCReminderOverReply` configure
`MCReminders`; `MCStaleWindow` configures
`MCDialogue`, `MCMediaStays` configures `ContextBudget`); `tlapm M.tla` for each of the eight proof modules:
`MemoryDeletionProofs`, `RemindersProofs`, `DialogueWritesProofs`,
`TurnOutputProofs`, `VoiceInputProofs`, `MediaSessionProofs`, `ServicesProofs`,
`PartsProofs`. Deadlock checking is off in all runs: with every job
ended, every delivery used up or the connection closed the modelled part has
nothing left to do. `PROJECT.json` gives, for each definition, the lines it
models and, for each property, a mutation of the code's logic under which it
fails.
