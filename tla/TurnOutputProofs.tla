-------------------------- MODULE TurnOutputProofs --------------------------
(***************************************************************************)
(* Proofs about the replies of one connection (TurnOutput).                *)
(***************************************************************************)
EXTENDS TurnOutput, FiniteSetTheorems, TLAPS

(***************************************************************************)
(* The inductive invariant.                                                *)
(***************************************************************************)
Locking == {"reap", "told", "stop", "begin"}
Starters == {c \in Askers : caller[c].starts /\ caller[c].at # "begin"}

\* Past the lock, a call holds it; what it asked for was counted.
LockShape ==
    /\ \A c \in Askers : caller[c].at \in Locking => holder = c
    /\ started + Cardinality(Starters) <= LastTurn

\* Turns are numbered in the order they start; a task is attached to the active turn only.
TurnShape ==
    /\ activeTurn <= started /\ attached \in {0, activeTurn}
    /\ \A t \in Replies : gen[t] # "none" => t <= started
    /\ NoOrphanTask

\* From the moment a call has taken the old turn until it attaches the new one, nothing streams.
CallShape ==
    \A c \in Askers :
        /\ caller[c].turn <= started
        /\ caller[c].at \in {"reap", "told", "stop"} => activeTurn = 0 /\ attached = 0
        /\ caller[c].at = "begin" =>
              /\ caller[c].turn # 0 /\ caller[c].turn = started /\ activeTurn = started /\ attached = 0
              /\ gen[started] = "none"
        /\ caller[c].at = "told" => caller[c].turn # 0

\* A waiter waits for a frame of the step it is at.
OutboxShape ==
    /\ \A t \in Replies : outbox[ByTurn(t)].state # "no" =>
          /\ outbox[ByTurn(t)].turn = t
          /\ \/ gen[t] = "unwinding" /\ outbox[ByTurn(t)].kind = "turn_failed"
             \/ gen[t] \in FrameKinds \ {"none"} /\ outbox[ByTurn(t)].kind = gen[t]
    /\ \A c \in Askers : outbox[c].state # "no" =>
          \/ caller[c].at = "begin" /\ outbox[c].kind = "turn_started" /\ outbox[c].turn = caller[c].turn
          \/ caller[c].at = "told" /\ outbox[c].kind = "turn_cancelled" /\ outbox[c].turn = caller[c].turn
          \/ caller[c].at = "stop" /\ outbox[c].kind = "audio_stop"
          \/ caller[c].at = "end" /\ outbox[c].kind = "end"

\* f is a frame the sender would not drop for its turn
OfThisTurn(f) == Guarded(f) /\ f.turn = activeTurn

\* Of the active turn, the queue holds one frame at most, and its sender waits for it.
QueueShape ==
    /\ \A i \in DOMAIN outQueue :
          /\ Guarded(outQueue[i]) \/ outQueue[i].kind = "turn_cancelled" =>
                outQueue[i].turn # 0 /\ outQueue[i].turn <= started
          /\ outQueue[i].kind = "turn_cancelled" => outQueue[i].turn # activeTurn
          /\ OfThisTurn(outQueue[i]) => Waits(outQueue[i].from, outQueue[i])
    /\ \A i, j \in DOMAIN outQueue : OfThisTurn(outQueue[i]) /\ OfThisTurn(outQueue[j]) => i = j

\* What the page was told, or will be told by the frames under way, is so: the turn is not the
\* active one, or its last frame is out.
ToldShape ==
    /\ \A i \in DOMAIN wire : Guarded(wire[i]) => wire[i].turn # 0
    /\ \A t \in over \cup UNION {EndsTurns(wire[i]) : i \in DOMAIN wire} :
          /\ t \in Replies /\ t <= started
          /\ t = activeTurn => gen[t] \in LastFrames /\ outbox[ByTurn(t)].state = "sent"
    /\ player.state # "off" => player.stream # 0

OutputInv ==
    /\ OutputTypeOK /\ LockShape /\ TurnShape /\ CallShape /\ OutboxShape /\ QueueShape /\ ToldShape
    /\ NoFrameAfterTheEnd

-----------------------------------------------------------------------------
(***************************************************************************)
(* Waiters and frames.                                                     *)
(***************************************************************************)
\* Turn tasks and the callers wait under names of their own.
LEMMA WaitersDiffer ==
  /\ \A t \in Replies : ByTurn(t) \in Waiters /\ ByTurn(t) \notin Askers
  /\ \A t, u \in Replies : ByTurn(t) = ByTurn(u) => t = u
  /\ \A c \in Askers : c \in Waiters /\ c # "nobody"
  /\ \A x \in Waiters : x \in Askers \/ \E t \in Replies : x = ByTurn(t)
<1>1. \A t \in Replies : ByTurn(t) \in Waiters
  BY DEF Waiters
<1>2. \A t \in Replies : ByTurn(t) \notin Askers
  BY OutputAssumption DEF Replies, ByTurn, Askers
<1>4. \A t, u \in Replies : ByTurn(t) = ByTurn(u) => t = u
  BY DEF ByTurn
<1>5. \A c \in Askers : c \in Waiters /\ c # "nobody"
  BY OutputAssumption DEF Askers, Waiters
<1>6. \A x \in Waiters : x \in Askers \/ \E t \in Replies : x = ByTurn(t)
  BY DEF Waiters
<1> QED BY <1>1, <1>2, <1>4, <1>5, <1>6

\* The frames that can follow a frame of a reply.
LEMMA FollowKinds ==
  ASSUME NEW g \in DOMAIN Follow
  PROVE  /\ Follow[g] \subseteq FrameKinds \ {"none", "turn_started", "turn_cancelled", "audio_stop", "end"}
         /\ Follow[g] \subseteq DOMAIN Follow \cup (LastFrames \ {"unwinding"})
<1>1. g \in {"ready", "turn_waiting", "resumed", "text_delta", "audio_start", "audio_frame", "audio_end", "audio_failed"}
  BY DEF Follow
<1>2. DOMAIN Follow =
        {"ready", "turn_waiting", "resumed", "text_delta", "audio_start", "audio_frame", "audio_end", "audio_failed"}
  BY DEF Follow
<1>3. CASE g = "ready"
  BY <1>2, <1>3 DEF Follow, FirstFrames, FrameKinds, LastFrames
<1>9. CASE g = "turn_waiting"
  BY <1>9 DEF Follow
<1>10. CASE g = "resumed"
  BY <1>2, <1>10 DEF Follow, FirstFrames, FrameKinds, LastFrames
<1>4. CASE g = "text_delta"
  BY <1>2, <1>4 DEF Follow, FrameKinds, LastFrames
<1>5. CASE g = "audio_start"
  BY <1>2, <1>5 DEF Follow, FrameKinds, LastFrames
<1>6. CASE g = "audio_frame"
  BY <1>2, <1>6 DEF Follow, FrameKinds, LastFrames
<1>7. CASE g = "audio_end"
  BY <1>2, <1>7 DEF Follow, FrameKinds, LastFrames
<1>8. CASE g = "audio_failed"
  BY <1>2, <1>8 DEF Follow, FrameKinds, LastFrames
<1> QED BY <1>1, <1>3, <1>4, <1>5, <1>6, <1>7, <1>8, <1>9, <1>10

\* Frame kinds and steps of a turn task, spelled out.
LEMMA Kinds ==
  /\ DOMAIN Follow =
        {"ready", "turn_waiting", "resumed", "text_delta", "audio_start", "audio_frame", "audio_end", "audio_failed"}
  /\ FrameKinds = {"turn_waiting", "text_delta", "audio_start", "audio_frame", "audio_end", "audio_failed", "controlled",
                   "turn_completed", "turn_failed", "none", "turn_started", "turn_cancelled", "audio_stop", "end"}
<1>1. DOMAIN Follow =
        {"ready", "turn_waiting", "resumed", "text_delta", "audio_start", "audio_frame", "audio_end", "audio_failed"}
  BY DEF Follow
<1> QED BY <1>1 DEF FrameKinds, LastFrames

\* Every step of the sender keeps what a waiter waits for.
SenderMoves ==
    \A x \in Waiters :
        /\ outbox'[x].kind = outbox[x].kind /\ outbox'[x].turn = outbox[x].turn
        /\ outbox'[x].state # "no" => outbox[x].state # "no"
        /\ outbox[x].state = "sent" => outbox'[x].state = "sent"

\* Such a step disturbs no waiter.
LEMMA OutboxShapeKept ==
  ASSUME OutboxShape, SenderMoves, UNCHANGED <<gen, caller>>
  PROVE  OutboxShape'
BY WaitersDiffer DEF OutboxShape, SenderMoves

\* A call that waits as before waits for a frame of its step.
LEMMA AskersWaitAsBefore ==
  ASSUME OutboxShape,
         \A d \in Askers : outbox'[d].state # "no" => outbox'[d] = outbox[d] /\ caller'[d] = caller[d]
  PROVE  \A d \in Askers : outbox'[d].state # "no" =>
          \/ caller'[d].at = "begin" /\ outbox'[d].kind = "turn_started" /\ outbox'[d].turn = caller'[d].turn
          \/ caller'[d].at = "told" /\ outbox'[d].kind = "turn_cancelled" /\ outbox'[d].turn = caller'[d].turn
          \/ caller'[d].at = "stop" /\ outbox'[d].kind = "audio_stop"
          \/ caller'[d].at = "end" /\ outbox'[d].kind = "end"
BY DEF OutboxShape

\* What resolving and draining make of the waiters.
LEMMA ResolvedWaiters ==
  ASSUME FramesOK, NEW f
  PROVE  /\ Resolved(f) \in [Waiters -> WaitRecord]
         /\ \A x \in Waiters : /\ Resolved(f)[x].kind = outbox[x].kind /\ Resolved(f)[x].turn = outbox[x].turn
                               /\ ~Waits(x, f) => Resolved(f)[x] = outbox[x]
                               /\ Waits(x, f) => outbox[x].state = "queued" /\ Resolved(f)[x].state = "sent"
BY SMTT(30) DEF FramesOK, WaitRecord, Resolved, Waits

\* A sender that stops leaves no frame waiting.
LEMMA DrainedWaiters ==
  ASSUME FramesOK
  PROVE  /\ Drained \in [Waiters -> WaitRecord]
         /\ \A x \in Waiters : /\ Drained[x].kind = outbox[x].kind /\ Drained[x].turn = outbox[x].turn
                               /\ outbox[x].state # "queued" => Drained[x] = outbox[x]
                               /\ outbox[x].state = "queued" => Drained[x].state = "error"
BY DEF FramesOK, WaitRecord, Drained

\* A queue that grows by one, and one that loses its first.
LEMMA QueueGrows ==
  ASSUME NEW S, NEW q \in Seq(S), NEW e \in S
  PROVE  /\ Append(q, e) \in Seq(S) /\ DOMAIN Append(q, e) = 1 .. Len(q) + 1 /\ DOMAIN q = 1 .. Len(q)
         /\ Len(q) \in Nat /\ Len(Append(q, e)) = Len(q) + 1
         /\ \A i \in DOMAIN q : Append(q, e)[i] = q[i]
         /\ Append(q, e)[Len(q) + 1] = e
OBVIOUS

\* A queue that loses its first element.
LEMMA QueueShrinks ==
  ASSUME NEW S, NEW q \in Seq(S), q # <<>>
  PROVE  /\ Tail(q) \in Seq(S) /\ Head(q) \in S /\ Head(q) = q[1] /\ 1 \in DOMAIN q /\ DOMAIN q = 1 .. Len(q)
         /\ Len(q) \in Nat /\ Len(Tail(q)) = Len(q) - 1 /\ DOMAIN Tail(q) = 1 .. Len(q) - 1
         /\ \A i \in DOMAIN Tail(q) : Tail(q)[i] = q[i + 1] /\ i + 1 \in DOMAIN q
OBVIOUS

(***************************************************************************)
(* The sender.                                                             *)
(***************************************************************************)
\* Who waits for a frame of the active turn: the call that starts it, or its task.
LEMMA CurrentWaiter ==
  ASSUME OutputInv, NEW x \in Waiters, outbox[x].state # "no", OfThisTurn(outbox[x])
  PROVE  \/ /\ x \in Askers /\ holder = x /\ caller[x].at = "begin" /\ gen[activeTurn] = "none"
            /\ outbox[x].kind = "turn_started"
         \/ /\ activeTurn \in Replies /\ x = ByTurn(activeTurn) /\ gen[activeTurn] # "none"
            /\ outbox[x].kind = gen[activeTurn] \/ (gen[activeTurn] = "unwinding" /\ outbox[x].kind = "turn_failed")
<1>0. LockShape /\ CallShape /\ OutboxShape
  BY DEF OutputInv
<1>1. CASE x \in Askers
  <2>1. caller[x].at = "begin" /\ outbox[x].kind = "turn_started"
    BY <1>0, <1>1 DEF OutboxShape, OfThisTurn, Guarded
  <2> QED BY <1>0, <1>1, <2>1 DEF LockShape, CallShape, Locking
<1>2. ASSUME NEW t \in Replies, x = ByTurn(t) PROVE t = activeTurn /\ gen[t] # "none"
         /\ (outbox[x].kind = gen[t] \/ (gen[t] = "unwinding" /\ outbox[x].kind = "turn_failed"))
  BY <1>0, <1>2 DEF OutboxShape, OfThisTurn
<1> QED BY <1>1, <1>2, WaitersDiffer

\* There is one of them.
LEMMA OneCurrentWaiter ==
  ASSUME OutputInv, NEW x \in Waiters, outbox[x].state # "no", OfThisTurn(outbox[x]),
         NEW y \in Waiters, outbox[y].state # "no", OfThisTurn(outbox[y])
  PROVE  x = y
<1>1. \/ x \in Askers /\ holder = x /\ gen[activeTurn] = "none"
      \/ activeTurn \in Replies /\ x = ByTurn(activeTurn) /\ gen[activeTurn] # "none"
  BY CurrentWaiter
<1>2. \/ y \in Askers /\ holder = y /\ gen[activeTurn] = "none"
      \/ activeTurn \in Replies /\ y = ByTurn(activeTurn) /\ gen[activeTurn] # "none"
  BY CurrentWaiter
<1> QED BY <1>1, <1>2

\* The same one step later, of a frame that is given.
WillWait(x, f) == f.from = x /\ outbox'[x] = [state |-> "queued", kind |-> f.kind, turn |-> f.turn]
WillBeCurrent(f) == Guarded(f) /\ f.turn = activeTurn'

\* The shape of the queue after a step, frame by frame.
LEMMA QueueShapeNext ==
  ASSUME \A i \in DOMAIN outQueue' :
            /\ Guarded(outQueue'[i]) \/ outQueue'[i].kind = "turn_cancelled" =>
                  outQueue'[i].turn # 0 /\ outQueue'[i].turn <= started'
            /\ outQueue'[i].kind = "turn_cancelled" => outQueue'[i].turn # activeTurn'
            /\ WillBeCurrent(outQueue'[i]) => WillWait(outQueue'[i].from, outQueue'[i]),
         \A i, j \in DOMAIN outQueue' : WillBeCurrent(outQueue'[i]) /\ WillBeCurrent(outQueue'[j]) => i = j
  PROVE  QueueShape'
BY DEF QueueShape, Waits, WillWait, OfThisTurn, WillBeCurrent, Guarded

\* A frame is put into the queue, or comes too late.
LEMMA PutKeepsInv ==
  ASSUME OutputInv, NEW x \in Waiters, Put(x)
  PROVE  OutputInv'
<1>0. OutputTypeOK /\ LockShape /\ TurnShape /\ CallShape /\ OutboxShape /\ QueueShape /\ ToldShape
      /\ NoFrameAfterTheEnd
  BY DEF OutputInv
<1>1. /\ outbox \in [Waiters -> WaitRecord] /\ outQueue \in Seq(QueuedFrame)
      /\ activeTurn \in Turns /\ started \in Turns
  BY <1>0 DEF OutputTypeOK, FramesOK, TurnStateOK, BoundsOK
<1>2. PICK s \in {"queued", "error"} : outbox' = [outbox EXCEPT ![x].state = s] /\ (s = "queued" <=> sender = "running")
  BY DEF Put, AfterPut
<1>3. outbox' \in [Waiters -> WaitRecord]
  BY <1>1, <1>2 DEF WaitRecord
<1>4. SenderMoves
  BY <1>1, <1>2 DEF SenderMoves, Put, WaitRecord
<1>5. UNCHANGED <<turnState, gen, caller, holder, connection, sender, counts, wire, page>>
  BY DEF Put
<1> DEFINE f == [kind |-> outbox[x].kind, turn |-> outbox[x].turn, from |-> x]
<1>6. f \in QueuedFrame
  BY <1>1 DEF WaitRecord, QueuedFrame
<1>7. outQueue' \in Seq(QueuedFrame)
  BY <1>1, <1>6, QueueGrows DEF Put
<1>8. OutputTypeOK'
  BY <1>0, <1>3, <1>5, <1>7
     DEF OutputTypeOK, FramesOK, TurnStateOK, TaskStepsOK, CallersOK, BoundsOK, PageOK, turnState, counts, page
<1>9. LockShape' /\ TurnShape' /\ CallShape' /\ NoFrameAfterTheEnd'
  BY <1>0, <1>5 DEF LockShape, Starters, TurnShape, NoOrphanTask, Streams, CallShape, NoFrameAfterTheEnd, turnState,
                   counts, page
<1>10. OutboxShape'
  BY <1>0, <1>4, <1>5, OutboxShapeKept
<1>11. ToldShape'
  <2>1. \A t \in Replies : outbox[ByTurn(t)].state = "sent" => outbox'[ByTurn(t)].state = "sent"
    BY <1>4, WaitersDiffer DEF SenderMoves
  <2> QED BY <1>0, <1>5, <2>1 DEF ToldShape, turnState, counts, page
<1>12. outbox[x].state = "putting" /\ \A y \in Waiters \ {x} : outbox'[y] = outbox[y]
  BY <1>1, <1>2 DEF Put
<1>13. \A i \in DOMAIN outQueue : OfThisTurn(outQueue[i]) =>
          /\ outQueue[i].from # x /\ outQueue[i].from \in Waiters
          /\ Waits(outQueue[i].from, outQueue[i]) /\ WillWait(outQueue[i].from, outQueue[i])
  <2> TAKE i \in DOMAIN outQueue
  <2> HAVE OfThisTurn(outQueue[i])
  <2>1. Waits(outQueue[i].from, outQueue[i]) /\ outQueue[i] \in QueuedFrame
    BY <1>0, <1>1 DEF QueueShape
  <2>2. outQueue[i].from # x /\ outQueue[i].from \in Waiters
    BY <1>12, <2>1 DEF Waits, QueuedFrame
  <2> QED BY <1>12, <2>1, <2>2 DEF Waits, WillWait
<1>16. UNCHANGED <<activeTurn, started>>
  BY <1>5 DEF turnState, counts
<1>14. ASSUME sender = "running" PROVE QueueShape'
  <2>1. outbox' = [outbox EXCEPT ![x].state = "queued"] /\ outQueue' = Append(outQueue, f)
    BY <1>2, <1>14 DEF Put
  <2>2. WillWait(x, f)
    BY <1>1, <2>1 DEF WillWait, WaitRecord
  <2>3. /\ Guarded(f) \/ f.kind = "turn_cancelled" => f.turn # 0 /\ f.turn <= started
        /\ f.kind = "turn_cancelled" => f.turn # activeTurn
    <3>1. CASE x \in Askers
      <4>1. \/ outbox[x].kind = "turn_started" /\ outbox[x].turn # 0 /\ outbox[x].turn <= started
            \/ outbox[x].kind = "turn_cancelled" /\ outbox[x].turn # 0 /\ outbox[x].turn <= started /\ activeTurn = 0
            \/ outbox[x].kind = "audio_stop" \/ outbox[x].kind = "end"
        BY <1>0, <1>12, <3>1 DEF OutboxShape, CallShape
      <4> QED BY <1>1, <4>1 DEF Guarded
    <3>2. ASSUME NEW t \in Replies, x = ByTurn(t)
          PROVE  f.turn <= started /\ f.turn # 0 /\ f.kind # "turn_cancelled"
      <4>1. outbox[x].turn = t /\ gen[t] # "none" /\ outbox[x].kind # "turn_cancelled"
        BY <1>0, <1>12, <3>2, Kinds DEF OutboxShape, OutputTypeOK, TaskStepsOK, LastFrames
      <4> QED BY <1>0, <4>1 DEF TurnShape, Replies
    <3> QED BY <3>1, <3>2, WaitersDiffer
  <2>4. OfThisTurn(f) => \A i \in DOMAIN outQueue : ~OfThisTurn(outQueue[i])
    <3> SUFFICES ASSUME OfThisTurn(f), NEW i \in DOMAIN outQueue, OfThisTurn(outQueue[i]) PROVE FALSE
      OBVIOUS
    <3> DEFINE y == outQueue[i].from
    <3>1. y \in Waiters /\ y # x /\ Waits(y, outQueue[i])
      BY <1>13
    <3>2. outbox[y].state # "no" /\ OfThisTurn(outbox[y])
      BY <3>1 DEF Waits, OfThisTurn, Guarded
    <3>3. outbox[x].state # "no" /\ OfThisTurn(outbox[x])
      BY <1>12 DEF OfThisTurn, Guarded
    <3> QED BY <3>1, <3>2, <3>3, OneCurrentWaiter
  <2>5. DOMAIN outQueue = 1 .. Len(outQueue) /\ DOMAIN outQueue' = 1 .. Len(outQueue) + 1 /\ Len(outQueue) \in Nat
        /\ (\A i \in DOMAIN outQueue : outQueue'[i] = outQueue[i]) /\ outQueue'[Len(outQueue) + 1] = f
    BY <1>1, <1>6, <2>1, QueueGrows
  <2>9. f.from = x
    OBVIOUS
  <2> HIDE DEF f
  <2>8. \A i \in DOMAIN outQueue' : i \in DOMAIN outQueue \/ outQueue'[i] = f
    BY <2>5
  <2>10. \A i \in DOMAIN outQueue' :
          /\ Guarded(outQueue'[i]) \/ outQueue'[i].kind = "turn_cancelled" =>
                outQueue'[i].turn # 0 /\ outQueue'[i].turn <= started
          /\ outQueue'[i].kind = "turn_cancelled" => outQueue'[i].turn # activeTurn
          /\ OfThisTurn(outQueue'[i]) => WillWait(outQueue'[i].from, outQueue'[i])
    BY <1>0, <1>13, <2>2, <2>3, <2>5, <2>8, <2>9 DEF QueueShape
  <2>11. \A i, j \in DOMAIN outQueue' : OfThisTurn(outQueue'[i]) /\ OfThisTurn(outQueue'[j]) => i = j
    BY <1>0, <2>4, <2>5 DEF QueueShape
  <2> QED BY <1>16, <2>10, <2>11, QueueShapeNext DEF WillBeCurrent, OfThisTurn
<1>15. ASSUME sender # "running" PROVE QueueShape'
  <2>1. outQueue' = outQueue
    BY <1>15 DEF Put
  <2> QED BY <1>0, <1>13, <1>16, <2>1, QueueShapeNext DEF QueueShape, WillBeCurrent, OfThisTurn
<1> QED BY <1>8, <1>9, <1>10, <1>11, <1>14, <1>15 DEF OutputInv

\* What taking the first frame leaves in order, written or not.
LEMMA HeadTaken ==
  ASSUME OutputInv, outQueue # <<>>, outbox' = Resolved(Head(outQueue)), outQueue' = Tail(outQueue),
         UNCHANGED <<turnState, gen, caller, holder, connection, sender, counts>>
  PROVE  /\ outbox' \in [Waiters -> WaitRecord] /\ outQueue' \in Seq(QueuedFrame)
         /\ SenderMoves /\ LockShape' /\ TurnShape' /\ CallShape' /\ OutboxShape' /\ QueueShape'
<1>0. OutputTypeOK /\ LockShape /\ TurnShape /\ CallShape /\ OutboxShape /\ QueueShape
  BY DEF OutputInv
<1>1. FramesOK /\ outQueue \in Seq(QueuedFrame)
  BY <1>0 DEF OutputTypeOK, FramesOK
<1> DEFINE f == Head(outQueue)
<1>2. /\ Tail(outQueue) \in Seq(QueuedFrame) /\ f = outQueue[1] /\ 1 \in DOMAIN outQueue
      /\ Len(outQueue) \in Nat /\ DOMAIN outQueue' = 1 .. Len(outQueue) - 1
      /\ \A i \in DOMAIN outQueue' : outQueue'[i] = outQueue[i + 1] /\ i + 1 \in DOMAIN outQueue
  BY <1>1, QueueShrinks
<1>3. outbox' \in [Waiters -> WaitRecord] /\ SenderMoves
  BY <1>1, ResolvedWaiters DEF SenderMoves
<1>4. LockShape' /\ TurnShape' /\ CallShape'
  BY <1>0 DEF LockShape, Starters, TurnShape, NoOrphanTask, Streams, CallShape, turnState, counts
<1>5. OutboxShape'
  BY <1>0, <1>3, OutboxShapeKept
<1>10. ASSUME NEW i \in DOMAIN outQueue', OfThisTurn(outQueue[i + 1])
       PROVE  WillWait(outQueue[i + 1].from, outQueue[i + 1])
  <2> DEFINE g == outQueue[i + 1]
  <2>1. Waits(g.from, g) /\ g.from \in Waiters
    <3>1. i + 1 \in DOMAIN outQueue
      BY <1>2
    <3>2. g \in QueuedFrame
      BY <1>1, <3>1
    <3>3. Waits(g.from, g)
      BY <1>0, <1>10, <3>1 DEF QueueShape
    <3> QED BY <3>2, <3>3 DEF QueuedFrame
  <2>2. ~Waits(g.from, f)
    <3>1. SUFFICES ASSUME Waits(g.from, f) PROVE FALSE
      OBVIOUS
    <3>2. f.kind = g.kind /\ f.turn = g.turn
      BY <2>1, <3>1 DEF Waits
    <3>3. OfThisTurn(f)
      BY <1>10, <3>2 DEF OfThisTurn, Guarded
    <3>4. 1 = i + 1
      BY <1>0, <1>2, <1>10, <3>3 DEF QueueShape
    <3> QED BY <1>2, <3>4
  <2>3. outbox'[g.from] = outbox[g.from]
    BY <1>1, <2>1, <2>2, ResolvedWaiters
  <2> QED BY <2>1, <2>3 DEF Waits, WillWait
<1>6. \A i \in DOMAIN outQueue' : OfThisTurn(outQueue'[i]) => WillWait(outQueue'[i].from, outQueue'[i])
  BY <1>2, <1>10
<1>7. \A i, j \in DOMAIN outQueue' : OfThisTurn(outQueue'[i]) /\ OfThisTurn(outQueue'[j]) => i = j
  BY <1>0, <1>2 DEF QueueShape
<1>8. UNCHANGED <<activeTurn, started>>
  BY DEF turnState, counts
<1>9. QueueShape'
  <2>1. \A i \in DOMAIN outQueue' :
          /\ Guarded(outQueue'[i]) \/ outQueue'[i].kind = "turn_cancelled" =>
                outQueue'[i].turn # 0 /\ outQueue'[i].turn <= started
          /\ outQueue'[i].kind = "turn_cancelled" => outQueue'[i].turn # activeTurn
    BY <1>0, <1>2 DEF QueueShape
  <2> QED BY <1>6, <1>7, <1>8, <2>1, QueueShapeNext DEF WillBeCurrent, OfThisTurn
<1> QED BY <1>2, <1>3, <1>4, <1>5, <1>9

\* A frame of another turn is left out.
LEMMA DropKeepsInv ==
  ASSUME OutputInv, Drop
  PROVE  OutputInv'
<1>0. OutputTypeOK /\ ToldShape /\ NoFrameAfterTheEnd
  BY DEF OutputInv
<1>1. /\ outQueue # <<>> /\ outbox' = Resolved(Head(outQueue)) /\ outQueue' = Tail(outQueue)
      /\ UNCHANGED <<turnState, gen, caller, holder, connection, sender, counts, wire, page>>
  BY DEF Drop
<1>2. /\ outbox' \in [Waiters -> WaitRecord] /\ outQueue' \in Seq(QueuedFrame)
      /\ SenderMoves /\ LockShape' /\ TurnShape' /\ CallShape' /\ OutboxShape' /\ QueueShape'
  BY <1>1, HeadTaken
<1>3. OutputTypeOK'
  BY <1>0, <1>1, <1>2
     DEF OutputTypeOK, FramesOK, TurnStateOK, TaskStepsOK, CallersOK, BoundsOK, PageOK, turnState, counts, page
<1>4. ToldShape'
  <2>1. \A t \in Replies : outbox[ByTurn(t)].state = "sent" => outbox'[ByTurn(t)].state = "sent"
    BY <1>2, WaitersDiffer DEF SenderMoves
  <2> QED BY <1>0, <1>1, <2>1 DEF ToldShape, turnState, counts, page
<1>5. NoFrameAfterTheEnd'
  BY <1>0, <1>1 DEF NoFrameAfterTheEnd, page
<1> QED BY <1>2, <1>3, <1>4, <1>5 DEF OutputInv

\* The page is told the truth: a frame that ends turns is written of turns that are over.
LEMMA WrittenEnds ==
  ASSUME OutputInv, outQueue # <<>>, ~Stale(Head(outQueue)), outbox' = Resolved(Head(outQueue)),
         NEW t \in EndsTurns(Head(outQueue))
  PROVE  /\ t \in Replies /\ t <= started
         /\ t = activeTurn => gen[t] \in LastFrames /\ outbox'[ByTurn(t)].state = "sent"
<1>0. OutputTypeOK /\ QueueShape /\ TurnShape
  BY DEF OutputInv
<1> DEFINE f == Head(outQueue)
<1>1. FramesOK /\ activeTurn \in Turns /\ started \in Turns /\ LastTurn \in Nat
  BY <1>0, OutputAssumption DEF OutputTypeOK, TurnStateOK, BoundsOK
<1>2. f \in QueuedFrame /\ f = outQueue[1] /\ 1 \in DOMAIN outQueue
  BY <1>1, QueueShrinks DEF FramesOK
<1>3. f.kind \in Finals \cup {"turn_started"}
  BY DEF EndsTurns
<1>4. f.turn # 0 /\ f.turn <= started
  BY <1>0, <1>2, <1>3 DEF QueueShape, Guarded, Finals
<1>5. CASE f.kind = "turn_started"
  <2>1. f.turn = activeTurn /\ t \in 1 .. f.turn - 1
    BY <1>5 DEF Stale, Guarded, EndsTurns, Finals
  <2> QED BY <1>1, <1>4, <2>1 DEF Turns, Replies
<1>6. CASE f.kind = "turn_cancelled"
  <2>1. t = f.turn /\ f.turn # activeTurn
    BY <1>0, <1>2, <1>6 DEF EndsTurns, Finals, QueueShape
  <2> QED BY <1>1, <1>2, <1>4, <2>1 DEF Turns, Replies, QueuedFrame
<1>7. CASE f.kind \in Finals \ {"turn_cancelled"}
  <2>1. OfThisTurn(f) /\ t = f.turn /\ t = activeTurn
    BY <1>7 DEF OfThisTurn, Stale, Guarded, EndsTurns, Finals
  <2>2. Waits(f.from, f) /\ f.from \in Waiters
    BY <1>0, <1>2, <2>1 DEF QueueShape, QueuedFrame
  <2>3. outbox[f.from].state # "no" /\ OfThisTurn(outbox[f.from]) /\ outbox[f.from].kind = f.kind
    BY <2>1, <2>2 DEF Waits, OfThisTurn, Guarded
  <2>4. t \in Replies /\ f.from = ByTurn(t) /\ (gen[t] = f.kind \/ gen[t] = "unwinding")
    BY <1>7, <2>1, <2>2, <2>3, CurrentWaiter DEF Finals
  <2>5. outbox'[ByTurn(t)].state = "sent"
    BY <1>1, <2>2, <2>4, ResolvedWaiters
  <2> QED BY <1>4, <1>7, <2>1, <2>4, <2>5 DEF Finals, LastFrames
<1> QED BY <1>3, <1>5, <1>6, <1>7

\* A frame is written.
LEMMA WriteKeepsInv ==
  ASSUME OutputInv, Write
  PROVE  OutputInv'
<1>0. OutputTypeOK /\ QueueShape /\ ToldShape /\ NoFrameAfterTheEnd
  BY DEF OutputInv
<1> DEFINE f == Head(outQueue)
           w == [kind |-> f.kind, turn |-> f.turn]
<1>1. /\ outQueue # <<>> /\ outbox' = Resolved(f) /\ outQueue' = Tail(outQueue) /\ ~Stale(f)
      /\ Len(wire) < MaxWire /\ wire' = Append(wire, w)
      /\ UNCHANGED <<turnState, gen, caller, holder, connection, sender, counts, page>>
  BY DEF Write
<1>2. /\ outbox' \in [Waiters -> WaitRecord] /\ outQueue' \in Seq(QueuedFrame)
      /\ SenderMoves /\ LockShape' /\ TurnShape' /\ CallShape' /\ OutboxShape' /\ QueueShape'
  BY <1>1, HeadTaken
<1>3. FramesOK /\ wire \in Seq(WireFrame) /\ outQueue \in Seq(QueuedFrame)
  BY <1>0 DEF OutputTypeOK, FramesOK
<1>4. f \in QueuedFrame /\ f = outQueue[1] /\ 1 \in DOMAIN outQueue
  BY <1>1, <1>3, QueueShrinks
<1>5. w \in WireFrame
  BY <1>4 DEF QueuedFrame, WireFrame
<1>6. /\ wire' \in Seq(WireFrame) /\ DOMAIN wire' = 1 .. Len(wire) + 1 /\ DOMAIN wire = 1 .. Len(wire)
      /\ Len(wire) \in Nat /\ Len(wire') = Len(wire) + 1
      /\ (\A i \in DOMAIN wire : wire'[i] = wire[i]) /\ wire'[Len(wire) + 1] = w
  BY <1>1, <1>3, <1>5, QueueGrows
<1>7. OutputTypeOK'
  <2>1. Len(wire') <= MaxWire
    BY <1>1, <1>6, OutputAssumption
  <2> QED BY <1>0, <1>1, <1>2, <1>6, <2>1
          DEF OutputTypeOK, FramesOK, TurnStateOK, TaskStepsOK, CallersOK, BoundsOK, PageOK, turnState, counts, page
<1>8. EndsTurns(w) = EndsTurns(f) /\ (Guarded(w) <=> Guarded(f)) /\ w.turn = f.turn /\ w.kind = f.kind
  BY DEF EndsTurns, Guarded
<1> HIDE DEF w
<1>9. ToldShape'
  <2>1. \A i \in DOMAIN wire' : Guarded(wire'[i]) => wire'[i].turn # 0
    BY <1>0, <1>4, <1>6, <1>8 DEF ToldShape, QueueShape
  <2>2. ASSUME NEW t \in over \cup UNION {EndsTurns(wire'[i]) : i \in DOMAIN wire'}
        PROVE  /\ t \in Replies /\ t <= started
               /\ t = activeTurn => gen[t] \in LastFrames /\ outbox'[ByTurn(t)].state = "sent"
    <3>1. t \in over \cup UNION {EndsTurns(wire[i]) : i \in DOMAIN wire} \/ t \in EndsTurns(f)
      BY <1>6, <1>8, <2>2
    <3>2. CASE t \in over \cup UNION {EndsTurns(wire[i]) : i \in DOMAIN wire}
      BY <1>0, <1>2, <3>2, WaitersDiffer DEF ToldShape, SenderMoves
    <3> QED BY <1>1, <3>1, <3>2, WrittenEnds
  <2> QED BY <1>0, <1>1, <2>1, <2>2 DEF ToldShape, turnState, counts, page, EndsTurns, Guarded, Finals
<1>10. NoFrameAfterTheEnd'
  <2>1. ASSUME Guarded(f), f.kind # "turn_started"
        PROVE  f.turn \notin over \cup UNION {EndsTurns(wire[i]) : i \in DOMAIN wire}
    <3>1. f.turn = activeTurn /\ OfThisTurn(f)
      BY <1>1, <2>1 DEF Stale, OfThisTurn
    <3>2. Waits(f.from, f) /\ f.from \in Waiters
      BY <1>0, <1>4, <3>1 DEF QueueShape, QueuedFrame
    <3>3. outbox[f.from].state = "queued" /\ OfThisTurn(outbox[f.from]) /\ outbox[f.from].kind = f.kind
      BY <3>1, <3>2 DEF Waits, OfThisTurn, Guarded
    <3>4. activeTurn \in Replies /\ f.from = ByTurn(activeTurn)
      BY <2>1, <3>2, <3>3, CurrentWaiter
    <3> QED BY <1>0, <3>1, <3>3, <3>4 DEF ToldShape
  <2>2. \A j \in DOMAIN wire' : Guarded(wire'[j]) /\ wire'[j].kind # "turn_started" =>
          wire'[j].turn \notin over \cup UNION {EndsTurns(wire'[i]) : i \in 1 .. j - 1}
    <3> TAKE j \in DOMAIN wire'
    <3> HAVE Guarded(wire'[j]) /\ wire'[j].kind # "turn_started"
    <3>1. \A i \in 1 .. j - 1 : i \in DOMAIN wire /\ wire'[i] = wire[i]
      BY <1>6
    <3>2. UNION {EndsTurns(wire'[i]) : i \in 1 .. j - 1} = UNION {EndsTurns(wire[i]) : i \in 1 .. j - 1}
      BY <3>1
    <3>3. CASE j \in DOMAIN wire
      BY <1>0, <1>6, <3>2, <3>3 DEF NoFrameAfterTheEnd
    <3>4. CASE j = Len(wire) + 1
      BY <1>6, <1>8, <2>1, <3>2, <3>4
    <3> QED BY <1>6, <3>3, <3>4
  <2> QED BY <1>1, <2>2 DEF NoFrameAfterTheEnd, page, Guarded, EndsTurns, Finals
<1> QED BY <1>2, <1>7, <1>9, <1>10 DEF OutputInv

\* The sender stops.
LEMMA StopKeepsInv ==
  ASSUME OutputInv, SenderStops
  PROVE  OutputInv'
<1>0. OutputTypeOK /\ LockShape /\ TurnShape /\ CallShape /\ OutboxShape /\ ToldShape /\ NoFrameAfterTheEnd
  BY DEF OutputInv
<1>1. /\ outQueue' = <<>> /\ sender' \in {"ended", "failed"}
      /\ UNCHANGED <<turnState, gen, caller, holder, connection, counts, wire, page>>
  BY DEF SenderStops
<1>2. FramesOK
  BY <1>0 DEF OutputTypeOK
<1>3. \A x \in Waiters : outbox'[x] = Drained[x] \/ (outbox'[x] = Resolved(Head(outQueue))[x] /\ Waits(x, Head(outQueue)))
  BY DEF SenderStops
<1>4. outbox' \in [Waiters -> WaitRecord]
  <2>1. outbox' = [x \in Waiters |-> outbox'[x]]
    BY DEF SenderStops, Drained
  <2>2. \A x \in Waiters : outbox'[x] \in WaitRecord
    BY <1>2, <1>3, ResolvedWaiters, DrainedWaiters
  <2> QED BY <2>1, <2>2
<1>5. SenderMoves
  BY <1>2, <1>3, ResolvedWaiters, DrainedWaiters DEF SenderMoves
<1>6. OutputTypeOK'
  BY <1>0, <1>1, <1>4
     DEF OutputTypeOK, FramesOK, TurnStateOK, TaskStepsOK, CallersOK, BoundsOK, PageOK, turnState, counts, page
<1>7. LockShape' /\ TurnShape' /\ CallShape' /\ NoFrameAfterTheEnd'
  BY <1>0, <1>1 DEF LockShape, Starters, TurnShape, NoOrphanTask, Streams, CallShape, NoFrameAfterTheEnd, turnState,
                   counts, page
<1>8. OutboxShape'
  BY <1>0, <1>1, <1>5, OutboxShapeKept
<1>9. QueueShape'
  <2>1. DOMAIN outQueue' = {}
    BY <1>1
  <2> QED BY <2>1 DEF QueueShape
<1>10. ToldShape'
  <2>1. \A t \in Replies : outbox[ByTurn(t)].state = "sent" => outbox'[ByTurn(t)].state = "sent"
    BY <1>5, WaitersDiffer DEF SenderMoves
  <2> QED BY <1>0, <1>1, <2>1 DEF ToldShape, turnState, counts, page
<1> QED BY <1>6, <1>7, <1>8, <1>9, <1>10 DEF OutputInv

(***************************************************************************)
(* What a step of a task or of a call may do to the waiters.               *)
(***************************************************************************)
\* send(): the waiter waits for its frame.
LEMMA SendingIs ==
  ASSUME FramesOK, NEW x \in Waiters, NEW kind \in FrameKinds, NEW t \in Turns, outbox' = Sending(x, kind, t)
  PROVE  /\ outbox' \in [Waiters -> WaitRecord]
         /\ outbox'[x].state \in {"putting", "error"} /\ outbox'[x].kind = kind /\ outbox'[x].turn = t
         /\ \A y \in Waiters \ {x} : outbox'[y] = outbox[y]
BY DEF FramesOK, WaitRecord, Sending

\* the waiter waits no longer
LEMMA WaitsNoLonger ==
  ASSUME FramesOK, NEW x \in Waiters, outbox' = [outbox EXCEPT ![x] = Nothing]
  PROVE  /\ outbox' \in [Waiters -> WaitRecord] /\ outbox'[x].state = "no"
         /\ \A y \in Waiters \ {x} : outbox'[y] = outbox[y]
<1>1. Nothing \in WaitRecord
  BY Kinds, OutputAssumption DEF WaitRecord, Nothing, Turns
<1>2. Nothing.state = "no"
  BY DEF Nothing
<1> QED BY <1>1, <1>2 DEF FramesOK

\* A waiter that waits for no frame of the active turn is free to do what it likes.
LEMMA QueueUndisturbed ==
  ASSUME OutputInv, NEW x \in Waiters, outbox[x].state # "queued" \/ ~OfThisTurn(outbox[x]),
         \A y \in Waiters \ {x} : outbox'[y] = outbox[y],
         UNCHANGED <<outQueue, activeTurn, started>>
  PROVE  QueueShape'
<1>0. QueueShape /\ outQueue \in Seq(QueuedFrame)
  BY DEF OutputInv, OutputTypeOK, FramesOK
<1>1. ASSUME NEW i \in DOMAIN outQueue, OfThisTurn(outQueue[i])
      PROVE  WillWait(outQueue[i].from, outQueue[i])
  <2>1. outQueue[i] \in QueuedFrame
    BY <1>0
  <2>2. Waits(outQueue[i].from, outQueue[i]) /\ outQueue[i].from \in Waiters
    BY <1>0, <1>1, <2>1 DEF QueueShape, QueuedFrame
  <2>3. outbox[outQueue[i].from].state = "queued" /\ OfThisTurn(outbox[outQueue[i].from])
    BY <1>1, <2>2 DEF Waits, OfThisTurn, Guarded
  <2>4. outQueue[i].from # x
    BY <2>3
  <2> QED BY <2>2, <2>4 DEF Waits, WillWait
<1> QED BY <1>0, <1>1, QueueShapeNext DEF QueueShape, OfThisTurn, WillBeCurrent

\* No frame in the queue is of no turn, or of one that starts only now.
LEMMA QueueNoneCurrent ==
  ASSUME OutputInv, outQueue' = outQueue,
         \/ activeTurn' = 0 /\ started' = started
         \/ started' = started + 1 /\ activeTurn' = started'
  PROVE  QueueShape'
<1>0. QueueShape /\ started \in Nat
  BY OutputAssumption DEF OutputInv, OutputTypeOK, BoundsOK, Turns
<1>1. \A i \in DOMAIN outQueue : Guarded(outQueue[i]) \/ outQueue[i].kind = "turn_cancelled" =>
          /\ outQueue[i].turn # 0 /\ outQueue[i].turn <= started
          /\ outQueue[i].turn # activeTurn' /\ outQueue[i].turn <= started'
  <2> SUFFICES ASSUME NEW i \in DOMAIN outQueue, Guarded(outQueue[i]) \/ outQueue[i].kind = "turn_cancelled"
               PROVE  /\ outQueue[i].turn # 0 /\ outQueue[i].turn <= started
                      /\ outQueue[i].turn # activeTurn' /\ outQueue[i].turn <= started'
    OBVIOUS
  <2>1. outQueue[i].turn # 0 /\ outQueue[i].turn <= started
    BY <1>0 DEF QueueShape
  <2>2. outQueue[i].turn \in Nat
    <3>1. outQueue \in Seq(QueuedFrame)
      BY DEF OutputInv, OutputTypeOK, FramesOK
    <3>2. outQueue[i] \in QueuedFrame
      BY <3>1
    <3> QED BY <3>2, OutputAssumption DEF QueuedFrame, Turns
  <2> QED BY <1>0, <2>1, <2>2
<1>2. \A i \in DOMAIN outQueue : ~WillBeCurrent(outQueue[i])
  BY <1>1 DEF WillBeCurrent
<1> QED BY <1>1, <1>2, QueueShapeNext

\* What the page was told stays true while the active turn, if it was told to be over, keeps
\* its last frame sent.
LEMMA ToldUndisturbed ==
  ASSUME OutputInv, UNCHANGED <<wire, over, player>>, started' = started \/ started' = started + 1,
         \A t \in Replies : t <= started /\ t = activeTurn' /\ (t = activeTurn => gen[t] \in LastFrames
                                                              /\ outbox[ByTurn(t)].state = "sent")
            => gen'[t] \in LastFrames /\ outbox'[ByTurn(t)].state = "sent"
  PROVE  ToldShape'
<1>0. ToldShape /\ started \in Nat
  BY OutputAssumption DEF OutputInv, OutputTypeOK, BoundsOK, Turns
<1> QED BY <1>0 DEF ToldShape, Guarded, EndsTurns, Finals, Replies

(***************************************************************************)
(* The turn task.                                                          *)
(***************************************************************************)
\* The task sends its next frame.
LEMMA TurnSendsKeepsInv ==
  ASSUME OutputInv, NEW t \in Replies, TurnSends(t)
  PROVE  OutputInv'
<1>0. OutputTypeOK /\ LockShape /\ TurnShape /\ CallShape /\ OutboxShape /\ NoFrameAfterTheEnd
  BY DEF OutputInv
<1>1. PICK kind \in Follow[gen[t]] :
        /\ gen' = [gen EXCEPT ![t] = kind]
        /\ outbox' = Sending(ByTurn(t), kind, t)
        /\ playback' = CASE kind = "audio_start" /\ activeTurn = t -> t
                           [] kind = "audio_failed" /\ playback = t -> 0
                           [] OTHER -> playback
  BY DEF TurnSends
<1>2. /\ gen[t] \in DOMAIN Follow /\ outbox[ByTurn(t)] = Nothing
      /\ UNCHANGED <<activeTurn, attached, caller, holder, connection, outQueue, sender, counts, wire, page>>
  BY DEF TurnSends
<1>3. FramesOK /\ gen \in [Replies -> DOMAIN Follow \cup LastFrames \cup {"none", "cancelled", "done"}]
      /\ activeTurn \in Turns /\ playback \in Turns /\ t \in Turns /\ started \in Turns
  BY <1>0 DEF OutputTypeOK, TaskStepsOK, TurnStateOK, BoundsOK, Turns, Replies
<1>4. /\ kind \in FrameKinds \ {"none", "turn_started", "turn_cancelled", "audio_stop", "end"}
      /\ kind \in DOMAIN Follow \cup (LastFrames \ {"unwinding"})
  BY <1>2, FollowKinds
<1>5. gen[t] \notin LastFrames /\ gen[t] # "none" /\ Streams(t) /\ t = activeTurn /\ t = attached /\ t <= started
  BY <1>0, <1>2, Kinds DEF LastFrames, Streams, TurnShape, NoOrphanTask
<1>6. ByTurn(t) \in Waiters /\ outbox[ByTurn(t)].state = "no"
  BY <1>2, WaitersDiffer DEF Nothing
<1>7. /\ outbox' \in [Waiters -> WaitRecord]
      /\ outbox'[ByTurn(t)].state \in {"putting", "error"} /\ outbox'[ByTurn(t)].kind = kind
      /\ outbox'[ByTurn(t)].turn = t
      /\ \A y \in Waiters \ {ByTurn(t)} : outbox'[y] = outbox[y]
  BY <1>1, <1>3, <1>4, <1>6, SendingIs
<1>8. OutputTypeOK'
  <2>1. playback' \in Turns
    BY <1>1, <1>3, OutputAssumption DEF Turns
  <2>2. gen' \in [Replies -> DOMAIN Follow \cup LastFrames \cup {"none", "cancelled", "done"}]
    BY <1>1, <1>3, <1>4
  <2> QED BY <1>0, <1>2, <1>7, <2>1, <2>2
          DEF OutputTypeOK, FramesOK, TurnStateOK, TaskStepsOK, CallersOK, BoundsOK, PageOK, counts, page
<1>9. LockShape' /\ NoFrameAfterTheEnd'
  BY <1>0, <1>2 DEF LockShape, Starters, NoFrameAfterTheEnd, counts, page
<1>10. gen'[t] = kind /\ \A u \in Replies \ {t} : gen'[u] = gen[u]
  BY <1>1, <1>3
<1>11. TurnShape'
  BY <1>0, <1>2, <1>5, <1>10 DEF TurnShape, NoOrphanTask, Streams, counts
<1>12. CallShape'
  <2>1. gen[started] = "none" => started # t
    BY <1>5
  <2>2. \A c \in Askers : caller[c].at = "begin" => gen'[started] = gen[started]
    BY <1>0, <1>3, <1>5, <1>10, <2>1 DEF CallShape
  <2> QED BY <1>0, <1>2, <2>2 DEF CallShape, counts
<1>13. OutboxShape'
  <2>1. \A u \in Replies : outbox'[ByTurn(u)].state # "no" =>
          /\ outbox'[ByTurn(u)].turn = u
          /\ \/ gen'[u] = "unwinding" /\ outbox'[ByTurn(u)].kind = "turn_failed"
             \/ gen'[u] \in FrameKinds \ {"none"} /\ outbox'[ByTurn(u)].kind = gen'[u]
    <3> TAKE u \in Replies
    <3>1. CASE u = t
      BY <1>4, <1>7, <1>10, <3>1
    <3>2. CASE u # t
      BY <1>0, <1>7, <1>10, <3>2, WaitersDiffer DEF OutboxShape
    <3> QED BY <3>1, <3>2
  <2>2. \A c \in Askers : outbox'[c] = outbox[c]
    BY <1>7, WaitersDiffer
  <2> QED BY <1>0, <1>2, <2>1, <2>2 DEF OutboxShape
<1>14. QueueShape'
  BY <1>2, <1>6, <1>7, QueueUndisturbed DEF counts
<1>15. ToldShape'
  BY <1>2, <1>5, ToldUndisturbed DEF counts, page
<1> QED BY <1>8, <1>9, <1>11, <1>12, <1>13, <1>14, <1>15 DEF OutputInv

\* The task ends, and clears the active turn if that is its own.
LEMMA TaskEndsKeepsInv ==
  ASSUME OutputInv, NEW t \in Replies, gen[t] # "none", TurnEnds(t),
         outbox[ByTurn(t)].state # "queued", outbox' \in [Waiters -> WaitRecord],
         outbox'[ByTurn(t)].state = "no", \A y \in Waiters \ {ByTurn(t)} : outbox'[y] = outbox[y],
         UNCHANGED <<playback, caller, holder, connection, outQueue, sender, counts, wire, page>>
  PROVE  OutputInv'
<1>0. OutputTypeOK /\ LockShape /\ TurnShape /\ CallShape /\ OutboxShape /\ NoFrameAfterTheEnd
  BY DEF OutputInv
<1>1. /\ gen \in [Replies -> DOMAIN Follow \cup LastFrames \cup {"none", "cancelled", "done"}]
      /\ activeTurn \in Turns /\ attached \in Turns /\ started \in Turns /\ LastTurn \in Nat
  BY <1>0, OutputAssumption DEF OutputTypeOK, TaskStepsOK, TurnStateOK, BoundsOK
<1>2. gen'[t] = "done" /\ (\A u \in Replies \ {t} : gen'[u] = gen[u])
      /\ gen' \in [Replies -> DOMAIN Follow \cup LastFrames \cup {"none", "cancelled", "done"}]
  BY <1>1 DEF TurnEnds
<1>3. \/ activeTurn = t /\ activeTurn' = 0 /\ attached' = 0
      \/ activeTurn # t /\ activeTurn' = activeTurn /\ attached' = attached
  BY DEF TurnEnds, ClearActive
<1>4. OutputTypeOK'
  BY <1>0, <1>1, <1>2, <1>3
     DEF OutputTypeOK, FramesOK, TurnStateOK, TaskStepsOK, CallersOK, BoundsOK, PageOK, counts, page, Turns
<1>5. LockShape' /\ NoFrameAfterTheEnd'
  BY <1>0 DEF LockShape, Starters, NoFrameAfterTheEnd, counts, page
<1>6. TurnShape'
  <2>1. ~Streams(t)'
    BY <1>2, Kinds DEF Streams, LastFrames
  <2>2. \A u \in Replies : Streams(u)' => u = attached' /\ u = activeTurn'
    BY <1>0, <1>2, <1>3, <2>1 DEF TurnShape, NoOrphanTask, Streams
  <2>3. \A u \in Replies : gen'[u] # "none" => u <= started
    BY <1>0, <1>2 DEF TurnShape
  <2> QED BY <1>0, <1>1, <1>3, <2>2, <2>3 DEF TurnShape, NoOrphanTask, counts, Turns
<1>7. CallShape'
  <2>1. \A c \in Askers : caller[c].at = "begin" => started # t /\ gen'[started] = gen[started] /\ activeTurn' = activeTurn
    BY <1>0, <1>1, <1>2, <1>3 DEF CallShape, Turns, Replies
  <2>2. activeTurn = 0 => activeTurn' = 0 /\ attached' = attached
    BY <1>3 DEF Replies
  <2> QED BY <1>0, <1>3, <2>1, <2>2 DEF CallShape, counts
<1>8. OutboxShape'
  <2>1. \A u \in Replies : outbox'[ByTurn(u)].state # "no" => u # t /\ outbox'[ByTurn(u)] = outbox[ByTurn(u)]
    BY WaitersDiffer
  <2>2. \A c \in Askers : outbox'[c] = outbox[c]
    BY WaitersDiffer
  <2> QED BY <1>0, <1>2, <2>1, <2>2 DEF OutboxShape
<1>9. QueueShape'
  <2>1. CASE activeTurn = t
    BY <1>3, <2>1, QueueNoneCurrent DEF counts
  <2>2. CASE activeTurn # t
    BY <1>3, <2>2, QueueUndisturbed, WaitersDiffer DEF counts
  <2> QED BY <2>1, <2>2
<1>10. ToldShape'
  <2>1. \A u \in Replies : u = activeTurn' => u # t /\ u = activeTurn /\ gen'[u] = gen[u]
                                            /\ outbox'[ByTurn(u)] = outbox[ByTurn(u)]
    BY <1>2, <1>3, WaitersDiffer DEF Replies
  <2> QED BY <2>1, ToldUndisturbed DEF counts, page
<1> QED BY <1>4, <1>5, <1>6, <1>7, <1>8, <1>9, <1>10 DEF OutputInv

\* A frame of the task was delivered, or could not be.
LEMMA TurnSentKeepsInv ==
  ASSUME OutputInv, NEW t \in Replies, TurnSent(t)
  PROVE  OutputInv'
<1>0. OutputTypeOK /\ LockShape /\ TurnShape /\ CallShape /\ OutboxShape /\ NoFrameAfterTheEnd
  BY DEF OutputInv
<1>1. /\ outbox[ByTurn(t)].state \in {"sent", "error"} /\ outbox' = [outbox EXCEPT ![ByTurn(t)] = Nothing]
      /\ UNCHANGED <<playback, caller, holder, connection, outQueue, sender, counts, wire, page>>
  BY DEF TurnSent, Sent, Failed
<1>2. /\ outbox' \in [Waiters -> WaitRecord] /\ outbox'[ByTurn(t)].state = "no"
      /\ \A y \in Waiters \ {ByTurn(t)} : outbox'[y] = outbox[y]
  BY <1>0, <1>1, WaitsNoLonger, WaitersDiffer DEF OutputTypeOK
<1>3. gen[t] # "none"
  BY <1>0, <1>1 DEF OutboxShape
<1>4. CASE TurnEnds(t)
  BY <1>1, <1>2, <1>3, <1>4, TaskEndsKeepsInv
<1>5. CASE ~(Failed(ByTurn(t)) \/ gen[t] \in LastFrames)
  <2>1. UNCHANGED <<activeTurn, attached, gen>> /\ gen[t] \notin LastFrames
    BY <1>5 DEF TurnSent
  <2>2. OutputTypeOK'
    BY <1>0, <1>1, <1>2, <2>1
       DEF OutputTypeOK, FramesOK, TurnStateOK, TaskStepsOK, CallersOK, BoundsOK, PageOK, counts, page
  <2>3. LockShape' /\ TurnShape' /\ CallShape' /\ NoFrameAfterTheEnd'
    BY <1>0, <1>1, <2>1 DEF LockShape, Starters, TurnShape, NoOrphanTask, Streams, CallShape, NoFrameAfterTheEnd,
                         counts, page
  <2>4. OutboxShape'
    <3>1. \A u \in Replies : outbox'[ByTurn(u)].state # "no" => outbox'[ByTurn(u)] = outbox[ByTurn(u)]
      BY <1>2, WaitersDiffer
    <3>2. \A c \in Askers : outbox'[c] = outbox[c]
      BY <1>2, WaitersDiffer
    <3> QED BY <1>0, <1>1, <2>1, <3>1, <3>2 DEF OutboxShape
  <2>5. QueueShape'
    BY <1>1, <1>2, <2>1, QueueUndisturbed, WaitersDiffer DEF counts
  <2>6. ToldShape'
    <3>1. \A u \in Replies : u # t => outbox'[ByTurn(u)] = outbox[ByTurn(u)]
      BY <1>2, WaitersDiffer
    <3> QED BY <1>1, <2>1, <3>1, ToldUndisturbed DEF counts, page
  <2> QED BY <2>2, <2>3, <2>4, <2>5, <2>6 DEF OutputInv
<1> QED BY <1>4, <1>5 DEF TurnSent

\* A turn held back by reminders goes on, or ends unheard when it is not wanted any more.
LEMMA TurnWakesKeepsInv ==
  ASSUME OutputInv, NEW t \in Replies, TurnWakes(t)
  PROVE  OutputInv'
<1>0. OutputTypeOK /\ LockShape /\ TurnShape /\ CallShape /\ OutboxShape /\ NoFrameAfterTheEnd
  BY DEF OutputInv
<1>1. /\ gen[t] = "turn_waiting" /\ outbox[ByTurn(t)] = Nothing
      /\ UNCHANGED <<playback, caller, holder, connection, outbox, outQueue, sender, counts, wire, page>>
  BY DEF TurnWakes, sending
<1>2. /\ ByTurn(t) \in Waiters /\ outbox[ByTurn(t)].state = "no"
      /\ outbox' \in [Waiters -> WaitRecord] /\ outbox' = outbox
  BY <1>0, <1>1, WaitersDiffer DEF Nothing, OutputTypeOK, FramesOK
<1>3. CASE TurnEnds(t)
  BY <1>1, <1>2, <1>3, TaskEndsKeepsInv
<1>4. CASE gen' = [gen EXCEPT ![t] = "resumed"] /\ UNCHANGED <<activeTurn, attached>>
  <2>1. gen'[t] = "resumed" /\ (\A u \in Replies \ {t} : gen'[u] = gen[u])
        /\ gen' \in [Replies -> DOMAIN Follow \cup LastFrames \cup {"none", "cancelled", "done"}]
    BY <1>0, <1>4, Kinds DEF OutputTypeOK, TaskStepsOK
  <2>2. OutputTypeOK'
    BY <1>0, <1>1, <1>4, <2>1
       DEF OutputTypeOK, FramesOK, TurnStateOK, TaskStepsOK, CallersOK, BoundsOK, PageOK, counts, page
  <2>3. LockShape' /\ NoFrameAfterTheEnd'
    BY <1>0, <1>1 DEF LockShape, Starters, NoFrameAfterTheEnd, counts, page
  <2>4. TurnShape'
    <3>1. Streams(t)
      BY <1>1, Kinds DEF Streams
    <3> QED BY <1>0, <1>1, <1>4, <2>1, <3>1 DEF TurnShape, NoOrphanTask, Streams, counts
  <2>5. CallShape'
    <3>1. \A c \in Askers : caller[c].at = "begin" => gen'[started] = gen[started]
      BY <1>0, <1>1, <2>1 DEF CallShape, OutputTypeOK, BoundsOK, Turns, Replies
    <3> QED BY <1>0, <1>1, <1>4, <3>1 DEF CallShape, counts
  <2>6. OutboxShape'
    BY <1>0, <1>1, <1>2, <2>1 DEF OutboxShape
  <2>7. QueueShape'
    BY <1>1, <1>2, <1>4, QueueUndisturbed DEF counts
  <2>8. ToldShape'
    BY <1>1, <1>4, <2>1, ToldUndisturbed DEF counts, page, LastFrames
  <2> QED BY <2>2, <2>3, <2>4, <2>5, <2>6, <2>7, <2>8 DEF OutputInv
<1> QED BY <1>3, <1>4 DEF TurnWakes

\* A cancelled task ends, or reports a failure of its own before.
LEMMA TurnUnwindsKeepsInv ==
  ASSUME OutputInv, NEW t \in Replies, TurnUnwinds(t)
  PROVE  OutputInv'
<1>0. OutputTypeOK /\ LockShape /\ TurnShape /\ CallShape /\ OutboxShape /\ NoFrameAfterTheEnd
  BY DEF OutputInv
<1>1. /\ gen[t] = "cancelled"
      /\ UNCHANGED <<playback, caller, holder, connection, outQueue, sender, counts, wire, page>>
  BY DEF TurnUnwinds
<1>2. ByTurn(t) \in Waiters /\ outbox[ByTurn(t)].state = "no"
  BY <1>0, <1>1, WaitersDiffer, Kinds DEF OutboxShape
<1>3. CASE TurnEnds(t) /\ UNCHANGED outbox
  <2>1. outbox' \in [Waiters -> WaitRecord]
    BY <1>0, <1>3 DEF OutputTypeOK, FramesOK
  <2> QED BY <1>1, <1>2, <1>3, <2>1, TaskEndsKeepsInv
<1>4. CASE /\ gen' = [gen EXCEPT ![t] = "unwinding"]
           /\ outbox' = Sending(ByTurn(t), "turn_failed", t)
           /\ UNCHANGED <<activeTurn, attached>>
  <2>1. gen'[t] = "unwinding" /\ (\A u \in Replies \ {t} : gen'[u] = gen[u])
        /\ gen' \in [Replies -> DOMAIN Follow \cup LastFrames \cup {"none", "cancelled", "done"}]
    BY <1>0, <1>4 DEF OutputTypeOK, TaskStepsOK, LastFrames
  <2>2. /\ outbox' \in [Waiters -> WaitRecord]
        /\ outbox'[ByTurn(t)].state \in {"putting", "error"} /\ outbox'[ByTurn(t)].kind = "turn_failed"
        /\ outbox'[ByTurn(t)].turn = t
        /\ \A y \in Waiters \ {ByTurn(t)} : outbox'[y] = outbox[y]
    BY <1>0, <1>2, <1>4, SendingIs, Kinds DEF OutputTypeOK, Turns, Replies
  <2>3. OutputTypeOK'
    BY <1>0, <1>1, <1>4, <2>1, <2>2
       DEF OutputTypeOK, FramesOK, TurnStateOK, TaskStepsOK, CallersOK, BoundsOK, PageOK, counts, page
  <2>4. LockShape' /\ NoFrameAfterTheEnd'
    BY <1>0, <1>1 DEF LockShape, Starters, NoFrameAfterTheEnd, counts, page
  <2>5. TurnShape'
    <3>1. ~Streams(t)'
      BY <2>1, Kinds DEF Streams, LastFrames
    <3> QED BY <1>0, <1>1, <1>4, <2>1, <3>1 DEF TurnShape, NoOrphanTask, Streams, counts
  <2>6. CallShape'
    <3>1. \A c \in Askers : caller[c].at = "begin" => gen'[started] = gen[started]
      BY <1>0, <1>1, <2>1 DEF CallShape, OutputTypeOK, BoundsOK, Turns, Replies
    <3> QED BY <1>0, <1>1, <1>4, <3>1 DEF CallShape, counts
  <2>7. OutboxShape'
    <3>1. \A u \in Replies \ {t} : outbox'[ByTurn(u)] = outbox[ByTurn(u)]
      BY <2>2, WaitersDiffer
    <3>2. \A c \in Askers : outbox'[c] = outbox[c]
      BY <2>2, WaitersDiffer
    <3> QED BY <1>0, <1>1, <2>1, <2>2, <3>1, <3>2 DEF OutboxShape
  <2>8. QueueShape'
    BY <1>1, <1>2, <1>4, <2>2, QueueUndisturbed DEF counts
  <2>9. ToldShape'
    <3>1. \A u \in Replies \ {t} : outbox'[ByTurn(u)] = outbox[ByTurn(u)]
      BY <2>2, WaitersDiffer
    <3>2. gen[t] \notin LastFrames
      BY <1>1 DEF LastFrames
    <3> QED BY <1>1, <1>4, <2>1, <3>1, <3>2, ToldUndisturbed DEF counts, page
  <2> QED BY <2>3, <2>4, <2>5, <2>6, <2>7, <2>8, <2>9 DEF OutputInv
<1> QED BY <1>3, <1>4 DEF TurnUnwinds

(***************************************************************************)
(* The calls of start_turn and cancel_turn.                                *)
(***************************************************************************)
\* the places of a call
Places == {"idle", "lock", "reap", "told", "stop", "begin", "closing", "ending", "end", "closed"}

\* A call goes on to another place.
LEMMA MovesTo ==
  ASSUME CallersOK, NEW c \in Askers, NEW to \in Places, Moves(c, to)
  PROVE  /\ caller' \in [Askers -> CallRecord] /\ caller'[c].at = to /\ caller'[c].turn = caller[c].turn
         /\ \A d \in Askers \ {c} : caller'[d] = caller[d]
         /\ Starters' \subseteq Starters \cup IF caller[c].at = "begin" THEN {c} ELSE {}
<1> DEFINE new == [caller[c] EXCEPT !.at = to]
<1>1. new \in CallRecord /\ new.at = to /\ new.turn = caller[c].turn
  BY DEF CallersOK, CallRecord, Places
<1>2. new.starts = caller[c].starts
  BY DEF CallersOK, CallRecord
<1>3. caller' = [caller EXCEPT ![c] = new]
  BY DEF Moves
<1> HIDE DEF new
<1>4. caller' \in [Askers -> CallRecord] /\ caller'[c] = new /\ \A d \in Askers \ {c} : caller'[d] = caller[d]
  BY <1>1, <1>3 DEF CallersOK
<1>5. Starters' \subseteq Starters \cup IF caller[c].at = "begin" THEN {c} ELSE {}
  BY <1>2, <1>4 DEF Starters
<1> QED BY <1>1, <1>4, <1>5

\* A call returns, or its task ends.
LEMMA CallEnds ==
  ASSUME CallersOK, NEW c \in Askers, NEW to \in Places \ Locking,
         caller' = [caller EXCEPT ![c] = [Idle EXCEPT !.at = to]]
  PROVE  /\ caller' \in [Askers -> CallRecord] /\ caller'[c].at = to /\ caller'[c].turn = 0
         /\ \A d \in Askers \ {c} : caller'[d] = caller[d]
         /\ Starters' \subseteq Starters
<1> DEFINE new == [Idle EXCEPT !.at = to]
<1>1. new \in CallRecord /\ new.at = to /\ new.turn = 0
  <2>1. Idle \in CallRecord /\ Idle.turn = 0
    <3>1. 0 \in Turns
      BY OutputAssumption DEF Turns
    <3> QED BY <3>1, Zenon DEF Idle, CallRecord
  <2> QED BY <2>1 DEF CallRecord, Places
<1>2. ~new.starts
  BY DEF Idle
<1>3. caller' = [caller EXCEPT ![c] = new]
  OBVIOUS
<1> HIDE DEF new
<1>4. caller' \in [Askers -> CallRecord] /\ caller'[c] = new /\ \A d \in Askers \ {c} : caller'[d] = caller[d]
  BY <1>1, <1>3 DEF CallersOK
<1>5. Starters' \subseteq Starters
  BY <1>2, <1>4 DEF Starters
<1> QED BY <1>1, <1>4, <1>5

\* A call is where the step leaves it, the others where they were.
LEMMA CallChanges ==
  ASSUME CallersOK, NEW c \in Askers, NEW new \in CallRecord, caller' = [caller EXCEPT ![c] = new]
  PROVE  caller' \in [Askers -> CallRecord] /\ caller'[c] = new /\ \A d \in Askers \ {c} : caller'[d] = caller[d]
BY DEF CallersOK

\* The calls that may still start a turn are finitely many.
LEMMA StartersFinite == IsFiniteSet(Askers) /\ IsFiniteSet(Starters)
<1>1. IsFiniteSet(Askers)
  BY OutputAssumption, FS_AddElement DEF Askers
<1> QED BY <1>1, FS_Subset DEF Starters

\* A step after which none of them is new keeps the count.
LEMMA CountKept ==
  ASSUME LockShape, started \in Turns, Starters' \subseteq Starters, started' = started
  PROVE  started' + Cardinality(Starters') <= LastTurn
<1>1. Cardinality(Starters') <= Cardinality(Starters) /\ Cardinality(Starters') \in Nat /\ Cardinality(Starters) \in Nat
  BY StartersFinite, FS_Subset, FS_CardinalityType
<1> QED BY <1>1, OutputAssumption DEF LockShape, Turns

\* One that starts its turn has been counted.
LEMMA CountBegins ==
  ASSUME LockShape, started \in Turns, NEW c \in Starters, Starters' \subseteq Starters \ {c}, started' = started + 1
  PROVE  started' + Cardinality(Starters') <= LastTurn /\ started' \in Turns /\ started' # 0
<1>1. /\ IsFiniteSet(Starters \ {c}) /\ Cardinality(Starters \ {c}) = Cardinality(Starters) - 1
      /\ Cardinality(Starters) \in Nat
  BY StartersFinite, FS_RemoveElement, FS_CardinalityType
<1>2. Cardinality(Starters') <= Cardinality(Starters \ {c}) /\ Cardinality(Starters') \in Nat
  BY <1>1, FS_Subset, FS_CardinalityType
<1> QED BY <1>1, <1>2, OutputAssumption DEF LockShape, Turns

\* One that asks is counted.
LEMMA CountAsks ==
  ASSUME started \in Turns, started + Cardinality(Starters) < LastTurn, NEW c \in Askers,
         Starters' \subseteq Starters \cup {c}, started' = started
  PROVE  started' + Cardinality(Starters') <= LastTurn
<1>1. /\ IsFiniteSet(Starters \cup {c}) /\ Cardinality(Starters \cup {c}) <= Cardinality(Starters) + 1
      /\ Cardinality(Starters) \in Nat /\ Cardinality(Starters \cup {c}) \in Nat
  <2>1. IsFiniteSet(Starters \cup {c}) /\ Cardinality(Starters) \in Nat
    BY StartersFinite, FS_AddElement, FS_CardinalityType
  <2>2. Cardinality(Starters \cup {c}) = IF c \in Starters THEN Cardinality(Starters) ELSE Cardinality(Starters) + 1
    BY StartersFinite, FS_AddElement
  <2> QED BY <2>1, <2>2
<1>2. Cardinality(Starters') <= Cardinality(Starters \cup {c}) /\ Cardinality(Starters') \in Nat
  BY <1>1, FS_Subset, FS_CardinalityType
<1> QED BY <1>1, <1>2, OutputAssumption DEF Turns

\* A step of a call that changes neither the turns nor their tasks.
LEMMA CallKeepsInv ==
  ASSUME OutputInv, NEW c \in Askers, caller[c].at # "begin",
         UNCHANGED <<turnState, gen, outQueue, sender, started, wire, page>>,
         caller' \in [Askers -> CallRecord], \A d \in Askers \ {c} : caller'[d] = caller[d],
         outbox' \in [Waiters -> WaitRecord], \A y \in Waiters \ {c} : outbox'[y] = outbox[y],
         connection' \in {"open", "closing", "closed"}, cancels' \in 0 .. LastCancel,
         holder' \in Askers \cup {"nobody"}, holder' = holder \/ holder \in {c, "nobody"},
         started' + Cardinality(Starters') <= LastTurn,
         caller'[c].turn <= started, caller'[c].at # "begin",
         caller'[c].at \in Locking => holder' = c /\ activeTurn = 0 /\ attached = 0,
         caller'[c].at = "told" => caller'[c].turn # 0,
         outbox'[c].state # "no" =>
            \/ caller'[c].at = "told" /\ outbox'[c].kind = "turn_cancelled" /\ outbox'[c].turn = caller'[c].turn
            \/ caller'[c].at = "stop" /\ outbox'[c].kind = "audio_stop"
            \/ caller'[c].at = "end" /\ outbox'[c].kind = "end"
  PROVE  OutputInv'
<1>0. OutputTypeOK /\ LockShape /\ TurnShape /\ CallShape /\ OutboxShape /\ NoFrameAfterTheEnd
  BY DEF OutputInv
<1>1. OutputTypeOK'
  BY <1>0 DEF OutputTypeOK, FramesOK, TurnStateOK, TaskStepsOK, CallersOK, BoundsOK, PageOK, turnState, page
<1>2. LockShape'
  BY <1>0, WaitersDiffer DEF LockShape
<1>3. TurnShape' /\ NoFrameAfterTheEnd'
  BY <1>0 DEF TurnShape, NoOrphanTask, Streams, NoFrameAfterTheEnd, turnState, page
<1>4. CallShape'
  BY <1>0 DEF CallShape, turnState, Locking
<1>5. OutboxShape'
  <2>1. \A t \in Replies : outbox'[ByTurn(t)] = outbox[ByTurn(t)]
    BY WaitersDiffer
  <2>2. \A d \in Askers \ {c} : outbox'[d] = outbox[d]
    BY WaitersDiffer
  <2> QED BY <1>0, <2>1, <2>2 DEF OutboxShape
<1>6. outbox[c].state # "queued" \/ ~OfThisTurn(outbox[c])
  BY <1>0 DEF OutboxShape, OfThisTurn, Guarded
<1>7. QueueShape'
  BY <1>6, QueueUndisturbed, WaitersDiffer DEF turnState
<1>8. ToldShape'
  <2>1. \A t \in Replies : outbox'[ByTurn(t)] = outbox[ByTurn(t)]
    BY WaitersDiffer
  <2> QED BY <2>1, ToldUndisturbed DEF turnState, page
<1> QED BY <1>1, <1>2, <1>3, <1>4, <1>5, <1>7, <1>8 DEF OutputInv

\* A call asks for a turn, or for its cancellation.
LEMMA AskKeepsInv ==
  ASSUME OutputInv, NEW c \in Askers, Ask(c)
  PROVE  OutputInv'
<1>0. OutputTypeOK /\ LockShape /\ CallShape /\ OutboxShape /\ CallersOK /\ FramesOK
  BY DEF OutputInv, OutputTypeOK
<1>1. /\ caller[c].at = "idle" /\ UNCHANGED <<turnState, gen, holder, connection, sending, started, wire, page>>
  BY DEF Ask
<1>2. Idle \in CallRecord /\ Idle.turn = 0
  <2>1. 0 \in Turns
    BY OutputAssumption DEF Turns
  <2> QED BY <2>1, Zenon DEF Idle, CallRecord
<1>3. PICK new \in CallRecord :
        /\ caller' = [caller EXCEPT ![c] = new] /\ new.at = "lock" /\ new.turn = 0
        /\ new.starts => started + Cardinality(Starters) < LastTurn
        /\ cancels' \in 0 .. LastCancel
  <2>1. CASE /\ started + Cardinality({d \in Askers : caller[d].starts /\ caller[d].at # "begin"}) < LastTurn
             /\ caller' = [caller EXCEPT ![c] = [Idle EXCEPT !.at = "lock", !.starts = TRUE]]
             /\ UNCHANGED cancels
    <3>1. [Idle EXCEPT !.at = "lock", !.starts = TRUE] \in CallRecord
      BY <1>2 DEF CallRecord
    <3>2. [Idle EXCEPT !.at = "lock", !.starts = TRUE].at = "lock" /\ [Idle EXCEPT !.at = "lock", !.starts = TRUE].turn = 0
      BY <1>2 DEF CallRecord
    <3> QED BY <1>0, <2>1, <3>1, <3>2 DEF Starters, OutputTypeOK, BoundsOK
  <2>2. CASE /\ cancels < LastCancel /\ cancels' = cancels + 1
             /\ caller' = [caller EXCEPT ![c] = [Idle EXCEPT !.at = "lock"]]
    <3>1. [Idle EXCEPT !.at = "lock"] \in CallRecord
      BY <1>2 DEF CallRecord
    <3>2. /\ [Idle EXCEPT !.at = "lock"].at = "lock" /\ [Idle EXCEPT !.at = "lock"].turn = 0
      BY <1>2 DEF CallRecord
    <3>3. ~[Idle EXCEPT !.at = "lock"].starts
      BY DEF Idle
    <3>4. cancels' \in 0 .. LastCancel
      BY <1>0, <2>2, OutputAssumption DEF OutputTypeOK, BoundsOK
    <3> QED BY <2>2, <3>1, <3>2, <3>3, <3>4
  <2> QED BY <2>1, <2>2 DEF Ask
<1>4. caller' \in [Askers -> CallRecord] /\ caller'[c] = new /\ \A d \in Askers \ {c} : caller'[d] = caller[d]
  BY <1>0, <1>3 DEF CallersOK
<1>5. started \in Turns /\ started' = started /\ 0 <= started
  BY <1>0, <1>1, OutputAssumption DEF OutputTypeOK, BoundsOK, Turns
<1>6. started' + Cardinality(Starters') <= LastTurn
  <2>1. CASE new.starts
    <3>1. Starters' \subseteq Starters \cup {c}
      BY <1>4 DEF Starters
    <3> QED BY <1>3, <1>5, <2>1, <3>1, CountAsks
  <2>2. CASE ~new.starts
    <3>1. Starters' \subseteq Starters
      BY <1>4, <2>2 DEF Starters
    <3> QED BY <1>0, <1>5, <3>1, CountKept
  <2> QED BY <2>1, <2>2
<1>7. outbox' = outbox /\ outbox[c].state = "no"
  BY <1>0, <1>1 DEF sending, OutboxShape
<1> QED BY <1>0, <1>1, <1>3, <1>4, <1>5, <1>6, <1>7, CallKeepsInv DEF CallersOK, FramesOK, Locking, sending, counts

\* A call ends: it returns, its send raised before it began a turn, or its task was cancelled there.
LEMMA EndingKeepsInv ==
  ASSUME OutputInv, NEW c \in Askers, caller[c].at # "begin",
         NEW to \in {"idle", "ending", "closing"}, caller' = [caller EXCEPT ![c] = [Idle EXCEPT !.at = to]],
         outbox' = [outbox EXCEPT ![c] = Nothing] \/ (outbox[c].state = "no" /\ outbox' = outbox),
         holder' = IF holder = c THEN "nobody" ELSE holder,
         connection' \in {"open", "closing", "closed"},
         UNCHANGED <<turnState, gen, outQueue, sender, counts, wire, page>>
  PROVE  OutputInv'
<1>0. OutputTypeOK /\ LockShape /\ CallShape /\ OutboxShape /\ CallersOK /\ FramesOK
  BY DEF OutputInv, OutputTypeOK
<1>1. to \in Places \ Locking
  BY DEF Places, Locking
<1>2. /\ caller' \in [Askers -> CallRecord] /\ caller'[c].at = to /\ caller'[c].turn = 0
      /\ \A d \in Askers \ {c} : caller'[d] = caller[d]
      /\ Starters' \subseteq Starters
  BY <1>0, <1>1, CallEnds
<1>3. /\ outbox' \in [Waiters -> WaitRecord] /\ outbox'[c].state = "no"
      /\ \A y \in Waiters \ {c} : outbox'[y] = outbox[y]
  BY <1>0, WaitsNoLonger, WaitersDiffer DEF FramesOK
<1>4. started \in Turns /\ started' = started /\ 0 <= started /\ cancels' \in 0 .. LastCancel
  BY <1>0, OutputAssumption DEF OutputTypeOK, BoundsOK, Turns, counts
<1>5. started' + Cardinality(Starters') <= LastTurn
  BY <1>0, <1>2, <1>4, CountKept
<1>6. holder' \in Askers \cup {"nobody"} /\ (holder' = holder \/ holder \in {c, "nobody"})
  BY <1>0 DEF CallersOK
<1>7. caller'[c].at \notin Locking /\ caller'[c].at # "begin" /\ caller'[c].at # "told"
  BY <1>1, <1>2 DEF Locking
<1>8. caller'[c].turn <= started
  BY <1>2, <1>4
<1> QED BY <1>2, <1>3, <1>4, <1>5, <1>6, <1>7, <1>8, CallKeepsInv

\* A call returns before it has begun a turn.
LEMMA ReturnsKeepsInv ==
  ASSUME OutputInv, NEW c \in Askers, caller[c].at # "begin", Returns(c),
         outbox' = [outbox EXCEPT ![c] = Nothing] \/ (outbox[c].state = "no" /\ outbox' = outbox),
         UNCHANGED <<turnState, gen, connection, outQueue, sender, counts, wire, page>>
  PROVE  OutputInv'
<1>1. PICK to \in {"idle", "ending"} : caller' = [caller EXCEPT ![c] = [Idle EXCEPT !.at = to]]
  BY DEF Returns
<1>2. connection' \in {"open", "closing", "closed"}
  BY DEF OutputInv, OutputTypeOK, CallersOK
<1> QED BY <1>1, <1>2, EndingKeepsInv DEF Returns

\* With the old turn out of the way the new one begins.
LEMMA BeginsKeepsInv ==
  ASSUME OutputInv, NEW c \in Askers, caller[c].starts, caller[c].at # "begin",
         activeTurn = 0, attached = 0, holder \in {c, "nobody"}, holder' = c, Begins(c),
         UNCHANGED <<playback, gen, connection, outQueue, sender, cancels, wire, page>>
  PROVE  OutputInv'
<1>0. OutputTypeOK /\ LockShape /\ TurnShape /\ CallShape /\ OutboxShape /\ CallersOK /\ FramesOK /\ NoFrameAfterTheEnd
  BY DEF OutputInv, OutputTypeOK
<1>1. /\ started' = started + 1 /\ activeTurn' = started' /\ attached' = 0
      /\ outbox' = Sending(c, "turn_started", started')
      /\ caller' = [caller EXCEPT ![c].at = "begin", ![c].turn = started']
  BY DEF Begins
<1>2. started \in Turns /\ started \in Nat /\ LastTurn \in Nat
  BY <1>0, OutputAssumption DEF OutputTypeOK, BoundsOK, Turns
<1> DEFINE atBegin == [caller[c] EXCEPT !.at = "begin"]
           new == [atBegin EXCEPT !.turn = started']
<1>3. atBegin \in CallRecord /\ atBegin.at = "begin"
  BY <1>0 DEF CallersOK, CallRecord
<1>4. caller' = [caller EXCEPT ![c] = new]
  BY <1>0, <1>1 DEF CallersOK
<1> HIDE DEF atBegin
<1>5. Starters' \subseteq Starters \ {c}
  <2>1. new.at = "begin"
    BY <1>3 DEF CallRecord
  <2> HIDE DEF new
  <2>2. caller'[c].at = "begin" /\ \A d \in Askers \ {c} : caller'[d] = caller[d]
    BY <1>0, <1>4, <2>1 DEF CallersOK
  <2> QED BY <2>2 DEF Starters
<1>6. started' + Cardinality(Starters') <= LastTurn /\ started' \in Turns /\ started' # 0
  <2>1. c \in Starters
    BY DEF Starters
  <2> QED BY <1>0, <1>1, <1>2, <1>5, <2>1, CountBegins
<1>7. new \in CallRecord /\ new.at = "begin" /\ new.turn = started'
  BY <1>3, <1>6 DEF CallRecord
<1> HIDE DEF new
<1>8. caller' \in [Askers -> CallRecord] /\ caller'[c] = new /\ \A d \in Askers \ {c} : caller'[d] = caller[d]
  BY <1>0, <1>4, <1>7 DEF CallersOK
<1>9. /\ outbox' \in [Waiters -> WaitRecord] /\ outbox'[c].kind = "turn_started" /\ outbox'[c].turn = started'
      /\ \A y \in Waiters \ {c} : outbox'[y] = outbox[y]
  BY <1>0, <1>1, <1>6, SendingIs, WaitersDiffer, Kinds
<1>10. OutputTypeOK'
  <2>1. TurnStateOK'
    BY <1>0, <1>1, <1>6 DEF OutputTypeOK, TurnStateOK, Turns
  <2>2. CallersOK' /\ FramesOK' /\ BoundsOK'
    BY <1>0, <1>6, <1>8, <1>9 DEF OutputTypeOK, FramesOK, CallersOK, BoundsOK
  <2> QED BY <1>0, <2>1, <2>2 DEF OutputTypeOK, TaskStepsOK, PageOK, page
<1>11. LockShape'
  BY <1>0, <1>6, <1>8, WaitersDiffer DEF LockShape
<1>12. \A t \in Replies : ~Streams(t) /\ (gen[t] # "none" => t # started')
  <2>1. \A t \in Replies : t # 0
    BY DEF Replies
  <2> QED BY <1>0, <1>1, <1>2, <2>1 DEF TurnShape, NoOrphanTask
<1>13. TurnShape'
  BY <1>0, <1>1, <1>2, <1>12 DEF TurnShape, NoOrphanTask, Streams, Replies
<1>14. CallShape'
  <2>1. gen[started'] = "none"
    BY <1>6, <1>12 DEF Replies, Turns
  <2>2. \A d \in Askers \ {c} : caller[d].at \notin Locking
    BY <1>0, WaitersDiffer DEF LockShape
  <2>3. \A d \in Askers : caller[d].turn <= started /\ caller[d].turn \in Nat
    BY <1>0, <1>2 DEF CallShape, CallersOK, CallRecord, Turns
  <2>4. \A d \in Askers \ {c} : caller'[d].turn <= started' /\ caller'[d].at \notin Locking
    BY <1>1, <1>2, <1>8, <2>2, <2>3
  <2> QED BY <1>1, <1>6, <1>7, <1>8, <1>2, <2>1, <2>4 DEF CallShape, Locking
<1>15. OutboxShape'
  <2>1. \A t \in Replies : outbox'[ByTurn(t)] = outbox[ByTurn(t)]
    BY <1>9, WaitersDiffer
  <2>2. \A d \in Askers \ {c} : outbox'[d] = outbox[d]
    BY <1>9, WaitersDiffer
  <2> QED BY <1>0, <1>7, <1>8, <1>9, <2>1, <2>2 DEF OutboxShape
<1>16. QueueShape'
  BY <1>1, QueueNoneCurrent
<1>17. ToldShape'
  BY <1>1, <1>2, ToldUndisturbed DEF page, Replies
<1>18. NoFrameAfterTheEnd'
  BY <1>0 DEF NoFrameAfterTheEnd, page
<1> QED BY <1>10, <1>11, <1>13, <1>14, <1>15, <1>16, <1>17, <1>18 DEF OutputInv

\* The lock is taken and the active turn, its task and what plays are taken for cancellation.
LEMMA TakesKeepsInv ==
  ASSUME OutputInv, NEW c \in Askers, caller[c].at = "lock", LockFree, holder' = c,
         activeTurn' = 0, attached' = 0, playback' = 0,
         caller' = [caller EXCEPT ![c].at = "reap", ![c].turn = activeTurn,
                                  ![c].play = playback, ![c].task = attached],
         IF attached # 0
           THEN /\ gen' = [gen EXCEPT ![attached] = "cancelled"]
                /\ outbox' = [outbox EXCEPT ![ByTurn(attached)] = Nothing]
           ELSE UNCHANGED <<gen, outbox>>,
         UNCHANGED <<started, connection, outQueue, sender, cancels, wire, page>>
  PROVE  OutputInv'
<1>0. OutputTypeOK /\ LockShape /\ TurnShape /\ CallShape /\ OutboxShape /\ CallersOK /\ FramesOK /\ NoFrameAfterTheEnd
  BY DEF OutputInv, OutputTypeOK
<1>1. /\ activeTurn \in Turns /\ attached \in Turns /\ playback \in Turns /\ started \in Turns /\ LastTurn \in Nat
      /\ gen \in [Replies -> DOMAIN Follow \cup LastFrames \cup {"none", "cancelled", "done"}]
  BY <1>0, OutputAssumption DEF OutputTypeOK, TurnStateOK, BoundsOK, TaskStepsOK
<1> DEFINE one == [caller[c] EXCEPT !.at = "reap"]
           two == [one EXCEPT !.turn = activeTurn]
           three == [two EXCEPT !.play = playback]
           new == [three EXCEPT !.task = attached]
<1>2. one \in CallRecord /\ one.at = "reap" /\ one.starts = caller[c].starts
  BY <1>0 DEF CallersOK, CallRecord
<1>3. caller' = [caller EXCEPT ![c] = new]
  BY <1>0 DEF CallersOK
<1> HIDE DEF one
<1>4. two \in CallRecord /\ two.at = "reap" /\ two.turn = activeTurn /\ two.starts = caller[c].starts
  BY <1>1, <1>2 DEF CallRecord
<1> HIDE DEF two
<1>5. three \in CallRecord /\ three.at = "reap" /\ three.turn = activeTurn /\ three.starts = caller[c].starts
  BY <1>1, <1>4 DEF CallRecord
<1> HIDE DEF three
<1>6. new \in CallRecord /\ new.at = "reap" /\ new.turn = activeTurn /\ new.starts = caller[c].starts
  BY <1>1, <1>5 DEF CallRecord
<1> HIDE DEF new
<1>7. caller' \in [Askers -> CallRecord] /\ caller'[c] = new /\ \A d \in Askers \ {c} : caller'[d] = caller[d]
  BY <1>0, <1>3, <1>6, CallChanges
<1>8. started' + Cardinality(Starters') <= LastTurn
  <2>1. Starters' \subseteq Starters
    BY <1>6, <1>7 DEF Starters
  <2> QED BY <1>0, <1>1, <2>1, CountKept
<1>9. attached # 0 => attached \in Replies /\ attached = activeTurn /\ attached <= started
  BY <1>0, <1>1 DEF TurnShape, Turns, Replies
<1>10. /\ outbox' \in [Waiters -> WaitRecord]
       /\ gen' \in [Replies -> DOMAIN Follow \cup LastFrames \cup {"none", "cancelled", "done"}]
       /\ \A t \in Replies : t # attached => gen'[t] = gen[t] /\ outbox'[ByTurn(t)] = outbox[ByTurn(t)]
       /\ attached # 0 => gen'[attached] = "cancelled" /\ outbox'[ByTurn(attached)].state = "no"
       /\ \A d \in Askers : outbox'[d] = outbox[d]
  <2>1. CASE attached = 0
    BY <1>0, <1>1, <2>1 DEF FramesOK
  <2>2. CASE attached # 0
    <3>1. /\ outbox' \in [Waiters -> WaitRecord] /\ outbox'[ByTurn(attached)].state = "no"
          /\ \A y \in Waiters \ {ByTurn(attached)} : outbox'[y] = outbox[y]
      BY <1>0, <1>9, <2>2, WaitsNoLonger, WaitersDiffer
    <3>2. /\ gen' \in [Replies -> DOMAIN Follow \cup LastFrames \cup {"none", "cancelled", "done"}]
          /\ gen'[attached] = "cancelled" /\ \A t \in Replies : t # attached => gen'[t] = gen[t]
      BY <1>1, <1>9, <2>2
    <3> QED BY <1>9, <2>2, <3>1, <3>2, WaitersDiffer
  <2> QED BY <2>1, <2>2
<1>11. OutputTypeOK'
  <2>1. TurnStateOK' /\ TaskStepsOK' /\ CallersOK' /\ FramesOK'
    BY <1>0, <1>1, <1>7, <1>10 DEF TurnStateOK, TaskStepsOK, CallersOK, FramesOK, Turns
  <2> QED BY <1>0, <2>1 DEF OutputTypeOK, BoundsOK, PageOK, page
<1>12. holder = "nobody" /\ \A d \in Askers : caller[d].at \notin Locking
  BY <1>0, WaitersDiffer DEF LockFree, LockShape
<1>13. LockShape'
  BY <1>7, <1>8, <1>12 DEF LockShape
<1>14. TurnShape'
  <2>1. \A t \in Replies : ~Streams(t)'
    <3> TAKE t \in Replies
    <3>1. CASE t = attached
      BY <1>9, <1>10, <3>1, Kinds DEF Streams, LastFrames, Replies
    <3>2. CASE t # attached
      BY <1>0, <1>10, <3>2 DEF Streams, TurnShape, NoOrphanTask
    <3> QED BY <3>1, <3>2
  <2>2. \A t \in Replies : gen'[t] # "none" => t <= started
    BY <1>0, <1>9, <1>10 DEF TurnShape
  <2> QED BY <1>1, <2>1, <2>2 DEF TurnShape, NoOrphanTask, Turns
<1>15. CallShape'
  <2>1. \A d \in Askers \ {c} : caller'[d].at \notin Locking /\ caller'[d].turn <= started
    BY <1>0, <1>7, <1>12 DEF CallShape
  <2>2. caller'[c].at = "reap" /\ caller'[c].turn <= started
    BY <1>0, <1>6, <1>7 DEF TurnShape
  <2> QED BY <2>1, <2>2 DEF CallShape, Locking
<1>16. OutboxShape'
  <2>1. \A t \in Replies : outbox'[ByTurn(t)].state # "no" =>
           gen'[t] = gen[t] /\ outbox'[ByTurn(t)] = outbox[ByTurn(t)]
    BY <1>10, <1>9
  <2>2. \A d \in Askers : outbox'[d].state # "no" => d # c /\ outbox'[d] = outbox[d] /\ caller'[d] = caller[d]
    BY <1>0, <1>7, <1>10 DEF OutboxShape
  <2>3. \A t \in Replies : outbox'[ByTurn(t)].state # "no" =>
          /\ outbox'[ByTurn(t)].turn = t
          /\ \/ gen'[t] = "unwinding" /\ outbox'[ByTurn(t)].kind = "turn_failed"
             \/ gen'[t] \in FrameKinds \ {"none"} /\ outbox'[ByTurn(t)].kind = gen'[t]
    BY <1>0, <2>1 DEF OutboxShape
  <2>4. \A d \in Askers : outbox'[d].state # "no" =>
          \/ caller'[d].at = "begin" /\ outbox'[d].kind = "turn_started" /\ outbox'[d].turn = caller'[d].turn
          \/ caller'[d].at = "told" /\ outbox'[d].kind = "turn_cancelled" /\ outbox'[d].turn = caller'[d].turn
          \/ caller'[d].at = "stop" /\ outbox'[d].kind = "audio_stop"
          \/ caller'[d].at = "end" /\ outbox'[d].kind = "end"
    BY <1>0, <2>2, AskersWaitAsBefore
  <2> QED BY <2>3, <2>4 DEF OutboxShape
<1>17. QueueShape'
  BY QueueNoneCurrent
<1>18. ToldShape'
  BY ToldUndisturbed DEF page, Replies
<1>19. NoFrameAfterTheEnd'
  BY <1>0 DEF NoFrameAfterTheEnd, page
<1> QED BY <1>11, <1>13, <1>14, <1>15, <1>16, <1>17, <1>18, <1>19 DEF OutputInv

\* The lock is taken: the call returns, takes what is active, or begins its turn at once.
LEMMA AcquireKeepsInv ==
  ASSUME OutputInv, NEW c \in Askers, Acquire(c)
  PROVE  OutputInv'
<1>0. OutputTypeOK /\ LockShape /\ TurnShape /\ OutboxShape
  BY DEF OutputInv
<1>1. caller[c].at = "lock" /\ LockFree /\ UNCHANGED <<connection, outQueue, sender, cancels, wire, page>>
  BY DEF Acquire
<1>2. outbox[c].state = "no"
  BY <1>0, <1>1 DEF OutboxShape
<1>3. CASE Returns(c) /\ UNCHANGED <<turnState, gen, outbox, started>>
  BY <1>1, <1>2, <1>3, ReturnsKeepsInv DEF counts
<1>4. CASE ~(caller[c].starts /\ connection # "open") /\ TakesPlayback
  BY <1>1, <1>4, TakesKeepsInv DEF Acquire
<1>5. CASE ~TakesPlayback /\ UNCHANGED <<playback, gen>> /\ caller[c].starts /\ Begins(c) /\ holder' = c
  <2>1. activeTurn = 0 /\ attached = 0
    BY <1>0, <1>5 DEF TakesPlayback, TurnShape
  <2> QED BY <1>1, <1>5, <2>1, BeginsKeepsInv DEF LockFree
<1>6. CASE ~TakesPlayback /\ UNCHANGED <<playback, gen>> /\ Returns(c)
           /\ UNCHANGED <<activeTurn, attached, outbox, started>>
  BY <1>1, <1>2, <1>6, ReturnsKeepsInv DEF counts, turnState
<1> QED BY <1>3, <1>4, <1>5, <1>6 DEF Acquire

\* A call goes on to its new turn, or returns.
LEMMA ContinuesKeepsInv ==
  ASSUME OutputInv, NEW c \in Askers, caller[c].at \in {"reap", "told", "stop"}, Continues(c),
         UNCHANGED <<playback, gen, connection, outQueue, sender, cancels, wire, page>>
  PROVE  OutputInv'
<1>0. holder = c /\ activeTurn = 0 /\ attached = 0
  BY DEF OutputInv, LockShape, CallShape, Locking
<1>1. CASE caller[c].starts /\ Begins(c) /\ UNCHANGED holder
  BY <1>0, <1>1, BeginsKeepsInv
<1>2. CASE /\ outbox' = [outbox EXCEPT ![c] = Nothing]
           /\ Returns(c) /\ UNCHANGED <<activeTurn, attached, started>>
  BY <1>2, ReturnsKeepsInv DEF turnState, counts
<1> QED BY <1>1, <1>2 DEF Continues

\* A call tells the page of the turn it has cancelled: turn_cancelled, then audio_stop.
LEMMA TellsKeepsInv ==
  ASSUME OutputInv, NEW c \in Askers, caller[c].at \in {"reap", "told"},
         NEW to \in {"told", "stop"}, NEW kind \in FrameKinds, NEW t \in Turns,
         outbox' = Sending(c, kind, t), Moves(c, to),
         to = "told" => kind = "turn_cancelled" /\ t = caller[c].turn /\ t # 0,
         to = "stop" => kind = "audio_stop",
         UNCHANGED <<turnState, gen, holder, connection, outQueue, sender, counts, wire, page>>
  PROVE  OutputInv'
<1>0. OutputTypeOK /\ LockShape /\ CallShape /\ CallersOK /\ FramesOK
  BY DEF OutputInv, OutputTypeOK
<1>1. holder = c /\ activeTurn = 0 /\ attached = 0 /\ c \in Waiters
  BY <1>0, WaitersDiffer DEF LockShape, CallShape, Locking
<1>2. /\ caller' \in [Askers -> CallRecord] /\ caller'[c].at = to /\ caller'[c].turn = caller[c].turn
      /\ \A d \in Askers \ {c} : caller'[d] = caller[d]
      /\ Starters' \subseteq Starters
  BY <1>0, MovesTo DEF Places
<1>3. /\ outbox' \in [Waiters -> WaitRecord]
      /\ outbox'[c].kind = kind /\ outbox'[c].turn = t
      /\ \A y \in Waiters \ {c} : outbox'[y] = outbox[y]
  BY <1>0, <1>1, SendingIs
<1>4. /\ started \in Turns /\ started' = started /\ cancels' \in 0 .. LastCancel /\ caller[c].turn <= started
      /\ holder' \in Askers \cup {"nobody"} /\ connection' \in {"open", "closing", "closed"}
  BY <1>0 DEF OutputTypeOK, BoundsOK, CallersOK, CallShape, counts
<1>5. started' + Cardinality(Starters') <= LastTurn
  BY <1>0, <1>2, <1>4, CountKept
<1> QED BY <1>1, <1>2, <1>3, <1>4, <1>5, CallKeepsInv

\* The cancelled task has ended.
LEMMA ReapedKeepsInv ==
  ASSUME OutputInv, NEW c \in Askers, Reaped(c)
  PROVE  OutputInv'
<1>0. /\ caller[c].at = "reap" /\ UNCHANGED <<playback, gen, connection, outQueue, sender, cancels, wire, page>>
  BY DEF Reaped
<1>1. caller[c] \in CallRecord
  BY DEF OutputInv, OutputTypeOK, CallersOK
<1>2. caller[c].turn \in Turns /\ caller[c].play \in Turns
  BY <1>1 DEF CallRecord
<1>3. CASE connection # "open"
  BY <1>0, <1>3, ContinuesKeepsInv DEF Reaped
<1>4. CASE connection = "open" /\ caller[c].turn # 0
  <2>1. outbox' = Sending(c, "turn_cancelled", caller[c].turn) /\ Moves(c, "told")
        /\ UNCHANGED <<activeTurn, attached, started, holder>>
    BY <1>4 DEF Reaped
  <2> QED BY <1>0, <1>2, <1>4, <2>1, TellsKeepsInv, Kinds DEF turnState, counts
<1>5. CASE connection = "open" /\ caller[c].turn = 0
  <2>1. outbox' = Sending(c, "audio_stop", caller[c].play) /\ Moves(c, "stop")
        /\ UNCHANGED <<activeTurn, attached, started, holder>>
    BY <1>5 DEF Reaped
  <2> QED BY <1>0, <1>2, <2>1, TellsKeepsInv, Kinds DEF turnState, counts
<1> QED BY <1>3, <1>4, <1>5

\* turn_cancelled is out.
LEMMA ToldKeepsInv ==
  ASSUME OutputInv, NEW c \in Askers, Told(c)
  PROVE  OutputInv'
<1>1. caller[c] \in CallRecord
  BY DEF OutputInv, OutputTypeOK, CallersOK
<1>2. PICK t \in Turns : outbox' = Sending(c, "audio_stop", t)
  BY <1>1 DEF Told, CallRecord
<1>3. /\ caller[c].at = "told" /\ Moves(c, "stop")
      /\ UNCHANGED <<turnState, gen, holder, connection, outQueue, sender, counts, wire, page>>
  BY DEF Told
<1> QED BY <1>2, <1>3, TellsKeepsInv, Kinds

\* attach_task: the turn that was announced is the active one, and its task streams.
LEMMA BegunKeepsInv ==
  ASSUME OutputInv, NEW c \in Askers, Begun(c)
  PROVE  OutputInv'
<1>0. OutputTypeOK /\ LockShape /\ TurnShape /\ CallShape /\ OutboxShape /\ CallersOK /\ FramesOK /\ NoFrameAfterTheEnd
  BY DEF OutputInv, OutputTypeOK
<1> DEFINE t == caller[c].turn
<1>1. /\ caller[c].at = "begin" /\ outbox[c].state = "sent" /\ outbox' = [outbox EXCEPT ![c] = Nothing]
      /\ gen' = [gen EXCEPT ![t] = IF activeTurn = t THEN "ready" ELSE "cancelled"]
      /\ attached' = IF activeTurn = t THEN t ELSE attached
      /\ Returns(c)
      /\ UNCHANGED <<activeTurn, playback, connection, outQueue, sender, counts, wire, page>>
  BY DEF Begun, Sent
<1>2. t # 0 /\ t = started /\ activeTurn = t /\ attached = 0 /\ gen[t] = "none" /\ holder = c
  BY <1>0, <1>1 DEF CallShape, LockShape, Locking
<1>3. /\ started \in Turns /\ LastTurn \in Nat /\ t \in Replies
      /\ gen \in [Replies -> DOMAIN Follow \cup LastFrames \cup {"none", "cancelled", "done"}]
  BY <1>0, <1>2, OutputAssumption DEF OutputTypeOK, BoundsOK, TaskStepsOK, Turns, Replies
<1> HIDE DEF t
<1>4. /\ gen' \in [Replies -> DOMAIN Follow \cup LastFrames \cup {"none", "cancelled", "done"}]
      /\ gen'[t] = "ready" /\ attached' = t /\ \A u \in Replies \ {t} : gen'[u] = gen[u]
  BY <1>1, <1>2, <1>3, Kinds
<1>5. PICK to \in {"idle", "ending"} : caller' = [caller EXCEPT ![c] = [Idle EXCEPT !.at = to]]
  BY <1>1 DEF Returns
<1>6. /\ caller' \in [Askers -> CallRecord] /\ caller'[c].at = to /\ caller'[c].turn = 0
      /\ \A d \in Askers \ {c} : caller'[d] = caller[d]
      /\ Starters' \subseteq Starters
  BY <1>0, <1>5, CallEnds DEF Places, Locking
<1>7. /\ outbox' \in [Waiters -> WaitRecord] /\ outbox'[c].state = "no"
      /\ \A y \in Waiters \ {c} : outbox'[y] = outbox[y]
  BY <1>0, <1>1, WaitsNoLonger, WaitersDiffer
<1>8. holder' = "nobody" /\ started' = started
  BY <1>1, <1>2 DEF Returns, counts
<1>9. OutputTypeOK'
  <2>1. TurnStateOK' /\ TaskStepsOK' /\ CallersOK' /\ FramesOK'
    BY <1>0, <1>1, <1>2, <1>3, <1>4, <1>6, <1>7, <1>8 DEF OutputTypeOK, TurnStateOK, TaskStepsOK, CallersOK, FramesOK
  <2> QED BY <1>0, <1>1, <2>1 DEF OutputTypeOK, BoundsOK, PageOK, page, counts
<1>10. \A d \in Askers : caller'[d].at \notin Locking
  <2>1. \A d \in Askers \ {c} : caller[d].at \notin Locking
    BY <1>0, <1>2 DEF LockShape
  <2> QED BY <1>6, <2>1 DEF Locking
<1>11. LockShape'
  <2>1. started' + Cardinality(Starters') <= LastTurn
    BY <1>0, <1>3, <1>6, <1>8, CountKept
  <2> QED BY <1>10, <2>1 DEF LockShape
<1>12. TurnShape'
  <2>1. \A u \in Replies \ {t} : ~Streams(u)'
    BY <1>0, <1>2, <1>4 DEF TurnShape, NoOrphanTask, Streams, Replies
  <2>2. \A u \in Replies : gen'[u] # "none" => u <= started
    BY <1>0, <1>2, <1>3, <1>4 DEF TurnShape, Turns
  <2> QED BY <1>0, <1>1, <1>2, <1>4, <1>8, <2>1, <2>2 DEF TurnShape, NoOrphanTask
<1>13. CallShape'
  <2>1. \A d \in Askers : caller'[d].turn <= started
    BY <1>0, <1>3, <1>6 DEF CallShape, Turns
  <2> QED BY <1>8, <1>10, <2>1 DEF CallShape, Locking
<1>14. OutboxShape'
  <2>1. \A u \in Replies : outbox'[ByTurn(u)] = outbox[ByTurn(u)]
    BY <1>7, WaitersDiffer
  <2>2. \A d \in Askers : outbox'[d].state # "no" => d # c /\ outbox'[d] = outbox[d] /\ caller'[d] = caller[d]
    BY <1>6, <1>7, WaitersDiffer
  <2>3. outbox[ByTurn(t)].state = "no"
    BY <1>0, <1>2, <1>3 DEF OutboxShape
  <2> QED BY <1>0, <1>4, <2>1, <2>2, <2>3 DEF OutboxShape
<1>15. QueueShape'
  BY <1>1, <1>7, QueueUndisturbed, WaitersDiffer DEF counts
<1>16. ToldShape'
  <2>1. \A u \in Replies : u = activeTurn' => u = t
    BY <1>1, <1>2
  <2>2. gen[t] \notin LastFrames
    BY <1>2 DEF LastFrames
  <2> QED BY <1>1, <1>2, <1>8, <2>1, <2>2, ToldUndisturbed DEF page
<1>17. NoFrameAfterTheEnd'
  BY <1>0, <1>1 DEF NoFrameAfterTheEnd, page
<1> QED BY <1>9, <1>11, <1>12, <1>13, <1>14, <1>15, <1>16, <1>17 DEF OutputInv

\* A call that had begun a turn ends before its task is attached: the turn is cleared.
LEMMA AbandonedKeepsInv ==
  ASSUME OutputInv, NEW c \in Askers, caller[c].at = "begin", Abandons(c),
         NEW to \in {"idle", "closing"}, caller' = [caller EXCEPT ![c] = [Idle EXCEPT !.at = to]],
         connection' \in {"open", "closing", "closed"}
  PROVE  OutputInv'
<1>0. OutputTypeOK /\ LockShape /\ TurnShape /\ CallShape /\ OutboxShape /\ CallersOK /\ FramesOK /\ NoFrameAfterTheEnd
  BY DEF OutputInv, OutputTypeOK
<1>1. /\ outbox' = [outbox EXCEPT ![c] = Nothing] /\ ClearActive(caller[c].turn)
      /\ holder' = IF holder = c THEN "nobody" ELSE holder
      /\ UNCHANGED <<playback, gen, outQueue, sender, counts, wire, page>>
  BY DEF Abandons
<1>2. caller[c].turn = activeTurn /\ attached = 0 /\ holder = c
  BY <1>0 DEF CallShape, LockShape, Locking
<1>3. activeTurn' = 0 /\ attached' = 0 /\ holder' = "nobody" /\ started' = started
  BY <1>1, <1>2 DEF ClearActive, counts
<1>4. /\ caller' \in [Askers -> CallRecord] /\ caller'[c].at = to /\ caller'[c].turn = 0
      /\ \A d \in Askers \ {c} : caller'[d] = caller[d]
      /\ Starters' \subseteq Starters
  BY <1>0, CallEnds DEF Places, Locking
<1>5. /\ outbox' \in [Waiters -> WaitRecord] /\ outbox'[c].state = "no"
      /\ \A y \in Waiters \ {c} : outbox'[y] = outbox[y]
  BY <1>0, <1>1, WaitsNoLonger, WaitersDiffer
<1>6. started \in Turns /\ 0 <= started /\ 0 \in Turns
  BY <1>0, OutputAssumption DEF OutputTypeOK, BoundsOK, Turns
<1>7. OutputTypeOK'
  <2>1. TurnStateOK' /\ TaskStepsOK' /\ CallersOK' /\ FramesOK'
    BY <1>0, <1>1, <1>3, <1>4, <1>5, <1>6 DEF OutputTypeOK, TurnStateOK, TaskStepsOK, CallersOK, FramesOK
  <2> QED BY <1>0, <1>1, <2>1 DEF OutputTypeOK, BoundsOK, PageOK, page, counts
<1>8. \A d \in Askers : caller'[d].at \notin Locking
  <2>1. \A d \in Askers \ {c} : caller[d].at \notin Locking
    BY <1>0, <1>2 DEF LockShape
  <2> QED BY <1>4, <2>1 DEF Locking
<1>9. LockShape'
  <2>1. started' + Cardinality(Starters') <= LastTurn
    BY <1>0, <1>3, <1>4, <1>6, CountKept
  <2> QED BY <1>8, <2>1 DEF LockShape
<1>10. TurnShape'
  <2>1. \A u \in Replies : ~Streams(u)'
    BY <1>0, <1>1, <1>2 DEF TurnShape, NoOrphanTask, Streams, Replies
  <2> QED BY <1>0, <1>1, <1>3, <1>6, <2>1 DEF TurnShape, NoOrphanTask
<1>11. CallShape'
  <2>1. \A d \in Askers : caller'[d].turn <= started
    BY <1>0, <1>4, <1>6 DEF CallShape
  <2> QED BY <1>3, <1>8, <2>1 DEF CallShape, Locking
<1>12. OutboxShape'
  <2>1. \A u \in Replies : outbox'[ByTurn(u)] = outbox[ByTurn(u)]
    BY <1>5, WaitersDiffer
  <2>2. \A d \in Askers : outbox'[d].state # "no" => outbox'[d] = outbox[d] /\ caller'[d] = caller[d]
    BY <1>4, <1>5, WaitersDiffer
  <2> QED BY <1>0, <1>1, <2>1, <2>2, AskersWaitAsBefore DEF OutboxShape
<1>13. QueueShape'
  BY <1>1, <1>3, QueueNoneCurrent
<1>14. ToldShape'
  BY <1>1, <1>3, ToldUndisturbed DEF page, Replies
<1>15. NoFrameAfterTheEnd'
  BY <1>0, <1>1 DEF NoFrameAfterTheEnd, page
<1> QED BY <1>7, <1>9, <1>10, <1>11, <1>12, <1>13, <1>14, <1>15 DEF OutputInv

\* A call ends where it is, by an exception or because its task is cancelled.
LEMMA AbandonsKeepsInv ==
  ASSUME OutputInv, NEW c \in Askers, Abandons(c),
         NEW to \in {"idle", "closing"}, caller' = [caller EXCEPT ![c] = [Idle EXCEPT !.at = to]],
         connection' \in {"open", "closing", "closed"}
  PROVE  OutputInv'
<1>1. CASE caller[c].at = "begin"
  BY <1>1, AbandonedKeepsInv
<1>2. CASE caller[c].at # "begin"
  <2>1. /\ outbox' = [outbox EXCEPT ![c] = Nothing]
        /\ holder' = IF holder = c THEN "nobody" ELSE holder
        /\ UNCHANGED <<turnState, gen, outQueue, sender, counts, wire, page>>
    BY <1>2 DEF Abandons, turnState
  <2> QED BY <1>2, <2>1, EndingKeepsInv
<1> QED BY <1>1, <1>2

\* A send raises, or a helper is cancelled.
LEMMA FailedCallKeepsInv ==
  ASSUME OutputInv, NEW c \in Askers, SendRaises(c) \/ HelperAborted(c)
  PROVE  OutputInv'
<1>1. Idle = [Idle EXCEPT !.at = "idle"]
  BY DEF Idle
<1>2. Abandons(c)
  BY DEF SendRaises, HelperAborted
<1>3. connection' \in {"open", "closing", "closed"}
  BY DEF OutputInv, OutputTypeOK, CallersOK, SendRaises, HelperAborted
<1>4. \E to \in {"idle", "closing"} : caller' = [caller EXCEPT ![c] = [Idle EXCEPT !.at = to]]
  <2>1. CASE caller' = [caller EXCEPT ![c] = Idle]
    BY <1>1, <2>1
  <2>2. CASE caller' = [caller EXCEPT ![c] = [Idle EXCEPT !.at = "closing"]]
    BY <2>2
  <2> QED BY <2>1, <2>2 DEF SendRaises, HelperAborted
<1> QED BY <1>2, <1>3, <1>4, AbandonsKeepsInv

(***************************************************************************)
(* The receive loop closes the connection.                                 *)
(***************************************************************************)
\* The steps of close() and the one that leads to it.
LEMMA ClosingKeepsInv ==
  ASSUME OutputInv, LoopEnds \/ CloseCancels \/ CloseSender \/ Closed
  PROVE  OutputInv'
<1>0. OutputTypeOK /\ LockShape /\ CallShape /\ OutboxShape /\ CallersOK /\ FramesOK
  BY DEF OutputInv, OutputTypeOK
<1>1. Loop \in Askers /\ Loop \in Waiters
  BY WaitersDiffer DEF Askers
<1>2. PICK to \in {"closing", "lock", "end", "closed"} : Moves(Loop, to)
  BY DEF LoopEnds, CloseCancels, CloseSender, Closed
<1>3. /\ caller[Loop].at \in {"idle", "closing", "ending", "end"}
      /\ UNCHANGED <<turnState, gen, holder, outQueue, sender, counts, wire, page>>
  BY DEF LoopEnds, CloseCancels, CloseSender, Closed, sending
<1>4. /\ caller' \in [Askers -> CallRecord] /\ caller'[Loop].at = to /\ caller'[Loop].turn = caller[Loop].turn
      /\ \A d \in Askers \ {Loop} : caller'[d] = caller[d]
      /\ Starters' \subseteq Starters
  BY <1>0, <1>1, <1>2, <1>3, MovesTo DEF Places
<1>5. /\ outbox' \in [Waiters -> WaitRecord] /\ \A y \in Waiters \ {Loop} : outbox'[y] = outbox[y]
      /\ outbox'[Loop].state # "no" => caller'[Loop].at = "end" /\ outbox'[Loop].kind = "end"
  <2>1. CASE (LoopEnds \/ CloseCancels) /\ UNCHANGED outbox
    BY <1>0, <1>3, <2>1 DEF FramesOK, OutboxShape, LoopEnds, CloseCancels, Askers
  <2>2. CASE CloseSender
    <3>1. outbox' = Sending(Loop, "end", 0) /\ 0 \in Turns /\ "end" \in FrameKinds
      BY <2>2, Kinds, OutputAssumption DEF CloseSender, Turns
    <3>2. caller'[Loop].at = "end"
      BY <1>0, <1>1, <2>2, MovesTo DEF CloseSender, Places
    <3> QED BY <1>0, <1>1, <3>1, <3>2, SendingIs
  <2>3. CASE Closed
    BY <1>0, <1>1, <2>3, WaitsNoLonger DEF Closed
  <2> QED BY <2>1, <2>2, <2>3 DEF LoopEnds, CloseCancels, sending
<1>6. /\ started \in Turns /\ started' = started /\ cancels' \in 0 .. LastCancel /\ caller[Loop].turn <= started
      /\ holder' \in Askers \cup {"nobody"}
  BY <1>0, <1>1, <1>3 DEF OutputTypeOK, BoundsOK, CallersOK, CallShape, counts
<1>7. connection' \in {"open", "closing", "closed"}
  BY <1>0 DEF CallersOK, LoopEnds, CloseCancels, CloseSender, Closed
<1>8. started' + Cardinality(Starters') <= LastTurn
  BY <1>0, <1>4, <1>6, CountKept
<1>9. to \notin Locking /\ to # "begin" /\ to # "told"
  BY DEF Locking
<1> QED BY <1>1, <1>3, <1>4, <1>5, <1>6, <1>7, <1>8, <1>9, CallKeepsInv

(***************************************************************************)
(* The page and its reports.                                               *)
(***************************************************************************)
\* What a frame makes of the player.
LEMMA PlayerIs ==
  ASSUME NEW f \in WireFrame, player \in [stream : Turns, state : {"off", "on", "ending", "stopped"}],
         player.state # "off" => player.stream # 0, f.kind = "audio_start" => f.turn # 0
  PROVE  /\ PlayerAfter(f) \in [stream : Turns, state : {"off", "on", "ending", "stopped"}]
         /\ PlayerAfter(f).state # "off" => PlayerAfter(f).stream # 0
<1>0. NoStream \in [stream : Turns, state : {"off", "on", "ending", "stopped"}] /\ NoStream.state = "off"
  BY OutputAssumption DEF NoStream, Turns
<1>1. CASE f.kind = "audio_start"
  <2>1. PlayerAfter(f) = [stream |-> f.turn, state |-> "on"]
    BY <1>1 DEF PlayerAfter
  <2> QED BY <1>1, <2>1 DEF WireFrame
<1>2. CASE f.kind = "audio_end"
  <2>1. PlayerAfter(f) \in {[player EXCEPT !.state = "ending"], NoStream, player}
        /\ (PlayerAfter(f) = [player EXCEPT !.state = "ending"] => player.state = "on" \/ PlayerAfter(f) = player)
    <3>1. CASE player = [stream |-> f.turn, state |-> "on"]
      BY <1>2, <3>1 DEF PlayerAfter
    <3>2. CASE player = [stream |-> f.turn, state |-> "stopped"]
      BY <1>2, <3>2 DEF PlayerAfter, NoStream
    <3>3. CASE player \notin {[stream |-> f.turn, state |-> "on"], [stream |-> f.turn, state |-> "stopped"]}
      BY <1>2, <3>3 DEF PlayerAfter
    <3> QED BY <3>1, <3>2, <3>3
  <2> QED BY <1>0, <2>1
<1>3. CASE f.kind \in {"audio_failed", "turn_failed"}
  <2>1. PlayerAfter(f) = NoStream
    BY <1>3 DEF PlayerAfter
  <2> QED BY <1>0, <2>1
<1>4. CASE f.kind = "audio_stop"
  <2>1. PlayerAfter(f) = player \/ (player # NoStream /\ PlayerAfter(f) = [player EXCEPT !.state = "stopped"])
    BY <1>4 DEF PlayerAfter
  <2> QED BY <1>0, <2>1 DEF NoStream
<1>5. CASE f.kind \notin {"audio_start", "audio_end", "audio_failed", "turn_failed", "audio_stop"}
  <2>1. PlayerAfter(f) = player
    BY <1>5 DEF PlayerAfter
  <2> QED BY <2>1
<1> QED BY <1>1, <1>2, <1>3, <1>4, <1>5

\* The steps of the page leave the connection alone.
LEMMA PageLeaves ==
  ASSUME OutputInv, UNCHANGED <<turnState, gen, caller, holder, connection, sending, counts>>
  PROVE  /\ TurnStateOK' /\ TaskStepsOK' /\ CallersOK' /\ BoundsOK'
         /\ LockShape' /\ TurnShape' /\ CallShape' /\ OutboxShape' /\ QueueShape'
<1>0. OutputTypeOK /\ LockShape /\ TurnShape /\ CallShape /\ OutboxShape /\ QueueShape
  BY DEF OutputInv
<1>1. TurnStateOK' /\ TaskStepsOK' /\ CallersOK' /\ BoundsOK'
  BY <1>0 DEF OutputTypeOK, TurnStateOK, TaskStepsOK, CallersOK, BoundsOK, turnState, counts
<1>2. LockShape' /\ TurnShape' /\ CallShape'
  BY <1>0 DEF LockShape, Starters, TurnShape, NoOrphanTask, Streams, CallShape, turnState, counts
<1>3. OutboxShape'
  BY <1>0 DEF OutboxShape, sending
<1>4. QueueShape'
  <2>1. UNCHANGED <<outQueue, outbox, activeTurn, started>>
    BY DEF sending, turnState, counts
  <2> QED BY <1>0, <2>1, QueueShapeNext DEF QueueShape, Waits, WillWait, OfThisTurn, WillBeCurrent
<1> QED BY <1>1, <1>2, <1>3, <1>4

\* The page reads a frame.
LEMMA PageReadsKeepsInv ==
  ASSUME OutputInv, PageReads
  PROVE  OutputInv'
<1>0. OutputTypeOK /\ ToldShape /\ NoFrameAfterTheEnd /\ FramesOK /\ PageOK
  BY DEF OutputInv, OutputTypeOK
<1> DEFINE f == Head(wire)
<1>1. /\ wire # <<>> /\ wire' = Tail(wire) /\ player' = PlayerAfter(f) /\ over' = over \cup EndsTurns(f)
      /\ generating' \in {f.turn, 0, generating} /\ held' \in {f.turn, 0, held}
      /\ UNCHANGED <<turnState, gen, caller, holder, connection, sending, counts, reports>>
  BY DEF PageReads
<1>2. wire \in Seq(WireFrame) /\ Len(wire) <= MaxWire
  BY <1>0 DEF FramesOK
<1>3. /\ wire' \in Seq(WireFrame) /\ f \in WireFrame /\ f = wire[1] /\ 1 \in DOMAIN wire /\ DOMAIN wire = 1 .. Len(wire)
      /\ Len(wire) \in Nat /\ Len(wire') = Len(wire) - 1 /\ DOMAIN wire' = 1 .. Len(wire) - 1
      /\ \A i \in DOMAIN wire' : wire'[i] = wire[i + 1] /\ i + 1 \in DOMAIN wire
  BY <1>1, <1>2, QueueShrinks
<1> HIDE DEF f
<1>4. /\ TurnStateOK' /\ TaskStepsOK' /\ CallersOK' /\ BoundsOK'
      /\ LockShape' /\ TurnShape' /\ CallShape' /\ OutboxShape' /\ QueueShape'
  BY <1>1, PageLeaves
<1>5. /\ player' \in [stream : Turns, state : {"off", "on", "ending", "stopped"}]
      /\ player'.state # "off" => player'.stream # 0
  <2>1. f.kind = "audio_start" => f.turn # 0
    BY <1>0, <1>3 DEF ToldShape, Guarded
  <2> QED BY <1>0, <1>1, <1>3, <2>1, PlayerIs DEF ToldShape, PageOK
<1>6. EndsTurns(f) \subseteq Replies /\ over' \subseteq Replies
  BY <1>0, <1>1, <1>3 DEF ToldShape, PageOK
<1>7. generating' \in Turns /\ held' \in Turns
  BY <1>0, <1>1, <1>3, OutputAssumption DEF PageOK, WireFrame, Turns
<1>8. OutputTypeOK'
  <2>1. PageOK'
    BY <1>0, <1>1, <1>5, <1>6, <1>7 DEF PageOK
  <2>2. FramesOK'
    BY <1>0, <1>1, <1>2, <1>3, OutputAssumption DEF FramesOK, sending
  <2> QED BY <1>4, <2>1, <2>2 DEF OutputTypeOK
<1>9. over' \cup UNION {EndsTurns(wire'[i]) : i \in DOMAIN wire'}
        \subseteq over \cup UNION {EndsTurns(wire[i]) : i \in DOMAIN wire}
  BY <1>1, <1>3
<1>10. ToldShape'
  <2>1. \A i \in DOMAIN wire' : Guarded(wire'[i]) => wire'[i].turn # 0
    BY <1>0, <1>3 DEF ToldShape
  <2>2. \A t \in over' \cup UNION {EndsTurns(wire'[i]) : i \in DOMAIN wire'} :
          /\ t \in Replies /\ t <= started
          /\ t = activeTurn => gen[t] \in LastFrames /\ outbox[ByTurn(t)].state = "sent"
    BY <1>0, <1>9 DEF ToldShape
  <2> QED BY <1>1, <1>5, <2>1, <2>2 DEF ToldShape, turnState, counts, sending, Guarded, EndsTurns, Finals
<1>11. NoFrameAfterTheEnd'
  <2> SUFFICES ASSUME NEW j \in DOMAIN wire', Guarded(wire'[j]), wire'[j].kind # "turn_started"
               PROVE  wire'[j].turn \notin over' \cup UNION {EndsTurns(wire'[i]) : i \in 1 .. j - 1}
    BY DEF NoFrameAfterTheEnd, Guarded, EndsTurns, Finals
  <2>1. wire[j + 1].turn \notin over \cup UNION {EndsTurns(wire[i]) : i \in 1 .. (j + 1) - 1}
    BY <1>0, <1>3 DEF NoFrameAfterTheEnd
  <2>2. EndsTurns(f) \subseteq UNION {EndsTurns(wire[i]) : i \in 1 .. (j + 1) - 1}
    BY <1>3
  <2>3. \A i \in 1 .. j - 1 : wire'[i] = wire[i + 1] /\ i + 1 \in 1 .. (j + 1) - 1
    BY <1>3
  <2> QED BY <1>1, <1>3, <2>1, <2>2, <2>3
<1> QED BY <1>4, <1>8, <1>10, <1>11 DEF OutputInv

\* The user silences the page, the player has played everything, its report is heard.
LEMMA PageKeepsInv ==
  ASSUME OutputInv, UserStops \/ PlayerDrains \/ \E t \in Replies : LoopHears(t)
  PROVE  OutputInv'
<1>0. /\ OutputTypeOK /\ LockShape /\ TurnShape /\ CallShape /\ OutboxShape /\ QueueShape
      /\ ToldShape /\ NoFrameAfterTheEnd /\ FramesOK /\ PageOK
  BY DEF OutputInv, OutputTypeOK
<1>1. UNCHANGED <<activeTurn, attached, gen, caller, holder, connection, sending, counts, wire, over, generating, held>>
  BY DEF UserStops, PlayerDrains, LoopHears, turnState
<1>2. /\ player' \in [stream : Turns, state : {"off", "on", "ending", "stopped"}]
      /\ player'.state # "off" => player'.stream # 0
      /\ reports' \subseteq Replies
  <2>1. CASE UserStops
    BY <1>0, <2>1 DEF UserStops, Audible, PageOK, ToldShape
  <2>2. CASE PlayerDrains
    <3>1. player.stream \in Replies
      BY <1>0, <2>2, OutputAssumption DEF PlayerDrains, PageOK, ToldShape, Turns, Replies
    <3>2. NoStream \in [stream : Turns, state : {"off", "on", "ending", "stopped"}] /\ NoStream.state = "off"
      BY OutputAssumption DEF NoStream, Turns
    <3> QED BY <1>0, <2>2, <3>1, <3>2 DEF PlayerDrains, PageOK
  <2>3. CASE \E t \in Replies : LoopHears(t)
    BY <1>0, <2>3 DEF LoopHears, PageOK, ToldShape
  <2> QED BY <2>1, <2>2, <2>3
<1>3. playback' \in Turns
  BY <1>0, OutputAssumption DEF UserStops, PlayerDrains, LoopHears, Cleared, turnState, OutputTypeOK, TurnStateOK, Turns
<1>4. OutputTypeOK'
  BY <1>0, <1>1, <1>2, <1>3
     DEF OutputTypeOK, FramesOK, TurnStateOK, TaskStepsOK, CallersOK, BoundsOK, PageOK, counts, sending
<1>5. LockShape' /\ TurnShape' /\ CallShape' /\ NoFrameAfterTheEnd'
  BY <1>0, <1>1 DEF LockShape, Starters, TurnShape, NoOrphanTask, Streams, CallShape, NoFrameAfterTheEnd, counts
<1>6. OutboxShape'
  BY <1>0, <1>1 DEF OutboxShape, sending
<1>7. QueueShape'
  BY <1>0, <1>1, QueueShapeNext DEF QueueShape, Waits, WillWait, OfThisTurn, WillBeCurrent, sending, counts
<1>8. ToldShape'
  BY <1>0, <1>1, <1>2 DEF ToldShape, sending, counts, Guarded, EndsTurns, Finals
<1> QED BY <1>4, <1>5, <1>6, <1>7, <1>8 DEF OutputInv

(***************************************************************************)
(* The theorems.                                                           *)
(***************************************************************************)
\* The state of a connection that was just opened.
LEMMA OutputStarts == OutputInit => OutputInv
<1> SUFFICES ASSUME OutputInit PROVE OutputInv
  OBVIOUS
<1>0. 0 \in Turns /\ LastTurn \in Nat /\ "none" \in FrameKinds /\ (\A t \in Replies : t # 0)
  BY OutputAssumption, Kinds DEF Turns, Replies
<1>1. Idle \in CallRecord /\ Idle.turn = 0 /\ Idle.at = "idle"
  BY <1>0, Zenon DEF Idle, CallRecord
<1>2. Nothing \in WaitRecord /\ Nothing.state = "no"
  BY <1>0 DEF Nothing, WaitRecord
<1>3. NoStream \in [stream : Turns, state : {"off", "on", "ending", "stopped"}] /\ NoStream.state = "off"
  BY <1>0 DEF NoStream
<1>4. /\ caller \in [Askers -> CallRecord] /\ (\A c \in Askers : caller[c] = Idle)
      /\ outbox \in [Waiters -> WaitRecord] /\ (\A x \in Waiters : outbox[x] = Nothing)
      /\ gen \in [Replies -> DOMAIN Follow \cup LastFrames \cup {"none", "cancelled", "done"}]
      /\ (\A t \in Replies : gen[t] = "none")
  BY <1>1, <1>2 DEF OutputInit
<1>5. OutputTypeOK
  <2>1. outQueue \in Seq(QueuedFrame) /\ wire \in Seq(WireFrame) /\ Len(wire) <= MaxWire
    BY OutputAssumption DEF OutputInit
  <2> QED BY <1>0, <1>3, <1>4, <2>1, OutputAssumption
          DEF OutputInit, OutputTypeOK, TurnStateOK, TaskStepsOK, CallersOK, FramesOK, BoundsOK, PageOK
<1>6. Starters = {}
  <2>1. ~Idle.starts
    BY DEF Idle
  <2> QED BY <1>4, <2>1 DEF Starters
<1>7. LockShape
  BY <1>0, <1>1, <1>4, <1>6, FS_EmptySet DEF LockShape, Locking, OutputInit
<1>8. TurnShape
  BY <1>0, <1>4, Kinds DEF TurnShape, NoOrphanTask, Streams, LastFrames, OutputInit
<1>9. CallShape
  BY <1>1, <1>4 DEF CallShape, OutputInit
<1>10. OutboxShape
  BY <1>2, <1>4, WaitersDiffer DEF OutboxShape
<1>11. QueueShape /\ ToldShape /\ NoFrameAfterTheEnd
  <2>1. DOMAIN outQueue = {} /\ DOMAIN wire = {}
    BY DEF OutputInit
  <2> QED BY <1>3, <2>1 DEF OutputInit, QueueShape, ToldShape, NoFrameAfterTheEnd
<1> QED BY <1>5, <1>7, <1>8, <1>9, <1>10, <1>11 DEF OutputInv

\* Every step of the connection and of its page keeps the inductive invariant.
THEOREM OutputInvariant == OutputSafety => []OutputInv
<1>1. OutputInv /\ [OutputNext]_outputVars => OutputInv'
  <2> SUFFICES ASSUME OutputInv, [OutputNext]_outputVars PROVE OutputInv'
    OBVIOUS
  <2>1. CASE UNCHANGED outputVars
    <3>1. UNCHANGED <<turnState, gen, caller, holder, connection, sending, counts>>
          /\ UNCHANGED <<wire, player, generating, held, over, reports>>
      BY <2>1 DEF outputVars, page
    <3>2. /\ TurnStateOK' /\ TaskStepsOK' /\ CallersOK' /\ BoundsOK'
          /\ LockShape' /\ TurnShape' /\ CallShape' /\ OutboxShape' /\ QueueShape'
      BY <3>1, PageLeaves
    <3>3. FramesOK' /\ PageOK' /\ ToldShape' /\ NoFrameAfterTheEnd'
      BY <3>1 DEF OutputInv, OutputTypeOK, FramesOK, PageOK, ToldShape, NoFrameAfterTheEnd, sending, turnState,
                  counts, Guarded, EndsTurns, Finals
    <3> QED BY <3>2, <3>3 DEF OutputInv, OutputTypeOK
  <2>2. ASSUME NEW x \in Waiters, Put(x) PROVE OutputInv'
    BY <2>2, PutKeepsInv
  <2>3. CASE Drop \/ Write \/ SenderStops
    BY <2>3, DropKeepsInv, WriteKeepsInv, StopKeepsInv
  <2>4. ASSUME NEW t \in Replies, TurnSends(t) \/ TurnSent(t) \/ TurnWakes(t) \/ TurnUnwinds(t) PROVE OutputInv'
    BY <2>4, TurnSendsKeepsInv, TurnSentKeepsInv, TurnWakesKeepsInv, TurnUnwindsKeepsInv
  <2>5. ASSUME NEW c \in Askers, Ask(c) \/ Acquire(c) \/ Reaped(c) \/ Told(c) PROVE OutputInv'
    BY <2>5, AskKeepsInv, AcquireKeepsInv, ReapedKeepsInv, ToldKeepsInv
  <2>6. ASSUME NEW c \in Askers, Stopped(c) PROVE OutputInv'
    BY <2>6, ContinuesKeepsInv DEF Stopped
  <2>7. ASSUME NEW c \in Askers, Begun(c) \/ SendRaises(c) \/ HelperAborted(c) PROVE OutputInv'
    BY <2>7, BegunKeepsInv, FailedCallKeepsInv
  <2>8. CASE LoopEnds \/ CloseCancels \/ CloseSender \/ Closed
    BY <2>8, ClosingKeepsInv
  <2>9. CASE PageReads \/ UserStops \/ PlayerDrains \/ \E t \in Replies : LoopHears(t)
    BY <2>9, PageReadsKeepsInv, PageKeepsInv
  <2>10. \A h \in Helpers : h \in Askers
    BY DEF Askers
  <2> QED BY <2>1, <2>2, <2>3, <2>4, <2>5, <2>6, <2>7, <2>8, <2>9, <2>10 DEF OutputNext, OutputProgress
<1> QED BY <1>1, OutputStarts, PTL DEF OutputSafety

\* What the variables of a connection's output hold, whatever its calls, its sender and its page do.
THEOREM OutputTypes == OutputSafety => []OutputTypeOK
<1>1. OutputInv => OutputTypeOK
  BY DEF OutputInv
<1> QED BY <1>1, OutputInvariant, PTL

\* start_turn, cancel_turn and close() leave no task that streams unless it is the active turn's,
\* whatever await they are interrupted at.
THEOREM NoTaskIsOrphaned == OutputSafety => []NoOrphanTask
<1>1. OutputInv => NoOrphanTask
  BY DEF OutputInv, TurnShape
<1> QED BY <1>1, OutputInvariant, PTL

\* The sender's check of the active turn, and the one frame a task waits for at a time, keep every
\* frame of a reply before the frame that tells the page it is over.
THEOREM NothingFollowsTheEnd == OutputSafety => []NoFrameAfterTheEnd
<1>1. OutputInv => NoFrameAfterTheEnd
  BY DEF OutputInv
<1> QED BY <1>1, OutputInvariant, PTL

-----------------------------------------------------------------------------
(***************************************************************************)
(* Page and connection agree: what the page may still sound or show once   *)
(* it has read the wire is what the connection knows of.                   *)
(***************************************************************************)
\* What may sound once the page has read the first n frames of the wire: the stream of the
\* last start among them, or what sounds now, unless a later frame silences the player.
Silencers == {"audio_start", "audio_failed", "turn_failed", "audio_stop"}
NoSilencer(k, n) == \A j \in k .. n : wire[j].kind \notin Silencers
Hears(n, s) ==
    \/ \E k \in 1 .. n : wire[k].kind = "audio_start" /\ wire[k].turn = s /\ NoSilencer(k + 1, n)
    \/ Audible /\ player.stream = s /\ NoSilencer(1, n)

\* The turn on the page, 0 for none: the one it is busy generating, or was told to wait for.
OnPage == IF held # 0 THEN held ELSE generating

\* The turn that will be on the page once it has read them.
Markers == Finals \cup {"turn_started", "turn_waiting"}
NoMarker(k, n) == \A j \in k .. n : wire[j].kind \notin Markers
Marked(f) == IF f.kind \in {"turn_started", "turn_waiting"} THEN f.turn ELSE 0
Shows(n, t) ==
    \/ \E k \in 1 .. n : wire[k].kind \in Markers /\ NoMarker(k + 1, n) /\ t = Marked(wire[k])
    \/ OnPage = t /\ NoMarker(1, n)

Live == connection = "open" /\ sender = "running"
Taking == {"reap", "told", "stop"}
Target(c) == IF caller[c].play # 0 THEN caller[c].play ELSE caller[c].turn
Beginning == {"none", "ready", "turn_waiting", "resumed", "text_delta"}
UpToFrame == Beginning \cup {"audio_start", "audio_frame"}
Notice(f) == f.kind \in {"turn_cancelled", "audio_stop"}

\* A sender that has stopped has answered everybody; a receive loop that has left closes.
StopShape ==
    /\ \A x \in Waiters : Failed(x) => sender # "running"
    /\ sender # "running" => outQueue = <<>>
    /\ caller[Loop].at \in {"closing", "ending", "end", "closed"} => connection # "open"

\* nobody is about to start a turn, or to tell of a cancelled one
NobodyStarts ==
    connection # "open" /\ \A c \in Askers : caller[c].at \in Locking => caller[c].at = "reap" /\ ~caller[c].starts

\* As long as the connection lives, a notice is waited for, and is the only one; a stop that
\* nobody waits for finds nobody who would start a turn.
NoticeShape ==
    /\ Live => /\ \A i \in DOMAIN outQueue : Notice(outQueue[i]) => Waits(outQueue[i].from, outQueue[i])
               /\ \A i, j \in DOMAIN outQueue : Notice(outQueue[i]) /\ Notice(outQueue[j]) => i = j
    /\ \A i, j \in DOMAIN outQueue : outQueue[i].kind = "audio_stop" /\ outQueue[j].kind = "audio_stop" => i = j
    /\ \A c \in Askers : caller[c].at = "stop" /\ outbox[c].state \in {"putting", "queued"} =>
          outbox[c].turn = Target(c)
    /\ \A i \in DOMAIN outQueue : outQueue[i].kind = "audio_stop" =>
          activeTurn = 0 /\ (Waits(outQueue[i].from, outQueue[i]) \/ NobodyStarts)

\* What the connection takes for playing is the stream of the active turn, from its start on.
PlayShape ==
    /\ activeTurn # 0 => /\ gen[activeTurn] \notin {"cancelled", "done", "unwinding"}
                         /\ playback \in {0, activeTurn}
                         /\ gen[activeTurn] \in Beginning \cup {"audio_failed"} => playback = 0
                         /\ gen[activeTurn] \in {"audio_start", "audio_frame"} => playback = activeTurn
                         /\ gen[activeTurn] \in LastFrames => outbox[ByTurn(activeTurn)].state # "no"
    /\ \A c \in Askers : caller[c].at \in Taking => playback = 0

\* A stream that has ended on the page, or will, has ended and does not start again.
EndShape ==
    /\ \A i, j \in DOMAIN wire : i < j /\ wire[i].kind = "audio_end" =>
          ~(wire[j].kind = "audio_start" /\ wire[j].turn = wire[i].turn)
    /\ \A t \in Replies :
          /\ \A i \in DOMAIN wire : wire[i].kind = "audio_end" /\ wire[i].turn = t => gen[t] \notin UpToFrame
          /\ t \in reports \/ player = [stream |-> t, state |-> "ending"] =>
                /\ gen[t] \notin UpToFrame
                /\ \A j \in DOMAIN wire : ~(wire[j].kind = "audio_start" /\ wire[j].turn = t)
          /\ t \in reports => ~(Audible /\ player.stream = t)

\* A frame of a stream, or its stop, finds no other stream on.
StreamShape ==
    \A i \in DOMAIN wire : wire[i].kind \in {"audio_frame", "audio_end", "audio_stop"} =>
          \A s \in Replies : Hears(i - 1, s) => s = wire[i].turn

\* What may sound once all is read: the stream of the active turn if it has begun, what a stop
\* under way is meant for, nothing once it is sent; and otherwise what plays for the connection,
\* unless its failure is being sent.
HeardOfTurn(s) ==
    /\ activeTurn # 0
    /\ \/ gen[activeTurn] \in {"audio_frame", "audio_end"}
       \/ gen[activeTurn] = "audio_start" /\ outbox[ByTurn(activeTurn)].state \in {"sent", "no"}
    => s = activeTurn
HeardOfStop(s) == \A i \in DOMAIN outQueue : outQueue[i].kind = "audio_stop" => s = outQueue[i].turn
HeardOfCall(s) ==
    \A c \in Askers :
        \/ caller[c].at = "reap" /\ Live
        \/ caller[c].at \in {"told", "stop"} /\ sender = "running"
        => s = Target(c) /\ ~(caller[c].at = "stop" /\ Sent(c))
HeardOfPlay(s) ==
    Live /\ (\A c \in Askers : caller[c].at \notin Taking) =>
        \/ playback = s
        \/ s = activeTurn /\ gen[s] = "audio_failed" /\ outbox[ByTurn(s)].state \in {"putting", "queued"}
MayHear(s) == HeardOfTurn(s) /\ HeardOfStop(s) /\ HeardOfCall(s) /\ HeardOfPlay(s)
HeardShape == \A s \in Replies : Hears(Len(wire), s) => MayHear(s)

\* What is on the page once all is read: the active turn from its announcement to its last
\* frame, and nothing when there is none, unless a cancelled one has yet to be told.
MayShow(t) == Live =>
    /\ /\ activeTurn # 0 /\ gen[activeTurn] \notin LastFrames
       /\ \A c \in Askers : caller[c].at = "begin" => Sent(c)
       => t = activeTurn
    /\ activeTurn # 0 /\ gen[activeTurn] \in LastFrames /\ outbox[ByTurn(activeTurn)].state = "sent" => t = 0
    /\ /\ activeTurn = 0
       /\ \A c \in Askers : (caller[c].at = "reap" => caller[c].turn = 0) /\ (caller[c].at = "told" => Sent(c))
       => t = 0
\* The page is not busy while it was told to wait.
ShownShape == (held # 0 => generating = 0) /\ \A t \in Turns : Shows(Len(wire), t) => MayShow(t)

AgreeInv ==
    StopShape /\ NoticeShape /\ PlayShape /\ EndShape /\ StreamShape /\ HeardShape /\ ShownShape

\* The frames under way decide what is heard and shown, whatever else moves.
LEMMA HearsSame ==
  ASSUME UNCHANGED <<wire, player>>
  PROVE  \A n, s : Hears(n, s)' <=> Hears(n, s)
BY DEF Hears, NoSilencer, Audible

\* The same of what is shown.
LEMMA ShowsSame ==
  ASSUME UNCHANGED <<wire, generating, held>>
  PROVE  \A n, t : Shows(n, t)' <=> Shows(n, t)
BY DEF Shows, OnPage, NoMarker, Marked, Markers, Finals

\* A frame written decides by its kind what is heard once it is read.
LEMMA HearsWritten ==
  ASSUME wire \in Seq(WireFrame), NEW w \in WireFrame, wire' = Append(wire, w), UNCHANGED player
  PROVE  /\ \A n \in 0 .. Len(wire) : \A s : Hears(n, s)' <=> Hears(n, s)
         /\ \A s : Hears(Len(wire), s)' =>
              IF w.kind = "audio_start" THEN s = w.turn ELSE w.kind \notin Silencers /\ Hears(Len(wire), s)
<1>1. /\ DOMAIN wire' = 1 .. Len(wire) + 1 /\ DOMAIN wire = 1 .. Len(wire) /\ Len(wire) \in Nat
      /\ Len(wire') = Len(wire) + 1 /\ (\A i \in DOMAIN wire : wire'[i] = wire[i]) /\ wire'[Len(wire) + 1] = w
  BY QueueGrows
<1>2. PICK m \in Nat : m = Len(wire)
  BY <1>1
<1>6. \A n \in 0 .. m : \A k \in 1 .. n + 1 : NoSilencer(k, n)' <=> NoSilencer(k, n)
  <2> SUFFICES ASSUME NEW n \in 0 .. m, NEW k \in 1 .. n + 1 PROVE NoSilencer(k, n)' <=> NoSilencer(k, n)
    OBVIOUS
  <2>1. \A j \in k .. n : wire'[j] = wire[j]
    BY <1>1, <1>2
  <2> QED BY <2>1 DEF NoSilencer
<1>3. \A n \in 0 .. m : \A s : Hears(n, s)' <=> Hears(n, s)
  <2> SUFFICES ASSUME NEW n \in 0 .. m, NEW s PROVE Hears(n, s)' <=> Hears(n, s)
    OBVIOUS
  <2>1. \A k \in 1 .. n : wire'[k] = wire[k] /\ k + 1 \in 1 .. n + 1
    BY <1>1, <1>2
  <2>2. \A k \in 1 .. n : NoSilencer(k + 1, n)' <=> NoSilencer(k + 1, n)
    BY <1>6, <2>1
  <2>3. NoSilencer(1, n)' <=> NoSilencer(1, n)
    BY <1>1, <1>2, <1>6
  <2> QED BY <2>1, <2>2, <2>3 DEF Hears, Audible
<1>4. \A k \in 1 .. m + 1 : NoSilencer(k, m + 1)' <=> NoSilencer(k, m) /\ w.kind \notin Silencers
  <2> SUFFICES ASSUME NEW k \in 1 .. m + 1 PROVE NoSilencer(k, m + 1)' <=> NoSilencer(k, m) /\ w.kind \notin Silencers
    OBVIOUS
  <2>1. \A j \in k .. m + 1 : (j \in k .. m /\ wire'[j] = wire[j]) \/ (j = m + 1 /\ wire'[j] = w)
    BY <1>1, <1>2
  <2>2. m + 1 \in k .. m + 1 /\ \A j \in k .. m : j \in k .. m + 1
    BY <1>1, <1>2
  <2>3. \A j \in k .. m : wire'[j] = wire[j]
    BY <1>1, <1>2
  <2> QED BY <1>1, <1>2, <2>1, <2>2, <2>3 DEF NoSilencer
<1>5. ASSUME NEW s, Hears(m + 1, s)'
      PROVE  IF w.kind = "audio_start" THEN s = w.turn ELSE w.kind \notin Silencers /\ Hears(m, s)
  <2>1. CASE \E k \in 1 .. m + 1 : wire'[k].kind = "audio_start" /\ wire'[k].turn = s /\ NoSilencer(k + 1, m + 1)'
    <3>1. PICK k \in 1 .. m + 1 : wire'[k].kind = "audio_start" /\ wire'[k].turn = s /\ NoSilencer(k + 1, m + 1)'
      BY <2>1
    <3>2. CASE k = m + 1
      BY <1>1, <1>2, <3>1, <3>2
    <3>3. CASE k # m + 1
      <4>1. k \in 1 .. m /\ k + 1 \in 1 .. m + 1 /\ wire'[k] = wire[k]
        BY <1>1, <1>2, <3>3
      <4>2. NoSilencer(k + 1, m) /\ w.kind \notin Silencers
        BY <1>4, <3>1, <4>1
      <4> QED BY <3>1, <4>1, <4>2 DEF Hears, Silencers
    <3> QED BY <3>2, <3>3
  <2>2. CASE Audible /\ player.stream = s /\ NoSilencer(1, m + 1)'
    <3>1. NoSilencer(1, m) /\ w.kind \notin Silencers
      BY <1>1, <1>2, <1>4, <2>2
    <3> QED BY <2>2, <3>1 DEF Hears, Silencers
  <2> QED BY <1>5, <2>1, <2>2 DEF Hears, Audible
<1> QED BY <1>1, <1>2, <1>3, <1>5

\* The same of what is shown.
LEMMA ShowsWritten ==
  ASSUME wire \in Seq(WireFrame), NEW w \in WireFrame, wire' = Append(wire, w), UNCHANGED <<generating, held>>
  PROVE  \A t : Shows(Len(wire), t)' =>
            IF w.kind \in Markers THEN t = Marked(w) ELSE Shows(Len(wire), t)
<1>1. /\ DOMAIN wire' = 1 .. Len(wire) + 1 /\ DOMAIN wire = 1 .. Len(wire) /\ Len(wire) \in Nat
      /\ Len(wire') = Len(wire) + 1 /\ (\A i \in DOMAIN wire : wire'[i] = wire[i]) /\ wire'[Len(wire) + 1] = w
  BY QueueGrows
<1>2. PICK m \in Nat : m = Len(wire)
  BY <1>1
<1>4. \A k \in 1 .. m + 1 : NoMarker(k, m + 1)' <=> NoMarker(k, m) /\ w.kind \notin Markers
  <2> SUFFICES ASSUME NEW k \in 1 .. m + 1 PROVE NoMarker(k, m + 1)' <=> NoMarker(k, m) /\ w.kind \notin Markers
    OBVIOUS
  <2>1. \A j \in k .. m + 1 : (j \in k .. m /\ wire'[j] = wire[j]) \/ (j = m + 1 /\ wire'[j] = w)
    BY <1>1, <1>2
  <2>2. m + 1 \in k .. m + 1 /\ \A j \in k .. m : j \in k .. m + 1
    BY <1>1, <1>2
  <2>3. \A j \in k .. m : wire'[j] = wire[j]
    BY <1>1, <1>2
  <2> QED BY <1>1, <1>2, <2>1, <2>2, <2>3 DEF NoMarker, Markers, Finals
<1>5. ASSUME NEW t, Shows(m + 1, t)'
      PROVE  IF w.kind \in Markers THEN t = Marked(w) ELSE Shows(m, t)
  <2>1. CASE \E k \in 1 .. m + 1 : wire'[k].kind \in Markers /\ NoMarker(k + 1, m + 1)' /\ t = Marked(wire'[k])
    <3>1. PICK k \in 1 .. m + 1 : wire'[k].kind \in Markers /\ NoMarker(k + 1, m + 1)' /\ t = Marked(wire'[k])
      BY <2>1
    <3>2. CASE k = m + 1
      BY <1>1, <1>2, <3>1, <3>2
    <3>3. CASE k # m + 1
      <4>1. k \in 1 .. m /\ k + 1 \in 1 .. m + 1 /\ wire'[k] = wire[k]
        BY <1>1, <1>2, <3>3
      <4>2. NoMarker(k + 1, m) /\ w.kind \notin Markers
        BY <1>4, <3>1, <4>1
      <4> QED BY <3>1, <4>1, <4>2 DEF Shows
    <3> QED BY <3>2, <3>3
  <2>2. CASE OnPage = t /\ NoMarker(1, m + 1)'
    <3>1. NoMarker(1, m) /\ w.kind \notin Markers
      BY <1>1, <1>2, <1>4, <2>2
    <3> QED BY <2>2, <3>1 DEF Shows
  <2> QED BY <1>5, <2>1, <2>2 DEF Shows, OnPage, Marked, Markers, Finals
<1> QED BY <1>1, <1>2, <1>5

\* The page that reads a frame hears what it would have heard once it had read it.
LEMMA HearsRead ==
  ASSUME OutputTypeOK, PageReads
  PROVE  /\ \A i \in DOMAIN wire' : i + 1 \in DOMAIN wire /\ wire'[i] = wire[i + 1]
         /\ Len(wire') \in Nat /\ Len(wire') + 1 = Len(wire) /\ DOMAIN wire' = 1 .. Len(wire')
         /\ \A n \in 0 .. Len(wire') : \A s : Hears(n, s)' => Hears(n + 1, s)
         /\ \A n \in 0 .. Len(wire') : \A t : Shows(n, t)' => Shows(n + 1, t)
         /\ (held # 0 => generating = 0) => (held' # 0 => generating' = 0)
<1>1. wire \in Seq(WireFrame) /\ wire # <<>> /\ wire' = Tail(wire)
  BY DEF OutputTypeOK, FramesOK, PageReads
<1>2. /\ Head(wire) = wire[1] /\ 1 \in DOMAIN wire /\ DOMAIN wire = 1 .. Len(wire)
      /\ Len(wire) \in Nat /\ Len(wire') = Len(wire) - 1 /\ DOMAIN wire' = 1 .. Len(wire) - 1
      /\ \A i \in DOMAIN wire' : wire'[i] = wire[i + 1] /\ i + 1 \in DOMAIN wire
  BY <1>1, QueueShrinks
<1> DEFINE f == wire[1]
<1>3. /\ player' = PlayerAfter(f)
      /\ generating' = IF f.kind = "turn_started" THEN f.turn
                       ELSE IF f.kind \in Finals \cup {"turn_waiting"} THEN 0 ELSE generating
      /\ held' = IF f.kind = "turn_waiting" THEN f.turn
                 ELSE IF f.kind \in Finals \cup {"turn_started"} THEN 0 ELSE held
  BY <1>2 DEF PageReads
<1> HIDE DEF f
<1>4. /\ OnPage' = IF f.kind \in Markers THEN Marked(f) ELSE OnPage
      /\ (held # 0 => generating = 0) => (held' # 0 => generating' = 0)
  <2>1. CASE f.kind = "turn_started"
    BY <1>3, <2>1 DEF OnPage, Marked, Markers
  <2>2. CASE f.kind = "turn_waiting"
    BY <1>3, <2>2 DEF OnPage, Marked, Markers
  <2>3. CASE f.kind \in Finals
    BY <1>3, <2>3 DEF OnPage, Marked, Markers, Finals
  <2>4. CASE f.kind \notin Markers
    BY <1>3, <2>4 DEF OnPage, Markers
  <2> QED BY <2>1, <2>2, <2>3, <2>4 DEF Markers
<1>5. Audible' => \/ f.kind = "audio_start" /\ player'.stream = f.turn
                  \/ f.kind \notin Silencers /\ Audible /\ player'.stream = player.stream
  <2>1. CASE f.kind = "audio_start"
    BY <1>3, <2>1 DEF PlayerAfter
  <2>2. CASE f.kind \in {"audio_failed", "turn_failed"}
    BY <1>3, <2>2 DEF PlayerAfter, NoStream, Audible
  <2>3. CASE f.kind = "audio_stop"
    <3>1. player' = IF player # NoStream THEN [player EXCEPT !.state = "stopped"] ELSE player
      BY <1>3, <2>3 DEF PlayerAfter
    <3>2. player \in [stream : Turns, state : {"off", "on", "ending", "stopped"}]
      BY DEF OutputTypeOK, PageOK
    <3> QED BY <3>1, <3>2 DEF Audible, NoStream
  <2>4. CASE f.kind = "audio_end"
    <3>1. player \in [stream : Turns, state : {"off", "on", "ending", "stopped"}]
      BY DEF OutputTypeOK, PageOK
    <3>2. CASE player = [stream |-> f.turn, state |-> "on"]
      <4>1. player' = [player EXCEPT !.state = "ending"]
        BY <1>3, <2>4, <3>2 DEF PlayerAfter
      <4> QED BY <2>4, <3>1, <3>2, <4>1 DEF Audible, Silencers
    <3>3. CASE player = [stream |-> f.turn, state |-> "stopped"]
      <4>1. player' = NoStream
        BY <1>3, <2>4, <3>3 DEF PlayerAfter
      <4> QED BY <4>1 DEF Audible, NoStream
    <3>4. CASE player # [stream |-> f.turn, state |-> "on"] /\ player # [stream |-> f.turn, state |-> "stopped"]
      <4>1. player' = player
        BY <1>3, <2>4, <3>4 DEF PlayerAfter
      <4> QED BY <2>4, <4>1 DEF Audible, Silencers
    <3> QED BY <3>2, <3>3, <3>4
  <2>5. CASE f.kind \notin Silencers \cup {"audio_end"}
    <3>1. player' = player
      BY <1>3, <2>5 DEF PlayerAfter, Silencers
    <3> QED BY <2>5, <3>1 DEF Audible
  <2> QED BY <2>1, <2>2, <2>3, <2>4, <2>5 DEF Silencers
<1>6. wire[1] = f
  BY DEF f
<1>7. ASSUME NEW n \in 0 .. Len(wire')
      PROVE  /\ n \in Nat /\ \A k \in 1 .. n : k + 1 \in 2 .. n + 1 /\ wire'[k] = wire[k + 1]
             /\ \A k \in 1 .. n + 1 : NoSilencer(k, n)' => NoSilencer(k + 1, n + 1)
             /\ \A k \in 1 .. n + 1 : NoMarker(k, n)' => NoMarker(k + 1, n + 1)
  <2>1. n \in Nat /\ \A k \in 1 .. n : k + 1 \in 2 .. n + 1 /\ wire'[k] = wire[k + 1]
    BY <1>2
  <2>2. ASSUME NEW k \in 1 .. n + 1, NEW j \in k + 1 .. n + 1
        PROVE  \E i \in k .. n : wire'[i] = wire[j]
    <3>1. j - 1 \in k .. n /\ j - 1 \in 1 .. n /\ (j - 1) + 1 = j
      BY <2>1
    <3>2. wire'[j - 1] = wire[(j - 1) + 1]
      BY <2>1, <3>1
    <3> QED BY <3>1, <3>2
  <2>3. \A k \in 1 .. n + 1 : NoSilencer(k, n)' => NoSilencer(k + 1, n + 1)
    BY <2>2 DEF NoSilencer
  <2>4. \A k \in 1 .. n + 1 : NoMarker(k, n)' => NoMarker(k + 1, n + 1)
    BY <2>2 DEF NoMarker, Markers, Finals
  <2> QED BY <2>1, <2>3, <2>4
<1>8. ASSUME NEW n \in 0 .. Len(wire'), NEW s, Hears(n, s)'
      PROVE  Hears(n + 1, s)
  <2>1. n \in Nat
    BY <1>7
  <2>2. CASE \E k \in 1 .. n : wire'[k].kind = "audio_start" /\ wire'[k].turn = s /\ NoSilencer(k + 1, n)'
    <3>1. PICK k \in 1 .. n : wire'[k].kind = "audio_start" /\ wire'[k].turn = s /\ NoSilencer(k + 1, n)'
      BY <2>2
    <3>2. k + 1 \in 1 .. n + 1 /\ wire'[k] = wire[k + 1]
      BY <1>7, <2>1
    <3>3. NoSilencer(k + 1 + 1, n + 1)
      BY <1>7, <3>1, <3>2
    <3> QED BY <3>1, <3>2, <3>3 DEF Hears
  <2>3. CASE Audible' /\ player'.stream = s /\ NoSilencer(1, n)'
    <3>1. NoSilencer(1 + 1, n + 1)
      BY <1>7, <2>1, <2>3
    <3>2. CASE f.kind = "audio_start" /\ player'.stream = f.turn
      <4>1. 1 \in 1 .. n + 1
        BY <2>1
      <4> QED BY <1>6, <2>3, <3>1, <3>2, <4>1 DEF Hears
    <3>3. CASE f.kind \notin Silencers /\ Audible /\ player'.stream = player.stream
      <4>1. \A j \in 1 .. n + 1 : j = 1 \/ j \in 1 + 1 .. n + 1
        BY <2>1
      <4>2. NoSilencer(1, n + 1)
        BY <1>6, <3>1, <3>3, <4>1 DEF NoSilencer
      <4> QED BY <2>3, <3>3, <4>2 DEF Hears
    <3> QED BY <1>5, <2>3, <3>2, <3>3
  <2> QED BY <1>8, <2>2, <2>3 DEF Hears
<1>9. ASSUME NEW n \in 0 .. Len(wire'), NEW t, Shows(n, t)'
      PROVE  Shows(n + 1, t)
  <2>1. n \in Nat
    BY <1>7
  <2>2. CASE \E k \in 1 .. n : wire'[k].kind \in Markers /\ NoMarker(k + 1, n)' /\ t = Marked(wire'[k])
    <3>1. PICK k \in 1 .. n : wire'[k].kind \in Markers /\ NoMarker(k + 1, n)' /\ t = Marked(wire'[k])
      BY <2>2
    <3>2. k + 1 \in 1 .. n + 1 /\ wire'[k] = wire[k + 1]
      BY <1>7, <2>1
    <3>3. NoMarker(k + 1 + 1, n + 1)
      BY <1>7, <3>1, <3>2
    <3> QED BY <3>1, <3>2, <3>3 DEF Shows
  <2>3. CASE OnPage' = t /\ NoMarker(1, n)'
    <3>1. NoMarker(1 + 1, n + 1)
      BY <1>7, <2>1, <2>3
    <3>2. CASE f.kind \in Markers
      <4>1. 1 \in 1 .. n + 1
        BY <2>1
      <4>2. t = Marked(f)
        BY <1>4, <2>3, <3>2
      <4> QED BY <1>6, <3>1, <3>2, <4>1, <4>2 DEF Shows
    <3>3. CASE f.kind \notin Markers
      <4>1. \A j \in 1 .. n + 1 : j = 1 \/ j \in 1 + 1 .. n + 1
        BY <2>1
      <4>2. NoMarker(1, n + 1)
        BY <1>6, <3>1, <3>3, <4>1 DEF NoMarker
      <4>3. OnPage = t
        BY <1>4, <2>3, <3>3
      <4> QED BY <4>2, <4>3 DEF Shows
    <3> QED BY <3>2, <3>3
  <2> QED BY <1>9, <2>2, <2>3 DEF Shows, OnPage, Marked, Markers, Finals
<1> QED BY <1>2, <1>4, <1>8, <1>9

\* What the connection knows does not change by what the page does.
LEMMA ConnectionSame ==
  ASSUME UNCHANGED <<turnState, gen, caller, connection, sending>>
  PROVE  /\ (StopShape => StopShape') /\ (NoticeShape => NoticeShape') /\ (PlayShape => PlayShape')
         /\ \A s : (MayHear(s) => MayHear(s)') /\ (MayShow(s) => MayShow(s)')
<1>1. UNCHANGED <<activeTurn, playback, gen, caller, connection, outbox, outQueue, sender>>
  BY DEF turnState, sending
<1>2. StopShape => StopShape'
  BY <1>1 DEF StopShape, Failed
<1>3. NoticeShape => NoticeShape'
  BY <1>1 DEF NoticeShape, Notice, Live, Waits, Target, NobodyStarts
<1>4. PlayShape => PlayShape'
  BY <1>1 DEF PlayShape
<1>5. ASSUME NEW s, MayHear(s) PROVE MayHear(s)'
  BY <1>1, <1>5 DEF MayHear, HeardOfTurn, HeardOfStop, HeardOfCall, HeardOfPlay, Live, Target, Sent
<1>6. ASSUME NEW s, MayShow(s) PROVE MayShow(s)'
  BY <1>1, <1>6 DEF MayShow, Live, Sent
<1> QED BY <1>2, <1>3, <1>4, <1>5, <1>6

\* The player begins to end when it reads the end of the stream that is on.
LEMMA PlayerEnds ==
  ASSUME OutputTypeOK, PageReads, NEW t, player' = [stream |-> t, state |-> "ending"]
  PROVE  player = [stream |-> t, state |-> "ending"] \/ (wire[1].kind = "audio_end" /\ wire[1].turn = t)
<1>1. wire \in Seq(WireFrame) /\ wire # <<>>
      /\ player \in [stream : Turns, state : {"off", "on", "ending", "stopped"}]
  BY DEF OutputTypeOK, FramesOK, PageOK, PageReads
<1>2. Head(wire) = wire[1]
  BY <1>1, QueueShrinks
<1> DEFINE f == wire[1]
<1>3. player' = PlayerAfter(f)
  BY <1>2 DEF PageReads
<1>6. wire[1] = f
  OBVIOUS
<1> HIDE DEF f
<1>4. CASE f.kind = "audio_end" /\ player = [stream |-> f.turn, state |-> "on"]
  <2>1. player' = [player EXCEPT !.state = "ending"]
    BY <1>3, <1>4 DEF PlayerAfter
  <2> QED BY <1>4, <1>6, <2>1
<1>5. CASE ~(f.kind = "audio_end" /\ player = [stream |-> f.turn, state |-> "on"])
  <2>1. \/ player' = [stream |-> f.turn, state |-> "on"] \/ player' = NoStream \/ player' = player
        \/ player' = [player EXCEPT !.state = "stopped"]
    <3>1. CASE f.kind = "audio_end" /\ player = [stream |-> f.turn, state |-> "stopped"]
      <4>1. player' = NoStream
        BY <1>3, <3>1 DEF PlayerAfter
      <4> QED BY <4>1
    <3>2. CASE f.kind = "audio_end" /\ player # [stream |-> f.turn, state |-> "stopped"]
      <4>1. player' = player
        BY <1>3, <1>5, <3>2 DEF PlayerAfter
      <4> QED BY <4>1
    <3>3. CASE f.kind # "audio_end"
      BY <1>3, <3>3 DEF PlayerAfter
    <3> QED BY <3>1, <3>2, <3>3
  <2>2. player' # [stream |-> f.turn, state |-> "on"] /\ player' # NoStream
    BY DEF NoStream
  <2>3. player' # [player EXCEPT !.state = "stopped"]
    BY <1>1
  <2> QED BY <2>1, <2>2, <2>3
<1> QED BY <1>4, <1>5

\* The page reads a frame.
LEMMA ReadsKeepsAgreement ==
  ASSUME OutputInv, AgreeInv, PageReads
  PROVE  AgreeInv'
<1>0. OutputTypeOK /\ StopShape /\ NoticeShape /\ PlayShape /\ EndShape /\ StreamShape /\ HeardShape /\ ShownShape
  BY DEF OutputInv, AgreeInv
<1>1. UNCHANGED <<turnState, gen, caller, connection, sending, reports>>
  BY DEF PageReads
<1>2. StopShape' /\ NoticeShape' /\ PlayShape' /\ \A s : (MayHear(s) => MayHear(s)') /\ (MayShow(s) => MayShow(s)')
  BY <1>0, <1>1, ConnectionSame
<1>3. /\ \A i \in DOMAIN wire' : i + 1 \in DOMAIN wire /\ wire'[i] = wire[i + 1]
      /\ Len(wire') \in Nat /\ Len(wire') + 1 = Len(wire) /\ DOMAIN wire' = 1 .. Len(wire')
      /\ \A n \in 0 .. Len(wire') : \A s : Hears(n, s)' => Hears(n + 1, s)
      /\ \A n \in 0 .. Len(wire') : \A t : Shows(n, t)' => Shows(n + 1, t)
      /\ (held # 0 => generating = 0) => (held' # 0 => generating' = 0)
  BY <1>0, HearsRead
<1>4. PICK n \in Nat : n = Len(wire') /\ n + 1 = Len(wire)
  BY <1>3
<1>5. HeardShape'
  <2>1. \A s : Hears(Len(wire), s)' => Hears(Len(wire), s)
    <3>1. \A s : Hears(n, s)' => Hears(n + 1, s)
      BY <1>3, <1>4
    <3>2. \A s : Hears(Len(wire), s)' <=> Hears(n, s)'
      BY <1>4 DEF Hears, NoSilencer
    <3> QED BY <1>4, <3>1, <3>2
  <2> QED BY <1>0, <1>2, <2>1 DEF HeardShape
<1>6. ShownShape'
  <2>1. \A s : Shows(Len(wire), s)' => Shows(Len(wire), s)
    <3>1. \A s : Shows(n, s)' => Shows(n + 1, s)
      BY <1>3, <1>4
    <3>2. \A s : Shows(Len(wire), s)' <=> Shows(n, s)'
      BY <1>4 DEF Shows, OnPage, NoMarker, Marked, Markers, Finals
    <3> QED BY <1>4, <3>1, <3>2
  <2> QED BY <1>0, <1>2, <1>3, <2>1 DEF ShownShape
<1>7. StreamShape'
  <2>1. ASSUME NEW i \in DOMAIN wire', wire'[i].kind \in {"audio_frame", "audio_end", "audio_stop"},
               NEW s \in Replies, Hears(i - 1, s)'
        PROVE  s = wire'[i].turn
    <3>1. i + 1 \in DOMAIN wire /\ wire'[i] = wire[i + 1] /\ i - 1 \in 0 .. Len(wire') /\ (i + 1) - 1 = (i - 1) + 1
      BY <1>3
    <3>2. Hears((i + 1) - 1, s)
      BY <1>3, <2>1, <3>1
    <3> QED BY <1>0, <2>1, <3>1, <3>2 DEF StreamShape
  <2> QED BY <2>1 DEF StreamShape
<1>8. EndShape'
  <2>1. \A i, j \in DOMAIN wire' : i < j /\ wire'[i].kind = "audio_end" =>
          ~(wire'[j].kind = "audio_start" /\ wire'[j].turn = wire'[i].turn)
    <3> TAKE i, j \in DOMAIN wire'
    <3>1. i + 1 \in DOMAIN wire /\ j + 1 \in DOMAIN wire /\ (i < j => i + 1 < j + 1)
          /\ wire'[i] = wire[i + 1] /\ wire'[j] = wire[j + 1]
      BY <1>3
    <3> QED BY <1>0, <3>1 DEF EndShape
  <2>2. ASSUME NEW t \in Replies
        PROVE  /\ \A i \in DOMAIN wire' : wire'[i].kind = "audio_end" /\ wire'[i].turn = t => gen[t] \notin UpToFrame
               /\ t \in reports \/ player' = [stream |-> t, state |-> "ending"] =>
                    /\ gen[t] \notin UpToFrame
                    /\ \A j \in DOMAIN wire' : ~(wire'[j].kind = "audio_start" /\ wire'[j].turn = t)
               /\ t \in reports => ~(Audible' /\ player'.stream = t)
    <3>1. \A i \in DOMAIN wire' : wire'[i].kind = "audio_end" /\ wire'[i].turn = t => gen[t] \notin UpToFrame
      BY <1>0, <1>3 DEF EndShape
    <3>2. ASSUME t \in reports \/ player = [stream |-> t, state |-> "ending"]
          PROVE  /\ gen[t] \notin UpToFrame
                 /\ \A j \in DOMAIN wire' : ~(wire'[j].kind = "audio_start" /\ wire'[j].turn = t)
      BY <1>0, <1>3, <3>2 DEF EndShape
    <3>3. ASSUME player' = [stream |-> t, state |-> "ending"], player # [stream |-> t, state |-> "ending"]
          PROVE  /\ gen[t] \notin UpToFrame
                 /\ \A j \in DOMAIN wire' : ~(wire'[j].kind = "audio_start" /\ wire'[j].turn = t)
      <4>1. wire[1].kind = "audio_end" /\ wire[1].turn = t
        BY <1>0, <3>3, PlayerEnds
      <4>2. 1 \in DOMAIN wire /\ \A j \in DOMAIN wire' : 1 < j + 1
        <5>1. wire \in Seq(WireFrame)
          BY <1>0 DEF OutputTypeOK, FramesOK
        <5> QED BY <1>3, <5>1
      <4> QED BY <1>0, <1>3, <4>1, <4>2 DEF EndShape
    <3>4. ASSUME t \in reports, Audible', player'.stream = t PROVE FALSE
      <4>1. Hears(0, t)'
        BY <3>4 DEF Hears, NoSilencer, Audible
      <4>2. Hears(1, t)
        <5>1. 0 \in 0 .. Len(wire') /\ 0 + 1 = 1
          BY <1>3
        <5> QED BY <1>3, <4>1, <5>1
      <4>3. (wire[1].kind = "audio_start" /\ wire[1].turn = t) \/ (Audible /\ player.stream = t)
        BY <4>2 DEF Hears
      <4>4. 1 \in DOMAIN wire
        <5>1. wire \in Seq(WireFrame)
          BY <1>0 DEF OutputTypeOK, FramesOK
        <5> QED BY <1>3, <5>1
      <4> QED BY <1>0, <3>4, <4>3, <4>4 DEF EndShape
    <3> QED BY <3>1, <3>2, <3>3, <3>4
  <2> QED BY <1>1, <2>1, <2>2 DEF EndShape, UpToFrame, Beginning
<1> QED BY <1>2, <1>5, <1>6, <1>7, <1>8 DEF AgreeInv

\* The player falls silent by itself or by the stop button.
LEMMA SilenceKeepsAgreement ==
  ASSUME OutputInv, AgreeInv, UserStops \/ PlayerDrains
  PROVE  AgreeInv'
<1>0. OutputTypeOK /\ StopShape /\ NoticeShape /\ PlayShape /\ EndShape /\ StreamShape /\ HeardShape /\ ShownShape
  BY DEF OutputInv, AgreeInv
<1>1. UNCHANGED <<turnState, gen, caller, connection, sending, wire, generating, held>>
  BY DEF UserStops, PlayerDrains
<1>2. StopShape' /\ NoticeShape' /\ PlayShape' /\ \A s : (MayHear(s) => MayHear(s)') /\ (MayShow(s) => MayShow(s)')
  BY <1>0, <1>1, ConnectionSame
<1>3. player \in [stream : Turns, state : {"off", "on", "ending", "stopped"}]
  BY <1>0 DEF OutputTypeOK, PageOK
<1>4. ~Audible' /\ player'.state # "ending"
  BY <1>3 DEF UserStops, PlayerDrains, Audible, NoStream
<1>5. \A n, s : Hears(n, s)' => Hears(n, s)
  BY <1>1, <1>4 DEF Hears, NoSilencer
<1>6. StreamShape' /\ HeardShape'
  BY <1>0, <1>1, <1>2, <1>5 DEF StreamShape, HeardShape
<1>7. ShownShape'
  BY <1>0, <1>1, <1>2, ShowsSame DEF ShownShape
<1>8. \A t : t \in reports' => t \in reports \/ player = [stream |-> t, state |-> "ending"]
  <2>1. ASSUME PlayerDrains, NEW t, t \in reports', t \notin reports
        PROVE  player = [stream |-> t, state |-> "ending"]
    <3>1. t = player.stream /\ player.state = "ending"
      BY <2>1 DEF PlayerDrains
    <3> QED BY <1>3, <3>1
  <2> QED BY <2>1 DEF UserStops, page
<1>9. EndShape'
  <2>1. \A t \in Replies : player' # [stream |-> t, state |-> "ending"]
    BY <1>4
  <2> QED BY <1>0, <1>1, <1>4, <1>8, <2>1 DEF EndShape
<1> QED BY <1>2, <1>6, <1>7, <1>9 DEF AgreeInv

\* A step that nobody hears or sees: what is known must go on to cover what is heard and shown.
LEMMA QuietStep ==
  ASSUME StreamShape, HeardShape, ShownShape, UNCHANGED <<wire, player, generating, held>>,
         \A s \in Replies : Hears(Len(wire), s) /\ MayHear(s) => MayHear(s)',
         \A t \in Turns : MayShow(t) => MayShow(t)'
  PROVE  StreamShape' /\ HeardShape' /\ ShownShape'
<1>1. \A n, s : Hears(n, s)' <=> Hears(n, s)
  BY HearsSame
<1>2. \A n, s : Shows(n, s)' <=> Shows(n, s)
  BY ShowsSame
<1>3. StreamShape'
  BY <1>1 DEF StreamShape
<1>4. HeardShape'
  BY <1>1 DEF HeardShape
<1>5. ShownShape'
  BY <1>2 DEF ShownShape
<1> QED BY <1>3, <1>4, <1>5

\* Streams that have ended have ended, as long as no task goes back.
LEMMA EndsStay ==
  ASSUME EndShape, UNCHANGED <<wire, player, reports>>,
         \A t \in Replies : gen[t] \notin UpToFrame => gen'[t] \notin UpToFrame
  PROVE  EndShape'
BY DEF EndShape, Audible, UpToFrame, Beginning

\* A report of what has drained: the stream it names is not heard any more.
LEMMA HearingKeepsAgreement ==
  ASSUME OutputInv, AgreeInv, NEW t \in Replies, LoopHears(t)
  PROVE  AgreeInv'
<1>0. OutputTypeOK /\ StopShape /\ NoticeShape /\ PlayShape /\ EndShape /\ StreamShape /\ HeardShape /\ ShownShape
  BY DEF OutputInv, AgreeInv
<1>1. /\ UNCHANGED <<activeTurn, gen, caller, connection, outbox, outQueue, sender, wire, player, generating, held>>
      /\ t \in reports /\ reports' \subseteq reports
      /\ playback' = IF playback = t THEN 0 ELSE playback
  BY DEF LoopHears, sending, Cleared
<1>2. gen[t] \notin UpToFrame /\ ~Hears(Len(wire), t)
  <2>1. /\ gen[t] \notin UpToFrame /\ ~(Audible /\ player.stream = t)
        /\ \A j \in DOMAIN wire : ~(wire[j].kind = "audio_start" /\ wire[j].turn = t)
    BY <1>0, <1>1 DEF EndShape
  <2>2. DOMAIN wire = 1 .. Len(wire)
    BY <1>0 DEF OutputTypeOK, FramesOK
  <2> QED BY <2>1, <2>2 DEF Hears
<1>3. StopShape' /\ NoticeShape'
  BY <1>0, <1>1 DEF StopShape, Failed, NoticeShape, Notice, Live, Waits, Target, NobodyStarts
<1>4. PlayShape'
  <2>1. activeTurn = t => gen[activeTurn] \notin {"audio_start", "audio_frame"}
    BY <1>2 DEF UpToFrame
  <2>2. t # 0
    BY DEF Replies
  <2> QED BY <1>0, <1>1, <2>1, <2>2 DEF PlayShape
<1>5. EndShape'
  BY <1>0, <1>1 DEF EndShape, Audible, UpToFrame, Beginning
<1>6. \A s \in Replies : Hears(Len(wire), s) /\ MayHear(s) => MayHear(s)'
  <2> SUFFICES ASSUME NEW s \in Replies, Hears(Len(wire), s), MayHear(s) PROVE MayHear(s)'
    OBVIOUS
  <2>1. s # t
    BY <1>2
  <2>2. HeardOfTurn(s)' /\ HeardOfStop(s)' /\ HeardOfCall(s)'
    BY <1>1 DEF MayHear, HeardOfTurn, HeardOfStop, HeardOfCall, Live, Target, Sent
  <2>3. HeardOfPlay(s)'
    BY <1>1, <2>1 DEF MayHear, HeardOfPlay, Live
  <2> QED BY <2>2, <2>3 DEF MayHear
<1>7. \A s \in Turns : MayShow(s) => MayShow(s)'
  BY <1>1 DEF MayShow, Live, Sent
<1>8. StreamShape' /\ HeardShape' /\ ShownShape'
  BY <1>0, <1>1, <1>6, <1>7, QuietStep
<1> QED BY <1>3, <1>4, <1>5, <1>8 DEF AgreeInv

\* Who waits for a notice is a call of its step.
LEMMA NoticeWaiter ==
  ASSUME OutputInv, NEW x \in Waiters, outbox[x].state # "no", Notice(outbox[x])
  PROVE  /\ x \in Askers /\ holder = x /\ activeTurn = 0
         /\ outbox[x].kind = "turn_cancelled" => caller[x].at = "told" /\ outbox[x].turn # 0
         /\ outbox[x].kind = "audio_stop" => caller[x].at = "stop"
<1>0. LockShape /\ CallShape /\ OutboxShape /\ TaskStepsOK
  BY DEF OutputInv, OutputTypeOK
<1>1. CASE x \in Askers
  BY <1>0, <1>1 DEF OutboxShape, Notice, LockShape, Locking, CallShape
<1>2. ASSUME NEW t \in Replies, x = ByTurn(t) PROVE FALSE
  <2>1. gen[t] \in {"unwinding"} \cup (FrameKinds \ {"none"}) /\ outbox[x].kind \in {"turn_failed", gen[t]}
    BY <1>0, <1>2 DEF OutboxShape
  <2>2. gen[t] \in DOMAIN Follow \cup LastFrames \cup {"none", "cancelled", "done"}
    BY <1>0 DEF TaskStepsOK
  <2> QED BY <2>1, <2>2, Kinds DEF LastFrames, Notice
<1> QED BY <1>1, <1>2, WaitersDiffer

\* What a put does.
LEMMA PutIs ==
  ASSUME OutputInv, NEW x \in Waiters, Put(x)
  PROVE  /\ outbox[x].state = "putting" /\ outbox'[x].kind = outbox[x].kind /\ outbox'[x].turn = outbox[x].turn
         /\ outbox'[x].state = IF sender = "running" THEN "queued" ELSE "error"
         /\ \A y \in Waiters \ {x} : outbox'[y] = outbox[y]
         /\ IF sender = "running"
              THEN \E n : /\ n \notin DOMAIN outQueue /\ DOMAIN outQueue' = DOMAIN outQueue \cup {n}
                          /\ \A i \in DOMAIN outQueue : outQueue'[i] = outQueue[i] /\ outQueue[i] \in QueuedFrame
                          /\ outQueue'[n] = [kind |-> outbox[x].kind, turn |-> outbox[x].turn, from |-> x]
                          /\ WillWait(x, outQueue'[n])
              ELSE outQueue' = outQueue
<1>1. outbox \in [Waiters -> WaitRecord] /\ outQueue \in Seq(QueuedFrame)
  BY DEF OutputInv, OutputTypeOK, FramesOK
<1>2. PICK s \in {"queued", "error"} : outbox' = [outbox EXCEPT ![x].state = s] /\ (s = "queued" <=> sender = "running")
  BY DEF Put, AfterPut
<1>3. outbox[x].state = "putting" /\ outbox[x] \in WaitRecord
  BY <1>1 DEF Put
<1>4. outbox'[x] = [state |-> s, kind |-> outbox[x].kind, turn |-> outbox[x].turn]
  BY <1>1, <1>2, <1>3 DEF WaitRecord
<1>5. \A y \in Waiters \ {x} : outbox'[y] = outbox[y]
  BY <1>1, <1>2
<1> DEFINE f == [kind |-> outbox[x].kind, turn |-> outbox[x].turn, from |-> x]
<1>6. ASSUME sender = "running"
      PROVE  \E n : /\ n \notin DOMAIN outQueue /\ DOMAIN outQueue' = DOMAIN outQueue \cup {n}
                    /\ \A i \in DOMAIN outQueue : outQueue'[i] = outQueue[i] /\ outQueue[i] \in QueuedFrame
                    /\ outQueue'[n] = f
                    /\ f.from = x /\ outbox'[x] = [state |-> "queued", kind |-> f.kind, turn |-> f.turn]
  <2>1. f \in QueuedFrame /\ outQueue' = Append(outQueue, f)
    BY <1>3, <1>6 DEF Put, WaitRecord, QueuedFrame
  <2>2. DOMAIN outQueue = 1 .. Len(outQueue) /\ DOMAIN outQueue' = 1 .. Len(outQueue) + 1 /\ Len(outQueue) \in Nat
        /\ (\A i \in DOMAIN outQueue : outQueue'[i] = outQueue[i]) /\ outQueue'[Len(outQueue) + 1] = f
    BY <1>1, <2>1, QueueGrows
  <2>3. Len(outQueue) + 1 \notin DOMAIN outQueue /\ DOMAIN outQueue' = DOMAIN outQueue \cup {Len(outQueue) + 1}
    BY <2>2
  <2>4. \A i \in DOMAIN outQueue : outQueue[i] \in QueuedFrame
    BY <1>1
  <2>5. f.from = x /\ outbox'[x] = [state |-> "queued", kind |-> f.kind, turn |-> f.turn]
    BY <1>2, <1>4, <1>6
  <2> QED BY <2>2, <2>3, <2>4, <2>5
<1>7. CASE sender = "running"
  <2>1. PICK n : /\ n \notin DOMAIN outQueue /\ DOMAIN outQueue' = DOMAIN outQueue \cup {n}
                 /\ \A i \in DOMAIN outQueue : outQueue'[i] = outQueue[i] /\ outQueue[i] \in QueuedFrame
                 /\ outQueue'[n] = f
                 /\ f.from = x /\ outbox'[x] = [state |-> "queued", kind |-> f.kind, turn |-> f.turn]
    BY <1>6, <1>7
  <2>2. WillWait(x, outQueue'[n])
    BY <2>1 DEF WillWait
  <2> QED BY <1>2, <1>3, <1>4, <1>5, <1>7, <2>1, <2>2
<1>8. CASE sender # "running"
  BY <1>2, <1>3, <1>4, <1>5, <1>8 DEF Put
<1> QED BY <1>7, <1>8

\* A frame is put into the queue, or comes too late.
LEMMA PutKeepsAgreement ==
  ASSUME OutputInv, AgreeInv, NEW x \in Waiters, Put(x)
  PROVE  AgreeInv'
<1>0. /\ OutboxShape /\ CallShape /\ OutputTypeOK
      /\ StopShape /\ NoticeShape /\ PlayShape /\ EndShape /\ StreamShape /\ HeardShape /\ ShownShape
  BY DEF OutputInv, AgreeInv
<1>1. UNCHANGED <<activeTurn, playback, gen, caller, connection, sender, wire, player, generating, held, reports>>
  BY DEF Put, turnState, page
<1>2. /\ outbox[x].state = "putting" /\ outbox'[x].kind = outbox[x].kind /\ outbox'[x].turn = outbox[x].turn
      /\ outbox'[x].state = IF sender = "running" THEN "queued" ELSE "error"
      /\ \A y \in Waiters \ {x} : outbox'[y] = outbox[y]
  BY PutIs
<1>3. ASSUME sender = "running"
      PROVE  \E n : /\ n \notin DOMAIN outQueue /\ DOMAIN outQueue' = DOMAIN outQueue \cup {n}
                    /\ \A i \in DOMAIN outQueue : outQueue'[i] = outQueue[i] /\ outQueue[i] \in QueuedFrame
                    /\ outQueue'[n] = [kind |-> outbox[x].kind, turn |-> outbox[x].turn, from |-> x]
                    /\ WillWait(x, outQueue'[n])
  BY <1>3, PutIs
<1>4. sender # "running" => outQueue' = outQueue
  BY PutIs
<1>5. StopShape'
  BY <1>0, <1>1, <1>2, <1>4 DEF StopShape, Failed
<1>6. ASSUME NEW f \in QueuedFrame, Waits(f.from, f) PROVE f.from # x /\ WillWait(f.from, f)
  <2>1. f.from # x
    BY <1>2, <1>6 DEF Waits
  <2>2. f.from \in Waiters
    BY DEF QueuedFrame
  <2> QED BY <1>2, <1>6, <2>1, <2>2 DEF Waits, WillWait
<1>7. \A c \in Askers : /\ c \in Waiters /\ (outbox'[c].state = "sent" <=> outbox[c].state = "sent")
                        /\ outbox'[c].turn = outbox[c].turn
                        /\ outbox'[c].state \in {"putting", "queued"} => outbox[c].state \in {"putting", "queued"}
  BY <1>2, WaitersDiffer
<1>8. \A t \in Replies : /\ ByTurn(t) \in Waiters /\ (outbox[ByTurn(t)].state # "no" => outbox'[ByTurn(t)].state # "no")
                         /\ outbox'[ByTurn(t)].state \in {"sent", "no"} => outbox'[ByTurn(t)] = outbox[ByTurn(t)]
                         /\ sender = "running" /\ outbox[ByTurn(t)].state \in {"putting", "queued"} =>
                               outbox'[ByTurn(t)].state \in {"putting", "queued"}
  BY <1>2, WaitersDiffer
<1>9. activeTurn # 0 => activeTurn \in Replies
  BY <1>0 DEF OutputTypeOK, TurnStateOK, Turns, Replies
<1>12. ASSUME Notice(outbox[x]), NEW f \in QueuedFrame, Notice(f), Waits(f.from, f) PROVE FALSE
  <2>1. f.from \in Waiters /\ f.from # x /\ outbox[f.from].state # "no" /\ Notice(outbox[f.from])
    BY <1>6, <1>12 DEF QueuedFrame, Waits, Notice
  <2>2. holder = x /\ holder = f.from
    BY <1>2, <1>12, <2>1, NoticeWaiter
  <2> QED BY <2>1, <2>2
<1>10. NoticeShape'
  <2>1. \A c \in Askers : caller'[c].at = "stop" /\ outbox'[c].state \in {"putting", "queued"} =>
          outbox'[c].turn = Target(c)'
    BY <1>0, <1>1, <1>7 DEF NoticeShape, Target
  <2>2. CASE sender = "running"
    <3>1. PICK n : /\ n \notin DOMAIN outQueue /\ DOMAIN outQueue' = DOMAIN outQueue \cup {n}
                   /\ \A i \in DOMAIN outQueue : outQueue'[i] = outQueue[i] /\ outQueue[i] \in QueuedFrame
                   /\ outQueue'[n] = [kind |-> outbox[x].kind, turn |-> outbox[x].turn, from |-> x]
                   /\ WillWait(x, outQueue'[n])
      BY <1>3, <2>2
    <3>2. outQueue'[n].kind = outbox[x].kind /\ outQueue'[n].from = x
      BY <3>1
    <3>3. ASSUME Live
          PROVE  \A i \in DOMAIN outQueue' : Notice(outQueue'[i]) => WillWait(outQueue'[i].from, outQueue'[i])
      BY <1>0, <1>6, <3>1, <3>2, <3>3 DEF NoticeShape
    <3>4. ASSUME Live
          PROVE  \A i, j \in DOMAIN outQueue' : Notice(outQueue'[i]) /\ Notice(outQueue'[j]) => i = j
      <4>1. Notice(outbox[x]) => \A i \in DOMAIN outQueue : ~Notice(outQueue[i])
        <5> SUFFICES ASSUME Notice(outbox[x]), NEW i \in DOMAIN outQueue, Notice(outQueue[i]) PROVE FALSE
          OBVIOUS
        <5>1. Waits(outQueue[i].from, outQueue[i]) /\ outQueue[i] \in QueuedFrame
          BY <1>0, <3>1, <3>4 DEF NoticeShape
        <5> QED BY <1>12, <5>1
      <4>2. Notice(outQueue'[n]) => Notice(outbox[x])
        BY <3>2 DEF Notice
      <4> QED BY <1>0, <3>1, <3>4, <4>1, <4>2 DEF NoticeShape
    <3>8. \A i, j \in DOMAIN outQueue' : outQueue'[i].kind = "audio_stop" /\ outQueue'[j].kind = "audio_stop" => i = j
      <4>1. outbox[x].kind = "audio_stop" => \A i \in DOMAIN outQueue : outQueue[i].kind # "audio_stop"
        <5> SUFFICES ASSUME outbox[x].kind = "audio_stop", NEW i \in DOMAIN outQueue, outQueue[i].kind = "audio_stop"
                     PROVE FALSE
          OBVIOUS
        <5>1. x \in Askers /\ caller[x].at = "stop"
          BY <1>2, NoticeWaiter DEF Notice
        <5>2. ~NobodyStarts
          BY <5>1 DEF NobodyStarts, Locking
        <5>3. Waits(outQueue[i].from, outQueue[i]) /\ outQueue[i] \in QueuedFrame
          BY <1>0, <3>1, <5>2 DEF NoticeShape
        <5> QED BY <1>12, <5>3 DEF Notice
      <4> QED BY <1>0, <3>1, <3>2, <4>1 DEF NoticeShape
    <3>5. outbox[x].kind = "audio_stop" => activeTurn = 0
      BY <1>2, NoticeWaiter DEF Notice
    <3>6. \A i \in DOMAIN outQueue' : outQueue'[i].kind = "audio_stop" =>
            activeTurn = 0 /\ (WillWait(outQueue'[i].from, outQueue'[i]) \/ NobodyStarts)
      <4>1. \A i \in DOMAIN outQueue : outQueue[i].kind = "audio_stop" =>
            activeTurn = 0 /\ (WillWait(outQueue[i].from, outQueue[i]) \/ NobodyStarts)
        BY <1>0, <1>6, <3>1 DEF NoticeShape
      <4> QED BY <3>1, <3>2, <3>5, <4>1
    <3>7. Live' <=> Live
      BY <1>1 DEF Live
    <3>9. NobodyStarts' <=> NobodyStarts
      BY <1>1 DEF NobodyStarts
    <3> QED BY <1>1, <2>1, <3>3, <3>4, <3>6, <3>7, <3>8, <3>9 DEF NoticeShape, Waits, WillWait, Notice
  <2>3. CASE sender # "running"
    <3>1. outQueue = <<>> /\ outQueue' = <<>>
      BY <1>0, <1>4, <2>3 DEF StopShape
    <3>2. DOMAIN outQueue' = {}
      BY <3>1
    <3> QED BY <2>1, <3>2 DEF NoticeShape
  <2> QED BY <2>2, <2>3
<1>11. PlayShape'
  BY <1>0, <1>1, <1>8, <1>9 DEF PlayShape
<1>16. EndShape'
  BY <1>0, <1>1, EndsStay
<1>13. ASSUME NEW s \in Replies, MayHear(s) PROVE MayHear(s)'
  <2>1. HeardOfTurn(s)'
    <3>1. HeardOfTurn(s)
      BY <1>13 DEF MayHear
    <3> QED BY <1>1, <1>8, <1>9, <3>1 DEF HeardOfTurn
  <2>2. HeardOfStop(s)'
    <3>1. HeardOfStop(s) /\ HeardOfCall(s)
      BY <1>13 DEF MayHear
    <3>2. CASE sender = "running"
      <4>1. PICK n : /\ n \notin DOMAIN outQueue /\ DOMAIN outQueue' = DOMAIN outQueue \cup {n}
                     /\ \A i \in DOMAIN outQueue : outQueue'[i] = outQueue[i] /\ outQueue[i] \in QueuedFrame
                     /\ outQueue'[n] = [kind |-> outbox[x].kind, turn |-> outbox[x].turn, from |-> x]
                     /\ WillWait(x, outQueue'[n])
        BY <1>3, <3>2
      <4>2. outQueue'[n].kind = outbox[x].kind /\ outQueue'[n].turn = outbox[x].turn
        BY <4>1
      <4>3. outbox[x].kind = "audio_stop" => s = outbox[x].turn
        <5>1. SUFFICES ASSUME outbox[x].kind = "audio_stop" PROVE s = outbox[x].turn
          OBVIOUS
        <5>2. x \in Askers /\ caller[x].at = "stop"
          BY <1>2, <5>1, NoticeWaiter DEF Notice
        <5>3. outbox[x].turn = Target(x)
          BY <1>0, <1>2, <5>2 DEF NoticeShape
        <5> QED BY <3>1, <3>2, <5>2, <5>3 DEF HeardOfCall
      <4> QED BY <3>1, <4>1, <4>2, <4>3 DEF HeardOfStop
    <3>3. CASE sender # "running"
      BY <1>4, <3>1, <3>3 DEF HeardOfStop
    <3> QED BY <3>2, <3>3
  <2>3. HeardOfCall(s)'
    <3>1. HeardOfCall(s)
      BY <1>13 DEF MayHear
    <3> QED BY <1>1, <1>7, <3>1 DEF HeardOfCall, Live, Target, Sent
  <2>4. HeardOfPlay(s)'
    <3>1. HeardOfPlay(s)
      BY <1>13 DEF MayHear
    <3> QED BY <1>1, <1>8, <3>1 DEF HeardOfPlay, Live
  <2> QED BY <2>1, <2>2, <2>3, <2>4 DEF MayHear
<1>14. \A t \in Turns : MayShow(t) => MayShow(t)'
  <2> SUFFICES ASSUME NEW t \in Turns, MayShow(t) PROVE MayShow(t)'
    OBVIOUS
  <2>1. \A r \in Replies : outbox'[ByTurn(r)].state = "sent" => outbox[ByTurn(r)].state = "sent"
    BY <1>8
  <2>2. \A c \in Askers : Sent(c)' <=> Sent(c)
    BY <1>7 DEF Sent
  <2> QED BY <1>1, <1>9, <2>1, <2>2 DEF MayShow, Live
<1>15. StreamShape' /\ HeardShape' /\ ShownShape'
  BY <1>0, <1>1, <1>13, <1>14, QuietStep
<1> QED BY <1>5, <1>10, <1>11, <1>15, <1>16 DEF AgreeInv

\* Taking the first frame resolves the wait for it and no other.
LEMMA HeadResolved ==
  ASSUME OutputInv, outQueue # <<>>, outbox' = Resolved(Head(outQueue)), outQueue' = Tail(outQueue)
  PROVE  /\ 1 \in DOMAIN outQueue /\ Head(outQueue) = outQueue[1] /\ outQueue[1] \in QueuedFrame
         /\ \A i \in DOMAIN outQueue' : /\ i + 1 \in DOMAIN outQueue /\ i + 1 # 1
                                        /\ outQueue'[i] = outQueue[i + 1] /\ outQueue[i + 1] \in QueuedFrame
         /\ \A x \in Waiters :
              /\ outbox'[x].kind = outbox[x].kind /\ outbox'[x].turn = outbox[x].turn
              /\ \/ outbox'[x] = outbox[x]
                 \/ Waits(x, outQueue[1]) /\ outbox[x].state = "queued" /\ outbox'[x].state = "sent"
              /\ ~Waits(x, outQueue[1]) => outbox'[x] = outbox[x]
<1>1. FramesOK /\ outQueue \in Seq(QueuedFrame)
  BY DEF OutputInv, OutputTypeOK, FramesOK
<1>2. /\ Head(outQueue) = outQueue[1] /\ 1 \in DOMAIN outQueue
      /\ Len(outQueue) \in Nat /\ DOMAIN outQueue' = 1 .. Len(outQueue) - 1
      /\ \A i \in DOMAIN outQueue' : outQueue'[i] = outQueue[i + 1] /\ i + 1 \in DOMAIN outQueue
  BY <1>1, QueueShrinks
<1>3. \A i \in DOMAIN outQueue' : i + 1 # 1
  BY <1>2
<1>4. \A i \in DOMAIN outQueue : outQueue[i] \in QueuedFrame
  BY <1>1
<1>5. PICK f : f = outQueue[1]
  OBVIOUS
<1>6. \A x \in Waiters : /\ outbox'[x].kind = outbox[x].kind /\ outbox'[x].turn = outbox[x].turn
                         /\ ~Waits(x, f) => outbox'[x] = outbox[x]
                         /\ Waits(x, f) => outbox[x].state = "queued" /\ outbox'[x].state = "sent"
  BY <1>1, <1>2, <1>5, ResolvedWaiters
<1> QED BY <1>2, <1>3, <1>4, <1>5, <1>6

\* What taking the first frame leaves as it was.
LEMMA HeadKeepsShapes ==
  ASSUME OutputInv, AgreeInv, outQueue # <<>>, sender = "running",
         outbox' = Resolved(Head(outQueue)), outQueue' = Tail(outQueue),
         UNCHANGED <<turnState, gen, caller, connection, sender>>
  PROVE  StopShape' /\ NoticeShape' /\ PlayShape' /\ \A s : HeardOfStop(s) => HeardOfStop(s)'
<1>0. OutputTypeOK /\ StopShape /\ NoticeShape /\ PlayShape
  BY DEF OutputInv, AgreeInv
<1>1. UNCHANGED <<activeTurn, playback, gen, caller, connection, sender>>
  BY DEF turnState
<1>2. /\ 1 \in DOMAIN outQueue /\ outQueue[1] \in QueuedFrame
      /\ \A i \in DOMAIN outQueue' : /\ i + 1 \in DOMAIN outQueue /\ i + 1 # 1
                                     /\ outQueue'[i] = outQueue[i + 1] /\ outQueue[i + 1] \in QueuedFrame
      /\ \A x \in Waiters :
           /\ outbox'[x].kind = outbox[x].kind /\ outbox'[x].turn = outbox[x].turn
           /\ \/ outbox'[x] = outbox[x]
              \/ Waits(x, outQueue[1]) /\ outbox[x].state = "queued" /\ outbox'[x].state = "sent"
           /\ ~Waits(x, outQueue[1]) => outbox'[x] = outbox[x]
  BY HeadResolved
<1>3. StopShape'
  BY <1>0, <1>1, <1>2 DEF StopShape, Failed
<1>4. PlayShape'
  <2>1. activeTurn # 0 => ByTurn(activeTurn) \in Waiters
    <3>1. activeTurn # 0 => activeTurn \in Replies
      BY <1>0 DEF OutputTypeOK, TurnStateOK, Turns, Replies
    <3> QED BY <3>1, WaitersDiffer
  <2>2. \A x \in Waiters : outbox[x].state # "no" => outbox'[x].state # "no"
    BY <1>2
  <2> QED BY <1>0, <1>1, <2>1, <2>2 DEF PlayShape
<1>5. \A s : HeardOfStop(s) => HeardOfStop(s)'
  BY <1>2 DEF HeardOfStop
<1>6. ASSUME NEW i \in DOMAIN outQueue', Waits(outQueue[i + 1].from, outQueue[i + 1]),
             outQueue[1].kind = outQueue[i + 1].kind => FALSE
      PROVE  WillWait(outQueue'[i].from, outQueue'[i])
  <2>1. outQueue[i + 1].from \in Waiters /\ outQueue'[i] = outQueue[i + 1]
    BY <1>2 DEF QueuedFrame
  <2>2. ~Waits(outQueue[i + 1].from, outQueue[1])
    BY <1>6 DEF Waits
  <2>3. outbox'[outQueue[i + 1].from] = outbox[outQueue[i + 1].from]
    BY <1>2, <2>1, <2>2
  <2> QED BY <1>6, <2>1, <2>3 DEF Waits, WillWait
<1>7. NoticeShape'
  <2>1. ASSUME Live
        PROVE  /\ \A i \in DOMAIN outQueue' : Notice(outQueue'[i]) => WillWait(outQueue'[i].from, outQueue'[i])
               /\ \A i, j \in DOMAIN outQueue' : Notice(outQueue'[i]) /\ Notice(outQueue'[j]) => i = j
    <3>1. ASSUME NEW i \in DOMAIN outQueue', Notice(outQueue'[i])
          PROVE  WillWait(outQueue'[i].from, outQueue'[i])
      <4>1. i + 1 \in DOMAIN outQueue /\ Notice(outQueue[i + 1]) /\ i + 1 # 1
        BY <1>2, <3>1
      <4>2. Waits(outQueue[i + 1].from, outQueue[i + 1]) /\ ~Notice(outQueue[1])
        BY <1>0, <1>2, <2>1, <4>1 DEF NoticeShape
      <4> QED BY <1>6, <4>1, <4>2 DEF Notice
    <3>2. ASSUME NEW i \in DOMAIN outQueue', NEW j \in DOMAIN outQueue', Notice(outQueue'[i]), Notice(outQueue'[j])
          PROVE  i = j
      <4>1. i + 1 = j + 1
        BY <1>0, <1>2, <2>1, <3>2 DEF NoticeShape
      <4>2. i \in Int /\ j \in Int
        BY <1>0 DEF OutputTypeOK, FramesOK
      <4> QED BY <4>1, <4>2
    <3> QED BY <3>1, <3>2
  <2>2. \A i \in DOMAIN outQueue' : outQueue'[i].kind = "audio_stop" =>
          activeTurn = 0 /\ (WillWait(outQueue'[i].from, outQueue'[i]) \/ NobodyStarts)
    <3> SUFFICES ASSUME NEW i \in DOMAIN outQueue', outQueue'[i].kind = "audio_stop"
                 PROVE  activeTurn = 0 /\ (WillWait(outQueue'[i].from, outQueue'[i]) \/ NobodyStarts)
      OBVIOUS
    <3>1. i + 1 \in DOMAIN outQueue /\ outQueue[i + 1].kind = "audio_stop" /\ i + 1 # 1
      BY <1>2
    <3>2. activeTurn = 0 /\ (Waits(outQueue[i + 1].from, outQueue[i + 1]) \/ NobodyStarts)
      BY <1>0, <3>1 DEF NoticeShape
    <3>3. outQueue[1].kind # "audio_stop"
      BY <1>0, <1>2, <3>1 DEF NoticeShape
    <3> QED BY <1>6, <3>1, <3>2, <3>3
  <2>3. \A i, j \in DOMAIN outQueue' : outQueue'[i].kind = "audio_stop" /\ outQueue'[j].kind = "audio_stop" => i = j
    <3> SUFFICES ASSUME NEW i \in DOMAIN outQueue', NEW j \in DOMAIN outQueue',
                        outQueue'[i].kind = "audio_stop", outQueue'[j].kind = "audio_stop"
                 PROVE  i = j
      OBVIOUS
    <3>1. i + 1 = j + 1
      BY <1>0, <1>2 DEF NoticeShape
    <3>2. i \in Int /\ j \in Int
      BY <1>0 DEF OutputTypeOK, FramesOK
    <3> QED BY <3>1, <3>2
  <2>4. \A c \in Askers : caller[c].at = "stop" /\ outbox'[c].state \in {"putting", "queued"} =>
          outbox'[c].turn = Target(c)
    BY <1>0, <1>2, WaitersDiffer DEF NoticeShape
  <2>5. (Live' <=> Live) /\ (NobodyStarts' <=> NobodyStarts) /\ \A c : Target(c)' = Target(c)
    BY <1>1 DEF Live, NobodyStarts, Target
  <2> QED BY <1>1, <2>1, <2>2, <2>3, <2>4, <2>5 DEF NoticeShape, Waits, WillWait, Notice
<1> QED BY <1>3, <1>4, <1>5, <1>7

\* Nobody who matters waits for a frame that is left out.
LEMMA DropIsUnseen ==
  ASSUME OutputInv, Drop, NEW x \in Waiters,
         \/ x \in Askers /\ outbox[x].state # "no"
         \/ activeTurn \in Replies /\ x = ByTurn(activeTurn)
  PROVE  outbox'[x] = outbox[x]
<1>0. OutboxShape /\ CallShape /\ TaskStepsOK
  BY DEF OutputInv, OutputTypeOK
<1>1. outQueue # <<>> /\ outbox' = Resolved(Head(outQueue)) /\ outQueue' = Tail(outQueue)
  BY DEF Drop
<1>2. /\ Head(outQueue) = outQueue[1]
      /\ ~Waits(x, outQueue[1]) => outbox'[x] = outbox[x]
  BY <1>1, HeadResolved
<1>3. Guarded(outQueue[1]) /\ outQueue[1].turn # activeTurn
  BY <1>2 DEF Drop, Stale
<1>4. SUFFICES ASSUME Waits(x, outQueue[1]) PROVE FALSE
  BY <1>2
<1>5. outbox[x].state = "queued" /\ Guarded(outbox[x]) /\ outbox[x].turn # activeTurn
  BY <1>3, <1>4 DEF Waits, Guarded
<1>6. CASE x \in Askers
  <2>1. caller[x].at = "begin" /\ outbox[x].turn = caller[x].turn
    BY <1>0, <1>5, <1>6 DEF OutboxShape, Guarded
  <2> QED BY <1>0, <1>5, <1>6, <2>1 DEF CallShape
<1>7. CASE activeTurn \in Replies /\ x = ByTurn(activeTurn)
  BY <1>0, <1>5, <1>7 DEF OutboxShape
<1> QED BY <1>6, <1>7

\* A frame of another turn is left out.
LEMMA DropKeepsAgreement ==
  ASSUME OutputInv, AgreeInv, Drop
  PROVE  AgreeInv'
<1>0. /\ OutputTypeOK /\ EndShape /\ StreamShape /\ HeardShape /\ ShownShape
  BY DEF OutputInv, AgreeInv
<1>1. /\ UNCHANGED <<activeTurn, playback, gen, caller, connection, sender, wire, player, generating, held, reports>>
      /\ UNCHANGED turnState /\ outQueue # <<>> /\ sender = "running"
      /\ outbox' = Resolved(Head(outQueue)) /\ outQueue' = Tail(outQueue)
  BY DEF Drop, turnState, page
<1>2. StopShape' /\ NoticeShape' /\ PlayShape' /\ \A s : HeardOfStop(s) => HeardOfStop(s)'
  BY <1>1, HeadKeepsShapes
<1>3. \A x \in Waiters : outbox'[x] = outbox[x] \/ (outbox[x].state = "queued" /\ outbox'[x].state = "sent")
  BY <1>1, HeadResolved
<1>4. \A c \in Askers : outbox'[c].state = outbox[c].state
  <2> TAKE c \in Askers
  <2>1. c \in Waiters
    BY WaitersDiffer
  <2>2. outbox[c].state # "no" => outbox'[c] = outbox[c]
    BY <2>1, DropIsUnseen
  <2> QED BY <1>3, <2>1, <2>2
<1>5. activeTurn # 0 => activeTurn \in Replies /\ outbox'[ByTurn(activeTurn)] = outbox[ByTurn(activeTurn)]
  <2>1. activeTurn # 0 => activeTurn \in Replies
    BY <1>0 DEF OutputTypeOK, TurnStateOK, Turns, Replies
  <2> QED BY <2>1, WaitersDiffer, DropIsUnseen
<1>6. EndShape'
  BY <1>0, <1>1, EndsStay
<1>7. ASSUME NEW s \in Replies, MayHear(s) PROVE MayHear(s)'
  <2>1. s # 0
    BY DEF Replies
  <2>2. HeardOfTurn(s) /\ HeardOfStop(s) /\ HeardOfCall(s) /\ HeardOfPlay(s)
    BY <1>7 DEF MayHear
  <2>3. HeardOfTurn(s)'
    BY <1>1, <1>5, <2>2 DEF HeardOfTurn
  <2>4. HeardOfCall(s)'
    BY <1>1, <1>4, <2>2 DEF HeardOfCall, Live, Target, Sent
  <2>5. HeardOfPlay(s)'
    BY <1>1, <1>5, <2>1, <2>2 DEF HeardOfPlay, Live
  <2> QED BY <1>2, <2>2, <2>3, <2>4, <2>5 DEF MayHear
<1>8. ASSUME NEW t \in Turns, MayShow(t) PROVE MayShow(t)'
  BY <1>1, <1>4, <1>5, <1>8 DEF MayShow, Live, Sent
<1>9. StreamShape' /\ HeardShape' /\ ShownShape'
  BY <1>0, <1>1, <1>7, <1>8, QuietStep
<1> QED BY <1>2, <1>6, <1>9 DEF AgreeInv

\* The sender stops.
LEMMA StopKeepsAgreement ==
  ASSUME OutputInv, AgreeInv, SenderStops
  PROVE  AgreeInv'
<1>0. /\ OutputTypeOK /\ OutboxShape /\ StopShape /\ NoticeShape /\ PlayShape /\ EndShape /\ StreamShape /\ HeardShape
      /\ ShownShape
  BY DEF OutputInv, AgreeInv
<1>1. /\ UNCHANGED <<activeTurn, playback, gen, caller, connection, wire, player, generating, held, reports>>
      /\ outQueue' = <<>> /\ sender' # "running"
  BY DEF SenderStops, turnState, page
<1>2. FramesOK
  BY <1>0 DEF OutputTypeOK
<1>3. \A x \in Waiters :
        /\ outbox'[x] = Drained[x] \/ (outbox'[x] = Resolved(Head(outQueue))[x] /\ Waits(x, Head(outQueue)))
        /\ outbox'[x] = Drained[x] \/ outbox[x].kind = "end"
  BY DEF SenderStops, Waits
<1>4. \A x \in Waiters : /\ outbox'[x].turn = outbox[x].turn /\ (outbox[x].state # "no" => outbox'[x].state # "no")
                         /\ outbox'[x].state \in {"putting", "queued"} => outbox[x].state \in {"putting", "queued"}
  BY <1>2, <1>3, ResolvedWaiters, DrainedWaiters
<1>5. activeTurn # 0 => /\ ByTurn(activeTurn) \in Waiters
                        /\ outbox'[ByTurn(activeTurn)].state \in {"sent", "no"} =>
                              outbox[ByTurn(activeTurn)].state \in {"sent", "no"}
  <2> SUFFICES ASSUME activeTurn # 0
               PROVE  /\ ByTurn(activeTurn) \in Waiters
                      /\ outbox'[ByTurn(activeTurn)].state \in {"sent", "no"} =>
                            outbox[ByTurn(activeTurn)].state \in {"sent", "no"}
    OBVIOUS
  <2>1. activeTurn \in Replies /\ ByTurn(activeTurn) \in Waiters
    BY <1>0, WaitersDiffer DEF OutputTypeOK, TurnStateOK, Turns, Replies
  <2>2. outbox[ByTurn(activeTurn)].state # "no" => outbox[ByTurn(activeTurn)].kind # "end"
    <3>1. gen[activeTurn] \in DOMAIN Follow \cup LastFrames \cup {"none", "cancelled", "done"}
      BY <1>0, <2>1 DEF OutputTypeOK, TaskStepsOK
    <3> QED BY <1>0, <2>1, <3>1, Kinds DEF OutboxShape, LastFrames
  <2>3. outbox[ByTurn(activeTurn)].state # "no" => outbox'[ByTurn(activeTurn)] = Drained[ByTurn(activeTurn)]
    BY <1>3, <2>1, <2>2
  <2> QED BY <1>2, <2>1, <2>3, DrainedWaiters
<1>6. StopShape'
  BY <1>0, <1>1 DEF StopShape
<1>7. PlayShape'
  BY <1>0, <1>1, <1>4, <1>5 DEF PlayShape
<1>8. DOMAIN outQueue' = {} /\ ~Live'
  BY <1>1 DEF Live
<1>9. NoticeShape'
  <2>1. \A c \in Askers : caller'[c].at = "stop" /\ outbox'[c].state \in {"putting", "queued"} =>
          outbox'[c].turn = Target(c)'
    BY <1>0, <1>1, <1>4, WaitersDiffer DEF NoticeShape, Target
  <2> QED BY <1>8, <2>1 DEF NoticeShape
<1>10. EndShape'
  BY <1>0, <1>1, EndsStay
<1>11. ASSUME NEW s \in Replies, MayHear(s) PROVE MayHear(s)'
  <2>1. HeardOfTurn(s)'
    BY <1>1, <1>5, <1>11 DEF MayHear, HeardOfTurn
  <2>2. HeardOfStop(s)' /\ HeardOfCall(s)' /\ HeardOfPlay(s)'
    BY <1>1, <1>8 DEF HeardOfStop, HeardOfCall, HeardOfPlay
  <2> QED BY <2>1, <2>2 DEF MayHear
<1>12. \A t \in Turns : MayShow(t)'
  BY <1>8 DEF MayShow
<1>13. StreamShape' /\ HeardShape' /\ ShownShape'
  BY <1>0, <1>1, <1>11, <1>12, QuietStep
<1> QED BY <1>6, <1>7, <1>9, <1>10, <1>13 DEF AgreeInv

\* What the first frame of the queue tells of the turn when it is written.
LEMMA WrittenFrame ==
  ASSUME OutputInv, AgreeInv, Write, NEW f, f = outQueue[1]
  PROVE  /\ f \in QueuedFrame /\ f = Head(outQueue) /\ f.kind # "end" /\ 1 \in DOMAIN outQueue
         /\ Guarded(f) => f.turn = activeTurn /\ activeTurn \in Replies
         /\ f.kind = "turn_started" => gen[activeTurn] = "none"
         /\ Guarded(f) /\ f.kind # "turn_started" => f.kind = gen[activeTurn]
         /\ Live /\ f.kind = "turn_cancelled" => activeTurn = 0
<1>0. OutputTypeOK /\ QueueShape /\ NoticeShape /\ PlayShape
  BY DEF OutputInv, AgreeInv
<1>1. /\ outQueue # <<>> /\ outbox' = Resolved(Head(outQueue)) /\ outQueue' = Tail(outQueue)
      /\ ~Stale(Head(outQueue)) /\ Head(outQueue).kind # "end"
  BY DEF Write
<1>2. 1 \in DOMAIN outQueue /\ Head(outQueue) = outQueue[1] /\ outQueue[1] \in QueuedFrame
  BY <1>1, HeadResolved
<1>3. f \in QueuedFrame /\ f = Head(outQueue) /\ f.kind # "end" /\ f.from \in Waiters
  BY <1>1, <1>2 DEF QueuedFrame
<1>4. ASSUME Guarded(f) PROVE OfThisTurn(f) /\ f.turn = activeTurn /\ activeTurn \in Replies /\ activeTurn # 0
  <2>1. f.turn = activeTurn /\ f.turn # 0
    BY <1>0, <1>1, <1>2, <1>3, <1>4 DEF Stale, QueueShape
  <2> QED BY <1>0, <1>4, <2>1 DEF OfThisTurn, OutputTypeOK, TurnStateOK, Turns, Replies
<1>5. ASSUME Guarded(f)
      PROVE  \/ gen[activeTurn] = "none" /\ f.kind = "turn_started"
             \/ gen[activeTurn] # "none" /\ f.kind = gen[activeTurn]
  <2>1. Waits(f.from, f)
    BY <1>0, <1>2, <1>4, <1>5 DEF QueueShape
  <2>2. outbox[f.from].state # "no" /\ OfThisTurn(outbox[f.from]) /\ outbox[f.from].kind = f.kind
    BY <1>4, <1>5, <2>1 DEF Waits, OfThisTurn, Guarded
  <2>3. gen[activeTurn] # "unwinding"
    BY <1>0, <1>4, <1>5 DEF PlayShape
  <2> QED BY <1>3, <2>2, <2>3, CurrentWaiter
<1>6. ASSUME Guarded(f) PROVE gen[activeTurn] # "turn_started"
  <2>1. gen[activeTurn] \in DOMAIN Follow \cup LastFrames \cup {"none", "cancelled", "done"}
    BY <1>0, <1>4, <1>6 DEF OutputTypeOK, TaskStepsOK
  <2> QED BY <2>1, Kinds DEF LastFrames
<1>7. ASSUME Live, f.kind = "turn_cancelled" PROVE activeTurn = 0
  <2>1. Waits(f.from, f)
    BY <1>0, <1>2, <1>7 DEF NoticeShape, Notice
  <2>2. outbox[f.from].state # "no" /\ Notice(outbox[f.from])
    BY <1>7, <2>1 DEF Waits, Notice
  <2> QED BY <1>3, <2>2, NoticeWaiter
<1>8. f.kind = "turn_started" => Guarded(f)
  BY DEF Guarded
<1> QED BY <1>2, <1>3, <1>4, <1>5, <1>6, <1>7, <1>8

\* A frame is written.
LEMMA WriteKeepsAgreement ==
  ASSUME OutputInv, AgreeInv, Write
  PROVE  AgreeInv'
<1>0. /\ OutputTypeOK /\ CallShape /\ OutboxShape /\ StopShape /\ NoticeShape /\ PlayShape /\ EndShape /\ StreamShape
      /\ HeardShape /\ ShownShape
  BY DEF OutputInv, AgreeInv
<1> DEFINE w == [kind |-> Head(outQueue).kind, turn |-> Head(outQueue).turn]
<1>1. /\ UNCHANGED <<activeTurn, playback, gen, caller, connection, sender, player, generating, held, reports>>
      /\ UNCHANGED turnState /\ outQueue # <<>> /\ sender = "running" /\ wire' = Append(wire, w)
      /\ outbox' = Resolved(Head(outQueue)) /\ outQueue' = Tail(outQueue)
  BY DEF Write, turnState, page
<1>2. StopShape' /\ NoticeShape' /\ PlayShape' /\ \A s : HeardOfStop(s) => HeardOfStop(s)'
  BY <1>1, HeadKeepsShapes
<1>3. PICK f : f = outQueue[1]
  OBVIOUS
<1>4. /\ f \in QueuedFrame /\ f = Head(outQueue) /\ f.kind # "end" /\ 1 \in DOMAIN outQueue
      /\ Guarded(f) => f.turn = activeTurn /\ activeTurn \in Replies
      /\ f.kind = "turn_started" => gen[activeTurn] = "none"
      /\ Guarded(f) /\ f.kind # "turn_started" => f.kind = gen[activeTurn]
      /\ Live /\ f.kind = "turn_cancelled" => activeTurn = 0
  BY <1>3, WrittenFrame
<1>5. w \in WireFrame /\ w.kind = f.kind /\ w.turn = f.turn
  BY <1>4 DEF QueuedFrame, WireFrame
<1> HIDE DEF w
<1>6. wire \in Seq(WireFrame)
  BY <1>0 DEF OutputTypeOK, FramesOK
<1>7. /\ DOMAIN wire' = 1 .. Len(wire) + 1 /\ DOMAIN wire = 1 .. Len(wire) /\ Len(wire) \in Nat
      /\ (\A i \in DOMAIN wire : wire'[i] = wire[i]) /\ wire'[Len(wire) + 1] = w
  BY <1>1, <1>5, <1>6, QueueGrows
<1>8. /\ \A n \in 0 .. Len(wire) : \A s : Hears(n, s)' <=> Hears(n, s)
      /\ \A s : Hears(Len(wire), s)' =>
           IF w.kind = "audio_start" THEN s = w.turn ELSE w.kind \notin Silencers /\ Hears(Len(wire), s)
  BY <1>1, <1>5, <1>6, HearsWritten
<1>9. \A t : Shows(Len(wire), t)' =>
        IF w.kind \in Markers THEN t = Marked(w) ELSE Shows(Len(wire), t)
  BY <1>1, <1>5, <1>6, ShowsWritten
<1>10. \A x \in Waiters : \/ outbox'[x] = outbox[x]
                          \/ outbox[x].state = "queued" /\ outbox'[x].state = "sent" /\ outbox[x].kind = f.kind
  BY <1>1, <1>3, HeadResolved DEF Waits
<1>11. activeTurn # 0 => /\ activeTurn \in Replies /\ ByTurn(activeTurn) \in Waiters
                         /\ outbox[ByTurn(activeTurn)].state = "queued" => outbox[ByTurn(activeTurn)].kind = gen[activeTurn]
  <2> SUFFICES ASSUME activeTurn # 0
               PROVE  /\ activeTurn \in Replies /\ ByTurn(activeTurn) \in Waiters
                      /\ outbox[ByTurn(activeTurn)].state = "queued" => outbox[ByTurn(activeTurn)].kind = gen[activeTurn]
    OBVIOUS
  <2>1. activeTurn \in Replies /\ ByTurn(activeTurn) \in Waiters
    BY <1>0, WaitersDiffer DEF OutputTypeOK, TurnStateOK, Turns, Replies
  <2> QED BY <1>0, <2>1 DEF OutboxShape, PlayShape
<1>12. /\ f.kind \in {"audio_start", "audio_frame", "audio_end", "audio_failed", "turn_failed"} =>
              Guarded(f) /\ f.kind # "turn_started"
       /\ f.kind \in Finals \ {"turn_cancelled"} => Guarded(f) /\ f.kind # "turn_started" /\ f.kind \in LastFrames
       /\ f.kind \in {"turn_started", "turn_waiting"} => Guarded(f)
  BY DEF Guarded, Finals, LastFrames
<1>13. EndShape'
  <2>1. w.kind = "audio_start" => gen[w.turn] \in UpToFrame
    BY <1>4, <1>5, <1>12 DEF UpToFrame
  <2>2. w.kind = "audio_end" => gen[w.turn] \notin UpToFrame
    BY <1>4, <1>5, <1>12 DEF UpToFrame, Beginning
  <2>3. w.kind = "audio_start" => w.turn \in Replies
    BY <1>4, <1>5, <1>12
  <2>4. \A i, j \in DOMAIN wire' : i < j /\ wire'[i].kind = "audio_end" =>
          ~(wire'[j].kind = "audio_start" /\ wire'[j].turn = wire'[i].turn)
    <3> SUFFICES ASSUME NEW i \in DOMAIN wire', NEW j \in DOMAIN wire', i < j, wire'[i].kind = "audio_end",
                        wire'[j].kind = "audio_start", wire'[j].turn = wire'[i].turn
                 PROVE  FALSE
      OBVIOUS
    <3>1. i \in DOMAIN wire /\ wire'[i] = wire[i]
      BY <1>7
    <3>2. CASE j \in DOMAIN wire
      BY <1>0, <1>7, <3>1, <3>2 DEF EndShape
    <3>3. CASE j = Len(wire) + 1
      <4>1. wire[i].turn = w.turn /\ w.kind = "audio_start"
        BY <1>7, <3>1, <3>3
      <4> QED BY <1>0, <2>1, <2>3, <3>1, <4>1 DEF EndShape
    <3> QED BY <1>7, <3>2, <3>3
  <2>5. \A i \in DOMAIN wire' : (i \in DOMAIN wire /\ wire'[i] = wire[i]) \/ wire'[i] = w
    BY <1>7
  <2>6. ASSUME NEW t \in Replies
        PROVE  /\ \A i \in DOMAIN wire' : wire'[i].kind = "audio_end" /\ wire'[i].turn = t => gen[t] \notin UpToFrame
               /\ t \in reports \/ player = [stream |-> t, state |-> "ending"] =>
                    /\ gen[t] \notin UpToFrame
                    /\ \A j \in DOMAIN wire' : ~(wire'[j].kind = "audio_start" /\ wire'[j].turn = t)
               /\ t \in reports => ~(Audible /\ player.stream = t)
    BY <1>0, <2>1, <2>2, <2>5 DEF EndShape
  <2> QED BY <1>1, <2>4, <2>6 DEF EndShape, Audible, UpToFrame, Beginning
<1>14. StreamShape'
  <2> SUFFICES ASSUME NEW i \in DOMAIN wire', wire'[i].kind \in {"audio_frame", "audio_end", "audio_stop"},
                      NEW s \in Replies, Hears(i - 1, s)'
               PROVE  s = wire'[i].turn
    BY DEF StreamShape
  <2>1. i - 1 \in 0 .. Len(wire)
    BY <1>7
  <2>2. Hears(i - 1, s)
    BY <1>8, <2>1
  <2>3. CASE i \in DOMAIN wire
    BY <1>0, <1>7, <2>2, <2>3 DEF StreamShape
  <2>4. CASE i = Len(wire) + 1
    <3>1. i - 1 = Len(wire) /\ wire'[i] = w
      BY <1>7, <2>4
    <3>2. Hears(Len(wire), s)
      BY <2>2, <3>1
    <3>3. HeardOfTurn(s) /\ HeardOfStop(s)
      BY <1>0, <3>2 DEF HeardShape, MayHear
    <3>4. CASE f.kind = "audio_stop"
      BY <1>3, <1>4, <1>5, <3>1, <3>3, <3>4 DEF HeardOfStop
    <3>5. CASE f.kind \in {"audio_frame", "audio_end"}
      <4>1. f.turn = activeTurn /\ activeTurn \in Replies /\ gen[activeTurn] = f.kind
        BY <1>4, <1>12, <3>5
      <4>2. activeTurn # 0
        BY <4>1 DEF Replies
      <4> QED BY <1>5, <3>1, <3>3, <3>5, <4>1, <4>2 DEF HeardOfTurn
    <3> QED BY <1>5, <3>1, <3>4, <3>5
  <2> QED BY <1>7, <2>3, <2>4
<1>15. HeardShape'
  <2> SUFFICES ASSUME NEW s \in Replies, Hears(Len(wire), s)' PROVE MayHear(s)'
    BY DEF HeardShape
  <2>1. CASE w.kind = "audio_start"
    <3>1. s = activeTurn /\ activeTurn # 0 /\ gen[activeTurn] = "audio_start"
      <4>1. s = w.turn
        BY <1>8, <2>1
      <4> QED BY <1>4, <1>5, <1>12, <2>1, <4>1 DEF Replies
    <3>2. HeardOfTurn(s)'
      BY <1>1, <3>1 DEF HeardOfTurn
    <3>3. HeardOfStop(s)'
      <4>1. HeardOfStop(s)
        BY <1>0, <3>1 DEF HeardOfStop, NoticeShape
      <4> QED BY <1>2, <4>1
    <3>4. HeardOfCall(s)'
      BY <1>0, <1>1, <3>1 DEF HeardOfCall, CallShape
    <3>5. HeardOfPlay(s)'
      BY <1>0, <1>1, <3>1 DEF HeardOfPlay, PlayShape
    <3> QED BY <3>2, <3>3, <3>4, <3>5 DEF MayHear
  <2>2. CASE w.kind # "audio_start"
    <3>1. w.kind \notin Silencers /\ Hears(Len(wire), s)
      BY <1>8, <2>2
    <3>2. HeardOfTurn(s) /\ HeardOfStop(s) /\ HeardOfCall(s) /\ HeardOfPlay(s)
      BY <1>0, <3>1 DEF HeardShape, MayHear
    <3>3. f.kind \notin Silencers
      BY <1>5, <3>1
    <3>4. HeardOfTurn(s)'
      BY <1>1, <1>10, <1>11, <3>2, <3>3 DEF HeardOfTurn, Silencers
    <3>5. HeardOfCall(s)'
      <4>1. \A c \in Askers : caller[c].at = "stop" /\ Sent(c)' => Sent(c)
        <5> SUFFICES ASSUME NEW c \in Askers, caller[c].at = "stop", outbox'[c].state = "sent", outbox[c].state # "sent"
                     PROVE  FALSE
          BY DEF Sent
        <5>1. c \in Waiters
          BY WaitersDiffer
        <5>2. outbox[c].state = "queued" /\ outbox[c].kind = f.kind
          BY <1>10, <5>1
        <5>3. outbox[c].kind = "audio_stop"
          BY <1>0, <5>2 DEF OutboxShape
        <5> QED BY <3>3, <5>2, <5>3 DEF Silencers
      <4> QED BY <1>1, <3>2, <4>1 DEF HeardOfCall, Live, Target
    <3>6. HeardOfPlay(s)'
      <4>1. s # 0
        BY DEF Replies
      <4> QED BY <1>1, <1>10, <1>11, <3>2, <3>3, <4>1 DEF HeardOfPlay, Live, Silencers
    <3> QED BY <1>2, <3>2, <3>4, <3>5, <3>6 DEF MayHear
  <2> QED BY <2>1, <2>2
<1>16. ShownShape'
  <2> SUFFICES ASSUME NEW t \in Turns, Shows(Len(wire), t)' PROVE MayShow(t)'
    BY <1>0, <1>1 DEF ShownShape
  <2>1. CASE w.kind \in {"turn_started", "turn_waiting"}
    <3>1. t = activeTurn /\ activeTurn # 0 /\ gen[activeTurn] \in {"none", "turn_waiting"}
      <4>1. t = w.turn
        BY <1>9, <2>1 DEF Marked, Markers
      <4> QED BY <1>4, <1>5, <1>12, <2>1, <4>1 DEF Replies
    <3> QED BY <1>1, <3>1 DEF MayShow, LastFrames
  <2>2. CASE w.kind \in Finals
    <3>1. t = 0
      BY <1>9, <2>2 DEF Marked, Markers, Finals
    <3>2. Live => activeTurn = 0 \/ gen[activeTurn] \in LastFrames
      BY <1>4, <1>5, <1>12, <2>2
    <3> QED BY <1>1, <3>1, <3>2 DEF MayShow, Live
  <2>3. CASE w.kind \notin Markers
    <3>1. MayShow(t)
      BY <1>0, <1>9, <2>3 DEF ShownShape
    <3>2. f.kind \notin Finals /\ f.kind # "turn_started"
      BY <1>5, <2>3 DEF Markers
    <3>3. \A c \in Askers : caller[c].at \in {"begin", "told"} => (Sent(c)' => Sent(c))
      <4> SUFFICES ASSUME NEW c \in Askers, caller[c].at \in {"begin", "told"},
                          outbox'[c].state = "sent", outbox[c].state # "sent"
                   PROVE  FALSE
        BY DEF Sent
      <4>1. c \in Waiters
        BY WaitersDiffer
      <4>2. outbox[c].state = "queued" /\ outbox[c].kind = f.kind
        BY <1>10, <4>1
      <4>3. outbox[c].kind \in {"turn_started", "turn_cancelled"}
        BY <1>0, <4>2 DEF OutboxShape
      <4> QED BY <3>2, <4>2, <4>3 DEF Finals
    <3>4. activeTurn # 0 /\ gen[activeTurn] \in LastFrames /\ outbox'[ByTurn(activeTurn)].state = "sent" =>
            outbox[ByTurn(activeTurn)].state = "sent"
      <4> SUFFICES ASSUME activeTurn # 0, gen[activeTurn] \in LastFrames, outbox'[ByTurn(activeTurn)].state = "sent",
                          outbox[ByTurn(activeTurn)].state # "sent"
                   PROVE  FALSE
        OBVIOUS
      <4>1. outbox[ByTurn(activeTurn)].state = "queued" /\ gen[activeTurn] = f.kind
        BY <1>10, <1>11
      <4>2. gen[activeTurn] # "unwinding"
        BY <1>0 DEF PlayShape
      <4> QED BY <3>2, <4>1, <4>2 DEF Finals, LastFrames
    <3> QED BY <1>1, <3>1, <3>3, <3>4 DEF MayShow, Live
  <2> QED BY <2>1, <2>2, <2>3 DEF Markers
<1> QED BY <1>2, <1>13, <1>14, <1>15, <1>16 DEF AgreeInv

(***************************************************************************)
(* The turn task.                                                          *)
(***************************************************************************)
\* A step of a turn task leaves every call's notice as it was.
LEMMA NoticesKept ==
  ASSUME OutputInv, NoticeShape, UNCHANGED <<outQueue, caller, connection, sender>>,
         activeTurn' \in {0, activeTurn}, \A c \in Askers : outbox'[c] = outbox[c]
  PROVE  NoticeShape'
<1>1. outQueue \in Seq(QueuedFrame)
  BY DEF OutputInv, OutputTypeOK, FramesOK
<1>2. ASSUME NEW i \in DOMAIN outQueue, Notice(outQueue[i]), Waits(outQueue[i].from, outQueue[i])
      PROVE  WillWait(outQueue[i].from, outQueue[i])
  <2>1. PICK f \in QueuedFrame : f = outQueue[i]
    BY <1>1
  <2>2. f.from \in Waiters /\ outbox[f.from].state # "no" /\ Notice(outbox[f.from])
    BY <1>2, <2>1 DEF QueuedFrame, Waits, Notice
  <2>3. f.from \in Askers
    BY <2>2, NoticeWaiter
  <2>4. WillWait(f.from, f)
    BY <1>2, <2>1, <2>3 DEF Waits, WillWait
  <2> QED BY <2>1, <2>4
<1>3. \A i \in DOMAIN outQueue : outQueue[i].kind = "audio_stop" => Notice(outQueue[i])
  BY DEF Notice
<1>4. (Live' <=> Live) /\ (NobodyStarts' <=> NobodyStarts)
  BY DEF Live, NobodyStarts
<1> QED BY <1>2, <1>3, <1>4 DEF NoticeShape, Waits, WillWait, Notice, Target

\* Which frame follows which.
LEMMA FollowedBy ==
  ASSUME NEW g \in DOMAIN Follow, NEW kind \in Follow[g]
  PROVE  /\ kind \notin {"none", "ready", "resumed", "cancelled", "done", "unwinding"}
         /\ kind = "turn_waiting" => g = "ready"
         /\ kind = "text_delta" => g \in {"ready", "resumed"}
         /\ kind = "audio_start" => g = "text_delta"
         /\ kind = "audio_frame" => g = "audio_start"
         /\ kind = "audio_end" => g = "audio_frame"
         /\ kind = "audio_failed" => g \in {"ready", "resumed", "text_delta", "audio_frame"}
         /\ kind \in UpToFrame => g \in UpToFrame
         /\ g \notin LastFrames
<1>1. g \in {"ready", "turn_waiting", "resumed", "text_delta", "audio_start", "audio_frame", "audio_end", "audio_failed"}
  BY Kinds
<1>2. CASE g = "ready"
  BY <1>2 DEF Follow, FirstFrames, UpToFrame, Beginning, LastFrames
<1>8. CASE g = "turn_waiting"
  BY <1>8 DEF Follow
<1>9. CASE g = "resumed"
  BY <1>9 DEF Follow, FirstFrames, UpToFrame, Beginning, LastFrames
<1>3. CASE g = "text_delta"
  BY <1>3 DEF Follow, UpToFrame, Beginning, LastFrames
<1>4. CASE g = "audio_start"
  BY <1>4 DEF Follow, UpToFrame, Beginning, LastFrames
<1>5. CASE g = "audio_frame"
  BY <1>5 DEF Follow, UpToFrame, Beginning, LastFrames
<1>6. CASE g = "audio_end"
  BY <1>6 DEF Follow, UpToFrame, Beginning, LastFrames
<1>7. CASE g = "audio_failed"
  BY <1>7 DEF Follow, UpToFrame, Beginning, LastFrames
<1> QED BY <1>1, <1>2, <1>3, <1>4, <1>5, <1>6, <1>7, <1>8, <1>9

\* The active turn sends its next frame; what plays is known from audio_start on.
LEMMA SendsKeepsAgreement ==
  ASSUME OutputInv, AgreeInv, NEW t \in Replies, TurnSends(t)
  PROVE  AgreeInv'
<1>0. /\ OutputTypeOK /\ TurnShape /\ CallShape
      /\ StopShape /\ NoticeShape /\ PlayShape /\ EndShape /\ StreamShape /\ HeardShape /\ ShownShape
  BY DEF OutputInv, AgreeInv
<1>1. PICK kind \in Follow[gen[t]] :
        /\ gen' = [gen EXCEPT ![t] = kind]
        /\ outbox' = Sending(ByTurn(t), kind, t)
        /\ playback' = CASE kind = "audio_start" /\ activeTurn = t -> t
                           [] kind = "audio_failed" /\ playback = t -> 0
                           [] OTHER -> playback
  BY DEF TurnSends
<1>2. /\ gen[t] \in DOMAIN Follow /\ outbox[ByTurn(t)] = Nothing
      /\ UNCHANGED <<activeTurn, caller, connection, outQueue, sender, wire, player, generating, held, reports>>
  BY DEF TurnSends, page
<1>3. FramesOK /\ gen \in [Replies -> DOMAIN Follow \cup LastFrames \cup {"none", "cancelled", "done"}]
      /\ playback \in Turns /\ t \in Turns /\ t # 0
  BY <1>0 DEF OutputTypeOK, TaskStepsOK, TurnStateOK, Turns, Replies
<1>4. t = activeTurn
  BY <1>0, <1>2 DEF Streams, TurnShape, NoOrphanTask
<1> DEFINE g == gen[t]
<1>5. /\ kind \notin {"none", "ready", "resumed", "cancelled", "done", "unwinding"}
      /\ kind = "turn_waiting" => g = "ready"
      /\ kind = "text_delta" => g \in {"ready", "resumed"}
      /\ kind = "audio_start" => g = "text_delta"
      /\ kind = "audio_frame" => g = "audio_start"
      /\ kind = "audio_end" => g = "audio_frame"
      /\ kind = "audio_failed" => g \in {"ready", "resumed", "text_delta", "audio_frame"}
      /\ kind \in UpToFrame => g \in UpToFrame
      /\ g \notin LastFrames /\ kind \in FrameKinds
  BY <1>2, FollowedBy, FollowKinds
<1>6. g = gen[t] /\ gen'[t] = kind /\ \A u \in Replies \ {t} : gen'[u] = gen[u]
  BY <1>1, <1>3
<1> HIDE DEF g
<1>7. ByTurn(t) \in Waiters /\ outbox[ByTurn(t)].state = "no"
  BY <1>2, WaitersDiffer DEF Nothing
<1>8. /\ outbox'[ByTurn(t)].state \in {"putting", "error"}
      /\ \A y \in Waiters \ {ByTurn(t)} : outbox'[y] = outbox[y]
  BY <1>1, <1>3, <1>5, <1>7, SendingIs
<1>9. outbox'[ByTurn(t)].state = IF sender = "running" THEN "putting" ELSE "error"
  BY <1>1, <1>3, <1>7 DEF Sending, FramesOK
<1>10. \A c \in Askers : outbox'[c] = outbox[c] /\ caller[c].at \notin Taking
  BY <1>0, <1>3, <1>4, <1>8, WaitersDiffer DEF CallShape, Taking
<1>11. /\ playback \in {0, t} /\ (g \in Beginning \cup {"audio_failed"} => playback = 0)
       /\ g \in {"audio_start", "audio_frame"} => playback = t
  BY <1>0, <1>3, <1>4, <1>6 DEF PlayShape
<1>12. /\ kind = "audio_start" => playback' = t
       /\ kind = "audio_failed" => playback' = 0
       /\ kind \notin {"audio_start", "audio_failed"} => playback' = playback
  <2>1. CASE kind = "audio_start"
    BY <1>1, <1>4, <2>1
  <2>2. CASE kind = "audio_failed"
    BY <1>1, <1>11, <2>2
  <2>3. CASE kind \notin {"audio_start", "audio_failed"}
    BY <1>1, <2>3
  <2> QED BY <2>1, <2>2, <2>3
<1>13. StopShape'
  BY <1>0, <1>2, <1>8, <1>9 DEF StopShape, Failed
<1>14. NoticeShape'
  BY <1>0, <1>2, <1>10, NoticesKept
<1>15. PlayShape'
  <2>1. playback' \in {0, t}
    BY <1>11, <1>12
  <2>2. kind \in Beginning \cup {"audio_failed"} => playback' = 0
    BY <1>5, <1>11, <1>12 DEF Beginning
  <2>3. kind \in {"audio_start", "audio_frame"} => playback' = t
    BY <1>5, <1>11, <1>12
  <2> QED BY <1>2, <1>4, <1>5, <1>6, <1>8, <1>10, <2>1, <2>2, <2>3 DEF PlayShape
<1>16. EndShape'
  <2>1. \A u \in Replies : gen[u] \notin UpToFrame => gen'[u] \notin UpToFrame
    BY <1>5, <1>6
  <2> QED BY <1>0, <1>2, <2>1, EndsStay
<1>17. ASSUME NEW s \in Replies, MayHear(s) PROVE MayHear(s)'
  <2>0. HeardOfTurn(s) /\ HeardOfStop(s) /\ HeardOfPlay(s) /\ s # 0
    BY <1>17 DEF MayHear, Replies
  <2>1. HeardOfTurn(s)'
    <3>1. kind \in {"audio_frame", "audio_end"} => s = t
      BY <1>3, <1>4, <1>5, <1>6, <1>7, <2>0 DEF HeardOfTurn
    <3> QED BY <1>2, <1>4, <1>6, <1>8, <3>1 DEF HeardOfTurn
  <2>2. HeardOfStop(s)' /\ HeardOfCall(s)'
    BY <1>2, <1>10, <2>0 DEF HeardOfStop, HeardOfCall, Taking
  <2>3. HeardOfPlay(s)'
    <3> SUFFICES ASSUME Live PROVE \/ playback' = s
                                   \/ s = t /\ gen'[s] = "audio_failed" /\ outbox'[ByTurn(s)].state \in {"putting", "queued"}
      BY <1>2, <1>4 DEF HeardOfPlay, Live
    <3>1. playback = s
      BY <1>4, <1>7, <1>10, <2>0 DEF HeardOfPlay
    <3>2. s = t
      BY <1>11, <2>0, <3>1
    <3> QED BY <1>6, <1>9, <1>12, <3>1, <3>2 DEF Live
  <2> QED BY <2>1, <2>2, <2>3 DEF MayHear
<1>18. ASSUME NEW u \in Turns, MayShow(u) PROVE MayShow(u)'
  <2>1. \A c \in Askers : Sent(c)' <=> Sent(c)
    BY <1>10 DEF Sent
  <2> QED BY <1>2, <1>3, <1>4, <1>5, <1>6, <1>8, <1>18, <2>1 DEF MayShow, Live
<1>19. StreamShape' /\ HeardShape' /\ ShownShape'
  BY <1>0, <1>2, <1>17, <1>18, QuietStep
<1> QED BY <1>13, <1>14, <1>15, <1>16, <1>19 DEF AgreeInv

\* A task that is not of the active turn, and will not be, is neither heard nor shown.
LEMMA AsideKeepsAgreement ==
  ASSUME OutputInv, AgreeInv, NEW t \in Replies, t # activeTurn,
         UNCHANGED <<activeTurn, playback, caller, connection, outQueue, sender, wire, player, generating, held, reports>>,
         gen'[t] \notin UpToFrame, \A u \in Replies \ {t} : gen'[u] = gen[u],
         outbox'[ByTurn(t)].state = "error" => sender # "running",
         \A y \in Waiters \ {ByTurn(t)} : outbox'[y] = outbox[y]
  PROVE  AgreeInv'
<1>0. OutputTypeOK /\ StopShape /\ NoticeShape /\ PlayShape /\ EndShape /\ StreamShape /\ HeardShape /\ ShownShape
  BY DEF OutputInv, AgreeInv
<1>1. \A c \in Askers : outbox'[c] = outbox[c]
  BY WaitersDiffer
<1>2. activeTurn # 0 => gen'[activeTurn] = gen[activeTurn] /\ outbox'[ByTurn(activeTurn)] = outbox[ByTurn(activeTurn)]
  <2>1. activeTurn # 0 => activeTurn \in Replies
    BY <1>0 DEF OutputTypeOK, TurnStateOK, Turns, Replies
  <2> QED BY <2>1, WaitersDiffer
<1>3. StopShape'
  BY <1>0 DEF StopShape, Failed
<1>4. NoticeShape'
  BY <1>0, <1>1, NoticesKept
<1>5. PlayShape'
  BY <1>0, <1>2 DEF PlayShape
<1>6. EndShape'
  BY <1>0, EndsStay
<1>7. ASSUME NEW s \in Replies, MayHear(s) PROVE MayHear(s)'
  <2>1. HeardOfTurn(s)' /\ HeardOfStop(s)'
    BY <1>2, <1>7 DEF MayHear, HeardOfTurn, HeardOfStop
  <2>2. HeardOfCall(s)'
    BY <1>1, <1>7 DEF MayHear, HeardOfCall, Live, Target, Sent
  <2>3. HeardOfPlay(s)'
    <3>1. s = activeTurn => activeTurn # 0
      BY DEF Replies
    <3> QED BY <1>2, <1>7, <3>1 DEF MayHear, HeardOfPlay, Live
  <2> QED BY <2>1, <2>2, <2>3 DEF MayHear
<1>8. \A u \in Turns : MayShow(u) => MayShow(u)'
  BY <1>1, <1>2 DEF MayShow, Live, Sent
<1>9. StreamShape' /\ HeardShape' /\ ShownShape'
  BY <1>0, <1>7, <1>8, QuietStep
<1> QED BY <1>3, <1>4, <1>5, <1>6, <1>9 DEF AgreeInv

\* A cancelled task ends, or reports that its clean-up failed.
LEMMA UnwindsKeepsAgreement ==
  ASSUME OutputInv, AgreeInv, NEW t \in Replies, TurnUnwinds(t)
  PROVE  AgreeInv'
<1>0. FramesOK /\ TaskStepsOK /\ PlayShape /\ TurnStateOK /\ StopShape
  BY DEF OutputInv, AgreeInv, OutputTypeOK
<1>1. t # activeTurn /\ t \in Turns /\ t # 0
  BY <1>0 DEF PlayShape, TurnUnwinds, Turns, Replies
<1>2. UNCHANGED <<activeTurn, playback, caller, connection, outQueue, sender, wire, player, generating, held, reports>>
  BY <1>1 DEF TurnUnwinds, TurnEnds, ClearActive, page
<1>3. \E g \in {"done", "unwinding"} : gen' = [gen EXCEPT ![t] = g]
  BY DEF TurnUnwinds, TurnEnds
<1>4. gen'[t] \notin UpToFrame /\ \A u \in Replies \ {t} : gen'[u] = gen[u]
  BY <1>0, <1>3 DEF TaskStepsOK, UpToFrame, Beginning
<1>5. outbox' = outbox \/ outbox' = Sending(ByTurn(t), "turn_failed", t)
  BY DEF TurnUnwinds
<1>6. /\ outbox'[ByTurn(t)].state = "error" => sender # "running"
      /\ \A y \in Waiters \ {ByTurn(t)} : outbox'[y] = outbox[y]
  <2>1. ByTurn(t) \in Waiters
    BY WaitersDiffer
  <2>2. CASE outbox' = outbox
    BY <1>0, <2>1, <2>2 DEF StopShape, Failed
  <2>3. CASE outbox' = Sending(ByTurn(t), "turn_failed", t)
    BY <1>0, <2>1, <2>3 DEF FramesOK, Sending
  <2> QED BY <1>5, <2>2, <2>3
<1> QED BY <1>1, <1>2, <1>4, <1>6, AsideKeepsAgreement

\* A turn that was held back goes on, or ends on a connection that closes.
LEMMA WakesKeepsAgreement ==
  ASSUME OutputInv, AgreeInv, NEW t \in Replies, TurnWakes(t)
  PROVE  AgreeInv'
<1>0. /\ TaskStepsOK /\ TurnShape /\ CallShape
      /\ StopShape /\ NoticeShape /\ PlayShape /\ EndShape /\ StreamShape /\ HeardShape /\ ShownShape
  BY DEF OutputInv, AgreeInv, OutputTypeOK
<1>1. /\ UNCHANGED <<playback, caller, connection, outbox, outQueue, sender, wire, player, generating, held, reports>>
      /\ gen[t] = "turn_waiting"
  BY DEF TurnWakes, sending, page
<1>2. t = activeTurn /\ t # 0
  BY <1>0, <1>1, Kinds DEF Streams, TurnShape, NoOrphanTask, Replies
<1>3. \/ /\ connection # "open" /\ gen'[t] = "done" /\ activeTurn' = 0
         /\ \A u \in Replies \ {t} : gen'[u] = gen[u]
      \/ /\ gen'[t] = "resumed" /\ activeTurn' = t
         /\ \A u \in Replies \ {t} : gen'[u] = gen[u]
  <2>1. CASE connection # "open"
    BY <1>0, <1>2, <2>1 DEF TurnWakes, TurnEnds, ClearActive, TaskStepsOK
  <2>2. CASE connection = "open"
    BY <1>0, <1>2, <2>2 DEF TurnWakes, TaskStepsOK
  <2> QED BY <2>1, <2>2
<1>4. playback = 0 /\ \A c \in Askers : caller[c].at \notin Taking
  BY <1>0, <1>1, <1>2 DEF PlayShape, CallShape, Taking, Beginning
<1>5. StopShape'
  BY <1>0, <1>1 DEF StopShape, Failed
<1>6. NoticeShape'
  BY <1>0, <1>1, <1>2, <1>3, NoticesKept
<1>7. PlayShape'
  <2>1. "resumed" \notin {"cancelled", "done", "unwinding", "audio_start", "audio_frame"} \cup LastFrames
    BY DEF LastFrames
  <2> QED BY <1>1, <1>3, <1>4, <2>1 DEF PlayShape
<1>8. EndShape'
  <2>1. gen[t] \in UpToFrame
    BY <1>1 DEF UpToFrame, Beginning
  <2>2. \A u \in Replies : gen[u] \notin UpToFrame => gen'[u] \notin UpToFrame
    BY <1>3, <2>1
  <2> QED BY <1>0, <1>1, <2>2, EndsStay
<1>9. ASSUME NEW s \in Replies, MayHear(s) PROVE MayHear(s)'
  <2>1. HeardOfTurn(s)'
    BY <1>3 DEF HeardOfTurn
  <2>2. HeardOfStop(s)' /\ HeardOfCall(s)'
    BY <1>1, <1>4, <1>9 DEF MayHear, HeardOfStop, HeardOfCall, Taking
  <2>3. HeardOfPlay(s)'
    <3>1. Live => playback = s
      BY <1>1, <1>2, <1>4, <1>9 DEF MayHear, HeardOfPlay
    <3> QED BY <1>1, <3>1 DEF HeardOfPlay, Live
  <2> QED BY <2>1, <2>2, <2>3 DEF MayHear
<1>10. ASSUME NEW u \in Turns, MayShow(u) PROVE MayShow(u)'
  <2>1. "turn_waiting" \notin LastFrames /\ "resumed" \notin LastFrames
    BY DEF LastFrames
  <2>2. \A c \in Askers : Sent(c)' <=> Sent(c)
    BY <1>1 DEF Sent
  <2> QED BY <1>1, <1>2, <1>3, <1>10, <2>1, <2>2 DEF MayShow, Live
<1>11. StreamShape' /\ HeardShape' /\ ShownShape'
  BY <1>0, <1>1, <1>9, <1>10, QuietStep
<1> QED BY <1>5, <1>6, <1>7, <1>8, <1>11 DEF AgreeInv

\* A frame of a reply is out: its task goes on, or ends with its turn.
LEMMA SentKeepsAgreement ==
  ASSUME OutputInv, AgreeInv, NEW t \in Replies, TurnSent(t)
  PROVE  AgreeInv'
<1>0. /\ OutputTypeOK /\ FramesOK /\ TaskStepsOK /\ CallShape
      /\ StopShape /\ NoticeShape /\ PlayShape /\ EndShape /\ StreamShape /\ HeardShape /\ ShownShape
  BY DEF OutputInv, AgreeInv, OutputTypeOK
<1>1. UNCHANGED <<playback, caller, connection, outQueue, sender, wire, player, generating, held, reports>>
  BY DEF TurnSent, page
<1>2. ByTurn(t) \in Waiters /\ t # 0 /\ t \in Turns
  BY WaitersDiffer DEF Replies, Turns
<1>3. outbox'[ByTurn(t)].state = "no" /\ \A y \in Waiters \ {ByTurn(t)} : outbox'[y] = outbox[y]
  BY <1>0, <1>2, WaitsNoLonger DEF TurnSent
<1>4. \A c \in Askers : outbox'[c] = outbox[c]
  BY <1>3, WaitersDiffer
<1>5. \/ /\ gen[t] \notin LastFrames /\ Sent(ByTurn(t)) /\ UNCHANGED <<activeTurn, gen>>
      \/ /\ Failed(ByTurn(t)) \/ (gen[t] \in LastFrames /\ Sent(ByTurn(t)))
         /\ gen'[t] = "done" /\ \A u \in Replies \ {t} : gen'[u] = gen[u]
         /\ activeTurn' = IF activeTurn = t THEN 0 ELSE activeTurn
  <2>1. CASE Failed(ByTurn(t)) \/ gen[t] \in LastFrames
    <3>1. gen' = [gen EXCEPT ![t] = "done"] /\ activeTurn' = IF activeTurn = t THEN 0 ELSE activeTurn
      BY <2>1 DEF TurnSent, TurnEnds, ClearActive
    <3>2. gen'[t] = "done" /\ \A u \in Replies \ {t} : gen'[u] = gen[u]
      BY <1>0, <3>1 DEF TaskStepsOK
    <3>3. Failed(ByTurn(t)) \/ (gen[t] \in LastFrames /\ Sent(ByTurn(t)))
      BY <2>1 DEF TurnSent
    <3> QED BY <3>1, <3>2, <3>3
  <2>2. CASE ~(Failed(ByTurn(t)) \/ gen[t] \in LastFrames)
    BY <2>2 DEF TurnSent
  <2> QED BY <2>1, <2>2
<1>6. activeTurn # 0 => activeTurn \in Replies
  BY <1>0 DEF OutputTypeOK, TurnStateOK, Turns, Replies
<1>7. activeTurn # t /\ activeTurn # 0 => outbox'[ByTurn(activeTurn)] = outbox[ByTurn(activeTurn)]
  BY <1>3, <1>6, WaitersDiffer
<1>8. outbox[ByTurn(t)].state \in {"sent", "error"}
  BY DEF TurnSent, Sent, Failed
<1>9. StopShape'
  BY <1>0, <1>1, <1>3 DEF StopShape, Failed
<1>10. NoticeShape'
  <2>1. activeTurn' \in {0, activeTurn}
    BY <1>5
  <2> QED BY <1>0, <1>1, <1>4, <2>1, NoticesKept
<1>11. EndShape'
  <2>1. \A u \in Replies : gen[u] \notin UpToFrame => gen'[u] \notin UpToFrame
    BY <1>5 DEF UpToFrame, Beginning
  <2> QED BY <1>0, <1>1, <2>1, EndsStay
<1>12. CASE gen[t] \notin LastFrames /\ Sent(ByTurn(t)) /\ UNCHANGED <<activeTurn, gen>>
  <2>1. PlayShape'
    <3>1. activeTurn # 0 /\ gen[activeTurn] \in LastFrames => outbox'[ByTurn(activeTurn)] = outbox[ByTurn(activeTurn)]
      BY <1>7, <1>12
    <3> QED BY <1>0, <1>1, <1>12, <3>1 DEF PlayShape
  <2>2. ASSUME NEW s \in Replies, MayHear(s) PROVE MayHear(s)'
    <3>1. HeardOfTurn(s)'
      <4>1. outbox[ByTurn(t)].state = "sent"
        BY <1>12 DEF Sent
      <4> QED BY <1>7, <1>12, <2>2, <4>1 DEF MayHear, HeardOfTurn
    <3>2. HeardOfStop(s)' /\ HeardOfCall(s)'
      BY <1>1, <1>4, <2>2 DEF MayHear, HeardOfStop, HeardOfCall, Live, Target, Sent
    <3>3. HeardOfPlay(s)'
      <4>1. s # 0
        BY DEF Replies
      <4>2. s = activeTurn /\ outbox[ByTurn(s)].state \in {"putting", "queued"} =>
              outbox'[ByTurn(s)] = outbox[ByTurn(s)]
        BY <1>7, <1>8, <4>1
      <4> QED BY <1>1, <1>12, <2>2, <4>2 DEF MayHear, HeardOfPlay, Live
    <3> QED BY <3>1, <3>2, <3>3 DEF MayHear
  <2>3. ASSUME NEW u \in Turns, MayShow(u) PROVE MayShow(u)'
    <3>1. activeTurn # 0 /\ gen[activeTurn] \in LastFrames => outbox'[ByTurn(activeTurn)] = outbox[ByTurn(activeTurn)]
      BY <1>7, <1>12
    <3>2. \A c \in Askers : Sent(c)' <=> Sent(c)
      BY <1>4 DEF Sent
    <3> QED BY <1>1, <1>12, <2>3, <3>1, <3>2 DEF MayShow, Live
  <2>4. StreamShape' /\ HeardShape' /\ ShownShape'
    BY <1>0, <1>1, <2>2, <2>3, QuietStep
  <2> QED BY <1>9, <1>10, <1>11, <2>1, <2>4 DEF AgreeInv
<1>13. CASE /\ Failed(ByTurn(t)) \/ (gen[t] \in LastFrames /\ Sent(ByTurn(t)))
            /\ gen'[t] = "done" /\ \A u \in Replies \ {t} : gen'[u] = gen[u]
            /\ activeTurn' = IF activeTurn = t THEN 0 ELSE activeTurn
  <2>1. CASE activeTurn # t
    <3>1. activeTurn' = activeTurn /\ gen'[t] \notin UpToFrame
      BY <1>13, <2>1 DEF UpToFrame, Beginning
    <3>2. outbox'[ByTurn(t)].state # "error"
      BY <1>3
    <3> QED BY <1>1, <1>3, <1>13, <2>1, <3>1, <3>2, AsideKeepsAgreement
  <2>2. CASE activeTurn = t
    <3>1. activeTurn' = 0 /\ activeTurn # 0
      BY <1>2, <1>13, <2>2
    <3>2. \A c \in Askers : caller[c].at \notin Taking
      BY <1>0, <3>1 DEF CallShape, Taking
    <3>3. PlayShape'
      BY <1>1, <3>1, <3>2 DEF PlayShape
    <3>4. ASSUME NEW s \in Replies, MayHear(s) PROVE MayHear(s)'
      <4>1. HeardOfTurn(s)'
        BY <3>1 DEF HeardOfTurn
      <4>2. HeardOfStop(s)' /\ HeardOfCall(s)'
        BY <1>1, <3>2, <3>4 DEF MayHear, HeardOfStop, HeardOfCall, Taking
      <4>3. HeardOfPlay(s)'
        BY <1>1, <1>8, <2>2, <3>4 DEF MayHear, HeardOfPlay, Live
      <4> QED BY <4>1, <4>2, <4>3 DEF MayHear
    <3>5. ASSUME NEW u \in Turns, MayShow(u) PROVE MayShow(u)'
      <4>1. Live => gen[t] \in LastFrames /\ outbox[ByTurn(t)].state = "sent"
        BY <1>0, <1>2, <1>13 DEF StopShape, Live, Sent
      <4>2. Live => u = 0
        BY <2>2, <3>1, <3>5, <4>1 DEF MayShow
      <4> QED BY <1>1, <3>1, <4>2 DEF MayShow, Live
    <3>6. StreamShape' /\ HeardShape' /\ ShownShape'
      BY <1>0, <1>1, <3>4, <3>5, QuietStep
    <3> QED BY <1>9, <1>10, <1>11, <3>3, <3>6 DEF AgreeInv
  <2> QED BY <2>1, <2>2
<1> QED BY <1>5, <1>12, <1>13

(***************************************************************************)
(* The calls of start_turn, cancel_turn and close.                         *)
(***************************************************************************)
\* a cancelled turn the page has yet to be told of
Untold(c) == (caller[c].at = "reap" /\ caller[c].turn # 0) \/ (caller[c].at = "told" /\ ~Sent(c))

\* A step of a call that changes neither the turns nor their tasks.
LEMMA CallKeepsAgreement ==
  ASSUME OutputInv, AgreeInv, NEW c \in Askers, caller[c].at # "begin", caller'[c].at # "begin",
         UNCHANGED <<activeTurn, playback, gen, outQueue, sender, wire, player, generating, held, reports>>,
         \A d \in Askers \ {c} : caller'[d] = caller[d], \A y \in Waiters \ {c} : outbox'[y] = outbox[y],
         connection' = "open" => connection = "open",
         outbox'[c].state = "error" => sender # "running",
         caller'[Loop].at \in {"closing", "ending", "end", "closed"} => connection' # "open",
         outbox[c].state = "queued" =>
            outbox'[c] = outbox[c] \/ (~Live' /\ (outbox[c].kind = "audio_stop" => NobodyStarts')),
         caller'[c].at = "stop" /\ outbox'[c].state \in {"putting", "queued"} => outbox'[c].turn = Target(c)',
         NobodyStarts => NobodyStarts',
         caller'[c].at \in Taking => caller[c].at \in Taking /\ Target(c)' = Target(c),
         caller'[c].at \in {"told", "stop"} /\ sender = "running" =>
            /\ Live \/ caller[c].at \in {"told", "stop"}
            /\ ~(caller'[c].at = "stop" /\ Sent(c)'),
         caller[c].at \in Taking /\ caller'[c].at \notin Taking /\ Live' =>
            \A s \in Replies : ~Hears(Len(wire), s),
         caller'[c].at = "reap" => caller[c].at = "reap",
         Live' /\ Untold(c) => Untold(c)'
  PROVE  AgreeInv'
<1>0. /\ OutputTypeOK /\ StopShape /\ NoticeShape /\ PlayShape /\ EndShape /\ StreamShape /\ HeardShape /\ ShownShape
      /\ outQueue \in Seq(QueuedFrame)
  BY DEF OutputInv, AgreeInv, OutputTypeOK, FramesOK
<1>1. \A t \in Replies : outbox'[ByTurn(t)] = outbox[ByTurn(t)]
  BY WaitersDiffer
<1>2. \A d \in Askers \ {c} : outbox'[d] = outbox[d] /\ caller'[d] = caller[d]
  BY WaitersDiffer
<1>3. Live' => Live
  BY DEF Live
<1>4. activeTurn # 0 => outbox'[ByTurn(activeTurn)] = outbox[ByTurn(activeTurn)]
  BY <1>0, <1>1 DEF OutputTypeOK, TurnStateOK, Turns, Replies
<1>5. StopShape'
  <2>1. \A y \in Waiters : outbox'[y].state = "error" => sender # "running"
    BY <1>0 DEF StopShape, Failed
  <2> QED BY <1>0, <2>1 DEF StopShape, Failed
<1>6. NoticeShape'
  <2>1. ASSUME NEW i \in DOMAIN outQueue, Notice(outQueue[i]), Waits(outQueue[i].from, outQueue[i])
        PROVE  \/ WillWait(outQueue[i].from, outQueue[i])
               \/ ~Live' /\ (outQueue[i].kind = "audio_stop" => NobodyStarts')
    <3>1. PICK f \in QueuedFrame : f = outQueue[i]
      BY <1>0
    <3>2. f.from \in Waiters /\ outbox[f.from].state # "no" /\ Notice(outbox[f.from])
      BY <2>1, <3>1 DEF QueuedFrame, Waits, Notice
    <3>3. f.from \in Askers
      BY <3>2, NoticeWaiter
    <3>4. CASE f.from # c
      <4>1. WillWait(f.from, f)
        BY <1>2, <2>1, <3>1, <3>3, <3>4 DEF Waits, WillWait
      <4> QED BY <3>1, <4>1
    <3>5. CASE f.from = c
      <4>1. outbox[c].state = "queued" /\ outbox[c].kind = f.kind
        BY <2>1, <3>1, <3>5 DEF Waits
      <4>2. outbox'[c] = outbox[c] => WillWait(f.from, f)
        BY <2>1, <3>1, <3>5 DEF Waits, WillWait
      <4> QED BY <3>1, <4>1, <4>2
    <3> QED BY <3>4, <3>5
  <2>2. \A i \in DOMAIN outQueue : outQueue[i].kind = "audio_stop" => Notice(outQueue[i])
    BY DEF Notice
  <2>3. \A d \in Askers : caller'[d].at = "stop" /\ outbox'[d].state \in {"putting", "queued"} =>
          outbox'[d].turn = Target(d)'
    BY <1>0, <1>2 DEF NoticeShape, Target
  <2>4. Live' => /\ \A i \in DOMAIN outQueue : Notice(outQueue[i]) => WillWait(outQueue[i].from, outQueue[i])
                 /\ \A i, j \in DOMAIN outQueue : Notice(outQueue[i]) /\ Notice(outQueue[j]) => i = j
    BY <1>0, <1>3, <2>1 DEF NoticeShape
  <2>5. \A i \in DOMAIN outQueue : outQueue[i].kind = "audio_stop" =>
          activeTurn = 0 /\ (WillWait(outQueue[i].from, outQueue[i]) \/ NobodyStarts')
    BY <1>0, <2>1, <2>2 DEF NoticeShape
  <2> QED BY <1>0, <2>3, <2>4, <2>5 DEF NoticeShape, Waits, WillWait, Notice
<1>7. PlayShape'
  <2>1. \A d \in Askers : caller'[d].at \in Taking => playback = 0
    BY <1>0, <1>2 DEF PlayShape
  <2> QED BY <1>0, <1>4, <2>1 DEF PlayShape
<1>8. EndShape'
  BY <1>0, EndsStay
<1>9. ASSUME NEW s \in Replies, Hears(Len(wire), s), MayHear(s) PROVE MayHear(s)'
  <2>1. HeardOfTurn(s)' /\ HeardOfStop(s)'
    BY <1>4, <1>9 DEF MayHear, HeardOfTurn, HeardOfStop
  <2>2. HeardOfCall(s)
    BY <1>9 DEF MayHear
  <2>3. HeardOfCall(s)'
    <3> SUFFICES ASSUME NEW d \in Askers,
                        (caller'[d].at = "reap" /\ Live') \/ (caller'[d].at \in {"told", "stop"} /\ sender = "running")
                 PROVE  s = Target(d)' /\ ~(caller'[d].at = "stop" /\ Sent(d)')
      BY DEF HeardOfCall
    <3>1. CASE d # c
      <4>1. s = Target(d) /\ ~(caller[d].at = "stop" /\ Sent(d))
        BY <1>2, <1>3, <2>2, <3>1 DEF HeardOfCall
      <4> QED BY <1>2, <3>1, <4>1 DEF Target, Sent
    <3>2. CASE d = c
      <4>1. caller[c].at \in Taking /\ Target(c)' = Target(c)
        BY <3>2 DEF Taking
      <4>2. (caller[c].at = "reap" /\ Live) \/ (caller[c].at \in {"told", "stop"} /\ sender = "running")
        BY <1>3, <3>2, <4>1 DEF Taking
      <4>3. s = Target(c)
        BY <2>2, <4>2 DEF HeardOfCall
      <4> QED BY <3>2, <4>1, <4>3
    <3> QED BY <3>1, <3>2
  <2>4. HeardOfPlay(s)'
    <3> SUFFICES ASSUME Live', \A d \in Askers : caller'[d].at \notin Taking
                 PROVE  \/ playback = s
                        \/ s = activeTurn /\ gen[s] = "audio_failed" /\ outbox'[ByTurn(s)].state \in {"putting", "queued"}
      BY DEF HeardOfPlay
    <3>1. caller[c].at \notin Taking
      BY <1>9
    <3>2. \A d \in Askers : caller[d].at \notin Taking
      BY <1>2, <3>1
    <3> QED BY <1>1, <1>3, <1>9, <3>2 DEF MayHear, HeardOfPlay
  <2> QED BY <2>1, <2>3, <2>4 DEF MayHear
<1>10. ASSUME NEW u \in Turns, MayShow(u) PROVE MayShow(u)'
  <2>1. \A d \in Askers : caller[d].at = "begin" => caller'[d] = caller[d] /\ outbox'[d] = outbox[d]
    BY <1>2
  <2>2. ASSUME Live', \A d \in Askers : (caller'[d].at = "reap" => caller'[d].turn = 0) /\ (caller'[d].at = "told" => Sent(d)')
        PROVE  \A d \in Askers : (caller[d].at = "reap" => caller[d].turn = 0) /\ (caller[d].at = "told" => Sent(d))
    <3>1. ~Untold(c)
      BY <2>2 DEF Untold
    <3> QED BY <1>2, <2>2, <3>1 DEF Untold, Sent
  <2>3. (\A d \in Askers : caller'[d].at = "begin" => Sent(d)') => \A d \in Askers : caller[d].at = "begin" => Sent(d)
    BY <2>1 DEF Sent
  <2> QED BY <1>3, <1>4, <1>10, <2>2, <2>3 DEF MayShow
<1>11. StreamShape' /\ HeardShape' /\ ShownShape'
  BY <1>0, <1>9, <1>10, QuietStep
<1> QED BY <1>5, <1>6, <1>7, <1>8, <1>11 DEF AgreeInv

\* A step of a call outside the lock.
LEMMA OutsideKeepsAgreement ==
  ASSUME OutputInv, AgreeInv, NEW c \in Askers, caller[c].at \notin Locking, caller'[c].at \notin Locking,
         UNCHANGED <<activeTurn, playback, gen, outQueue, sender, wire, player, generating, held, reports>>,
         \A d \in Askers \ {c} : caller'[d] = caller[d], \A y \in Waiters \ {c} : outbox'[y] = outbox[y],
         connection' = "open" => connection = "open",
         outbox'[c].state = "error" => sender # "running",
         caller'[Loop].at \in {"closing", "ending", "end", "closed"} => connection' # "open",
         outbox[c].state = "queued" => outbox'[c] = outbox[c] \/ ~Live'
  PROVE  AgreeInv'
<1>1. Locking = {"reap", "told", "stop", "begin"}
  BY DEF Locking
<1>2. NobodyStarts => NobodyStarts'
  BY DEF NobodyStarts
<1>3. outbox[c].state = "queued" => outbox[c].kind # "audio_stop"
  BY <1>1 DEF OutputInv, OutboxShape
<1>4. ~Untold(c)
  BY <1>1 DEF Untold
<1> QED BY <1>1, <1>2, <1>3, <1>4, CallKeepsAgreement DEF Taking

\* A call asks.
LEMMA AskKeepsAgreement ==
  ASSUME OutputInv, AgreeInv, NEW c \in Askers, Ask(c)
  PROVE  AgreeInv'
<1>0. OutputTypeOK /\ StopShape /\ CallersOK
  BY DEF OutputInv, AgreeInv, OutputTypeOK
<1>1. /\ UNCHANGED <<activeTurn, playback, gen, outQueue, sender, outbox, connection, wire, player, generating, held, reports>>
      /\ caller[c].at = "idle"
  BY DEF Ask, turnState, sending, page
<1>2. PICK new \in {[Idle EXCEPT !.at = "lock", !.starts = TRUE], [Idle EXCEPT !.at = "lock"]} :
        caller' = [caller EXCEPT ![c] = new]
  BY DEF Ask
<1>3. caller'[c].at = "lock" /\ \A d \in Askers \ {c} : caller'[d] = caller[d]
  <2>1. new.at = "lock"
    BY <1>2 DEF Idle
  <2> QED BY <1>0, <1>2, <2>1 DEF CallersOK
<1>4. outbox'[c].state = "error" => sender # "running"
  BY <1>0, <1>1, WaitersDiffer DEF StopShape, Failed
<1>5. caller'[Loop].at \in {"closing", "ending", "end", "closed"} => connection' # "open"
  <2>1. Loop \in Askers
    BY DEF Askers
  <2> QED BY <1>0, <1>1, <1>3, <2>1 DEF StopShape
<1> QED BY <1>1, <1>3, <1>4, <1>5, OutsideKeepsAgreement DEF Locking

\* The receive loop on its way through close().
LEMMA ClosingKeepsAgreement ==
  ASSUME OutputInv, AgreeInv, LoopEnds \/ CloseCancels \/ CloseSender \/ Closed
  PROVE  AgreeInv'
<1>0. OutputTypeOK /\ StopShape /\ CallersOK /\ FramesOK /\ OutboxShape
  BY DEF OutputInv, AgreeInv, OutputTypeOK
<1>1. Loop \in Askers /\ Loop \in Waiters
  BY WaitersDiffer DEF Askers
<1>2. UNCHANGED <<activeTurn, playback, gen, outQueue, sender, wire, player, generating, held, reports>>
  BY DEF LoopEnds, CloseCancels, CloseSender, Closed, turnState, sending, page
<1>3. PICK to \in {"closing", "lock", "end", "closed"} :
        /\ Moves(Loop, to)
        /\ \/ to = "closing" /\ caller[Loop].at = "idle" /\ connection' = "closing" /\ outbox' = outbox
           \/ to = "lock" /\ caller[Loop].at = "closing" /\ connection' = connection /\ outbox' = outbox
           \/ /\ to = "end" /\ caller[Loop].at = "ending" /\ connection' = connection
              /\ outbox' = Sending(Loop, "end", 0)
           \/ /\ to = "closed" /\ caller[Loop].at = "end" /\ connection' = "closed"
              /\ outbox' = [outbox EXCEPT ![Loop] = Nothing] /\ (Sent(Loop) \/ Failed(Loop))
  <2>1. CASE LoopEnds
    BY <2>1 DEF LoopEnds, sending
  <2>2. CASE CloseCancels
    BY <2>2 DEF CloseCancels, sending
  <2>3. CASE CloseSender
    BY <2>3 DEF CloseSender
  <2>4. CASE Closed
    BY <2>4 DEF Closed
  <2> QED BY <2>1, <2>2, <2>3, <2>4
<1>4. caller'[Loop].at = to /\ \A d \in Askers \ {Loop} : caller'[d] = caller[d]
  BY <1>0, <1>1, <1>3, MovesTo DEF Places
<1>5. caller[Loop].at \notin Locking /\ caller'[Loop].at \notin Locking
  BY <1>3, <1>4 DEF Locking
<1>6. connection' = "open" => connection = "open"
  BY <1>3
<1>7. caller'[Loop].at \in {"closing", "ending", "end", "closed"} => connection' # "open"
  BY <1>0, <1>3, <1>4 DEF StopShape
<1>8. /\ \A y \in Waiters \ {Loop} : outbox'[y] = outbox[y]
      /\ outbox'[Loop].state = "error" => sender # "running"
      /\ outbox[Loop].state = "queued" => outbox'[Loop] = outbox[Loop]
  <2>1. CASE outbox' = outbox
    BY <1>0, <1>1, <2>1 DEF StopShape, Failed
  <2>2. CASE caller[Loop].at = "ending" /\ outbox' = Sending(Loop, "end", 0)
    <3>1. outbox[Loop].state = "no"
      BY <1>0, <1>1, <2>2 DEF OutboxShape
    <3>2. outbox'[Loop].state = IF sender = "running" THEN "putting" ELSE "error"
      BY <1>0, <1>1, <2>2 DEF Sending, FramesOK
    <3>3. \A y \in Waiters \ {Loop} : outbox'[y] = outbox[y]
      BY <1>0, <1>1, <2>2 DEF Sending, FramesOK
    <3> QED BY <3>1, <3>2, <3>3
  <2>3. CASE outbox' = [outbox EXCEPT ![Loop] = Nothing] /\ (Sent(Loop) \/ Failed(Loop))
    <3>1. outbox[Loop].state \in {"sent", "error"}
      BY <2>3 DEF Sent, Failed
    <3>2. outbox'[Loop].state = "no" /\ \A y \in Waiters \ {Loop} : outbox'[y] = outbox[y]
      BY <1>0, <1>1, <2>3, WaitsNoLonger
    <3> QED BY <3>1, <3>2
  <2> QED BY <1>3, <2>1, <2>2, <2>3
<1> QED BY <1>1, <1>2, <1>4, <1>5, <1>6, <1>7, <1>8, OutsideKeepsAgreement

\* With the old turn silent on the page, or nobody to hear it, the new one begins.
LEMMA BeginsKeepsAgreement ==
  ASSUME OutputInv, OutputInv', AgreeInv, NEW c \in Askers, caller[c].at # "begin", holder \in {c, "nobody"},
         Begins(c), playback = 0, outbox[c].state # "queued",
         \A i \in DOMAIN outQueue : outQueue[i].kind # "audio_stop",
         Live => \A s \in Replies : ~Hears(Len(wire), s),
         UNCHANGED <<playback, gen, connection, outQueue, sender, wire, player, generating, held, reports>>
  PROVE  AgreeInv'
<1>0. /\ OutputTypeOK /\ StopShape /\ NoticeShape /\ PlayShape /\ EndShape /\ StreamShape /\ HeardShape /\ ShownShape
      /\ outQueue \in Seq(QueuedFrame) /\ CallersOK /\ FramesOK /\ LockShape
  BY DEF OutputInv, AgreeInv, OutputTypeOK, FramesOK
<1>1. /\ activeTurn' = started' /\ outbox' = Sending(c, "turn_started", started')
      /\ caller' = [caller EXCEPT ![c].at = "begin", ![c].turn = started']
  BY DEF Begins
<1>2. c \in Waiters
  BY WaitersDiffer
<1>3. caller'[c].at = "begin" /\ \A d \in Askers \ {c} : caller'[d] = caller[d]
  <2>1. \A d \in Askers \ {c} : caller'[d] = caller[d]
    BY <1>0, <1>1 DEF CallersOK
  <2>2. caller[c] \in CallRecord
    BY <1>0 DEF CallersOK
  <2>3. caller'[c] = [[caller[c] EXCEPT !.at = "begin"] EXCEPT !.turn = started']
    BY <1>0, <1>1 DEF CallersOK
  <2>4. [[caller[c] EXCEPT !.at = "begin"] EXCEPT !.turn = started'].at = "begin"
    BY <2>2 DEF CallRecord
  <2> QED BY <2>1, <2>3, <2>4
<1>4. /\ activeTurn' # 0 /\ gen'[activeTurn'] = "none"
  <2>1. CallShape'
    BY DEF OutputInv
  <2> QED BY <1>1, <1>3, <2>1 DEF CallShape
<1>5. /\ outbox'[c].state = IF sender = "running" THEN "putting" ELSE "error"
      /\ \A y \in Waiters \ {c} : outbox'[y] = outbox[y]
  BY <1>0, <1>1, <1>2 DEF Sending, FramesOK
<1>6. \A d \in Askers \ {c} : caller'[d].at \notin Locking /\ outbox'[d] = outbox[d]
  BY <1>0, <1>3, <1>5, WaitersDiffer DEF LockShape
<1>7. \A d \in Askers : caller'[d].at \notin Taking
  BY <1>3, <1>6 DEF Taking, Locking
<1>8. StopShape'
  <2>1. caller'[Loop].at \in {"closing", "ending", "end", "closed"} => connection' # "open"
    <3>1. Loop \in Askers
      BY DEF Askers
    <3> QED BY <1>0, <1>3, <3>1 DEF StopShape
  <2> QED BY <1>0, <1>5, <2>1 DEF StopShape, Failed
<1>9. NoticeShape'
  <2>1. ASSUME NEW i \in DOMAIN outQueue, Notice(outQueue[i]), Waits(outQueue[i].from, outQueue[i])
        PROVE  WillWait(outQueue[i].from, outQueue[i])
    <3>1. PICK f \in QueuedFrame : f = outQueue[i]
      BY <1>0
    <3>2. f.from \in Waiters /\ f.from # c
      BY <2>1, <3>1 DEF QueuedFrame, Waits
    <3>3. WillWait(f.from, f)
      BY <1>5, <2>1, <3>1, <3>2 DEF Waits, WillWait
    <3> QED BY <3>1, <3>3
  <2>2. \A d \in Askers : caller'[d].at # "stop"
    BY <1>7 DEF Taking
  <2>3. Live' <=> Live
    BY DEF Live
  <2>4. Live => /\ \A i \in DOMAIN outQueue : Notice(outQueue[i]) => WillWait(outQueue[i].from, outQueue[i])
                /\ \A i, j \in DOMAIN outQueue : Notice(outQueue[i]) /\ Notice(outQueue[j]) => i = j
    BY <1>0, <2>1 DEF NoticeShape
  <2> QED BY <2>2, <2>3, <2>4 DEF NoticeShape, Waits, WillWait, Notice
<1>10. PlayShape'
  <2>1. "none" \notin {"cancelled", "done", "unwinding", "audio_start", "audio_frame"} \cup LastFrames
    BY DEF LastFrames
  <2> QED BY <1>4, <1>7, <2>1 DEF PlayShape
<1>11. EndShape'
  BY <1>0, EndsStay
<1>12. ASSUME NEW s \in Replies, Hears(Len(wire), s), MayHear(s) PROVE MayHear(s)'
  <2>1. HeardOfTurn(s)'
    BY <1>4 DEF HeardOfTurn
  <2>2. HeardOfStop(s)'
    BY DEF HeardOfStop
  <2>3. HeardOfCall(s)'
    BY <1>7 DEF HeardOfCall, Taking
  <2>4. HeardOfPlay(s)'
    BY <1>12 DEF HeardOfPlay, Live
  <2> QED BY <2>1, <2>2, <2>3, <2>4 DEF MayHear
<1>13. \A u \in Turns : MayShow(u)'
  <2>1. "none" \notin LastFrames
    BY DEF LastFrames
  <2>2. ~Sent(c)'
    BY <1>5 DEF Sent
  <2> QED BY <1>3, <1>4, <2>1, <2>2 DEF MayShow
<1>14. StreamShape' /\ HeardShape' /\ ShownShape'
  BY <1>0, <1>12, <1>13, QuietStep
<1> QED BY <1>8, <1>9, <1>10, <1>11, <1>14 DEF AgreeInv

\* The lock is taken, and with it what is active and what plays: the call knows what may sound.
LEMMA TakesKeepsAgreement ==
  ASSUME OutputInv, AgreeInv, NEW c \in Askers, caller[c].at = "lock", LockFree,
         ~(caller[c].starts /\ connection # "open"),
         activeTurn' = 0, playback' = 0,
         caller' = [caller EXCEPT ![c].at = "reap", ![c].turn = activeTurn,
                                  ![c].play = playback, ![c].task = attached],
         IF attached # 0
           THEN /\ gen' = [gen EXCEPT ![attached] = "cancelled"]
                /\ outbox' = [outbox EXCEPT ![ByTurn(attached)] = Nothing]
           ELSE UNCHANGED <<gen, outbox>>,
         UNCHANGED <<connection, outQueue, sender, wire, player, generating, held, reports>>
  PROVE  AgreeInv'
<1>0. /\ OutputTypeOK /\ StopShape /\ NoticeShape /\ PlayShape /\ EndShape /\ StreamShape /\ HeardShape /\ ShownShape
      /\ outQueue \in Seq(QueuedFrame) /\ CallersOK /\ FramesOK /\ LockShape /\ TaskStepsOK
  BY DEF OutputInv, AgreeInv, OutputTypeOK, FramesOK
<1>1. \A d \in Askers : caller[d].at \notin Locking
  BY <1>0, WaitersDiffer DEF LockShape, LockFree
<1>2. /\ \A d \in Askers \ {c} : caller'[d] = caller[d]
      /\ caller'[c].at = "reap" /\ caller'[c].turn = activeTurn /\ caller'[c].play = playback
      /\ caller'[c].starts = caller[c].starts
  <2> DEFINE one == [caller[c] EXCEPT !.at = "reap"]
             two == [one EXCEPT !.turn = activeTurn]
             three == [two EXCEPT !.play = playback]
             new == [three EXCEPT !.task = attached]
  <2>0. activeTurn \in Turns /\ attached \in Turns /\ playback \in Turns
    BY <1>0 DEF OutputTypeOK, TurnStateOK
  <2>1. one \in CallRecord /\ one.at = "reap" /\ one.starts = caller[c].starts
    BY <1>0 DEF CallersOK, CallRecord
  <2>2. caller' = [caller EXCEPT ![c] = new]
    BY <1>0 DEF CallersOK
  <2> HIDE DEF one
  <2>3. two \in CallRecord /\ two.at = "reap" /\ two.turn = activeTurn /\ two.starts = caller[c].starts
    BY <2>0, <2>1 DEF CallRecord
  <2> HIDE DEF two
  <2>4. /\ three \in CallRecord /\ three.at = "reap" /\ three.turn = activeTurn /\ three.play = playback
        /\ three.starts = caller[c].starts
    BY <2>0, <2>3 DEF CallRecord
  <2> HIDE DEF three
  <2>5. /\ new.at = "reap" /\ new.turn = activeTurn /\ new.play = playback /\ new.starts = caller[c].starts
    BY <2>0, <2>4 DEF CallRecord
  <2> HIDE DEF new
  <2> QED BY <1>0, <2>2, <2>5 DEF CallersOK
<1>3. attached # 0 => attached \in Replies /\ ByTurn(attached) \in Waiters
  BY <1>0, WaitersDiffer DEF OutputTypeOK, TurnStateOK, Turns, Replies
<1>4. /\ \A y \in Waiters : outbox'[y] = outbox[y] \/ outbox'[y].state = "no"
      /\ \A d \in Askers : outbox'[d] = outbox[d]
      /\ \A t \in Replies : gen[t] \notin UpToFrame => gen'[t] \notin UpToFrame
  <2>1. CASE attached # 0
    <3>1. outbox'[ByTurn(attached)].state = "no" /\ \A y \in Waiters \ {ByTurn(attached)} : outbox'[y] = outbox[y]
      BY <1>0, <1>3, <2>1, WaitsNoLonger
    <3>2. \A t \in Replies : gen'[t] = gen[t] \/ gen'[t] = "cancelled"
      BY <1>0, <1>3, <2>1 DEF TaskStepsOK
    <3> QED BY <1>3, <2>1, <3>1, <3>2, WaitersDiffer DEF UpToFrame, Beginning
  <2>2. CASE attached = 0
    BY <2>2
  <2> QED BY <2>1, <2>2
<1>5. StopShape'
  <2>1. \A y \in Waiters : outbox'[y].state = "error" => sender # "running"
    BY <1>0, <1>4 DEF StopShape, Failed
  <2>2. Loop \in Askers
    BY DEF Askers
  <2> QED BY <1>0, <1>2, <2>1, <2>2 DEF StopShape, Failed
<1>6. ASSUME NEW i \in DOMAIN outQueue, Notice(outQueue[i]) PROVE ~Waits(outQueue[i].from, outQueue[i])
  <2>1. PICK f \in QueuedFrame : f = outQueue[i]
    BY <1>0
  <2> SUFFICES ASSUME Waits(f.from, f) PROVE FALSE
    BY <2>1
  <2>2. f.from \in Waiters /\ outbox[f.from].state # "no" /\ Notice(outbox[f.from])
    BY <1>6, <2>1 DEF QueuedFrame, Waits, Notice
  <2>3. f.from \in Askers /\ holder = f.from
    BY <2>2, NoticeWaiter
  <2> QED BY <2>3, WaitersDiffer DEF LockFree
<1>7. NoticeShape'
  <2>1. \A i \in DOMAIN outQueue : outQueue[i].kind = "audio_stop" => Notice(outQueue[i])
    BY DEF Notice
  <2>2. Live' <=> Live
    BY DEF Live
  <2>3. Live => \A i \in DOMAIN outQueue : ~Notice(outQueue[i])
    BY <1>0, <1>6 DEF NoticeShape
  <2>4. \A d \in Askers : caller'[d].at # "stop"
    BY <1>1, <1>2 DEF Locking
  <2>5. NobodyStarts => NobodyStarts'
    BY <1>2 DEF NobodyStarts
  <2>6. \A i \in DOMAIN outQueue : outQueue[i].kind = "audio_stop" => NobodyStarts'
    BY <1>0, <1>6, <2>1, <2>5 DEF NoticeShape
  <2> QED BY <1>0, <2>2, <2>3, <2>4, <2>6 DEF NoticeShape, Notice
<1>8. PlayShape'
  BY DEF PlayShape
<1>9. EndShape'
  BY <1>0, <1>4, EndsStay
<1>10. ASSUME NEW s \in Replies, MayHear(s) PROVE MayHear(s)'
  <2>1. HeardOfTurn(s)' /\ HeardOfStop(s)'
    BY <1>10 DEF MayHear, HeardOfTurn, HeardOfStop
  <2>2. HeardOfCall(s)'
    <3>1. \A d \in Askers \ {c} : caller'[d].at \notin Taking
      BY <1>1, <1>2 DEF Taking, Locking
    <3>2. ASSUME Live PROVE s = Target(c)'
      <4>1. s # 0 /\ \A d \in Askers : caller[d].at \notin Taking
        BY <1>1 DEF Replies, Taking, Locking
      <4>2. \/ playback = s
            \/ s = activeTurn /\ gen[s] = "audio_failed"
        BY <1>10, <3>2, <4>1 DEF MayHear, HeardOfPlay
      <4>3. s = activeTurn /\ gen[s] = "audio_failed" => playback = 0
        BY <1>0, <4>1 DEF PlayShape
      <4> QED BY <1>2, <4>1, <4>2, <4>3 DEF Target
    <3> QED BY <1>2, <3>1, <3>2 DEF HeardOfCall, Live, Taking
  <2>3. HeardOfPlay(s)'
    BY <1>2 DEF HeardOfPlay, Taking
  <2> QED BY <2>1, <2>2, <2>3 DEF MayHear
<1>11. ASSUME NEW u \in Turns, MayShow(u) PROVE MayShow(u)'
  <2>1. \A d \in Askers : caller[d].at # "reap" /\ caller[d].at # "told"
    BY <1>1 DEF Locking
  <2>2. Live /\ activeTurn = 0 => u = 0
    BY <1>11, <2>1 DEF MayShow
  <2> QED BY <1>2, <2>2 DEF MayShow, Live
<1>12. StreamShape' /\ HeardShape' /\ ShownShape'
  BY <1>0, <1>10, <1>11, QuietStep
<1> QED BY <1>5, <1>7, <1>8, <1>9, <1>12 DEF AgreeInv

\* Where a call is once it has returned.
LEMMA ReturnedCall ==
  ASSUME OutputInv, AgreeInv, NEW c \in Askers, Returns(c), UNCHANGED connection
  PROVE  /\ caller'[c].at \in {"idle", "ending"} /\ \A d \in Askers \ {c} : caller'[d] = caller[d]
         /\ caller'[Loop].at \in {"closing", "ending", "end", "closed"} => connection' # "open"
<1>0. CallersOK /\ StopShape
  BY DEF OutputInv, AgreeInv, OutputTypeOK
<1>1. PICK to \in {"idle", "ending"} : /\ caller' = [caller EXCEPT ![c] = [Idle EXCEPT !.at = to]]
                                       /\ to = "ending" => connection = "closing"
  BY DEF Returns
<1>2. caller'[c].at = to /\ \A d \in Askers \ {c} : caller'[d] = caller[d]
  BY <1>0, <1>1, CallEnds DEF Places, Locking
<1>3. Loop \in Askers
  BY DEF Askers
<1> QED BY <1>0, <1>1, <1>2, <1>3 DEF StopShape

\* A call gets the lock.
LEMMA AcquireKeepsAgreement ==
  ASSUME OutputInv, OutputInv', AgreeInv, NEW c \in Askers, Acquire(c)
  PROVE  AgreeInv'
<1>0. /\ OutputTypeOK /\ LockShape /\ OutboxShape /\ StopShape /\ NoticeShape /\ HeardShape
      /\ outQueue \in Seq(QueuedFrame)
  BY DEF OutputInv, AgreeInv, OutputTypeOK, FramesOK
<1>1. /\ caller[c].at = "lock" /\ LockFree
      /\ UNCHANGED <<connection, outQueue, sender, wire, player, generating, held, reports>>
  BY DEF Acquire, page
<1>2. outbox[c].state = "no" /\ c \in Waiters
  BY <1>0, <1>1, WaitersDiffer DEF OutboxShape
<1>3. ASSUME Returns(c), UNCHANGED <<activeTurn, playback, gen, outbox>> PROVE AgreeInv'
  <2>1. /\ caller'[c].at \in {"idle", "ending"} /\ \A d \in Askers \ {c} : caller'[d] = caller[d]
        /\ caller'[Loop].at \in {"closing", "ending", "end", "closed"} => connection' # "open"
    BY <1>1, <1>3, ReturnedCall
  <2>2. caller[c].at \notin Locking /\ caller'[c].at \notin Locking
    BY <1>1, <2>1 DEF Locking
  <2> QED BY <1>1, <1>2, <1>3, <2>1, <2>2, OutsideKeepsAgreement
<1>4. CASE ~(caller[c].starts /\ connection # "open") /\ TakesPlayback
  <2>1. /\ activeTurn' = 0 /\ playback' = 0
        /\ caller' = [caller EXCEPT ![c].at = "reap", ![c].turn = activeTurn,
                                    ![c].play = playback, ![c].task = attached]
        /\ IF attached # 0
             THEN /\ gen' = [gen EXCEPT ![attached] = "cancelled"]
                  /\ outbox' = [outbox EXCEPT ![ByTurn(attached)] = Nothing]
             ELSE UNCHANGED <<gen, outbox>>
    BY <1>4 DEF Acquire
  <2> QED BY <1>1, <1>4, <2>1, TakesKeepsAgreement
<1>5. CASE connection = "open" /\ ~TakesPlayback /\ UNCHANGED <<playback, gen>> /\ Begins(c)
  <2>1. activeTurn = 0 /\ playback = 0
    BY <1>5 DEF TakesPlayback
  <2>2. \A d \in Askers : caller[d].at \notin Taking
    BY <1>0, <1>1, WaitersDiffer DEF LockShape, LockFree, Taking, Locking
  <2>3. ASSUME NEW i \in DOMAIN outQueue, outQueue[i].kind = "audio_stop" PROVE FALSE
    <3>1. PICK f \in QueuedFrame : f = outQueue[i]
      BY <1>0
    <3>2. Waits(f.from, f)
      BY <1>0, <1>5, <2>3, <3>1 DEF NoticeShape, NobodyStarts
    <3>3. f.from \in Waiters /\ outbox[f.from].state # "no" /\ Notice(outbox[f.from])
      BY <2>3, <3>1, <3>2 DEF QueuedFrame, Waits, Notice
    <3>4. f.from \in Askers /\ holder = f.from
      BY <3>3, NoticeWaiter
    <3> QED BY <1>1, <3>4, WaitersDiffer DEF LockFree
  <2>4. Live => \A s \in Replies : ~Hears(Len(wire), s)
    <3> SUFFICES ASSUME Live, NEW s \in Replies, Hears(Len(wire), s) PROVE FALSE
      OBVIOUS
    <3>1. HeardOfPlay(s) /\ s # 0
      BY <1>0 DEF HeardShape, MayHear, Replies
    <3> QED BY <2>1, <2>2, <3>1 DEF HeardOfPlay
  <2>5. holder \in {c, "nobody"} /\ caller[c].at # "begin" /\ outbox[c].state # "queued"
    BY <1>1, <1>2 DEF LockFree
  <2> QED BY <1>1, <1>5, <2>1, <2>3, <2>4, <2>5, BeginsKeepsAgreement
<1>6. \/ Returns(c) /\ UNCHANGED <<activeTurn, playback, gen, outbox>>
      \/ ~(caller[c].starts /\ connection # "open") /\ TakesPlayback
      \/ connection = "open" /\ ~TakesPlayback /\ UNCHANGED <<playback, gen>> /\ Begins(c)
  <2>1. CASE caller[c].starts /\ connection # "open"
    BY <2>1 DEF Acquire, turnState
  <2>2. CASE ~(caller[c].starts /\ connection # "open") /\ ~TakesPlayback /\ caller[c].starts
    BY <2>2 DEF Acquire
  <2>3. CASE ~TakesPlayback /\ ~caller[c].starts
    BY <2>3 DEF Acquire
  <2> QED BY <2>1, <2>2, <2>3
<1> QED BY <1>3, <1>4, <1>5, <1>6

\* A call tells the page of the turn it has cancelled: turn_cancelled, then audio_stop.
LEMMA TellsKeepsAgreement ==
  ASSUME OutputInv, AgreeInv, NEW c \in Askers, NEW to \in {"told", "stop"},
         NEW kind \in FrameKinds, NEW t \in Turns, outbox' = Sending(c, kind, t), Moves(c, to),
         \/ caller[c].at = "reap" /\ connection = "open" /\ (to = "told" <=> caller[c].turn # 0)
         \/ caller[c].at = "told" /\ Sent(c) /\ to = "stop",
         to = "stop" => t = Target(c),
         UNCHANGED <<activeTurn, playback, gen, connection, outQueue, sender, wire, player, generating, held, reports>>
  PROVE  AgreeInv'
<1>0. OutputTypeOK /\ OutboxShape /\ StopShape /\ CallersOK /\ FramesOK
  BY DEF OutputInv, AgreeInv, OutputTypeOK
<1>1. c \in Waiters
  BY WaitersDiffer
<1>2. /\ caller'[c].at = to /\ caller'[c].turn = caller[c].turn /\ caller'[c].play = caller[c].play
      /\ \A d \in Askers \ {c} : caller'[d] = caller[d]
  <2>1. caller'[c] = [caller[c] EXCEPT !.at = to] /\ caller[c] \in CallRecord
    BY <1>0 DEF CallersOK, Moves
  <2>2. caller'[c].at = to /\ caller'[c].turn = caller[c].turn /\ caller'[c].play = caller[c].play
    BY <2>1 DEF CallRecord
  <2> QED BY <1>0, <2>2 DEF CallersOK, Moves
<1>3. /\ outbox'[c].state = IF sender = "running" THEN "putting" ELSE "error"
      /\ outbox'[c].turn = t /\ \A y \in Waiters \ {c} : outbox'[y] = outbox[y]
  <2>1. outbox'[c] = [state |-> IF sender = "running" THEN "putting" ELSE "error", kind |-> kind, turn |-> t]
    BY <1>0, <1>1 DEF Sending, FramesOK
  <2> QED BY <1>0, <1>1, <2>1, SendingIs
<1>4. Target(c)' = Target(c)
  BY <1>2 DEF Target
<1>5. outbox[c].state # "queued"
  BY <1>0 DEF OutboxShape, Sent
<1>6. ~NobodyStarts
  BY DEF NobodyStarts, Locking
<1>7. ~Sent(c)'
  BY <1>3 DEF Sent
<1>8. caller'[Loop].at \in {"closing", "ending", "end", "closed"} => connection' # "open"
  <2>1. Loop \in Askers
    BY DEF Askers
  <2> QED BY <1>0, <1>2, <2>1 DEF StopShape
<1>9. Untold(c) => Untold(c)'
  BY <1>2, <1>7 DEF Untold
<1>10. caller[c].at \in Taking /\ caller[c].at # "begin" /\ caller'[c].at \in Taking /\ caller'[c].at # "begin"
  BY <1>2 DEF Taking
<1>11. /\ outbox'[c].state = "error" => sender # "running"
       /\ caller'[c].at = "stop" /\ outbox'[c].state \in {"putting", "queued"} => outbox'[c].turn = Target(c)'
  BY <1>2, <1>3, <1>4
<1>12. caller'[c].at \in {"told", "stop"} /\ sender = "running" => Live \/ caller[c].at \in {"told", "stop"}
  BY DEF Live
<1>13. caller'[c].at # "reap"
  BY <1>2
<1> QED BY <1>2, <1>3, <1>4, <1>5, <1>6, <1>7, <1>8, <1>9, <1>10, <1>11, <1>12, <1>13, CallKeepsAgreement

\* A call goes on to its new turn, or returns: nothing sounds, or nobody is there to hear it.
LEMMA ContinuesKeepsAgreement ==
  ASSUME OutputInv, OutputInv', AgreeInv, NEW c \in Askers, Continues(c),
         \/ caller[c].at = "reap" /\ connection # "open"
         \/ caller[c].at = "stop" /\ Sent(c),
         UNCHANGED <<playback, gen, connection, outQueue, sender, wire, player, generating, held, reports>>
  PROVE  AgreeInv'
<1>0. /\ OutputTypeOK /\ LockShape /\ OutboxShape /\ StopShape /\ NoticeShape /\ PlayShape /\ HeardShape
      /\ outQueue \in Seq(QueuedFrame) /\ FramesOK
  BY DEF OutputInv, AgreeInv, OutputTypeOK, FramesOK
<1>1. holder = c /\ playback = 0 /\ outbox[c].state # "queued" /\ caller[c].at # "begin" /\ c \in Waiters
  BY <1>0, WaitersDiffer DEF LockShape, Locking, PlayShape, Taking, OutboxShape, Sent
<1>2. Live => \A s \in Replies : ~Hears(Len(wire), s)
  <2> SUFFICES ASSUME Live, NEW s \in Replies, Hears(Len(wire), s) PROVE FALSE
    OBVIOUS
  <2>1. HeardOfCall(s) /\ caller[c].at = "stop" /\ Sent(c) /\ sender = "running"
    BY <1>0 DEF HeardShape, MayHear, Live
  <2> QED BY <2>1 DEF HeardOfCall
<1>3. CASE caller[c].starts /\ Begins(c)
  <2>1. ASSUME NEW i \in DOMAIN outQueue, outQueue[i].kind = "audio_stop" PROVE FALSE
    <3>1. PICK f \in QueuedFrame : f = outQueue[i]
      BY <1>0
    <3>2. ~NobodyStarts
      BY <1>3 DEF NobodyStarts, Locking
    <3>3. Waits(f.from, f)
      BY <1>0, <2>1, <3>1, <3>2 DEF NoticeShape
    <3>4. f.from \in Waiters /\ outbox[f.from].state = "queued" /\ Notice(outbox[f.from])
      BY <2>1, <3>1, <3>3 DEF QueuedFrame, Waits, Notice
    <3>5. holder = f.from
      BY <3>4, NoticeWaiter
    <3> QED BY <1>1, <3>4, <3>5
  <2> QED BY <1>1, <1>2, <1>3, <2>1, BeginsKeepsAgreement
<1>4. CASE outbox' = [outbox EXCEPT ![c] = Nothing] /\ Returns(c) /\ UNCHANGED <<activeTurn, attached, started>>
  <2>1. /\ caller'[c].at \in {"idle", "ending"} /\ \A d \in Askers \ {c} : caller'[d] = caller[d]
        /\ caller'[Loop].at \in {"closing", "ending", "end", "closed"} => connection' # "open"
    BY <1>4, ReturnedCall
  <2>2. outbox'[c].state = "no" /\ \A y \in Waiters \ {c} : outbox'[y] = outbox[y]
    BY <1>0, <1>1, <1>4, WaitsNoLonger
  <2>3. NobodyStarts => NobodyStarts'
    BY <2>1 DEF NobodyStarts, Locking
  <2>4. Live' => ~Untold(c) /\ Live
    BY DEF Live, Untold
  <2>5. caller'[c].at \notin Taking /\ caller'[c].at # "begin"
    BY <2>1 DEF Taking
  <2>6. caller'[c].at \notin {"reap", "told", "stop"}
    BY <2>1
  <2> QED BY <1>1, <1>2, <1>4, <2>1, <2>2, <2>3, <2>4, <2>5, <2>6, CallKeepsAgreement
<1> QED BY <1>3, <1>4 DEF Continues

\* The cancelled task has ended.
LEMMA ReapedKeepsAgreement ==
  ASSUME OutputInv, OutputInv', AgreeInv, NEW c \in Askers, Reaped(c)
  PROVE  AgreeInv'
<1>0. caller[c].at = "reap" /\ UNCHANGED <<playback, gen, connection, outQueue, sender, wire, player, generating, held, reports>>
  BY DEF Reaped, page
<1>1. caller[c] \in CallRecord /\ PlayShape
  BY DEF OutputInv, OutputTypeOK, CallersOK, AgreeInv
<1>2. caller[c].turn \in Turns /\ caller[c].play \in Turns
  BY <1>1 DEF CallRecord
<1>3. CASE connection # "open"
  <2>1. Continues(c)
    BY <1>3 DEF Reaped
  <2> QED BY <1>0, <1>3, <2>1, ContinuesKeepsAgreement
<1>4. CASE connection = "open" /\ caller[c].turn # 0
  <2>1. outbox' = Sending(c, "turn_cancelled", caller[c].turn) /\ Moves(c, "told") /\ UNCHANGED activeTurn
    BY <1>4 DEF Reaped
  <2> QED BY <1>0, <1>2, <1>4, <2>1, TellsKeepsAgreement, Kinds
<1>5. CASE connection = "open" /\ caller[c].turn = 0
  <2>1. outbox' = Sending(c, "audio_stop", caller[c].play) /\ Moves(c, "stop") /\ UNCHANGED activeTurn
    BY <1>5 DEF Reaped
  <2>2. caller[c].play = Target(c)
    BY <1>5 DEF Target
  <2> QED BY <1>0, <1>2, <1>5, <2>1, <2>2, TellsKeepsAgreement, Kinds
<1> QED BY <1>3, <1>4, <1>5

\* turn_cancelled is out.
LEMMA ToldKeepsAgreement ==
  ASSUME OutputInv, AgreeInv, NEW c \in Askers, Told(c)
  PROVE  AgreeInv'
<1>1. caller[c] \in CallRecord
  BY DEF OutputInv, OutputTypeOK, CallersOK
<1>2. Target(c) \in Turns /\ outbox' = Sending(c, "audio_stop", Target(c))
  BY <1>1 DEF Told, CallRecord, Target
<1>3. /\ caller[c].at = "told" /\ Sent(c) /\ Moves(c, "stop")
      /\ UNCHANGED <<activeTurn, playback, gen, connection, outQueue, sender, wire, player, generating, held, reports>>
  BY DEF Told, turnState, page
<1> QED BY <1>2, <1>3, TellsKeepsAgreement, Kinds

\* audio_stop is out.
LEMMA StoppedKeepsAgreement ==
  ASSUME OutputInv, OutputInv', AgreeInv, NEW c \in Askers, Stopped(c)
  PROVE  AgreeInv'
BY ContinuesKeepsAgreement DEF Stopped, page

\* The announced turn gets its task.
LEMMA BegunKeepsAgreement ==
  ASSUME OutputInv, AgreeInv, NEW c \in Askers, Begun(c)
  PROVE  AgreeInv'
<1>0. /\ OutputTypeOK /\ StopShape /\ NoticeShape /\ PlayShape /\ EndShape /\ StreamShape /\ HeardShape /\ ShownShape
      /\ outQueue \in Seq(QueuedFrame) /\ CallersOK /\ FramesOK /\ LockShape /\ CallShape /\ TaskStepsOK
  BY DEF OutputInv, AgreeInv, OutputTypeOK, FramesOK
<1>1. /\ caller[c].at = "begin" /\ Sent(c) /\ outbox' = [outbox EXCEPT ![c] = Nothing]
      /\ Returns(c)
      /\ UNCHANGED <<activeTurn, playback, connection, outQueue, sender, wire, player, generating, held, reports>>
  BY DEF Begun, page
<1>2. /\ activeTurn # 0 /\ caller[c].turn = activeTurn /\ gen[activeTurn] = "none"
      /\ holder = c /\ c \in Waiters
  BY <1>0, <1>1, WaitersDiffer DEF CallShape, LockShape, Locking
<1>3. /\ gen'[activeTurn] = "ready" /\ \A u \in Replies \ {activeTurn} : gen'[u] = gen[u]
      /\ activeTurn \in Replies
  <2>1. activeTurn \in Replies
    BY <1>0, <1>2 DEF OutputTypeOK, TurnStateOK, Turns, Replies
  <2>2. gen' = [gen EXCEPT ![activeTurn] = "ready"]
    BY <1>2 DEF Begun
  <2> QED BY <1>0, <2>1, <2>2 DEF TaskStepsOK
<1>4. /\ caller'[c].at \in {"idle", "ending"} /\ \A d \in Askers \ {c} : caller'[d] = caller[d]
      /\ caller'[Loop].at \in {"closing", "ending", "end", "closed"} => connection' # "open"
  BY <1>1, ReturnedCall
<1>5. outbox'[c].state = "no" /\ \A y \in Waiters \ {c} : outbox'[y] = outbox[y]
  BY <1>0, <1>1, <1>2, WaitsNoLonger
<1>6. outbox'[ByTurn(activeTurn)] = outbox[ByTurn(activeTurn)] /\ \A d \in Askers \ {c} : outbox'[d] = outbox[d]
  BY <1>3, <1>5, WaitersDiffer
<1>7. \A d \in Askers : caller'[d].at \notin Locking /\ (d # c => caller[d].at \notin Locking)
  <2>1. \A d \in Askers \ {c} : caller[d].at \notin Locking
    BY <1>0, <1>2 DEF LockShape
  <2> QED BY <1>4, <2>1 DEF Locking
<1>8. StopShape'
  BY <1>0, <1>1, <1>4, <1>5 DEF StopShape, Failed
<1>9. NoticeShape'
  <2>1. ASSUME NEW i \in DOMAIN outQueue, Notice(outQueue[i]), Waits(outQueue[i].from, outQueue[i]) PROVE FALSE
    <3>1. PICK f \in QueuedFrame : f = outQueue[i]
      BY <1>0
    <3>2. f.from \in Waiters /\ outbox[f.from].state # "no" /\ Notice(outbox[f.from])
      BY <2>1, <3>1 DEF QueuedFrame, Waits, Notice
    <3> QED BY <1>2, <3>2, NoticeWaiter
  <2>2. (Live' <=> Live) /\ \A i \in DOMAIN outQueue : outQueue[i].kind # "audio_stop"
    BY <1>0, <1>1, <1>2 DEF Live, NoticeShape
  <2>3. Live => \A i \in DOMAIN outQueue : ~Notice(outQueue[i])
    BY <1>0, <2>1 DEF NoticeShape
  <2>4. \A d \in Askers : caller'[d].at # "stop"
    BY <1>7 DEF Locking
  <2> QED BY <1>1, <2>2, <2>3, <2>4 DEF NoticeShape, Notice
<1>10. \A d \in Askers : caller'[d].at \notin Taking /\ caller[d].at \notin Taking /\ caller'[d].at # "begin"
  BY <1>1, <1>7 DEF Taking, Locking
<1>11. PlayShape'
  <2>1. playback = 0
    BY <1>0, <1>2 DEF PlayShape, Beginning
  <2>2. "ready" \notin {"cancelled", "done", "unwinding", "audio_start", "audio_frame"} \cup LastFrames
    BY DEF LastFrames
  <2> QED BY <1>1, <1>2, <1>3, <1>10, <2>1, <2>2 DEF PlayShape
<1>12. EndShape'
  <2>1. \A u \in Replies : gen[u] \notin UpToFrame => gen'[u] \notin UpToFrame
    BY <1>2, <1>3 DEF UpToFrame, Beginning
  <2> QED BY <1>0, <1>1, <2>1, EndsStay
<1>13. ASSUME NEW s \in Replies, MayHear(s) PROVE MayHear(s)'
  <2>1. HeardOfTurn(s)' /\ HeardOfStop(s)'
    BY <1>1, <1>3, <1>13 DEF MayHear, HeardOfTurn, HeardOfStop
  <2>2. HeardOfCall(s)'
    BY <1>10 DEF HeardOfCall, Taking
  <2>3. HeardOfPlay(s)'
    <3>1. Live => playback = s
      BY <1>2, <1>10, <1>13 DEF MayHear, HeardOfPlay
    <3> QED BY <1>1, <3>1 DEF HeardOfPlay, Live
  <2> QED BY <2>1, <2>2, <2>3 DEF MayHear
<1>14. ASSUME NEW u \in Turns, MayShow(u) PROVE MayShow(u)'
  <2>1. \A d \in Askers : caller[d].at = "begin" => Sent(d)
    BY <1>1, <1>7 DEF Locking
  <2>2. Live => u = activeTurn
    BY <1>2, <1>14, <2>1 DEF MayShow, LastFrames
  <2>3. "ready" \notin LastFrames
    BY DEF LastFrames
  <2> QED BY <1>1, <1>2, <1>3, <2>2, <2>3 DEF MayShow, Live
<1>15. StreamShape' /\ HeardShape' /\ ShownShape'
  BY <1>0, <1>1, <1>13, <1>14, QuietStep
<1> QED BY <1>8, <1>9, <1>11, <1>12, <1>15 DEF AgreeInv

\* A call ends where it is: nobody lives to hear or to be shown what it has left undone.
LEMMA AbandonsKeepsAgreement ==
  ASSUME OutputInv, AgreeInv, NEW c \in Askers, Abandons(c),
         NEW to \in {"idle", "closing"}, caller' = [caller EXCEPT ![c] = [Idle EXCEPT !.at = to]],
         connection' = "open" => connection = "open", to = "closing" => connection' # "open",
         Failed(c) \/ connection' # "open"
  PROVE  AgreeInv'
<1>0. /\ OutputTypeOK /\ StopShape /\ NoticeShape /\ PlayShape /\ EndShape /\ StreamShape /\ HeardShape /\ ShownShape
      /\ CallersOK /\ FramesOK /\ LockShape /\ CallShape
  BY DEF OutputInv, AgreeInv, OutputTypeOK
<1>1. /\ outbox' = [outbox EXCEPT ![c] = Nothing]
      /\ UNCHANGED <<playback, gen, outQueue, sender, wire, player, generating, held, reports>>
  BY DEF Abandons, page
<1>2. c \in Waiters
  BY WaitersDiffer
<1>3. caller'[c].at = to /\ \A d \in Askers \ {c} : caller'[d] = caller[d]
  BY <1>0, CallEnds DEF Places, Locking
<1>4. outbox'[c].state = "no" /\ \A y \in Waiters \ {c} : outbox'[y] = outbox[y]
  BY <1>0, <1>1, <1>2, WaitsNoLonger
<1>5. ~Live'
  BY <1>0, <1>1, <1>2 DEF Live, StopShape
<1>6. caller'[Loop].at \in {"closing", "ending", "end", "closed"} => connection' # "open"
  <2>1. Loop \in Askers
    BY DEF Askers
  <2> QED BY <1>0, <1>3, <2>1 DEF StopShape
<1>7. CASE caller[c].at = "begin"
  <2>1. activeTurn # 0 /\ activeTurn' = 0 /\ holder = c
    BY <1>0, <1>7 DEF CallShape, LockShape, Locking, Abandons, ClearActive
  <2>2. \A d \in Askers : caller'[d].at \notin Locking
    BY <1>0, <1>3, <2>1 DEF LockShape, Locking
  <2>3. StopShape'
    BY <1>0, <1>1, <1>4, <1>6 DEF StopShape, Failed
  <2>4. NoticeShape'
    <3>1. \A i \in DOMAIN outQueue : outQueue[i].kind # "audio_stop"
      BY <1>0, <2>1 DEF NoticeShape
    <3>2. \A d \in Askers : caller'[d].at # "stop"
      BY <2>2 DEF Locking
    <3> QED BY <1>1, <1>5, <3>1, <3>2 DEF NoticeShape
  <2>5. PlayShape'
    BY <2>1, <2>2 DEF PlayShape, Taking, Locking
  <2>6. EndShape'
    BY <1>0, <1>1, EndsStay
  <2>7. ASSUME NEW s \in Replies, MayHear(s) PROVE MayHear(s)'
    <3>1. HeardOfTurn(s)' /\ HeardOfStop(s)'
      BY <1>1, <2>1, <2>7 DEF MayHear, HeardOfTurn, HeardOfStop
    <3>2. HeardOfCall(s)'
      BY <2>2 DEF HeardOfCall, Locking
    <3>3. HeardOfPlay(s)'
      BY <1>5 DEF HeardOfPlay
    <3> QED BY <3>1, <3>2, <3>3 DEF MayHear
  <2>8. \A u \in Turns : MayShow(u)'
    BY <1>5 DEF MayShow
  <2>9. StreamShape' /\ HeardShape' /\ ShownShape'
    BY <1>0, <1>1, <2>7, <2>8, QuietStep
  <2> QED BY <2>3, <2>4, <2>5, <2>6, <2>9 DEF AgreeInv
<1>8. CASE caller[c].at # "begin"
  <2>1. UNCHANGED activeTurn
    BY <1>8 DEF Abandons
  <2>2. NobodyStarts => NobodyStarts'
    BY <1>3 DEF NobodyStarts, Locking
  <2>3. outbox[c].state = "queued" /\ outbox[c].kind = "audio_stop" => NobodyStarts'
    <3> SUFFICES ASSUME outbox[c].state = "queued", outbox[c].kind = "audio_stop" PROVE NobodyStarts'
      OBVIOUS
    <3>1. holder = c
      BY <1>2, NoticeWaiter DEF Notice
    <3>2. \A d \in Askers : caller'[d].at \notin Locking
      BY <1>0, <1>3, <3>1 DEF LockShape, Locking
    <3>3. connection' # "open"
      BY DEF Failed
    <3> QED BY <3>2, <3>3 DEF NobodyStarts
  <2>4. caller'[c].at \notin Taking \cup {"begin", "told", "stop", "reap"}
    BY <1>3 DEF Taking
  <2>5. outbox'[c].state # "error"
    BY <1>4
  <2> QED BY <1>1, <1>3, <1>4, <1>5, <1>6, <1>8, <2>1, <2>2, <2>3, <2>4, <2>5, CallKeepsAgreement
<1> QED BY <1>7, <1>8

\* A send raises, or a helper is cancelled.
LEMMA FailedCallKeepsAgreement ==
  ASSUME OutputInv, AgreeInv, NEW c \in Askers, SendRaises(c) \/ HelperAborted(c)
  PROVE  AgreeInv'
<1>1. Idle = [Idle EXCEPT !.at = "idle"]
  BY DEF Idle
<1>2. CASE SendRaises(c)
  <2>1. CASE c = Loop
    <3>1. /\ Abandons(c) /\ Failed(c) /\ connection' = "closing"
          /\ caller' = [caller EXCEPT ![c] = [Idle EXCEPT !.at = "closing"]]
      BY <1>2, <2>1 DEF SendRaises
    <3> QED BY <3>1, AbandonsKeepsAgreement
  <2>2. CASE c # Loop
    <3>1. /\ Abandons(c) /\ Failed(c) /\ connection' = connection
          /\ caller' = [caller EXCEPT ![c] = [Idle EXCEPT !.at = "idle"]]
      BY <1>1, <1>2, <2>2 DEF SendRaises
    <3> QED BY <3>1, AbandonsKeepsAgreement
  <2> QED BY <2>1, <2>2
<1>3. CASE HelperAborted(c)
  <2>1. /\ Abandons(c) /\ connection' = connection
        /\ caller' = [caller EXCEPT ![c] = [Idle EXCEPT !.at = "idle"]]
    BY <1>1, <1>3 DEF HelperAborted
  <2>2. connection # "open"
    BY <1>3 DEF HelperAborted, AgreeInv, StopShape
  <2> QED BY <2>1, <2>2, AbandonsKeepsAgreement
<1> QED BY <1>2, <1>3

-----------------------------------------------------------------------------
\* At first nothing sounds and nothing is shown.
LEMMA AgreementStarts == OutputInit => AgreeInv
<1> SUFFICES ASSUME OutputInit PROVE AgreeInv
  OBVIOUS
<1>1. /\ \A x \in Waiters : outbox[x].state = "no"
      /\ \A c \in Askers : caller[c].at = "idle"
      /\ \A t \in Replies : gen[t] = "none"
  BY WaitersDiffer DEF OutputInit, Nothing, Idle
<1>2. /\ activeTurn = 0 /\ playback = 0 /\ connection = "open" /\ sender = "running" /\ generating = 0 /\ held = 0
      /\ outQueue = <<>> /\ wire = <<>> /\ reports = {} /\ player = [stream |-> 0, state |-> "off"]
  BY DEF OutputInit, NoStream
<1>3. DOMAIN outQueue = {} /\ DOMAIN wire = {} /\ Len(wire) = 0 /\ ~Audible
  BY <1>2 DEF Audible
<1>4. StopShape
  <2>1. Loop \in Askers
    BY DEF Askers
  <2> QED BY <1>1, <1>2, <2>1 DEF StopShape, Failed
<1>5. NoticeShape /\ PlayShape
  BY <1>1, <1>2, <1>3 DEF NoticeShape, PlayShape, Taking
<1>6. EndShape /\ StreamShape
  BY <1>2, <1>3 DEF EndShape, StreamShape
<1>7. HeardShape
  BY <1>3 DEF HeardShape, Hears
<1>8. ShownShape
  <2>1. \A t \in Turns : Shows(0, t) => t = 0
    BY <1>2 DEF Shows, OnPage
  <2> QED BY <1>2, <1>3, <2>1 DEF ShownShape, MayShow
<1> QED BY <1>4, <1>5, <1>6, <1>7, <1>8 DEF AgreeInv

\* What may be heard and shown once the page has read the wire is what the connection knows of.
THEOREM AgreementInvariant == OutputSafety => []AgreeInv
<1>1. OutputInv /\ OutputInv' /\ AgreeInv /\ [OutputNext]_outputVars => AgreeInv'
  <2> SUFFICES ASSUME OutputInv, OutputInv', AgreeInv, [OutputNext]_outputVars PROVE AgreeInv'
    OBVIOUS
  <2>1. ASSUME NEW x \in Waiters, Put(x) PROVE AgreeInv'
    BY <2>1, PutKeepsAgreement
  <2>2. CASE Drop
    BY <2>2, DropKeepsAgreement
  <2>3. CASE Write
    BY <2>3, WriteKeepsAgreement
  <2>4. CASE SenderStops
    BY <2>4, StopKeepsAgreement
  <2>5. ASSUME NEW t \in Replies, TurnSends(t) \/ TurnSent(t) \/ TurnWakes(t) \/ TurnUnwinds(t) \/ LoopHears(t)
        PROVE  AgreeInv'
    BY <2>5, SendsKeepsAgreement, SentKeepsAgreement, WakesKeepsAgreement, UnwindsKeepsAgreement,
       HearingKeepsAgreement
  <2>6. ASSUME NEW c \in Askers, Acquire(c) \/ Reaped(c) \/ Told(c) \/ Stopped(c) PROVE AgreeInv'
    BY <2>6, AcquireKeepsAgreement, ReapedKeepsAgreement, ToldKeepsAgreement, StoppedKeepsAgreement
  <2>7. ASSUME NEW c \in Askers, Begun(c) \/ SendRaises(c) \/ HelperAborted(c) \/ Ask(c) PROVE AgreeInv'
    BY <2>7, BegunKeepsAgreement, FailedCallKeepsAgreement, AskKeepsAgreement
  <2>8. CASE LoopEnds \/ CloseCancels \/ CloseSender \/ Closed
    BY <2>8, ClosingKeepsAgreement
  <2>9. CASE PageReads
    BY <2>9, ReadsKeepsAgreement
  <2>10. CASE UserStops \/ PlayerDrains
    BY <2>10, SilenceKeepsAgreement
  <2>11. CASE UNCHANGED outputVars
    <3>1. UNCHANGED <<activeTurn, playback, gen, caller, connection, outbox, outQueue, sender, wire, player, generating, held, reports>>
      BY <2>11 DEF outputVars, turnState, sending, page
    <3>2. StopShape' /\ NoticeShape' /\ PlayShape' /\ EndShape'
      BY <3>1 DEF AgreeInv, StopShape, Failed, NoticeShape, Notice, Live, Waits, Target, NobodyStarts, PlayShape,
                  EndShape, Audible
    <3>3. \A s \in Replies : MayHear(s) => MayHear(s)'
      BY <3>1 DEF MayHear, HeardOfTurn, HeardOfStop, HeardOfCall, HeardOfPlay, Live, Target, Sent
    <3>4. \A t \in Turns : MayShow(t) => MayShow(t)'
      BY <3>1 DEF MayShow, Live, Sent
    <3>5. StreamShape' /\ HeardShape' /\ ShownShape'
      BY <3>1, <3>3, <3>4, QuietStep DEF AgreeInv
    <3> QED BY <3>2, <3>5 DEF AgreeInv
  <2>12. \A h \in Helpers : h \in Askers
    BY DEF Askers
  <2> QED BY <2>1, <2>2, <2>3, <2>4, <2>5, <2>6, <2>7, <2>8, <2>9, <2>10, <2>11, <2>12 DEF OutputNext, OutputProgress
<1> QED BY <1>1, AgreementStarts, OutputInvariant, PTL DEF OutputSafety

\* With nothing under way page and connection agree on what generates, the connection knows
\* what plays, and what the page reads next of a stream is of the one that is on (PageAgrees).
THEOREM PageAndConnectionAgree == OutputSafety => []PageAgrees
<1>1. OutputInv /\ AgreeInv => PageAgrees
  <2> SUFFICES ASSUME OutputInv, AgreeInv PROVE PageAgrees
    OBVIOUS
  <2>0. /\ OutputTypeOK /\ LockShape /\ PlayShape /\ StreamShape /\ HeardShape /\ ShownShape /\ ToldShape
        /\ wire \in Seq(WireFrame)
    BY DEF OutputInv, AgreeInv, OutputTypeOK, FramesOK
  <2>1. \A s : Audible /\ player.stream = s => Hears(0, s)
    BY DEF Hears, NoSilencer
  <2>2. Audible => player.stream \in Replies
    BY <2>0 DEF Audible, ToldShape, OutputTypeOK, PageOK, Turns, Replies
  <2>3. ASSUME Quiet
        PROVE  /\ generating = IF held = activeTurn THEN 0 ELSE activeTurn
               /\ Audible => playback = player.stream
    <3>1. /\ Live /\ Len(wire) = 0 /\ (\A x \in Waiters : outbox[x].state = "no")
          /\ \A c \in Askers : caller[c].at \notin Locking
      BY <2>0, <2>3, WaitersDiffer DEF Quiet, Live, Nothing, LockShape
    <3>2. \A c \in Askers : caller[c].at \notin Taking /\ caller[c].at # "begin"
      BY <3>1 DEF Taking, Locking
    <3>3. OnPage = activeTurn
      <4>1. Shows(0, OnPage) /\ OnPage \in Turns
        BY <2>0 DEF Shows, NoMarker, OnPage, OutputTypeOK, PageOK
      <4>2. MayShow(OnPage)
        BY <2>0, <3>1, <4>1 DEF ShownShape
      <4>3. activeTurn # 0 => gen[activeTurn] \notin LastFrames
        <5>1. activeTurn # 0 => ByTurn(activeTurn) \in Waiters
          BY <2>0, WaitersDiffer DEF OutputTypeOK, TurnStateOK, Turns, Replies
        <5> QED BY <2>0, <3>1, <5>1 DEF PlayShape
      <4> QED BY <3>1, <3>2, <4>2, <4>3 DEF MayShow, Taking
    <3>4. ASSUME Audible PROVE playback = player.stream
      <4>1. HeardOfPlay(player.stream) /\ player.stream \in Replies
        BY <2>0, <2>1, <2>2, <3>1, <3>4 DEF HeardShape, MayHear
      <4>2. outbox[ByTurn(player.stream)].state = "no"
        BY <2>2, <3>1, <3>4, WaitersDiffer
      <4> QED BY <3>1, <3>2, <4>1, <4>2 DEF HeardOfPlay
    <3>5. generating = IF held = activeTurn THEN 0 ELSE activeTurn
      BY <2>0, <3>3 DEF OnPage, ShownShape
    <3> QED BY <3>4, <3>5
  <2>4. ASSUME wire # <<>>, Audible, Head(wire).kind \in {"audio_frame", "audio_end", "audio_stop"}
        PROVE  Head(wire).turn = player.stream
    <3>1. 1 \in DOMAIN wire /\ Head(wire) = wire[1]
      BY <2>0, <2>4, QueueShrinks
    <3>2. Hears(1 - 1, player.stream) => player.stream = wire[1].turn
      BY <2>0, <2>2, <2>4, <3>1 DEF StreamShape
    <3>3. 1 - 1 = 0
      OBVIOUS
    <3> QED BY <2>1, <2>4, <3>1, <3>2, <3>3
  <2> QED BY <2>3, <2>4 DEF PageAgrees
<1> QED BY <1>1, OutputInvariant, AgreementInvariant, PTL

=============================================================================
