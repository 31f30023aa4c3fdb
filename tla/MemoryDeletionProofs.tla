------------------------ MODULE MemoryDeletionProofs ------------------------
(***************************************************************************)
(* Proofs about MemoryDeletion, for any set of members, any number of jobs *)
(* and any bounds.  The conjuncts of Inductive say why the wait for        *)
(* submitted tasks is enough: a request that may still store a memory is   *)
(* in the worker's hands while the member's row is locked, or is known by  *)
(* a submitted row, or has been given up.                                  *)
(*                                                                         *)
(* Each step of the worker is first summed up by what it writes; then one  *)
(* lemma per conjunct shows that every step preserves it.                  *)
(***************************************************************************)
EXTENDS MemoryDeletion, TLAPS

\* The request whose outcome the worker is about to record.
WorkerRequest == IF wpc = "adding" THEN ThisTask ELSE KnownTask

\* What a _set_result that finds its row leaves in the row.
Written(s, id, p) ==
    /\ status' = [status EXCEPT ![wjob] = s]
    /\ task' = [task EXCEPT ![wjob] = id]
    /\ polls' = [polls EXCEPT ![wjob] = p]

\* The request cannot store a memory, or is recorded as given up.
GivenUp == remote[WorkerRequest] \notin MayWrite \/ WorkerRequest \in orphaned'

\* The four outcomes the worker can record: still under way, completed, to be
\* tried again, and given up.
Result ==
    \/ \E p \in 0 .. (MaxPolls + 1) :
         /\ Written("submitted", WorkerRequest[2], p)
         /\ wpc = "polling" => p = polls[wjob] /\ WorkerRequest[2] = task[wjob]
    \/ /\ Written("completed", WorkerRequest[2], polls[wjob])
       /\ remote[WorkerRequest] = "completed"
    \/ Written("pending", 0, 0) /\ attempts[wjob] < MaxAttempts /\ GivenUp
         /\ Active(Owner[wjob])
    \/ Written("failed", 0, 0) /\ GivenUp
         /\ (attempts[wjob] >= MaxAttempts \/ ~ Active(Owner[wjob]))
         /\ (remote[WorkerRequest] \notin MayWrite \/ Active(Owner[wjob]))

\* A step that records an outcome and leaves submission_guard.
ResultStep ==
    /\ wpc \in {"adding", "polling"}
    /\ WorkerRequest \in Tasks
    /\ WorkerRequest[1] = wjob
    /\ WorkerRequest[2] # 0
    /\ Result
    /\ wpc' = "idle" /\ wjob' = 0
    /\ due' \in [Jobs -> BOOLEAN]
    /\ orphaned' \in {orphaned, orphaned \cup {WorkerRequest}}
    /\ UNCHANGED <<identity, attempts, nextTurn, deletion, remote, memories, faults>>

\* In submission_guard the worker holds the row of a real job, in progress, and
\* the request it stands for is a real one.
LEMMA RequestInTasks ==
  ASSUME TypeOK, RowShape, WorkerShape, wpc \in {"adding", "polling"}
  PROVE  /\ wjob \in Jobs
         /\ status[wjob] \in InProgress
         /\ WorkerRequest \in Tasks
         /\ WorkerRequest[1] = wjob
         /\ WorkerRequest[2] # 0
         /\ wpc = "adding" => Active(Owner[wjob]) /\ task[wjob] = 0
BY DEF TypeOK, RowShape, WorkerShape, WorkerRequest, ThisTask, KnownTask, Tasks, InProgress

\* _set_result finds the row of the job in hand.
LEMMA SetResultWrites ==
  ASSUME NEW s, NEW id, NEW p, TypeOK, wjob \in Jobs, status[wjob] \in InProgress,
         SetResult(wjob, s, id, p)
  PROVE  Written(s, id, p) /\ due' \in [Jobs -> BOOLEAN]
BY DEF SetResult, Written, TypeOK

\* _fail_submission records one of the outcomes.
LEMMA FailureResult ==
  ASSUME TypeOK, NEW allowed \in BOOLEAN, wjob \in Jobs, status[wjob] \in InProgress,
         allowed => Active(Owner[wjob]), ~ allowed => ~ Active(Owner[wjob]),
         ~ allowed => remote[WorkerRequest] \notin MayWrite,
         FailSubmission(wjob, allowed), GivenUp
  PROVE  Result /\ due' \in [Jobs -> BOOLEAN]
<1>1. CASE allowed /\ attempts[wjob] < MaxAttempts
  <2>1. SetResult(wjob, "pending", 0, 0)
    BY <1>1 DEF FailSubmission, StoreFail
  <2> QED BY <1>1, <2>1, SetResultWrites DEF Result
<1>2. CASE ~ (allowed /\ attempts[wjob] < MaxAttempts)
  <2>1. SetResult(wjob, "failed", 0, 0)
    BY <1>2 DEF FailSubmission, StoreFail
  <2>2. /\ attempts[wjob] >= MaxAttempts \/ ~ Active(Owner[wjob])
        /\ remote[WorkerRequest] \notin MayWrite \/ Active(Owner[wjob])
    BY <1>2, CountsAssumption DEF TypeOK
  <2> QED BY <2>1, <2>2, SetResultWrites DEF Result
<1> QED BY <1>1, <1>2

\* store.submit records a task still under way.
LEMMA SubmitResult ==
  ASSUME TypeOK, wjob \in Jobs, status[wjob] \in InProgress,
         StoreSubmit(wjob, WorkerRequest[2]),
         wpc = "polling" => WorkerRequest[2] = task[wjob]
  PROVE  Result /\ due' \in [Jobs -> BOOLEAN]
<1> DEFINE p == IF task[wjob] = WorkerRequest[2] THEN polls[wjob] ELSE 0
<1>1. SetResult(wjob, "submitted", WorkerRequest[2], p)
  BY DEF StoreSubmit
<1>2. p \in 0 .. (MaxPolls + 1)
  BY CountsAssumption DEF TypeOK
<1>3. wpc = "polling" => p = polls[wjob] /\ WorkerRequest[2] = task[wjob]
  OBVIOUS
<1>4. Written("submitted", WorkerRequest[2], p) /\ due' \in [Jobs -> BOOLEAN]
  <2> HIDE DEF p
  <2> QED BY <1>1, SetResultWrites
<1> HIDE DEF p
<1> QED BY <1>2, <1>3, <1>4 DEF Result

\* store.complete records a completed task.
LEMMA CompleteResult ==
  ASSUME TypeOK, wjob \in Jobs, status[wjob] \in InProgress,
         StoreComplete(wjob, WorkerRequest[2]), remote[WorkerRequest] = "completed"
  PROVE  Result /\ due' \in [Jobs -> BOOLEAN]
BY SetResultWrites DEF StoreComplete, Result

\* Every way out of an Add Message or a status query records one of the outcomes.
LEMMA WorkerResult ==
  ASSUME Inductive,
         AddAnswered \/ AddRaised \/ PollLimit \/ PollAnswered \/ PollRaised
  PROVE  ResultStep
<1> USE DEF Release
<1>0. TypeOK /\ RowShape /\ WorkerShape
  BY DEF Inductive
<1>1. CASE AddAnswered
  <2>1. wpc = "adding" /\ WorkerRequest = ThisTask /\ WorkerRequest[2] = attempts[wjob]
    BY <1>1 DEF AddAnswered, WorkerRequest, ThisTask
  <2>2. wjob \in Jobs /\ status[wjob] \in InProgress /\ Active(Owner[wjob])
    BY <1>0, <2>1, RequestInTasks
  <2>3. Result /\ due' \in [Jobs -> BOOLEAN]
    <3>1. CASE remote[ThisTask] = "running"
      <4>1. StoreSubmit(wjob, WorkerRequest[2])
        BY <1>1, <2>1, <3>1 DEF AddAnswered
      <4> QED BY <1>0, <2>1, <2>2, <4>1, SubmitResult
    <3>2. CASE remote[ThisTask] = "completed"
      <4>1. StoreComplete(wjob, WorkerRequest[2])
        BY <1>1, <2>1, <3>2 DEF AddAnswered
      <4> QED BY <1>0, <2>1, <2>2, <3>2, <4>1, CompleteResult
    <3>3. CASE remote[ThisTask] = "failed"
      <4>1. FailSubmission(wjob, TRUE) /\ GivenUp
        BY <1>1, <2>1, <3>3 DEF AddAnswered, GivenUp, MayWrite
      <4> QED BY <1>0, <2>2, <4>1, FailureResult
    <3> QED BY <1>1, <3>1, <3>2, <3>3 DEF AddAnswered
  <2> QED BY <1>0, <1>1, <2>1, <2>3, RequestInTasks DEF AddAnswered, ResultStep
<1>2. CASE AddRaised
  <2>1. wpc = "adding" /\ WorkerRequest = ThisTask
    BY <1>2 DEF AddRaised, WorkerRequest
  <2>2. wjob \in Jobs /\ status[wjob] \in InProgress /\ Active(Owner[wjob])
    BY <1>0, <2>1, RequestInTasks
  <2>3. GivenUp /\ orphaned' \in {orphaned, orphaned \cup {WorkerRequest}}
    BY <1>2, <2>1 DEF AddRaised, Orphan, GivenUp
  <2>4. Result /\ due' \in [Jobs -> BOOLEAN]
    BY <1>0, <1>2, <2>2, <2>3, FailureResult DEF AddRaised
  <2> QED BY <1>0, <1>2, <2>1, <2>3, <2>4, RequestInTasks DEF AddRaised, ResultStep
<1>3. CASE PollLimit
  <2>1. wpc = "polling" /\ WorkerRequest = KnownTask /\ Active(Owner[wjob])
    BY <1>3 DEF PollLimit, PollLimitReached, WorkerRequest
  <2>2. wjob \in Jobs /\ status[wjob] \in InProgress
    BY <1>0, <2>1, RequestInTasks
  <2>3. GivenUp /\ orphaned' \in {orphaned, orphaned \cup {WorkerRequest}}
    BY <1>3, <2>1 DEF PollLimit, Orphan, GivenUp
  <2>4. Result /\ due' \in [Jobs -> BOOLEAN]
    BY <1>0, <1>3, <2>1, <2>2, <2>3, FailureResult DEF PollLimit
  <2> QED BY <1>0, <1>3, <2>1, <2>3, <2>4, RequestInTasks DEF PollLimit, ResultStep
<1>4. CASE PollAnswered
  <2>1. wpc = "polling" /\ WorkerRequest = KnownTask /\ WorkerRequest[2] = task[wjob]
    BY <1>4 DEF PollAnswered, WorkerRequest, KnownTask
  <2>2. wjob \in Jobs /\ status[wjob] \in InProgress
    BY <1>0, <2>1, RequestInTasks
  <2>3. Result /\ due' \in [Jobs -> BOOLEAN]
    <3>1. CASE remote[KnownTask] = "running"
      <4>1. StoreSubmit(wjob, WorkerRequest[2])
        BY <1>4, <2>1, <3>1 DEF PollAnswered
      <4> QED BY <1>0, <2>1, <2>2, <4>1, SubmitResult
    <3>2. CASE remote[KnownTask] = "completed"
      <4>1. StoreComplete(wjob, WorkerRequest[2])
        BY <1>4, <2>1, <3>2 DEF PollAnswered
      <4> QED BY <1>0, <2>1, <2>2, <3>2, <4>1, CompleteResult
    <3>3. CASE remote[KnownTask] = "failed"
      <4>1. FailSubmission(wjob, Active(Owner[wjob])) /\ GivenUp
        BY <1>4, <2>1, <3>3 DEF PollAnswered, GivenUp, MayWrite
      <4>2. /\ Active(Owner[wjob]) \in BOOLEAN
            /\ remote[WorkerRequest] \notin MayWrite
        BY <2>1, <3>3 DEF Active, MayWrite
      <4> QED BY <1>0, <2>2, <4>1, <4>2, FailureResult
    <3> QED BY <1>4, <3>1, <3>2, <3>3 DEF PollAnswered
  <2> QED BY <1>0, <1>4, <2>1, <2>3, RequestInTasks DEF PollAnswered, ResultStep
<1>5. CASE PollRaised
  <2>1. wpc = "polling" /\ WorkerRequest[2] = task[wjob]
    BY <1>5 DEF PollRaised, WorkerRequest, KnownTask
  <2>2. wjob \in Jobs /\ status[wjob] \in InProgress
    BY <1>0, <2>1, RequestInTasks
  <2>3. Result /\ due' \in [Jobs -> BOOLEAN]
    BY <1>0, <1>5, <2>1, <2>2, SubmitResult DEF PollRaised
  <2> QED BY <1>0, <1>5, <2>1, <2>3, RequestInTasks DEF PollRaised, ResultStep
<1> QED BY <1>1, <1>2, <1>3, <1>4, <1>5

\* claim of a row without a task id takes an attempt.
Attempted(j) ==
    /\ task[j] = 0 /\ Active(Owner[j])
    /\ status[j] \in {"pending", "processing"}
    /\ status' = [status EXCEPT ![j] = "processing"]
    /\ attempts' = [attempts EXCEPT ![j] = attempts[j] + 1]
    /\ polls' = polls

\* claim of a row with a task id takes a poll.
Repolled(j) ==
    /\ task[j] # 0 /\ status[j] = "submitted"
    /\ status' = [status EXCEPT ![j] = "submitted"]
    /\ attempts' = attempts
    /\ polls' \in [Jobs -> 0 .. (MaxPolls + 1)]
    /\ \A k \in Jobs : polls'[k] >= polls[k]

\* What claim does, without its WHERE clause and its order.
ClaimStep(j) ==
    /\ Attempted(j) \/ Repolled(j)
    /\ wpc = "idle" /\ wpc' = "claimed"
    /\ wjob = 0 /\ wjob' = j
    /\ due' \in [Jobs -> BOOLEAN]
    /\ UNCHANGED <<identity, task, nextTurn, deletion, remote, memories, orphaned, faults>>

\* claim takes either an attempt or a poll.
LEMMA ClaimResult ==
  ASSUME Inductive, NEW j \in Jobs, Claim(j)
  PROVE  ClaimStep(j)
<1>0. TypeOK /\ RowShape
  BY DEF Inductive
<1>1. /\ wpc = "idle" /\ wpc' = "claimed" /\ wjob = 0 /\ wjob' = j
      /\ due' \in [Jobs -> BOOLEAN]
      /\ UNCHANGED <<identity, task, nextTurn, deletion, remote, memories, orphaned, faults>>
  BY <1>0 DEF Claim, TypeOK
<1>2. status[j] \in Open /\ (task[j] # 0 \/ Active(Owner[j]))
  BY DEF Claim, Claimable
<1>3. CASE task[j] = 0
  BY <1>0, <1>1, <1>2, <1>3 DEF Claim, RowShape, Open, ClaimStep, Attempted, TypeOK
<1>4. CASE task[j] # 0
  <2>1. status[j] = "submitted"
    BY <1>0, <1>2, <1>4 DEF RowShape, Open
  <2>2. status' = [status EXCEPT ![j] = "submitted"] /\ attempts' = attempts
    BY <1>0, <1>4, <2>1 DEF Claim, TypeOK
  <2>3. /\ polls' \in [Jobs -> 0 .. (MaxPolls + 1)]
        /\ \A k \in Jobs : polls'[k] >= polls[k]
    BY <1>0, <1>4, CountsAssumption DEF Claim, TypeOK
  <2> QED BY <1>1, <1>4, <2>1, <2>2, <2>3 DEF ClaimStep, Repolled
<1> QED BY <1>3, <1>4

\* What a worker cut short does.
AbandonStep ==
    /\ wpc' = "idle" /\ wjob' = 0
    /\ wpc # "idle"
    /\ wpc = "adding" =>
         /\ ThisTask \in Tasks
         /\ remote[ThisTask] \in MayWrite => ThisTask \in orphaned'
    /\ orphaned \subseteq orphaned' /\ orphaned' \subseteq Tasks
    /\ faults' = faults + 1 /\ faults' \in 0 .. MaxFaults
    /\ dpc' \in {dpc, "idle"}
    /\ UNCHANGED <<identity, rows, nextTurn, dstatus, ddue, dident, erased, remote, memories>>

\* A database error and a crash both leave the job to its lease.
LEMMA AbandonResult ==
  ASSUME Inductive, MemoryAbort \/ Crash
  PROVE  AbandonStep
<1>0. TypeOK /\ RowShape /\ WorkerShape
  BY DEF Inductive
<1>1. AbandonJob /\ faults < MaxFaults /\ faults' = faults + 1 /\ wpc # "idle"
  BY DEF MemoryAbort, Crash
<1>2. faults' \in 0 .. MaxFaults
  BY <1>0, <1>1, CountsAssumption DEF TypeOK
<1>3. wpc = "adding" => ThisTask \in Tasks
  BY <1>0, RequestInTasks DEF WorkerRequest
<1>4. /\ wpc = "adding" /\ remote[ThisTask] \in MayWrite => ThisTask \in orphaned'
      /\ orphaned \subseteq orphaned' /\ orphaned' \subseteq Tasks
  <2>1. CASE wpc = "adding"
    BY <1>0, <1>1, <1>3, <2>1 DEF AbandonJob, Orphan, TypeOK
  <2>2. CASE wpc # "adding"
    BY <1>0, <1>1, <2>2 DEF AbandonJob, TypeOK
  <2> QED BY <2>1, <2>2
<1> QED BY <1>1, <1>2, <1>3, <1>4 DEF AbandonStep, AbandonJob, Release, MemoryAbort, Crash, deletion

\* What enqueue does to the row of the next turn.
EnqueueStep ==
    /\ nextTurn \in Jobs /\ nextTurn' = nextTurn + 1
    /\ status[nextTurn] = "absent" /\ task[nextTurn] = 0 /\ attempts[nextTurn] = 0
    /\ status' \in [Jobs -> Open \cup {"absent", "completed", "failed"}]
    /\ \A k \in Jobs \ {nextTurn} : status'[k] = status[k]
    /\ \/ status'[nextTurn] = "absent"
       \/ status'[nextTurn] = "pending" /\ Active(Owner[nextTurn])
    /\ due' \in [Jobs -> BOOLEAN]
    /\ UNCHANGED <<identity, attempts, polls, task, worker, deletion,
                   remote, memories, orphaned, faults>>

\* enqueue touches a fresh row only.
LEMMA EnqueueResult ==
  ASSUME Inductive, Enqueue
  PROVE  EnqueueStep
<1>0. TypeOK /\ FutureJobsUntouched
  BY DEF Inductive
<1>1. nextTurn \in Jobs /\ nextTurn' = nextTurn + 1
  BY <1>0, CountsAssumption DEF Enqueue, TypeOK, Jobs
<1>2. status[nextTurn] = "absent" /\ task[nextTurn] = 0 /\ attempts[nextTurn] = 0
  BY <1>0, <1>1 DEF FutureJobsUntouched, Jobs
<1>3. CASE Active(Owner[nextTurn])
  BY <1>0, <1>1, <1>2, <1>3 DEF Enqueue, EnqueueStep, TypeOK, Open
<1>4. CASE ~ Active(Owner[nextTurn])
  BY <1>0, <1>1, <1>2, <1>4 DEF Enqueue, EnqueueStep, TypeOK, Open
<1> QED BY <1>3, <1>4

\* Steps that leave the queue and its worker alone.
QueueUntouched ==
    /\ UNCHANGED <<identity, status, attempts, polls, task, nextTurn, worker>>
    /\ faults' \in {faults, faults + 1}

\* Those of them that are not the provider's.
DeletionOnly ==
    /\ QueueUntouched
    /\ memories' \subseteq memories
    /\ UNCHANGED <<remote, orphaned>>

\* Every step is one of these.
LEMMA StepCases ==
  ASSUME Inductive, Next
  PROVE  \/ EnqueueStep \/ BeginAdd \/ SkipInactive \/ BeginPoll
         \/ ResultStep \/ AbandonStep
         \/ DeletionCheck \/ EraseRaised \/ DeletionComplete \/ DeletionAbort
         \/ \E j \in Jobs : ClaimStep(j) \/ JobDue(j)
         \/ \E t \in Tasks : RemoteAccept(t) \/ RemoteFail(t) \/ RemoteFinish(t)
         \/ \E i \in Identities : Schedule(i) \/ DeletionClaim(i) \/ DeletionDue(i)
         \/ \E s \in Stores : Erase(s)
BY EnqueueResult, ClaimResult, WorkerResult, AbandonResult
   DEF Next, MemoryStep, DeletionStep

\* The steps again, those that only touch the provider or the deletion summed up.
LEMMA QueueCases ==
  ASSUME Inductive, Next
  PROVE  \/ EnqueueStep \/ BeginAdd \/ SkipInactive \/ BeginPoll
         \/ ResultStep \/ AbandonStep \/ DeletionComplete
         \/ \E j \in Jobs : ClaimStep(j)
         \/ \E i \in Identities : Schedule(i)
         \/ \E t \in Tasks : RemoteAccept(t) \/ RemoteFail(t) \/ RemoteFinish(t)
         \/ DeletionOnly
<1> USE DEF DeletionOnly, QueueUntouched, rows, worker, Wiped
<1>1. \A j \in Jobs : JobDue(j) => DeletionOnly
  BY DEF JobDue
<1>2. \A i \in Identities : DeletionClaim(i) \/ DeletionDue(i) => DeletionOnly
  BY DEF DeletionClaim, DeletionDue
<1>3. \A s \in Stores : Erase(s) => DeletionOnly
  BY DEF Erase
<1>4. DeletionCheck \/ EraseRaised \/ DeletionAbort => DeletionOnly
  BY DEF DeletionCheck, EraseRaised, DeletionAbort
<1> QED BY <1>1, <1>2, <1>3, <1>4, StepCases

\* The steps once more, those that leave the memory rows alone summed up.
LEMMA RowCases ==
  ASSUME Inductive, Next
  PROVE  \/ EnqueueStep \/ BeginAdd \/ SkipInactive \/ BeginPoll
         \/ ResultStep \/ AbandonStep \/ DeletionComplete
         \/ \E j \in Jobs : ClaimStep(j)
         \/ \E i \in Identities : Schedule(i)
         \/ QueueUntouched
<1>1. \A t \in Tasks : RemoteAccept(t) \/ RemoteFail(t) \/ RemoteFinish(t)
                         => QueueUntouched
  BY DEF RemoteAccept, RemoteFail, RemoteFinish, QueueUntouched, rows
<1> QED BY <1>1, QueueCases DEF DeletionOnly

\* The integer facts type correctness rests on.
LEMMA Bounds ==
  /\ 0 \in 0 .. (MaxPolls + 1)
  /\ 0 \in 0 .. (MaxAttempts + MaxFaults)
  /\ \A n \in 0 .. (MaxAttempts + MaxFaults) :
        n < MaxAttempts + MaxFaults => n + 1 \in 0 .. (MaxAttempts + MaxFaults)
  /\ \A n \in 0 .. MaxFaults : n < MaxFaults => n + 1 \in 0 .. MaxFaults
BY CountsAssumption

\* Type correctness after enqueue.
LEMMA EnqueueType ==
  ASSUME TypeOK, EnqueueStep
  PROVE  TypeOK'
<1>1. nextTurn' \in 1 .. (NumJobs + 1)
  BY CountsAssumption DEF EnqueueStep, TypeOK, Jobs
<1> QED BY <1>1 DEF EnqueueStep, TypeOK, Open, worker, deletion

\* Type correctness after claim.
LEMMA ClaimType ==
  ASSUME TypeOK, AttemptsLeft, RowShape, NEW j \in Jobs, ClaimStep(j)
  PROVE  TypeOK'
<1>1. 0 \notin Jobs
  BY CountsAssumption DEF Jobs
<1>2. CASE Attempted(j)
  <2>1. attempts[j] < MaxAttempts + MaxFaults
    BY <1>1, <1>2, CountsAssumption DEF Attempted, AttemptsLeft, ClaimStep, TypeOK
  <2>2. attempts[j] + 1 \in 0 .. (MaxAttempts + MaxFaults)
    BY <2>1, Bounds DEF TypeOK
  <2> QED BY <1>1, <1>2, <2>2 DEF ClaimStep, Attempted, TypeOK, Open, deletion
<1>3. CASE Repolled(j)
  BY <1>1, <1>3 DEF ClaimStep, Repolled, TypeOK, Open, deletion
<1> QED BY <1>2, <1>3 DEF ClaimStep

\* Type correctness after an outcome was recorded.
LEMMA ResultType ==
  ASSUME TypeOK, RowShape, WorkerShape, ResultStep
  PROVE  TypeOK'
<1>0. wjob \in Jobs /\ orphaned' \subseteq Tasks /\ WorkerRequest[2] \in 0 .. (MaxAttempts + MaxFaults)
  BY RequestInTasks DEF ResultStep, TypeOK, Tasks, WorkerRequest, ThisTask, KnownTask
<1>1. ASSUME NEW s \in {"pending", "submitted", "completed", "failed"},
             NEW id \in 0 .. (MaxAttempts + MaxFaults),
             NEW p \in 0 .. (MaxPolls + 1),
             Written(s, id, p)
      PROVE  TypeOK'
  <2>1. /\ status' \in [Jobs -> Open \cup {"absent", "completed", "failed"}]
        /\ task' \in [Jobs -> 0 .. (MaxAttempts + MaxFaults)]
        /\ polls' \in [Jobs -> 0 .. (MaxPolls + 1)]
    BY <1>0, <1>1 DEF Written, TypeOK, Open
  <2> QED BY <1>0, <2>1 DEF ResultStep, TypeOK, deletion
<1>2. polls[wjob] \in 0 .. (MaxPolls + 1)
  BY <1>0 DEF TypeOK
<1> QED BY <1>0, <1>1, <1>2, Bounds DEF ResultStep, Result

\* Type correctness after a store was erased.
LEMMA EraseType ==
  ASSUME TypeOK, NEW s \in Stores, Erase(s)
  PROVE  TypeOK'
<1>1. After[s] \in Stores \cup {"idle", "check", "complete"}
  BY DEF After, Stores
<1>2. erased' \in [Identities -> SUBSET Stores]
  BY DEF Erase, TypeOK
<1>3. memories' \in SUBSET Tasks
  BY DEF Erase, TypeOK, Wiped
<1> QED BY <1>1, <1>2, <1>3 DEF Erase, TypeOK, rows, worker

\* Type correctness after the deletion worker was cut short.
LEMMA DeletionAbortType ==
  ASSUME TypeOK, DeletionAbort
  PROVE  TypeOK'
<1>1. faults' \in 0 .. MaxFaults
  BY Bounds DEF DeletionAbort, TypeOK
<1> QED BY <1>1 DEF DeletionAbort, TypeOK, rows, worker, Stores

\* Type correctness is preserved.
LEMMA TypeStep ==
  ASSUME Inductive, Next
  PROVE  TypeOK'
<1>0. TypeOK /\ RowShape /\ AttemptsLeft /\ WorkerShape
  BY DEF Inductive
<1> USE <1>0, CountsAssumption, OwnerAssumption DEF TypeOK, rows, deletion,
      worker, Active, Open, Jobs, Tasks, Stores, MayWrite, InProgress
<1>1. CASE EnqueueStep
  BY <1>0, <1>1, EnqueueType
<1>2. ASSUME NEW j \in Jobs, ClaimStep(j) PROVE TypeOK'
  BY <1>0, <1>2, ClaimType
<1>3. ASSUME NEW j \in Jobs, JobDue(j) PROVE TypeOK'
  BY <1>3 DEF JobDue
<1>4. CASE BeginAdd
  BY <1>4 DEF BeginAdd, ThisTask, RowShape
<1>5. CASE SkipInactive
  BY <1>5 DEF SkipInactive, Release
<1>6. CASE BeginPoll
  BY <1>6 DEF BeginPoll
<1>7. CASE ResultStep
  BY <1>0, <1>7, ResultType
<1>8. CASE AbandonStep
  BY <1>8 DEF AbandonStep, ThisTask
<1>9. ASSUME NEW t \in Tasks, RemoteAccept(t) PROVE TypeOK'
  BY <1>9 DEF RemoteAccept
<1>10. ASSUME NEW t \in Tasks, RemoteFail(t) PROVE TypeOK'
  BY <1>10 DEF RemoteFail
<1>11. ASSUME NEW t \in Tasks, RemoteFinish(t) PROVE TypeOK'
  BY <1>11 DEF RemoteFinish
<1>12. ASSUME NEW i \in Identities, Schedule(i) PROVE TypeOK'
  BY <1>12 DEF Schedule, RowLocked
<1>13. ASSUME NEW i \in Identities, DeletionClaim(i) PROVE TypeOK'
  BY <1>13 DEF DeletionClaim
<1>14. ASSUME NEW i \in Identities, DeletionDue(i) PROVE TypeOK'
  BY <1>14 DEF DeletionDue
<1>15. ASSUME NEW s \in Stores, Erase(s) PROVE TypeOK'
  BY <1>0, <1>15, EraseType
<1>16. CASE DeletionCheck
  BY <1>16 DEF DeletionCheck, DeletionFail, HasSubmittedJobs, InProgress, JobsOf
<1>17. CASE EraseRaised
  BY <1>17 DEF EraseRaised, DeletionFail, Wiped
<1>18. CASE DeletionComplete
  BY <1>18 DEF DeletionComplete, RowLocked
<1>19. CASE DeletionAbort
  BY <1>0, <1>19, DeletionAbortType
<1> QED BY StepCases, <1>1, <1>2, <1>3, <1>4, <1>5, <1>6, <1>7, <1>8, <1>9,
           <1>10, <1>11, <1>12, <1>13, <1>14, <1>15, <1>16, <1>17, <1>18,
           <1>19

\* A turn not yet enqueued stays untouched.
LEMMA FutureStep ==
  ASSUME Inductive, Next
  PROVE  FutureJobsUntouched'
<1>0. TypeOK /\ FutureJobsUntouched /\ RowShape /\ WorkerShape
  BY DEF Inductive
<1> USE <1>0, CountsAssumption, OwnerAssumption DEF TypeOK, rows, deletion,
      worker, Active, Open, FutureJobsUntouched, RowShape, WorkerShape,
      InProgress, Jobs
<1>1. CASE EnqueueStep
  BY <1>1 DEF EnqueueStep
<1>2. ASSUME NEW j \in Jobs, ClaimStep(j) PROVE FutureJobsUntouched'
  <2>1. CASE Attempted(j)
    BY <1>2, <2>1 DEF ClaimStep, Attempted
  <2>2. CASE Repolled(j)
    BY <1>2, <2>2 DEF ClaimStep, Repolled
  <2> QED BY <1>2, <2>1, <2>2 DEF ClaimStep
<1>3. CASE BeginAdd
  BY <1>3 DEF BeginAdd, ThisTask
<1>4. CASE SkipInactive
  BY <1>4 DEF SkipInactive, Release
<1>5. CASE BeginPoll
  BY <1>5 DEF BeginPoll
<1>6. CASE ResultStep
  <2>0. wjob \in Jobs /\ status[wjob] \in InProgress
    BY <1>6, RequestInTasks DEF ResultStep
  <2>1. ASSUME NEW p \in 0 .. (MaxPolls + 1),
               Written("submitted", WorkerRequest[2], p)
        PROVE  FutureJobsUntouched'
    BY <1>6, <2>0, <2>1 DEF ResultStep, Written, WorkerRequest, ThisTask, KnownTask
  <2>2. CASE /\ Written("completed", WorkerRequest[2], polls[wjob])
             /\ remote[WorkerRequest] = "completed"
    BY <1>6, <2>0, <2>2 DEF ResultStep, Written, WorkerRequest, ThisTask, KnownTask
  <2>3. CASE /\ Written("pending", 0, 0) /\ GivenUp
             /\ attempts[wjob] < MaxAttempts /\ Active(Owner[wjob])
    BY <1>6, <2>0, <2>3
       DEF ResultStep, Written, WorkerRequest, ThisTask, KnownTask
  <2>4. CASE /\ Written("failed", 0, 0) /\ GivenUp
             /\ attempts[wjob] >= MaxAttempts \/ ~ Active(Owner[wjob])
    BY <1>6, <2>0, <2>4
       DEF ResultStep, Written, WorkerRequest, ThisTask, KnownTask
  <2> QED BY <1>6, <2>1, <2>2, <2>3, <2>4 DEF ResultStep, Result
<1>7. CASE AbandonStep
  BY <1>7 DEF AbandonStep, ThisTask
<1>8. ASSUME NEW i \in Identities, Schedule(i) PROVE FutureJobsUntouched'
  BY <1>8 DEF Schedule, RowLocked
<1>9. CASE DeletionComplete
  BY <1>9 DEF DeletionComplete, RowLocked
<1>10. CASE QueueUntouched
  BY <1>10 DEF QueueUntouched
<1> QED BY RowCases, <1>1, <1>2, <1>3, <1>4, <1>5, <1>6, <1>7, <1>8, <1>9,
           <1>10

\* The shape of the rows is preserved.
LEMMA RowStep ==
  ASSUME Inductive, Next
  PROVE  RowShape'
<1>0. TypeOK /\ RowShape /\ WorkerShape /\ FutureJobsUntouched
  BY DEF Inductive
<1> USE <1>0, CountsAssumption, OwnerAssumption DEF TypeOK, rows, deletion,
      worker, Active, Open, RowShape, WorkerShape, FutureJobsUntouched,
      InProgress, Jobs
<1>1. CASE EnqueueStep
  BY <1>1 DEF EnqueueStep
<1>2. ASSUME NEW j \in Jobs, ClaimStep(j) PROVE RowShape'
  <2>1. CASE Attempted(j)
    BY <1>2, <2>1 DEF ClaimStep, Attempted
  <2>2. CASE Repolled(j)
    BY <1>2, <2>2 DEF ClaimStep, Repolled
  <2> QED BY <1>2, <2>1, <2>2 DEF ClaimStep
<1>3. CASE BeginAdd
  BY <1>3 DEF BeginAdd, ThisTask
<1>4. CASE SkipInactive
  BY <1>4 DEF SkipInactive, Release
<1>5. CASE BeginPoll
  BY <1>5 DEF BeginPoll
<1>6. CASE ResultStep
  <2>0. wjob \in Jobs /\ status[wjob] \in InProgress
    BY <1>6, RequestInTasks DEF ResultStep
  <2>1. ASSUME NEW p \in 0 .. (MaxPolls + 1),
               Written("submitted", WorkerRequest[2], p)
        PROVE  RowShape'
    BY <1>6, <2>0, <2>1 DEF ResultStep, Written, WorkerRequest, ThisTask, KnownTask
  <2>2. CASE /\ Written("completed", WorkerRequest[2], polls[wjob])
             /\ remote[WorkerRequest] = "completed"
    BY <1>6, <2>0, <2>2 DEF ResultStep, Written, WorkerRequest, ThisTask, KnownTask
  <2>3. CASE /\ Written("pending", 0, 0) /\ GivenUp
             /\ attempts[wjob] < MaxAttempts /\ Active(Owner[wjob])
    BY <1>6, <2>0, <2>3
       DEF ResultStep, Written, WorkerRequest, ThisTask, KnownTask
  <2>4. CASE /\ Written("failed", 0, 0) /\ GivenUp
             /\ attempts[wjob] >= MaxAttempts \/ ~ Active(Owner[wjob])
    BY <1>6, <2>0, <2>4
       DEF ResultStep, Written, WorkerRequest, ThisTask, KnownTask
  <2> QED BY <1>6, <2>1, <2>2, <2>3, <2>4 DEF ResultStep, Result
<1>7. CASE AbandonStep
  BY <1>7 DEF AbandonStep, ThisTask
<1>8. ASSUME NEW i \in Identities, Schedule(i) PROVE RowShape'
  BY <1>8 DEF Schedule, RowLocked
<1>9. CASE DeletionComplete
  BY <1>9 DEF DeletionComplete, RowLocked
<1>10. CASE QueueUntouched
  BY <1>10 DEF QueueUntouched
<1> QED BY RowCases, <1>1, <1>2, <1>3, <1>4, <1>5, <1>6, <1>7, <1>8, <1>9,
           <1>10

\* The row the worker writes to stays as it was claimed.
LEMMA WorkerStepShape ==
  ASSUME Inductive, Next
  PROVE  WorkerShape'
<1>0. TypeOK /\ WorkerShape /\ RowShape /\ FutureJobsUntouched /\
     DeletionShape
  BY DEF Inductive
<1> USE <1>0, CountsAssumption, OwnerAssumption DEF TypeOK, rows, deletion,
      worker, Active, Open, WorkerShape, RowShape, FutureJobsUntouched,
      InProgress, Jobs, DeletionShape, HasSubmittedJobs, JobsOf
<1>1. CASE EnqueueStep
  BY <1>1 DEF EnqueueStep
<1>2. ASSUME NEW j \in Jobs, ClaimStep(j) PROVE WorkerShape'
  <2>1. CASE Attempted(j)
    BY <1>2, <2>1 DEF ClaimStep, Attempted
  <2>2. CASE Repolled(j)
    BY <1>2, <2>2 DEF ClaimStep, Repolled
  <2> QED BY <1>2, <2>1, <2>2 DEF ClaimStep
<1>3. CASE BeginAdd
  BY <1>3 DEF BeginAdd, ThisTask
<1>4. CASE SkipInactive
  BY <1>4 DEF SkipInactive, Release
<1>5. CASE BeginPoll
  BY <1>5 DEF BeginPoll
<1>6. CASE ResultStep
  <2>0. wjob \in Jobs /\ status[wjob] \in InProgress
    BY <1>6, RequestInTasks DEF ResultStep
  <2>1. ASSUME NEW p \in 0 .. (MaxPolls + 1),
               Written("submitted", WorkerRequest[2], p)
        PROVE  WorkerShape'
    BY <1>6, <2>0, <2>1 DEF ResultStep, Written, WorkerRequest, ThisTask, KnownTask
  <2>2. CASE /\ Written("completed", WorkerRequest[2], polls[wjob])
             /\ remote[WorkerRequest] = "completed"
    BY <1>6, <2>0, <2>2 DEF ResultStep, Written, WorkerRequest, ThisTask, KnownTask
  <2>3. CASE /\ Written("pending", 0, 0) /\ GivenUp
             /\ attempts[wjob] < MaxAttempts /\ Active(Owner[wjob])
    BY <1>6, <2>0, <2>3
       DEF ResultStep, Written, WorkerRequest, ThisTask, KnownTask
  <2>4. CASE /\ Written("failed", 0, 0) /\ GivenUp
             /\ attempts[wjob] >= MaxAttempts \/ ~ Active(Owner[wjob])
    BY <1>6, <2>0, <2>4
       DEF ResultStep, Written, WorkerRequest, ThisTask, KnownTask
  <2> QED BY <1>6, <2>1, <2>2, <2>3, <2>4 DEF ResultStep, Result
<1>7. CASE AbandonStep
  BY <1>7 DEF AbandonStep, ThisTask
<1>8. ASSUME NEW i \in Identities, Schedule(i) PROVE WorkerShape'
  BY <1>8 DEF Schedule, RowLocked
<1>9. CASE DeletionComplete
  BY <1>9 DEF DeletionComplete, RowLocked
<1>10. CASE QueueUntouched
  BY <1>10 DEF QueueUntouched
<1> QED BY RowCases, <1>1, <1>2, <1>3, <1>4, <1>5, <1>6, <1>7, <1>8, <1>9,
           <1>10

\* A worker cut short pays for the attempt it wasted with a fault.
LEMMA AbandonAttempts ==
  ASSUME TypeOK, RowShape, AttemptsLeft, AttemptBudget, AbandonStep
  PROVE  (AttemptsLeft /\ AttemptBudget)'
<1>1. faults' = faults + 1 /\ attempts' = attempts /\ status' = status
  BY DEF AbandonStep, rows
<1>2. ASSUME NEW j \in Jobs PROVE attempts[j] < MaxAttempts + faults'
  BY <1>1, CountsAssumption DEF TypeOK, AttemptBudget
<1>3. AttemptsLeft'
  BY <1>1, <1>2 DEF AttemptsLeft
<1>4. AttemptBudget'
  BY <1>1, <1>2, CountsAssumption DEF AttemptBudget, TypeOK
<1> QED BY <1>3, <1>4

\* Steps that leave the queue alone leave its attempts alone.
LEMMA UntouchedAttempts ==
  ASSUME TypeOK, AttemptsLeft, AttemptBudget, QueueUntouched
  PROVE  (AttemptsLeft /\ AttemptBudget)'
<1>1. attempts' = attempts /\ status' = status /\ wjob' = wjob
  BY DEF QueueUntouched, worker
<1>2. \A n \in Nat : (n < MaxAttempts + faults => n < MaxAttempts + faults')
                   /\ (n <= MaxAttempts + faults => n <= MaxAttempts + faults')
  <2>1. faults \in Nat /\ MaxAttempts \in Nat /\ faults' \in {faults, faults + 1}
    BY CountsAssumption DEF QueueUntouched, TypeOK
  <2>2. CASE faults' = faults
    BY <2>2
  <2>3. CASE faults' = faults + 1
    BY <2>1, <2>3
  <2> QED BY <2>1, <2>2, <2>3
<1>3. \A j \in Jobs : attempts[j] \in Nat
  BY CountsAssumption DEF TypeOK
<1>4. AttemptsLeft'
  BY <1>1, <1>2, <1>3 DEF AttemptsLeft
<1>5. AttemptBudget'
  BY <1>1, <1>2, <1>3 DEF AttemptBudget
<1> QED BY <1>4, <1>5

\* The attempt budget is preserved.
LEMMA AttemptsStep ==
  ASSUME Inductive, Next
  PROVE  (AttemptsLeft /\ AttemptBudget)'
<1>0. TypeOK /\ AttemptsLeft /\ AttemptBudget /\ WorkerShape /\
     RowShape /\ FutureJobsUntouched
  BY DEF Inductive
<1> USE <1>0, CountsAssumption, OwnerAssumption DEF TypeOK, rows, deletion,
      worker, Active, Open, AttemptsLeft, AttemptBudget, WorkerShape,
      RowShape, FutureJobsUntouched, InProgress, Jobs
<1>1. CASE EnqueueStep
  BY <1>1 DEF EnqueueStep
<1>2. ASSUME NEW j \in Jobs, ClaimStep(j) PROVE (AttemptsLeft /\ AttemptBudget)'
  <2>1. CASE Attempted(j)
    BY SMTT(30), <1>2, <2>1 DEF ClaimStep, Attempted
  <2>2. CASE Repolled(j)
    BY SMTT(30), <1>2, <2>2 DEF ClaimStep, Repolled
  <2> QED BY <1>2, <2>1, <2>2 DEF ClaimStep
<1>3. CASE BeginAdd
  BY <1>3 DEF BeginAdd, ThisTask
<1>4. CASE SkipInactive
  BY <1>4 DEF SkipInactive, Release
<1>5. CASE BeginPoll
  BY <1>5 DEF BeginPoll
<1>6. CASE ResultStep
  <2>0. wjob \in Jobs /\ status[wjob] \in InProgress
    BY <1>6, RequestInTasks DEF ResultStep
  <2>1. ASSUME NEW p \in 0 .. (MaxPolls + 1),
               Written("submitted", WorkerRequest[2], p)
        PROVE  (AttemptsLeft /\ AttemptBudget)'
    BY <1>6, <2>0, <2>1 DEF ResultStep, Written, WorkerRequest, ThisTask, KnownTask
  <2>2. CASE /\ Written("completed", WorkerRequest[2], polls[wjob])
             /\ remote[WorkerRequest] = "completed"
    BY <1>6, <2>0, <2>2 DEF ResultStep, Written, WorkerRequest, ThisTask, KnownTask
  <2>3. CASE /\ Written("pending", 0, 0) /\ GivenUp
             /\ attempts[wjob] < MaxAttempts /\ Active(Owner[wjob])
    BY <1>6, <2>0, <2>3
       DEF ResultStep, Written, WorkerRequest, ThisTask, KnownTask
  <2>4. CASE /\ Written("failed", 0, 0) /\ GivenUp
             /\ attempts[wjob] >= MaxAttempts \/ ~ Active(Owner[wjob])
    BY <1>6, <2>0, <2>4
       DEF ResultStep, Written, WorkerRequest, ThisTask, KnownTask
  <2> QED BY <1>6, <2>1, <2>2, <2>3, <2>4 DEF ResultStep, Result
<1>7. CASE AbandonStep
  BY <1>0, <1>7, AbandonAttempts
<1>8. ASSUME NEW i \in Identities, Schedule(i) PROVE (AttemptsLeft /\ AttemptBudget)'
  BY <1>8 DEF Schedule, RowLocked
<1>9. CASE DeletionComplete
  BY <1>9 DEF DeletionComplete, RowLocked
<1>10. CASE QueueUntouched
  BY <1>0, <1>10, UntouchedAttempts
<1> QED BY RowCases, <1>1, <1>2, <1>3, <1>4, <1>5, <1>6, <1>7, <1>8, <1>9,
           <1>10

\* A request just sent is in the worker's hands.
LEMMA AddRequests ==
  ASSUME TypeOK, RequestsFresh, RequestsAccounted, RowShape, WorkerShape, BeginAdd
  PROVE  RequestsAccounted'
<1>1. InHand(ThisTask)' /\ ThisTask' = ThisTask
  BY DEF BeginAdd, InHand, ThisTask, rows
<1>2. \A t \in Tasks : t # ThisTask => remote'[t] = remote[t]
  BY DEF BeginAdd, TypeOK
<1>3. \A t \in Tasks : ~ InHand(t)
  BY DEF BeginAdd, InHand
<1> QED BY <1>1, <1>2, <1>3 DEF BeginAdd, RequestsAccounted, KnownRequest, rows

\* An outcome recorded leaves its request known, ended or given up.
LEMMA ResultRequests ==
  ASSUME TypeOK, RequestsAccounted, RowShape, WorkerShape, ResultStep
  PROVE  RequestsAccounted'
<1>0. /\ wjob \in Jobs /\ WorkerRequest \in Tasks
      /\ WorkerRequest = <<wjob, WorkerRequest[2]>> /\ WorkerRequest[2] # 0
      /\ orphaned \subseteq orphaned'
  BY RequestInTasks DEF ResultStep, WorkerRequest, ThisTask, KnownTask
<1>1. remote' = remote /\ memories' = memories
  BY DEF ResultStep
<1> SUFFICES ASSUME NEW t \in Tasks, t \notin orphaned'
             PROVE  /\ remote[t] \in MayWrite => KnownRequest(t)'
                    /\ remote[t] \in {"sent", "running"} => KnownRequest(t)' /\ status'[t[1]] = "submitted"
  BY <1>1 DEF RequestsAccounted
<1>2. /\ remote[t] \in MayWrite => KnownRequest(t) \/ InHand(t)
      /\ remote[t] \in {"sent", "running"} =>
              InHand(t) \/ (KnownRequest(t) /\ status[t[1]] = "submitted")
  BY <1>0 DEF RequestsAccounted
<1>3. CASE t[1] # wjob
  <2>1. task'[t[1]] = task[t[1]] /\ status'[t[1]] = status[t[1]]
    BY <1>0, <1>3 DEF ResultStep, Result, Written, TypeOK, Tasks
  <2> QED BY <1>2, <1>3, <2>1 DEF KnownRequest, InHand, ThisTask
<1>4. CASE t[1] = wjob /\ remote[t] \in MayWrite
  <2>1. t = WorkerRequest
    <3>1. t = <<wjob, t[2]>> /\ t[2] # 0
      BY <1>4 DEF Tasks
    <3>2. CASE wpc = "adding"
      BY <1>0, <1>2, <1>4, <3>1, <3>2, RequestInTasks DEF KnownRequest, InHand, WorkerRequest
    <3>3. CASE wpc = "polling"
      BY <1>0, <1>2, <1>4, <3>1, <3>3 DEF KnownRequest, InHand, WorkerRequest, KnownTask
    <3> QED BY <3>2, <3>3 DEF ResultStep
  <2>2. ~ GivenUp
    BY <1>4, <2>1 DEF GivenUp
  <2>3. task'[wjob] = WorkerRequest[2] /\ (status'[wjob] = "submitted" \/ remote[t] = "completed")
    BY <1>0, <2>1, <2>2 DEF ResultStep, Result, Written, TypeOK
  <2> QED BY <1>2, <1>4, <2>1, <2>3 DEF KnownRequest, ResultStep
<1>5. CASE t[1] = wjob /\ remote[t] \notin MayWrite
  BY <1>2, <1>5 DEF MayWrite
<1> QED BY <1>3, <1>4, <1>5

\* The provider accepting a request changes nothing for the queue.
LEMMA AcceptRequests ==
  ASSUME TypeOK, RequestsAccounted, RowShape, WorkerShape, NEW u \in Tasks, RemoteAccept(u)
  PROVE  RequestsAccounted'
<1> SUFFICES ASSUME NEW t \in Tasks, t \notin orphaned
             PROVE  /\ remote'[t] \in MayWrite => KnownRequest(t) \/ InHand(t)
                    /\ remote'[t] \in {"sent", "running"} => InHand(t) \/ (KnownRequest(t) /\ status[t[1]] = "submitted")
  BY DEF RemoteAccept, RequestsAccounted, KnownRequest, InHand, ThisTask, rows, worker
<1>1. CASE t = u
  BY <1>1 DEF RemoteAccept, RequestsAccounted, TypeOK, MayWrite
<1>2. CASE t # u
  BY <1>2 DEF RemoteAccept, RequestsAccounted, TypeOK, MayWrite
<1> QED BY <1>1, <1>2

\* Every request stays accounted for.
LEMMA RequestsStep ==
  ASSUME Inductive, Next
  PROVE  RequestsAccounted'
<1>0. TypeOK /\ RequestsAccounted /\ WorkerShape /\ RowShape /\
     FutureJobsUntouched /\ DeletionShape
  BY DEF Inductive
<1> USE <1>0, CountsAssumption, OwnerAssumption DEF TypeOK, rows, deletion,
      worker, Active, Open, RequestsAccounted, KnownRequest, InHand,
      ThisTask, KnownTask, MayWrite, WorkerShape, RowShape,
      FutureJobsUntouched, InProgress, Jobs, Tasks, DeletionShape,
      HasSubmittedJobs, JobsOf
<1>1. CASE EnqueueStep
  BY <1>1 DEF EnqueueStep
<1>2. ASSUME NEW j \in Jobs, ClaimStep(j) PROVE RequestsAccounted'
  <2>1. CASE Attempted(j)
    BY SMTT(30), <1>2, <2>1 DEF ClaimStep, Attempted
  <2>2. CASE Repolled(j)
    BY SMTT(30), <1>2, <2>2 DEF ClaimStep, Repolled
  <2> QED BY <1>2, <2>1, <2>2 DEF ClaimStep
<1>3. CASE BeginAdd
  <2>1. RequestsFresh
    BY DEF Inductive
  <2> QED BY <1>0, <1>3, <2>1, AddRequests
<1>4. CASE SkipInactive
  BY SMTT(30), <1>4 DEF SkipInactive, Release
<1>5. CASE BeginPoll
  BY <1>5 DEF BeginPoll
<1>6. CASE ResultStep
  BY <1>0, <1>6, ResultRequests
<1>7. CASE AbandonStep
  BY ZenonT(40), <1>7 DEF AbandonStep, ThisTask
<1>8. ASSUME NEW i \in Identities, Schedule(i) PROVE RequestsAccounted'
  BY <1>8 DEF Schedule, RowLocked
<1>9. CASE DeletionComplete
  BY <1>9 DEF DeletionComplete, RowLocked
<1>10. ASSUME NEW t \in Tasks, RemoteAccept(t) PROVE RequestsAccounted'
  BY <1>0, <1>10, AcceptRequests
<1>11. ASSUME NEW t \in Tasks, RemoteFail(t) PROVE RequestsAccounted'
  BY SMTT(30), <1>11 DEF RemoteFail
<1>12. ASSUME NEW t \in Tasks, RemoteFinish(t) PROVE RequestsAccounted'
  BY SMTT(30), <1>12 DEF RemoteFinish
<1>13. CASE DeletionOnly
  BY <1>13 DEF DeletionOnly, QueueUntouched
<1> QED BY QueueCases, <1>1, <1>2, <1>3, <1>4, <1>5, <1>6, <1>7, <1>8, <1>9,
           <1>10, <1>11, <1>12, <1>13

\* The next request stays a new one.
LEMMA FreshStep ==
  ASSUME Inductive, Next
  PROVE  RequestsFresh'
<1>0. TypeOK /\ RequestsFresh /\ WorkerShape /\ RowShape
  BY DEF Inductive
<1> USE <1>0, CountsAssumption, OwnerAssumption DEF TypeOK, rows, deletion,
      worker, Active, Open, RequestsFresh, ThisTask, WorkerShape, RowShape,
      InProgress, Jobs, Tasks
<1>1. CASE EnqueueStep
  BY <1>1 DEF EnqueueStep
<1>2. ASSUME NEW j \in Jobs, ClaimStep(j) PROVE RequestsFresh'
  <2>1. CASE Attempted(j)
    BY SMTT(30), <1>2, <2>1 DEF ClaimStep, Attempted
  <2>2. CASE Repolled(j)
    BY <1>2, <2>2 DEF ClaimStep, Repolled
  <2> QED BY <1>2, <2>1, <2>2 DEF ClaimStep
<1>3. CASE BeginAdd
  BY SMTT(30), <1>3 DEF BeginAdd, ThisTask
<1>4. CASE SkipInactive
  BY <1>4 DEF SkipInactive, Release
<1>5. CASE BeginPoll
  BY <1>5 DEF BeginPoll
<1>6. CASE ResultStep
  <2>0. wjob \in Jobs /\ status[wjob] \in InProgress
    BY <1>6, RequestInTasks DEF ResultStep
  <2>1. ASSUME NEW p \in 0 .. (MaxPolls + 1),
               Written("submitted", WorkerRequest[2], p)
        PROVE  RequestsFresh'
    BY <1>6, <2>0, <2>1 DEF ResultStep, Written, WorkerRequest, ThisTask, KnownTask
  <2>2. CASE /\ Written("completed", WorkerRequest[2], polls[wjob])
             /\ remote[WorkerRequest] = "completed"
    BY <1>6, <2>0, <2>2 DEF ResultStep, Written, WorkerRequest, ThisTask, KnownTask
  <2>3. CASE /\ Written("pending", 0, 0) /\ GivenUp
             /\ attempts[wjob] < MaxAttempts /\ Active(Owner[wjob])
    BY <1>6, <2>0, <2>3
       DEF ResultStep, Written, WorkerRequest, ThisTask, KnownTask
  <2>4. CASE /\ Written("failed", 0, 0) /\ GivenUp
             /\ attempts[wjob] >= MaxAttempts \/ ~ Active(Owner[wjob])
    BY <1>6, <2>0, <2>4
       DEF ResultStep, Written, WorkerRequest, ThisTask, KnownTask
  <2> QED BY <1>6, <2>1, <2>2, <2>3, <2>4 DEF ResultStep, Result
<1>7. CASE AbandonStep
  BY <1>7 DEF AbandonStep, ThisTask
<1>8. ASSUME NEW i \in Identities, Schedule(i) PROVE RequestsFresh'
  BY <1>8 DEF Schedule, RowLocked
<1>9. CASE DeletionComplete
  BY <1>9 DEF DeletionComplete, RowLocked
<1>10. ASSUME NEW t \in Tasks, RemoteAccept(t) PROVE RequestsFresh'
  BY <1>10 DEF RemoteAccept
<1>11. ASSUME NEW t \in Tasks, RemoteFail(t) PROVE RequestsFresh'
  BY <1>11 DEF RemoteFail
<1>12. ASSUME NEW t \in Tasks, RemoteFinish(t) PROVE RequestsFresh'
  BY <1>12 DEF RemoteFinish
<1>13. CASE DeletionOnly
  BY <1>13 DEF DeletionOnly, QueueUntouched
<1> QED BY QueueCases, <1>1, <1>2, <1>3, <1>4, <1>5, <1>6, <1>7, <1>8, <1>9,
           <1>10, <1>11, <1>12, <1>13

\* Recording an outcome makes no submitted row for a member past the check.
LEMMA ResultDeletion ==
  ASSUME TypeOK, RowShape, WorkerShape, DeletionShape, ResultStep
  PROVE  DeletionShape'
<1>0. wjob \in Jobs /\ (wpc = "adding" => Active(Owner[wjob]))
  BY RequestInTasks DEF ResultStep
<1>1. UNCHANGED <<identity, dstatus, dpc, dident, erased>>
  BY DEF ResultStep, deletion
<1>2. ASSUME dpc \in {"memories", "profile", "dialogue", "complete"}
      PROVE  ~ HasSubmittedJobs(dident)'
  <2>1. ~ Active(dident) /\ ~ HasSubmittedJobs(dident)
    BY <1>2 DEF DeletionShape
  <2>2. Owner[wjob] # dident
    <3>1. CASE wpc = "adding"
      BY <1>0, <2>1, <3>1
    <3>2. CASE wpc = "polling"
      BY <1>0, <2>1, <3>2 DEF WorkerShape, RowShape, HasSubmittedJobs, JobsOf, InProgress
    <3> QED BY <3>1, <3>2 DEF ResultStep
  <2>3. \A j \in JobsOf(dident) : status'[j] = status[j] /\ task'[j] = task[j]
    BY <1>0, <2>2 DEF ResultStep, Result, Written, JobsOf, TypeOK
  <2> QED BY <1>1, <2>1, <2>3 DEF HasSubmittedJobs, JobsOf
<1> QED BY <1>1, <1>2 DEF DeletionShape, Active

\* The phases of a deletion keep their meaning.
LEMMA DeletionShapeStep ==
  ASSUME Inductive, Next
  PROVE  DeletionShape'
<1>0. TypeOK /\ DeletionShape /\ WorkerShape /\ RowShape /\
     FutureJobsUntouched
  BY DEF Inductive
<1> USE <1>0, CountsAssumption, OwnerAssumption DEF TypeOK, rows, deletion,
      worker, Active, Open, DeletionShape, ErasedBefore, HasSubmittedJobs,
      JobsOf, WorkerShape, RowShape, FutureJobsUntouched, InProgress, Jobs,
      Stores
<1>1. CASE EnqueueStep
  BY <1>1 DEF EnqueueStep
<1>2. ASSUME NEW j \in Jobs, ClaimStep(j) PROVE DeletionShape'
  <2>1. CASE Attempted(j)
    BY SMTT(30), <1>2, <2>1 DEF ClaimStep, Attempted
  <2>2. CASE Repolled(j)
    BY SMTT(30), <1>2, <2>2 DEF ClaimStep, Repolled
  <2> QED BY <1>2, <2>1, <2>2 DEF ClaimStep
<1>3. ASSUME NEW j \in Jobs, JobDue(j) PROVE DeletionShape'
  BY <1>3 DEF JobDue
<1>4. CASE BeginAdd
  BY <1>4 DEF BeginAdd, ThisTask
<1>5. CASE SkipInactive
  BY <1>5 DEF SkipInactive, Release
<1>6. CASE BeginPoll
  BY <1>6 DEF BeginPoll
<1>7. CASE ResultStep
  BY <1>0, <1>7, ResultDeletion
<1>8. CASE AbandonStep
  BY <1>8 DEF AbandonStep, ThisTask
<1>9. ASSUME NEW t \in Tasks, RemoteAccept(t) PROVE DeletionShape'
  BY <1>9 DEF RemoteAccept
<1>10. ASSUME NEW t \in Tasks, RemoteFail(t) PROVE DeletionShape'
  BY <1>10 DEF RemoteFail
<1>11. ASSUME NEW t \in Tasks, RemoteFinish(t) PROVE DeletionShape'
  BY <1>11 DEF RemoteFinish
<1>12. ASSUME NEW i \in Identities, Schedule(i) PROVE DeletionShape'
  BY <1>12 DEF Schedule, RowLocked
<1>13. ASSUME NEW i \in Identities, DeletionClaim(i) PROVE DeletionShape'
  BY <1>13 DEF DeletionClaim
<1>14. ASSUME NEW i \in Identities, DeletionDue(i) PROVE DeletionShape'
  BY <1>14 DEF DeletionDue
<1>15. ASSUME NEW s \in Stores, Erase(s) PROVE DeletionShape'
  BY <1>15 DEF Erase, After, Wiped
<1>16. CASE DeletionCheck
  BY <1>16 DEF DeletionCheck, DeletionFail, HasSubmittedJobs, InProgress, JobsOf
<1>17. CASE EraseRaised
  BY <1>17 DEF EraseRaised, DeletionFail, Wiped
<1>18. CASE DeletionComplete
  BY <1>18 DEF DeletionComplete, RowLocked
<1>19. CASE DeletionAbort
  BY <1>19 DEF DeletionAbort
<1> QED BY SMTT(30), StepCases, <1>1, <1>2, <1>3, <1>4, <1>5, <1>6, <1>7, <1>8, <1>9,
           <1>10, <1>11, <1>12, <1>13, <1>14, <1>15, <1>16, <1>17, <1>18,
           <1>19

\* Once erased, a member stays without submitted rows.
LEMMA QuietStep ==
  ASSUME Inductive, Next
  PROVE  ErasedMeansQuiet'
<1>0. TypeOK /\ ErasedMeansQuiet /\ DeletionShape /\ WorkerShape /\
     RowShape /\ FutureJobsUntouched
  BY DEF Inductive
<1> USE <1>0, CountsAssumption, OwnerAssumption DEF TypeOK, rows, deletion,
      worker, Active, Open, ErasedMeansQuiet, DeletionShape,
      HasSubmittedJobs, JobsOf, WorkerShape, RowShape, FutureJobsUntouched,
      InProgress, Jobs, Stores
<1>1. CASE EnqueueStep
  BY <1>1 DEF EnqueueStep
<1>2. ASSUME NEW j \in Jobs, ClaimStep(j) PROVE ErasedMeansQuiet'
  <2>1. CASE Attempted(j)
    BY <1>2, <2>1 DEF ClaimStep, Attempted
  <2>2. CASE Repolled(j)
    BY <1>2, <2>2 DEF ClaimStep, Repolled
  <2> QED BY <1>2, <2>1, <2>2 DEF ClaimStep
<1>3. ASSUME NEW j \in Jobs, JobDue(j) PROVE ErasedMeansQuiet'
  BY <1>3 DEF JobDue
<1>4. CASE BeginAdd
  BY <1>4 DEF BeginAdd, ThisTask
<1>5. CASE SkipInactive
  BY <1>5 DEF SkipInactive, Release
<1>6. CASE BeginPoll
  BY <1>6 DEF BeginPoll
<1>7. CASE ResultStep
  <2>0. wjob \in Jobs /\ status[wjob] \in InProgress
    BY <1>7, RequestInTasks DEF ResultStep
  <2>1. ASSUME NEW p \in 0 .. (MaxPolls + 1),
               Written("submitted", WorkerRequest[2], p)
        PROVE  ErasedMeansQuiet'
    BY SMTT(30), <1>7, <2>0, <2>1 DEF ResultStep, Written, WorkerRequest, ThisTask, KnownTask
  <2>2. CASE /\ Written("completed", WorkerRequest[2], polls[wjob])
             /\ remote[WorkerRequest] = "completed"
    BY <1>7, <2>0, <2>2 DEF ResultStep, Written, WorkerRequest, ThisTask, KnownTask
  <2>3. CASE /\ Written("pending", 0, 0) /\ GivenUp
             /\ attempts[wjob] < MaxAttempts /\ Active(Owner[wjob])
    BY <1>7, <2>0, <2>3
       DEF ResultStep, Written, WorkerRequest, ThisTask, KnownTask
  <2>4. CASE /\ Written("failed", 0, 0) /\ GivenUp
             /\ attempts[wjob] >= MaxAttempts \/ ~ Active(Owner[wjob])
    BY <1>7, <2>0, <2>4
       DEF ResultStep, Written, WorkerRequest, ThisTask, KnownTask
  <2> QED BY <1>7, <2>1, <2>2, <2>3, <2>4 DEF ResultStep, Result
<1>8. CASE AbandonStep
  BY <1>8 DEF AbandonStep, ThisTask
<1>9. ASSUME NEW t \in Tasks, RemoteAccept(t) PROVE ErasedMeansQuiet'
  BY <1>9 DEF RemoteAccept
<1>10. ASSUME NEW t \in Tasks, RemoteFail(t) PROVE ErasedMeansQuiet'
  BY <1>10 DEF RemoteFail
<1>11. ASSUME NEW t \in Tasks, RemoteFinish(t) PROVE ErasedMeansQuiet'
  BY <1>11 DEF RemoteFinish
<1>12. ASSUME NEW i \in Identities, Schedule(i) PROVE ErasedMeansQuiet'
  BY <1>12 DEF Schedule, RowLocked
<1>13. ASSUME NEW i \in Identities, DeletionClaim(i) PROVE ErasedMeansQuiet'
  BY <1>13 DEF DeletionClaim
<1>14. ASSUME NEW i \in Identities, DeletionDue(i) PROVE ErasedMeansQuiet'
  BY <1>14 DEF DeletionDue
<1>15. ASSUME NEW s \in Stores, Erase(s) PROVE ErasedMeansQuiet'
  BY <1>15 DEF Erase, After, Wiped
<1>16. CASE DeletionCheck
  BY <1>16 DEF DeletionCheck, DeletionFail, HasSubmittedJobs, InProgress, JobsOf
<1>17. CASE EraseRaised
  BY <1>17 DEF EraseRaised, DeletionFail, Wiped
<1>18. CASE DeletionComplete
  BY <1>18 DEF DeletionComplete, RowLocked
<1>19. CASE DeletionAbort
  BY <1>19 DEF DeletionAbort
<1> QED BY SMTT(30), StepCases, <1>1, <1>2, <1>3, <1>4, <1>5, <1>6, <1>7, <1>8, <1>9,
           <1>10, <1>11, <1>12, <1>13, <1>14, <1>15, <1>16, <1>17, <1>18,
           <1>19

\* Add Message is called for members only of whom nothing was erased.
LEMMA AddWriteBack ==
  ASSUME TypeOK, WriteBackOnlyFromOrphans, DeletionShape, RowShape, WorkerShape, BeginAdd
  PROVE  WriteBackOnlyFromOrphans'
<1>1. erased[Owner[wjob]] = {}
  BY OwnerAssumption DEF BeginAdd, DeletionShape, TypeOK
<1>2. \A t \in Tasks : t # ThisTask => remote'[t] = remote[t]
  BY DEF BeginAdd, TypeOK
<1>3. TaskOwner(ThisTask) = Owner[wjob]
  BY DEF TaskOwner, ThisTask
<1> QED BY <1>1, <1>2, <1>3 DEF BeginAdd, WriteBackOnlyFromOrphans, deletion, TaskOwner

\* No step lets a request that is still known write back after the erasure.
LEMMA WriteBackStep ==
  ASSUME Inductive, Next
  PROVE  WriteBackOnlyFromOrphans'
<1>0. TypeOK /\ WriteBackOnlyFromOrphans /\ ErasedMeansQuiet /\
     RequestsAccounted /\ DeletionShape /\ WorkerShape /\ RowShape
  BY DEF Inductive
<1> USE <1>0, CountsAssumption, OwnerAssumption DEF TypeOK, rows, deletion,
      worker, Active, Open, WriteBackOnlyFromOrphans, ErasedMeansQuiet,
      RequestsAccounted, DeletionShape, HasSubmittedJobs, JobsOf,
      KnownRequest, InHand, ThisTask, MayWrite, WorkerShape, RowShape,
      InProgress, Jobs, Tasks, TaskOwner, Stores
<1>1. CASE EnqueueStep
  BY <1>1 DEF EnqueueStep
<1>2. ASSUME NEW j \in Jobs, ClaimStep(j) PROVE WriteBackOnlyFromOrphans'
  <2>1. CASE Attempted(j)
    BY <1>2, <2>1 DEF ClaimStep, Attempted
  <2>2. CASE Repolled(j)
    BY <1>2, <2>2 DEF ClaimStep, Repolled
  <2> QED BY <1>2, <2>1, <2>2 DEF ClaimStep
<1>3. ASSUME NEW j \in Jobs, JobDue(j) PROVE WriteBackOnlyFromOrphans'
  BY <1>3 DEF JobDue
<1>4. CASE BeginAdd
  BY <1>0, <1>4, AddWriteBack
<1>5. CASE SkipInactive
  BY <1>5 DEF SkipInactive, Release
<1>6. CASE BeginPoll
  BY <1>6 DEF BeginPoll
<1>7. CASE ResultStep
  BY <1>7 DEF ResultStep
<1>8. CASE AbandonStep
  BY <1>8 DEF AbandonStep, ThisTask
<1>9. ASSUME NEW t \in Tasks, RemoteAccept(t) PROVE WriteBackOnlyFromOrphans'
  BY SMTT(30), <1>9 DEF RemoteAccept
<1>10. ASSUME NEW t \in Tasks, RemoteFail(t) PROVE WriteBackOnlyFromOrphans'
  BY <1>10 DEF RemoteFail
<1>11. ASSUME NEW t \in Tasks, RemoteFinish(t) PROVE WriteBackOnlyFromOrphans'
  BY <1>11 DEF RemoteFinish
<1>12. ASSUME NEW i \in Identities, Schedule(i) PROVE WriteBackOnlyFromOrphans'
  BY <1>12 DEF Schedule, RowLocked
<1>13. ASSUME NEW i \in Identities, DeletionClaim(i) PROVE WriteBackOnlyFromOrphans'
  BY <1>13 DEF DeletionClaim
<1>14. ASSUME NEW i \in Identities, DeletionDue(i) PROVE WriteBackOnlyFromOrphans'
  BY <1>14 DEF DeletionDue
<1>15. ASSUME NEW s \in Stores, Erase(s) PROVE WriteBackOnlyFromOrphans'
  BY <1>15 DEF Erase, After, Wiped
<1>16. CASE DeletionCheck
  BY <1>16 DEF DeletionCheck, DeletionFail, HasSubmittedJobs, InProgress, JobsOf
<1>17. CASE EraseRaised
  BY <1>17 DEF EraseRaised, DeletionFail, Wiped
<1>18. CASE DeletionComplete
  BY <1>18 DEF DeletionComplete, RowLocked
<1>19. CASE DeletionAbort
  BY <1>19 DEF DeletionAbort
<1> HIDE <1>0, CountsAssumption, OwnerAssumption DEF TypeOK, rows, deletion,
      worker, Active, Open, WriteBackOnlyFromOrphans, ErasedMeansQuiet,
      RequestsAccounted, DeletionShape, HasSubmittedJobs, JobsOf,
      KnownRequest, InHand, ThisTask, MayWrite, WorkerShape, RowShape,
      InProgress, Jobs, Tasks, TaskOwner, Stores
<1> QED BY StepCases, <1>1, <1>2, <1>3, <1>4, <1>5, <1>6, <1>7, <1>8, <1>9,
           <1>10, <1>11, <1>12, <1>13, <1>14, <1>15, <1>16, <1>17, <1>18,
           <1>19

\* A recorded outcome stays the true one.
LEMMA OutcomeStep ==
  ASSUME Inductive, Next
  PROVE  OutcomeIsTrue'
<1>0. TypeOK /\ OutcomeIsTrue /\ WorkerShape /\ RowShape /\
     FutureJobsUntouched
  BY DEF Inductive
<1> USE <1>0, CountsAssumption, OwnerAssumption DEF TypeOK, rows, deletion,
      worker, Active, Open, OutcomeIsTrue, WorkerShape, RowShape,
      FutureJobsUntouched, InProgress, Jobs, Tasks
<1>1. CASE EnqueueStep
  BY SMTT(30), <1>1 DEF EnqueueStep
<1>2. ASSUME NEW j \in Jobs, ClaimStep(j) PROVE OutcomeIsTrue'
  <2>1. CASE Attempted(j)
    BY SMTT(30), <1>2, <2>1 DEF ClaimStep, Attempted
  <2>2. CASE Repolled(j)
    BY <1>2, <2>2 DEF ClaimStep, Repolled
  <2> QED BY <1>2, <2>1, <2>2 DEF ClaimStep
<1>3. CASE BeginAdd
  BY SMTT(30), <1>3 DEF BeginAdd, ThisTask
<1>4. CASE SkipInactive
  BY <1>4 DEF SkipInactive, Release
<1>5. CASE BeginPoll
  BY <1>5 DEF BeginPoll
<1>6. CASE ResultStep
  <2>0. wjob \in Jobs /\ status[wjob] \in InProgress
    BY <1>6, RequestInTasks DEF ResultStep
  <2>1. ASSUME NEW p \in 0 .. (MaxPolls + 1),
               Written("submitted", WorkerRequest[2], p)
        PROVE  OutcomeIsTrue'
    BY SMTT(30), <1>6, <2>0, <2>1 DEF ResultStep, Written, WorkerRequest, ThisTask, KnownTask
  <2>2. CASE /\ Written("completed", WorkerRequest[2], polls[wjob])
             /\ remote[WorkerRequest] = "completed"
    BY ZenonT(40), <1>6, <2>0, <2>2 DEF ResultStep, Written, WorkerRequest, ThisTask, KnownTask
  <2>3. CASE /\ Written("pending", 0, 0) /\ GivenUp
             /\ attempts[wjob] < MaxAttempts /\ Active(Owner[wjob])
    BY SMTT(30), <1>6, <2>0, <2>3
       DEF ResultStep, Written, WorkerRequest, ThisTask, KnownTask
  <2>4. CASE /\ Written("failed", 0, 0) /\ GivenUp
             /\ attempts[wjob] >= MaxAttempts \/ ~ Active(Owner[wjob])
    BY SMTT(30), <1>6, <2>0, <2>4
       DEF ResultStep, Written, WorkerRequest, ThisTask, KnownTask
  <2> QED BY <1>6, <2>1, <2>2, <2>3, <2>4 DEF ResultStep, Result
<1>7. CASE AbandonStep
  BY <1>7 DEF AbandonStep, ThisTask
<1>8. ASSUME NEW i \in Identities, Schedule(i) PROVE OutcomeIsTrue'
  BY <1>8 DEF Schedule, RowLocked
<1>9. CASE DeletionComplete
  BY <1>9 DEF DeletionComplete, RowLocked
<1>10. ASSUME NEW t \in Tasks, RemoteAccept(t) PROVE OutcomeIsTrue'
  BY SMTT(30), <1>10 DEF RemoteAccept
<1>11. ASSUME NEW t \in Tasks, RemoteFail(t) PROVE OutcomeIsTrue'
  BY SMTT(30), <1>11 DEF RemoteFail
<1>12. ASSUME NEW t \in Tasks, RemoteFinish(t) PROVE OutcomeIsTrue'
  BY SMTT(30), <1>12 DEF RemoteFinish
<1>13. CASE DeletionOnly
  BY <1>13 DEF DeletionOnly, QueueUntouched
<1> QED BY QueueCases, <1>1, <1>2, <1>3, <1>4, <1>5, <1>6, <1>7, <1>8, <1>9,
           <1>10, <1>11, <1>12, <1>13

\* A member is removed at the end of the pipeline only.
LEMMA RemovedStep ==
  ASSUME Inductive, Next
  PROVE  RemovedOnlyWhenErased'
<1>0. TypeOK /\ RemovedOnlyWhenErased /\ DeletionShape
  BY DEF Inductive
<1> USE <1>0, CountsAssumption, OwnerAssumption DEF TypeOK, rows, deletion,
      worker, Active, Open, RemovedOnlyWhenErased, DeletionShape,
      ErasedBefore, Stores
<1>1. CASE EnqueueStep
  BY <1>1 DEF EnqueueStep
<1>2. ASSUME NEW j \in Jobs, ClaimStep(j) PROVE RemovedOnlyWhenErased'
  BY <1>2 DEF ClaimStep
<1>3. ASSUME NEW j \in Jobs, JobDue(j) PROVE RemovedOnlyWhenErased'
  BY <1>3 DEF JobDue
<1>4. CASE BeginAdd
  BY <1>4 DEF BeginAdd, ThisTask
<1>5. CASE SkipInactive
  BY <1>5 DEF SkipInactive, Release
<1>6. CASE BeginPoll
  BY <1>6 DEF BeginPoll
<1>7. CASE ResultStep
  BY <1>7 DEF ResultStep
<1>8. CASE AbandonStep
  BY <1>8 DEF AbandonStep, ThisTask
<1>9. ASSUME NEW t \in Tasks, RemoteAccept(t) PROVE RemovedOnlyWhenErased'
  BY <1>9 DEF RemoteAccept
<1>10. ASSUME NEW t \in Tasks, RemoteFail(t) PROVE RemovedOnlyWhenErased'
  BY <1>10 DEF RemoteFail
<1>11. ASSUME NEW t \in Tasks, RemoteFinish(t) PROVE RemovedOnlyWhenErased'
  BY <1>11 DEF RemoteFinish
<1>12. ASSUME NEW i \in Identities, Schedule(i) PROVE RemovedOnlyWhenErased'
  BY <1>12 DEF Schedule, RowLocked
<1>13. ASSUME NEW i \in Identities, DeletionClaim(i) PROVE RemovedOnlyWhenErased'
  BY <1>13 DEF DeletionClaim
<1>14. ASSUME NEW i \in Identities, DeletionDue(i) PROVE RemovedOnlyWhenErased'
  BY <1>14 DEF DeletionDue
<1>15. ASSUME NEW s \in Stores, Erase(s) PROVE RemovedOnlyWhenErased'
  BY <1>15 DEF Erase, After, Wiped
<1>16. CASE DeletionCheck
  BY <1>16 DEF DeletionCheck, DeletionFail, HasSubmittedJobs, InProgress, JobsOf
<1>17. CASE EraseRaised
  BY <1>17 DEF EraseRaised, DeletionFail, Wiped
<1>18. CASE DeletionComplete
  BY <1>18 DEF DeletionComplete, RowLocked
<1>19. CASE DeletionAbort
  BY <1>19 DEF DeletionAbort
<1> QED BY StepCases, <1>1, <1>2, <1>3, <1>4, <1>5, <1>6, <1>7, <1>8, <1>9,
           <1>10, <1>11, <1>12, <1>13, <1>14, <1>15, <1>16, <1>17, <1>18,
           <1>19

-----------------------------------------------------------------------------
(***************************************************************************)
(* The theorems.                                                           *)
(***************************************************************************)

\* The inductive invariant holds initially.
LEMMA InitInductive == Init => Inductive
<1> SUFFICES ASSUME Init PROVE Inductive
  OBVIOUS
<1> USE CountsAssumption, OwnerAssumption DEF Init
<1>1. TypeOK
  BY DEF TypeOK, Open, MayWrite, Stores, Jobs
<1>2. FutureJobsUntouched /\ RowShape /\ WorkerShape /\ AttemptsLeft /\ AttemptBudget
  BY DEF FutureJobsUntouched, RowShape, WorkerShape, AttemptsLeft, AttemptBudget
<1>3. RequestsAccounted /\ RequestsFresh
  BY DEF RequestsAccounted, RequestsFresh, MayWrite
<1>4. DeletionShape /\ ErasedMeansQuiet /\ WriteBackOnlyFromOrphans
  BY DEF DeletionShape, ErasedBefore, ErasedMeansQuiet, WriteBackOnlyFromOrphans,
         HasSubmittedJobs, InProgress, JobsOf, Active
<1>5. OutcomeIsTrue /\ RemovedOnlyWhenErased
  BY DEF OutcomeIsTrue, RemovedOnlyWhenErased
<1> QED BY <1>1, <1>2, <1>3, <1>4, <1>5 DEF Inductive

\* It is preserved by a step that changes nothing.
LEMMA StutterInductive == Inductive /\ UNCHANGED vars => Inductive'
<1> SUFFICES ASSUME Inductive, UNCHANGED vars PROVE Inductive'
  OBVIOUS
<1> USE DEF vars, rows, worker, deletion
<1>1. TypeOK' /\ FutureJobsUntouched' /\ RowShape' /\ WorkerShape'
  BY DEF Inductive, TypeOK, FutureJobsUntouched, RowShape, WorkerShape, Active
<1>2. AttemptsLeft' /\ AttemptBudget' /\ OutcomeIsTrue' /\ RemovedOnlyWhenErased'
  BY DEF Inductive, AttemptsLeft, AttemptBudget, OutcomeIsTrue,
         RemovedOnlyWhenErased, Active
<1>3. RequestsAccounted' /\ RequestsFresh'
  BY DEF Inductive, RequestsAccounted, RequestsFresh, KnownRequest, InHand, ThisTask
<1>4. DeletionShape' /\ ErasedMeansQuiet' /\ WriteBackOnlyFromOrphans'
  BY DEF Inductive, DeletionShape, ErasedMeansQuiet, WriteBackOnlyFromOrphans,
         HasSubmittedJobs, Active
<1> QED BY <1>1, <1>2, <1>3, <1>4 DEF Inductive

\* The inductive invariant holds in every behaviour of the two queues.
THEOREM InductiveInvariant == Spec => []Inductive
<1>1. Inductive /\ [Next]_vars => Inductive'
  <2>1. Inductive /\ Next => Inductive'
    BY TypeStep, FutureStep, RowStep, WorkerStepShape, AttemptsStep, RequestsStep,
       FreshStep, DeletionShapeStep, QuietStep, WriteBackStep, OutcomeStep,
       RemovedStep
       DEF Inductive
  <2> QED BY <2>1, StutterInductive
<1> QED BY <1>1, InitInductive, PTL DEF Spec

\* Type correctness of the tables, the workers and the provider.
THEOREM TypeCorrect == Spec => []TypeOK
<1>1. Inductive => TypeOK
  BY DEF Inductive
<1> QED BY <1>1, InductiveInvariant, PTL

\* Add Message is never under way for a member whose deletion is scheduled
\* (submission_guard holds the row that schedule needs).
THEOREM SubmissionGuarded == Spec => []SubmitsOnlyForActive
<1>1. Inductive => SubmitsOnlyForActive
  BY DEF Inductive, SubmitsOnlyForActive, TypeOK, WorkerShape, RowShape
<1> QED BY <1>1, InductiveInvariant, PTL

\* has_submitted_memory_jobs stays false once a member's memories are erased.
THEOREM ErasureIsQuiet == Spec => []ErasedMeansQuiet
<1>1. Inductive => ErasedMeansQuiet
  BY DEF Inductive
<1> QED BY <1>1, InductiveInvariant, PTL

\* The provider is left alone about a member who leaves.
THEOREM LeavingQuiet == Spec => []LeavingIsQuiet
<1>1. SubmitsOnlyForActive /\ ErasedMeansQuiet => LeavingIsQuiet
  BY DEF LeavingIsQuiet
<1> QED BY <1>1, SubmissionGuarded, ErasureIsQuiet, PTL

\* Only a request the queue has given up can store a memory of a member whose
\* memories have been erased.
THEOREM WriteBackConfined == Spec => []WriteBackOnlyFromOrphans
<1>1. Inductive => WriteBackOnlyFromOrphans
  BY DEF Inductive
<1> QED BY <1>1, InductiveInvariant, PTL

\* Two requests for one turn that both may store a memory: one was given up.
THEOREM RetriesDoNotDuplicate == Spec => []NoDuplicateWrite
<1>1. Inductive => NoDuplicateWrite
  <2> SUFFICES ASSUME Inductive, NEW t \in Tasks, NEW u \in Tasks,
                      t # u, t[1] = u[1],
                      remote[t] \in MayWrite, remote[u] \in MayWrite,
                      t \notin orphaned, u \notin orphaned
               PROVE  FALSE
    BY DEF NoDuplicateWrite
  <2>1. t = <<t[1], t[2]>> /\ u = <<u[1], u[2]>> /\ t[2] # 0 /\ u[2] # 0
    BY DEF Tasks
  <2>2. (KnownRequest(t) \/ InHand(t)) /\ (KnownRequest(u) \/ InHand(u))
    BY DEF Inductive, RequestsAccounted
  <2>3. wpc = "adding" => task[wjob] = 0
    BY DEF Inductive, TypeOK, WorkerShape, RowShape
  <2> QED BY <2>1, <2>2, <2>3 DEF KnownRequest, InHand, ThisTask
<1> QED BY <1>1, InductiveInvariant, PTL

\* completed means stored, and failed means the attempts are used up or the
\* member is going.
THEOREM OutcomesAreTrue == Spec => []OutcomeIsTrue
<1>1. Inductive => OutcomeIsTrue
  BY DEF Inductive
<1> QED BY <1>1, InductiveInvariant, PTL

\* Claims exceed max_attempts by the number of claims cut short at most.
THEOREM AttemptsBounded == Spec => []AttemptBudget
<1>1. Inductive => AttemptBudget
  BY DEF Inductive
<1> QED BY <1>1, InductiveInvariant, PTL

\* The outcomes of the rows and their attempts, together.
THEOREM OutcomesAreEarned == Spec => []OutcomeIsEarned
<1>1. OutcomeIsTrue /\ AttemptBudget => OutcomeIsEarned
  BY DEF OutcomeIsEarned
<1> QED BY <1>1, OutcomesAreTrue, AttemptsBounded, PTL

\* A member's row is removed only after every store has been erased.
THEOREM RemovalIsLast == Spec => []RemovedOnlyWhenErased
<1>1. Inductive => RemovedOnlyWhenErased
  BY DEF Inductive
<1> QED BY <1>1, InductiveInvariant, PTL

\* No step takes a stored memory from a member who stays: a wipe is the wipe of
\* the member being deleted, who is not active.
LEMMA KeepStep ==
  ASSUME Inductive, KeepsMemoriesOfActive, [Next]_vars
  PROVE  KeepsMemoriesOfActive'
<1>0. TypeOK /\ DeletionShape
  BY DEF Inductive
<1>1. ASSUME UNCHANGED <<remote, memories>>,
             \A i \in Identities : identity'[i] = "active" => identity[i] = "active"
      PROVE  KeepsMemoriesOfActive'
  <2>1. \A t \in Tasks : TaskOwner(t) \in Identities
    BY OwnerAssumption DEF Tasks, TaskOwner
  <2> QED BY <1>1, <2>1 DEF KeepsMemoriesOfActive, Active
<1>2. ASSUME NEW i \in Identities, ~ Active(i), UNCHANGED <<identity, remote>>,
             memories' \in {memories, Wiped(i)}
      PROVE  KeepsMemoriesOfActive'
  BY <1>2 DEF KeepsMemoriesOfActive, Active, Wiped, TaskOwner
<1>3. ASSUME NEW t \in Tasks, RemoteAccept(t) \/ RemoteFail(t) \/ RemoteFinish(t)
      PROVE  KeepsMemoriesOfActive'
  BY <1>0, <1>3 DEF RemoteAccept, RemoteFail, RemoteFinish, KeepsMemoriesOfActive, Active,
                    TaskOwner, TypeOK
<1>4. CASE BeginAdd
  BY <1>0, <1>4 DEF BeginAdd, KeepsMemoriesOfActive, Active, TaskOwner, TypeOK
<1>5. ASSUME NEW s \in Stores, Erase(s)
      PROVE  KeepsMemoriesOfActive'
  <2>1. dident \in Identities /\ ~ Active(dident)
    BY <1>0, <1>5 DEF Erase, DeletionShape, TypeOK, Stores
  <2>2. UNCHANGED <<identity, remote>> /\ memories' \in {memories, Wiped(dident)}
    BY <1>5 DEF Erase
  <2> QED BY <1>2, <2>1, <2>2
<1>6. CASE EraseRaised
  <2>1. dident \in Identities /\ ~ Active(dident)
    BY <1>0, <1>6 DEF EraseRaised, DeletionShape, TypeOK, Stores
  <2>2. UNCHANGED <<identity, remote>> /\ memories' \in {memories, Wiped(dident)}
    BY <1>6 DEF EraseRaised
  <2> QED BY <1>2, <2>1, <2>2
<1>7. ASSUME NEW i \in Identities, Schedule(i)
      PROVE  KeepsMemoriesOfActive'
  <2>1. UNCHANGED <<remote, memories>>
    BY <1>7 DEF Schedule
  <2>2. \A k \in Identities : identity'[k] = "active" => identity[k] = "active"
    BY <1>0, <1>7 DEF Schedule, TypeOK
  <2> QED BY <1>1, <2>1, <2>2
<1>8. CASE DeletionComplete
  <2>1. UNCHANGED <<remote, memories>>
    BY <1>8 DEF DeletionComplete
  <2>2. \A k \in Identities : identity'[k] = "active" => identity[k] = "active"
    BY <1>0, <1>8 DEF DeletionComplete, TypeOK
  <2> QED BY <1>1, <2>1, <2>2
<1>9. ASSUME UNCHANGED <<identity, remote, memories>>
      PROVE  KeepsMemoriesOfActive'
  BY <1>1, <1>9
<1>10. CASE EnqueueStep \/ SkipInactive \/ BeginPoll \/ ResultStep \/ AbandonStep
  BY <1>9, <1>10 DEF EnqueueStep, SkipInactive, BeginPoll, ResultStep, AbandonStep
<1>11. ASSUME NEW j \in Jobs, ClaimStep(j) \/ JobDue(j)
       PROVE  KeepsMemoriesOfActive'
  BY <1>9, <1>11 DEF ClaimStep, JobDue
<1>12. CASE DeletionCheck \/ DeletionAbort \/ UNCHANGED vars
  BY <1>9, <1>12 DEF DeletionCheck, DeletionAbort, vars
<1>13. ASSUME NEW i \in Identities, DeletionClaim(i) \/ DeletionDue(i)
       PROVE  KeepsMemoriesOfActive'
  BY <1>9, <1>13 DEF DeletionClaim, DeletionDue
<1> QED BY StepCases, <1>3, <1>4, <1>5, <1>6, <1>7, <1>8, <1>10, <1>11, <1>12, <1>13

\* A member who stays keeps every memory the provider has stored.
THEOREM MembersKeepMemories == Spec => []KeepsMemoriesOfActive
<1>1. Init => KeepsMemoriesOfActive
  BY DEF Init, KeepsMemoriesOfActive
<1>2. Inductive /\ KeepsMemoriesOfActive /\ [Next]_vars => KeepsMemoriesOfActive'
  BY KeepStep
<1> QED BY <1>1, <1>2, InductiveInvariant, PTL DEF Spec

\* What a step may never do follows from the invariant of the state it leaves.
LEMMA NeverUndone ==
  ASSUME Inductive, Next, NEW j \in Jobs
  PROVE  /\ status[j] \in {"completed", "failed"} => status'[j] \in {status[j], "absent"}
         /\ identity[Owner[j]] = "deletion_pending" /\ status[j] \in InProgress
            /\ task[j] # 0 /\ remote[<<j, task[j]>>] \in {"sent", "running"}
            => status'[j] \in InProgress /\ task'[j] = task[j]
         /\ task[j] # 0 /\ task'[j] = task[j] => polls'[j] >= polls[j]
<1>0. TypeOK /\ RowShape /\ WorkerShape /\ DeletionShape
  BY DEF Inductive
<1> USE <1>0, CountsAssumption, OwnerAssumption
    DEF TypeOK, rows, Active, Open, InProgress
<1>1. CASE EnqueueStep
  BY <1>1 DEF EnqueueStep
<1>2. ASSUME NEW k \in Jobs, ClaimStep(k)
      PROVE  /\ status[j] \in {"completed", "failed"} => status'[j] = status[j]
             /\ task[j] # 0 => status'[j] = status[j]
             /\ task'[j] = task[j] /\ polls'[j] >= polls[j]
  <2>1. CASE Attempted(k)
    BY <1>2, <2>1 DEF ClaimStep, Attempted
  <2>2. CASE Repolled(k)
    BY <1>2, <2>2 DEF ClaimStep, Repolled
  <2> QED BY <1>2, <2>1, <2>2 DEF ClaimStep
<1>3. CASE BeginAdd \/ SkipInactive \/ BeginPoll \/ AbandonStep \/ QueueUntouched
  BY <1>3 DEF BeginAdd, SkipInactive, BeginPoll, AbandonStep, QueueUntouched
<1>4. CASE ResultStep /\ j # wjob
  BY <1>4 DEF ResultStep, Result, Written
<1>5. CASE ResultStep /\ j = wjob
  <2>1. /\ status[j] \in InProgress
        /\ wpc = "adding" => Active(Owner[j]) /\ task[j] = 0
        /\ wpc = "polling" => WorkerRequest = <<j, task[j]>>
    BY <1>5, RequestInTasks DEF ResultStep, WorkerRequest, KnownTask
  <2>2. CASE wpc = "adding"
    BY <1>5, <2>1, <2>2
  <2>3. CASE wpc = "polling" /\ remote[WorkerRequest] \in {"sent", "running"}
    BY <1>5, <2>1, <2>3 DEF ResultStep, Result, Written, MayWrite
  <2>4. CASE wpc = "polling" /\ remote[WorkerRequest] \notin {"sent", "running"}
    BY <1>5, <2>1, <2>4 DEF ResultStep, Result, Written
  <2> QED BY <1>5, <2>2, <2>3, <2>4 DEF ResultStep
<1>6. ASSUME NEW i \in Identities, Schedule(i)
      PROVE  /\ status[j] \in {"completed", "failed"} => status'[j] = status[j]
             /\ task[j] # 0 /\ status[j] \in InProgress => status'[j] \in InProgress
             /\ task' = task /\ polls' = polls
  BY <1>6 DEF Schedule
<1>7. CASE DeletionComplete
  BY <1>7 DEF DeletionComplete, DeletionShape, HasSubmittedJobs, JobsOf
<1> QED BY <1>1, <1>2, <1>3, <1>4, <1>5, <1>6, <1>7, RowCases

\* A job that has ended is never taken up again.
THEOREM EndedJobsStayEnded == Spec => EndedStaysEnded
<1>1. Inductive /\ [Next]_vars =>
        [\A j \in Jobs : status[j] \in {"completed", "failed"} =>
             status'[j] \in {status[j], "absent"}]_vars
  BY NeverUndone
<1> QED BY <1>1, InductiveInvariant, PTL DEF Spec, EndedStaysEnded

\* The row of a member being deleted does not forget a task still under way.
THEOREM DeletionWaits == Spec => DeletionKeepsTask
<1>1. Inductive /\ [Next]_vars =>
        [\A j \in Jobs :
         /\ identity[Owner[j]] = "deletion_pending"
         /\ status[j] \in InProgress /\ task[j] # 0
         /\ remote[<<j, task[j]>>] \in {"sent", "running"}
         => status'[j] \in InProgress /\ task'[j] = task[j]]_vars
  BY NeverUndone
<1> QED BY <1>1, InductiveInvariant, PTL DEF Spec, DeletionKeepsTask

\* Polls spent on a task are not given back.
THEOREM PollsAreSpent == Spec => PollBudgetIsKept
<1>1. Inductive /\ [Next]_vars =>
        [\A j \in Jobs :
         task[j] # 0 /\ task'[j] = task[j] => polls'[j] >= polls[j]]_vars
  BY NeverUndone
<1> QED BY <1>1, InductiveInvariant, PTL DEF Spec, PollBudgetIsKept

\* A row never goes back, whatever is retried, cut short or deleted: claim, _set_result
\* and schedule only move it on.
THEOREM RowsOnlyMoveForward == Spec => RowsMoveForward
BY EndedJobsStayEnded, DeletionWaits, PollsAreSpent DEF RowsMoveForward

-----------------------------------------------------------------------------
(***************************************************************************)
(* The two queues implement MemberErasure, for any set of members, any     *)
(* number of jobs and any bounds: under the inductive invariant every step *)
(* is a step of the abstract specification or leaves what it sees alone.   *)
(***************************************************************************)
\* What the abstract specification calls submitting and waiting.
Submitting == IF wpc = "adding" THEN {Owner[wjob]} ELSE {}
Waiting == {i \in Identities : HasSubmittedJobs(i)}

\* A step the abstract specification sees nothing of.
Unseen == UNCHANGED <<identity, erased, Submitting, Waiting>>

\* Rows that keep their task, and whether they wait for it, leave Waiting as it is.
LEMMA WaitingKept ==
  ASSUME \A j \in Jobs : (status'[j] \in InProgress /\ task'[j] # 0)
                            = (status[j] \in InProgress /\ task[j] # 0)
  PROVE  Waiting' = Waiting
BY DEF Waiting, HasSubmittedJobs, JobsOf

\* A step on one row of a member changes Waiting for that member at most.
LEMMA WaitingOfOne ==
  ASSUME NEW k \in Jobs, Owner[k] \in Identities,
         \A j \in Jobs \ {k} : (status'[j] \in InProgress /\ task'[j] # 0)
                                  = (status[j] \in InProgress /\ task[j] # 0)
  PROVE  Waiting' \in {Waiting, Waiting \cup {Owner[k]}, Waiting \ {Owner[k]}}
<1>1. \A i \in Identities \ {Owner[k]} : HasSubmittedJobs(i)' = HasSubmittedJobs(i)
  BY DEF HasSubmittedJobs, JobsOf
<1>2. Waiting \subseteq Identities /\ Waiting' \subseteq Identities
  BY DEF Waiting
<1>3. \A i \in Identities \ {Owner[k]} : i \in Waiting' <=> i \in Waiting
  BY <1>1 DEF Waiting
<1> QED BY <1>2, <1>3

\* The worker records an outcome: an answer, a task that is settled, or neither.
LEMMA ResultErasure ==
  ASSUME Inductive, ResultStep
  PROVE  \/ Unseen
         \/ \E i \in Identities : Erasure!Answer(i) \/ Erasure!Settle(i)
<1>0. TypeOK /\ RowShape /\ WorkerShape
  BY DEF Inductive
<1>1. /\ wjob \in Jobs /\ status[wjob] \in InProgress /\ WorkerRequest[2] # 0
      /\ wpc = "adding" => task[wjob] = 0
  BY <1>0, RequestInTasks DEF ResultStep
<1>2. Owner[wjob] \in Identities
  BY <1>1, OwnerAssumption
<1>3. \A j \in Jobs \ {wjob} : status'[j] = status[j] /\ task'[j] = task[j]
  BY <1>0, <1>1 DEF ResultStep, Result, Written, TypeOK
<1>4. UNCHANGED <<identity, erased>> /\ wpc' = "idle"
  BY DEF ResultStep, deletion
<1>5. Waiting' \in {Waiting, Waiting \cup {Owner[wjob]}, Waiting \ {Owner[wjob]}}
  BY <1>1, <1>2, <1>3, WaitingOfOne
<1>6. CASE wpc = "adding"
  <2>1. \A j \in Jobs : status[j] \in InProgress /\ task[j] # 0
                           => status'[j] \in InProgress /\ task'[j] # 0
    BY <1>1, <1>3, <1>6
  <2>2. Waiting \subseteq Waiting'
    BY <2>1 DEF Waiting, HasSubmittedJobs, JobsOf
  <2>3. Waiting' \in {Waiting, Waiting \cup {Owner[wjob]}}
    BY <1>5, <2>2
  <2>4. Erasure!Answer(Owner[wjob])
    BY <1>4, <1>6, <2>3 DEF Erasure!Answer, Waiting
  <2> QED BY <1>2, <2>4
<1>7. CASE wpc = "polling"
  <2>1. \A j \in Jobs : status'[j] \in InProgress /\ task'[j] # 0
                           => status[j] \in InProgress /\ task[j] # 0
    BY <1>0, <1>1, <1>3, <1>7 DEF WorkerShape, RowShape, InProgress
  <2>2. Waiting' \subseteq Waiting
    BY <2>1 DEF Waiting, HasSubmittedJobs, JobsOf
  <2>3. CASE Waiting' = Waiting
    BY <1>4, <1>7, <2>3 DEF Unseen, Submitting
  <2>4. CASE Waiting' = Waiting \ {Owner[wjob]}
    <3>1. Erasure!Settle(Owner[wjob])
      BY <1>4, <1>7, <2>4 DEF Erasure!Settle, Waiting
    <3> QED BY <1>2, <3>1
  <2> QED BY <1>5, <2>2, <2>3, <2>4
<1> QED BY <1>6, <1>7 DEF ResultStep

\* A worker cut short: an answer nobody reads, or nothing.
LEMMA AbandonErasure ==
  ASSUME Inductive, AbandonStep
  PROVE  Unseen \/ \E i \in Identities : Erasure!Answer(i)
<1>0. TypeOK /\ RowShape /\ WorkerShape
  BY DEF Inductive
<1>1. UNCHANGED <<identity, erased>> /\ wpc' = "idle"
  BY DEF AbandonStep
<1>2. Waiting' = Waiting
  BY WaitingKept DEF AbandonStep, rows
<1>3. CASE wpc = "adding"
  <2>1. Owner[wjob] \in Identities
    BY <1>0, <1>3, RequestInTasks, OwnerAssumption
  <2>2. Erasure!Answer(Owner[wjob])
    BY <1>1, <1>2, <1>3 DEF Erasure!Answer, Waiting
  <2> QED BY <2>1, <2>2
<1>4. CASE wpc # "adding"
  BY <1>1, <1>2, <1>4 DEF Unseen, Submitting
<1> QED BY <1>3, <1>4

\* Erasing a store: allowed, or done before for a member already removed.
LEMMA EraseErasure ==
  ASSUME Inductive, NEW s \in Stores, Erase(s)
  PROVE  Unseen \/ \E i \in Identities : Erasure!Clear(i, s)
<1>0. TypeOK /\ DeletionShape /\ RemovedOnlyWhenErased
  BY DEF Inductive
<1>1. /\ dident \in Identities /\ dpc = s /\ s # "idle"
      /\ erased' = [erased EXCEPT ![dident] = @ \cup {s}]
      /\ UNCHANGED <<identity, rows, worker>>
  BY <1>0 DEF Erase, TypeOK, Stores
<1>2. Waiting' = Waiting
  BY <1>1, WaitingKept DEF rows
<1>3. Submitting' = Submitting
  BY <1>1 DEF Submitting, worker
<1>4. identity[dident] \in {"deletion_pending", "deleted"}
  BY <1>0, <1>1 DEF DeletionShape, Active, TypeOK
<1>5. CASE identity[dident] = "deleted"
  <2>1. erased' = erased
    BY <1>0, <1>1, <1>5 DEF RemovedOnlyWhenErased, TypeOK
  <2> QED BY <1>1, <1>2, <1>3, <2>1 DEF Unseen
<1>6. CASE identity[dident] = "deletion_pending"
  <2>1. s = "memories" => dident \notin Waiting
    BY <1>0, <1>1 DEF DeletionShape, Waiting
  <2>2. Erasure!Clear(dident, s)
    BY <1>1, <1>2, <1>3, <1>6, <2>1 DEF Erasure!Clear, Waiting, Submitting
  <2> QED BY <1>1, <2>2
<1> QED BY <1>4, <1>5, <1>6

\* Scheduling the deletion leaves the submitted rows waiting.
LEMMA ScheduleErasure ==
  ASSUME Inductive, NEW i \in Identities, Schedule(i)
  PROVE  Erasure!Leave(i)
<1>0. TypeOK /\ RowShape
  BY DEF Inductive
<1>1. identity[i] = "active" /\ identity' = [identity EXCEPT ![i] = "deletion_pending"]
  BY DEF Schedule, Active
<1>2. i \notin Submitting
  BY DEF Schedule, RowLocked, Submitting
<1>3. UNCHANGED <<erased, worker, task>>
  BY DEF Schedule, worker
<1>4. \A j \in Jobs : (status'[j] \in InProgress /\ task'[j] # 0)
                         = (status[j] \in InProgress /\ task[j] # 0)
  BY <1>0, <1>3 DEF Schedule, RowShape, InProgress, TypeOK, Open
<1>5. Waiting' = Waiting
  BY <1>4, WaitingKept
<1>6. Submitting' = Submitting
  BY <1>3 DEF Submitting, worker
<1> QED BY <1>1, <1>2, <1>3, <1>5, <1>6 DEF Erasure!Leave, Waiting, Submitting

\* The member's row goes when all is erased; for one already gone nothing is seen.
LEMMA CompleteErasure ==
  ASSUME Inductive, DeletionComplete
  PROVE  Unseen \/ \E i \in Identities : Erasure!Remove(i)
<1>0. TypeOK /\ DeletionShape
  BY DEF Inductive
<1>1. /\ dident \in Identities /\ erased[dident] = Stores /\ ~ HasSubmittedJobs(dident)
      /\ UNCHANGED <<erased, worker, task>>
  BY <1>0 DEF DeletionComplete, DeletionShape, ErasedBefore, TypeOK, worker
<1>2. \A j \in Jobs : (status'[j] \in InProgress /\ task'[j] # 0)
                         = (status[j] \in InProgress /\ task[j] # 0)
  BY <1>0, <1>1 DEF DeletionComplete, HasSubmittedJobs, JobsOf, InProgress, TypeOK
<1>3. Waiting' = Waiting
  BY <1>2, WaitingKept
<1>4. Submitting' = Submitting
  BY <1>1 DEF Submitting, worker
<1>5. CASE identity[dident] = "deletion_pending"
  <2>1. Erasure!Remove(dident)
    BY <1>0, <1>1, <1>3, <1>4, <1>5
       DEF Erasure!Remove, DeletionComplete, Waiting, Submitting, TypeOK
  <2> QED BY <1>1, <2>1
<1>6. CASE identity[dident] # "deletion_pending"
  <2>1. identity' = identity
    BY <1>0, <1>6 DEF DeletionComplete, TypeOK
  <2> QED BY <1>1, <1>3, <1>4, <2>1 DEF Unseen
<1> QED BY <1>5, <1>6

\* Every step of the queues is one the abstract specification allows.
LEMMA ErasureStep ==
  ASSUME Inductive, Next
  PROVE  Erasure!Next \/ Unseen
<1>0. TypeOK /\ RowShape /\ WorkerShape
  BY DEF Inductive
<1> USE DEF Unseen, Submitting
<1>1. CASE EnqueueStep
  <2>1. \A j \in Jobs : (status'[j] \in InProgress /\ task'[j] # 0)
                           = (status[j] \in InProgress /\ task[j] # 0)
    BY <1>1 DEF EnqueueStep, InProgress
  <2> QED BY <1>1, <2>1, WaitingKept DEF EnqueueStep, worker, deletion
<1>2. ASSUME NEW j \in Jobs, ClaimStep(j) PROVE Unseen
  <2>1. \A k \in Jobs : (status'[k] \in InProgress /\ task'[k] # 0)
                           = (status[k] \in InProgress /\ task[k] # 0)
    BY <1>0, <1>2 DEF ClaimStep, Attempted, Repolled, InProgress, TypeOK
  <2> QED BY <1>2, <2>1, WaitingKept DEF ClaimStep, deletion
<1>3. CASE BeginAdd
  <2>1. wjob \in Jobs /\ Owner[wjob] \in Identities
    BY <1>0, <1>3, OwnerAssumption DEF BeginAdd, TypeOK
  <2>2. Waiting' = Waiting
    BY <1>3, WaitingKept DEF BeginAdd, rows
  <2>3. Erasure!Submit(Owner[wjob])
    BY <1>3, <2>2 DEF BeginAdd, Erasure!Submit, Active, Waiting, deletion
  <2> QED BY <2>1, <2>3 DEF Erasure!Next
<1>4. CASE SkipInactive \/ BeginPoll
  <2>1. UNCHANGED <<identity, erased, rows>> /\ wpc # "adding" /\ wpc' # "adding"
    BY <1>4 DEF SkipInactive, BeginPoll, Release, deletion
  <2> QED BY <2>1, WaitingKept DEF rows
<1>5. CASE ResultStep
  BY <1>5, ResultErasure DEF Erasure!Next
<1>6. CASE AbandonStep
  BY <1>6, AbandonErasure DEF Erasure!Next
<1>7. CASE DeletionComplete
  BY <1>7, CompleteErasure DEF Erasure!Next
<1>8. ASSUME NEW i \in Identities, Schedule(i) PROVE Erasure!Next
  BY <1>8, ScheduleErasure DEF Erasure!Next
<1>9. ASSUME NEW s \in Stores, Erase(s) PROVE Erasure!Next \/ Unseen
  BY <1>9, EraseErasure DEF Erasure!Next
<1>10. ASSUME QueueUntouched, erased' = erased PROVE Unseen
  BY <1>10, WaitingKept DEF QueueUntouched, worker
<1>11. \A t \in Tasks : RemoteAccept(t) \/ RemoteFail(t) \/ RemoteFinish(t)
                          => QueueUntouched /\ erased' = erased
  BY DEF RemoteAccept, RemoteFail, RemoteFinish, QueueUntouched, rows, deletion
<1>12. DeletionCheck \/ EraseRaised \/ DeletionAbort => QueueUntouched /\ erased' = erased
  BY DEF DeletionCheck, EraseRaised, DeletionAbort, QueueUntouched, rows
<1>13. \A i \in Identities : DeletionClaim(i) \/ DeletionDue(i) => QueueUntouched /\ erased' = erased
  BY DEF DeletionClaim, DeletionDue, QueueUntouched, rows
<1>14. \A j \in Jobs : JobDue(j) => QueueUntouched /\ erased' = erased
  BY DEF JobDue, QueueUntouched, deletion
<1> QED BY StepCases, <1>1, <1>2, <1>3, <1>4, <1>5, <1>6, <1>7, <1>8, <1>9, <1>10,
           <1>11, <1>12, <1>13, <1>14

\* Nothing is submitted, waited for or erased at first.
LEMMA ErasureInit == Init => Erasure!Init
<1> SUFFICES ASSUME Init PROVE Erasure!Init
  OBVIOUS
<1>1. \A i \in Identities : ~ HasSubmittedJobs(i)
  BY DEF Init, HasSubmittedJobs, JobsOf, InProgress
<1> QED BY <1>1 DEF Init, Erasure!Init

\* The two queues implement what MemberErasure promises of a member.
THEOREM QueuesImplementErasure == Spec => ImplementsErasure
<1>1. Inductive /\ [Next]_vars => [Erasure!Next]_Erasure!erasureVars
  <2> SUFFICES ASSUME Inductive, [Next]_vars PROVE [Erasure!Next]_Erasure!erasureVars
    OBVIOUS
  <2>1. CASE Next
    BY <2>1, ErasureStep DEF Unseen, Erasure!erasureVars, Submitting, Waiting
  <2>2. CASE UNCHANGED vars
    BY <2>2 DEF vars, rows, worker, deletion, Erasure!erasureVars, HasSubmittedJobs
  <2> QED BY <2>1, <2>2
<1> QED BY <1>1, ErasureInit, InductiveInvariant, PTL DEF Spec, ImplementsErasure, Erasure!Spec

=============================================================================
