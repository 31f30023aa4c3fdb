--------------------------- MODULE MemoryDeletion ---------------------------
(***************************************************************************)
(* The durable memory-write queue (memory/jobs.py) and the member deletion *)
(* queue (identity/deletion.py) over the tables they share, with the       *)
(* remote memory provider they both call.                                  *)
(*                                                                         *)
(* One process runs one memory worker and one deletion worker.  A turn's   *)
(* job is claimed with a lease, submitted to the provider while the worker *)
(* holds the member's row lock (submission_guard), and then polled until   *)
(* the remote task ends.  Deleting a member first cancels the jobs that    *)
(* were never submitted and waits for the submitted ones, then erases the  *)
(* member's data store by store, and at last removes the member.           *)
(*                                                                         *)
(* Jobs are numbered in the order of created_at.  A provider task id is    *)
(* the number of the attempt that obtained it; 0 is NULL.  Clock times are *)
(* reduced to "available_at has come" (due); the length of a delay is not  *)
(* modelled.                                                               *)
(***************************************************************************)
EXTENDS Naturals, FiniteSets

CONSTANTS
    Identities,   \* members of the household
    NumJobs,      \* completed turns that ask for a memory write
    Owner,        \* the member each job belongs to
    MaxAttempts,  \* MemoryWriteService.max_attempts
    MaxPolls,     \* MemoryWriteService.max_polls
    MaxFaults     \* bound: crashes and unhandled exceptions in a behaviour

Jobs == 1 .. NumJobs

ASSUME CountsAssumption ==
    /\ NumJobs \in Nat
    /\ MaxAttempts \in Nat \ {0}
    /\ MaxPolls \in Nat \ {0}
    /\ MaxFaults \in Nat

ASSUME OwnerAssumption == Owner \in [Jobs -> Identities]

VARIABLES
    \* Tables: identities, memory_jobs, identity_deletion_jobs.
    identity,     \* identities.status; "deleted" when the row is gone
    status,       \* memory_jobs.status; "absent" when there is no row
    attempts,     \* memory_jobs.attempts
    polls,        \* memory_jobs.poll_count, saturating above MaxPolls
    task,         \* memory_jobs.provider_task_id
    due,          \* memory_jobs.available_at has come
    dstatus,      \* identity_deletion_jobs.status; "none" when no row
    ddue,         \* identity_deletion_jobs.available_at has come
    nextTurn,     \* the next completed turn to be enqueued
    \* The memory worker and the deletion worker.
    wpc, wjob,
    dpc, dident,
    \* The provider and the other stores.
    remote,       \* what became of each Add Message request
    memories,     \* the tasks whose memories are stored remotely
    \* History variables: no guard reads them, but for the bound on faults.
    orphaned,     \* requests whose outcome the queue has given up knowing
    erased,       \* the stores the deletion worker has erased, per member
    faults        \* crashes and unhandled exceptions so far

rows     == <<status, attempts, polls, task, due>>
deletion == <<dstatus, ddue, dpc, dident, erased>>
worker   == <<wpc, wjob>>
vars     == <<identity, rows, nextTurn, worker, deletion,
              remote, memories, orphaned, faults>>

Tasks  == Jobs \X (1 .. (MaxAttempts + MaxFaults))
Stores == {"voiceprint", "memories", "profile", "dialogue"}

\* The statuses a row is claimed from, and those _set_result overwrites.
Open       == {"pending", "processing", "submitted"}
InProgress == {"processing", "submitted"}
\* A request in one of these may already have stored, or still store, a memory.
MayWrite   == {"sent", "running", "completed"}

TypeOK ==
    /\ identity \in [Identities -> {"active", "deletion_pending", "deleted"}]
    /\ status \in [Jobs -> Open \cup {"absent", "completed", "failed"}]
    /\ attempts \in [Jobs -> 0 .. (MaxAttempts + MaxFaults)]
    /\ polls \in [Jobs -> 0 .. (MaxPolls + 1)]
    /\ task \in [Jobs -> 0 .. (MaxAttempts + MaxFaults)]
    /\ due \in [Jobs -> BOOLEAN]
    /\ dstatus \in [Identities -> {"none", "pending", "processing", "completed"}]
    /\ ddue \in [Identities -> BOOLEAN]
    /\ nextTurn \in 1 .. (NumJobs + 1)
    /\ wpc \in {"idle", "claimed", "adding", "polling"}
    /\ wjob \in Jobs \cup {0}
    /\ (wpc = "idle") = (wjob = 0)
    /\ dpc \in Stores \cup {"idle", "check", "complete"}
    /\ dident \in Identities
    /\ remote \in [Tasks -> MayWrite \cup {"none", "failed"}]
    /\ memories \in SUBSET Tasks
    /\ orphaned \in SUBSET Tasks
    /\ erased \in [Identities -> SUBSET Stores]
    /\ faults \in 0 .. MaxFaults

JobsOf(i) == {j \in Jobs : Owner[j] = i}
TaskOwner(t) == Owner[t[1]]
Active(i) == identity[i] = "active"

\* submission_guard holds the member's row FOR UPDATE around the whole of
\* _submit_to_provider or _poll_provider.  Every other holder is one short
\* transaction, that is, one action.
RowLocked(i) == wpc \in {"adding", "polling"} /\ Owner[wjob] = i

Init ==
    /\ identity = [i \in Identities |-> "active"]
    /\ status = [j \in Jobs |-> "absent"]
    /\ attempts = [j \in Jobs |-> 0]
    /\ polls = [j \in Jobs |-> 0]
    /\ task = [j \in Jobs |-> 0]
    /\ due = [j \in Jobs |-> FALSE]
    /\ dstatus = [i \in Identities |-> "none"]
    /\ ddue = [i \in Identities |-> FALSE]
    /\ nextTurn = 1
    /\ wpc = "idle" /\ wjob = 0
    /\ dpc = "idle" /\ dident \in Identities
    /\ remote = [t \in Tasks |-> "none"]
    /\ memories = {}
    /\ orphaned = {}
    /\ erased = [i \in Identities |-> {}]
    /\ faults = 0

-----------------------------------------------------------------------------
(***************************************************************************)
(* Enqueuing and claiming a memory job.                                    *)
(***************************************************************************)

\* enqueue: under the member's row lock, a job is inserted for an ACTIVE
\* member only; for any other the call returns False and the turn is dropped.
Enqueue ==
    /\ nextTurn <= NumJobs
    /\ ~ RowLocked(Owner[nextTurn])
    /\ nextTurn' = nextTurn + 1
    /\ IF Active(Owner[nextTurn])
       THEN /\ status' = [status EXCEPT ![nextTurn] = "pending"]
            /\ due' = [due EXCEPT ![nextTurn] = TRUE]
       ELSE UNCHANGED <<status, due>>
    /\ UNCHANGED <<identity, attempts, polls, task, worker, deletion,
                   remote, memories, orphaned, faults>>

\* Mutant: claim does not look at the status of a due row.
ClaimableAnyStatus(j) ==
    /\ due[j]
    /\ status[j] # "absent"
    /\ task[j] # 0 \/ Active(Owner[j])

\* Mutant: claim asks for an ACTIVE member even when a task is under way.
ClaimableActiveOnly(j) == due[j] /\ status[j] \in Open /\ Active(Owner[j])

\* The WHERE clause of claim.
Claimable(j) ==
    /\ due[j]
    /\ status[j] \in Open
    /\ task[j] # 0 \/ Active(Owner[j])

\* claim takes the oldest claimable row, writes the lease into available_at
\* and counts the attempt or the poll before any of it has happened.
Claim(j) ==
    /\ wpc = "idle"
    /\ Claimable(j)
    /\ \A k \in 1 .. (j - 1) : ~ Claimable(k)
    /\ wpc' = "claimed"
    /\ wjob' = j
    /\ due' = [due EXCEPT ![j] = FALSE]
    /\ IF task[j] = 0
       THEN /\ status' = [status EXCEPT ![j] = "processing"]
            /\ attempts' = [attempts EXCEPT ![j] = @ + 1]
            /\ UNCHANGED polls
       ELSE /\ status' = [status EXCEPT ![j] = "submitted"]
            /\ polls' = [polls EXCEPT ![j] = IF @ > MaxPolls THEN @ ELSE @ + 1]
            /\ UNCHANGED attempts
    /\ UNCHANGED <<identity, task, nextTurn, deletion,
                   remote, memories, orphaned, faults>>

\* Mutant: a row left in processing by a crash is not claimed again.
JobDueNoLease(j) ==
    /\ status[j] \in {"pending", "submitted"}
    /\ ~ due[j]
    /\ wjob # j
    /\ due' = [due EXCEPT ![j] = TRUE]
    /\ UNCHANGED <<identity, status, attempts, polls, task, nextTurn, worker,
                   deletion, remote, memories, orphaned, faults>>

\* A lease or a retry delay runs out.  While the one worker holds the job the
\* lease is of no effect, so the step is left out then.
JobDue(j) ==
    /\ status[j] \in Open
    /\ ~ due[j]
    /\ wjob # j
    /\ due' = [due EXCEPT ![j] = TRUE]
    /\ UNCHANGED <<identity, status, attempts, polls, task, nextTurn, worker,
                   deletion, remote, memories, orphaned, faults>>

-----------------------------------------------------------------------------
(***************************************************************************)
(* Results the worker writes to a row.  Only the worker writes attempts,   *)
(* polls and task, so the snapshot claim returned is what the row holds.   *)
(***************************************************************************)

\* _set_result: an UPDATE that only finds rows in processing or submitted.
\* available_at is some time ahead, or now when the job has ended.
SetResult(j, s, id, p) ==
    /\ due' = [due EXCEPT ![j] = s \in {"completed", "failed"}]
    /\ IF status[j] \in InProgress
       THEN /\ status' = [status EXCEPT ![j] = s]
            /\ task' = [task EXCEPT ![j] = id]
            /\ polls' = [polls EXCEPT ![j] = p]
       ELSE UNCHANGED <<status, task, polls>>

\* Mutant: every submit starts the poll count again.
StoreSubmitResets(j, id) == SetResult(j, "submitted", id, 0)

StoreSubmit(j, id) ==
    SetResult(j, "submitted", id, IF task[j] = id THEN polls[j] ELSE 0)

StoreComplete(j, id) == SetResult(j, "completed", id, polls[j])

\* store.fail forgets the task id, whatever the remote task is doing.
StoreFail(j, retry) ==
    SetResult(j, IF retry THEN "pending" ELSE "failed", 0, 0)

\* Mutants: one attempt too many, one too few, no budget at all.
FailSubmissionOneMore(j, retryAllowed) ==
    StoreFail(j, retryAllowed /\ attempts[j] <= MaxAttempts)

FailSubmissionOneLess(j, retryAllowed) ==
    StoreFail(j, retryAllowed /\ attempts[j] + 1 < MaxAttempts)

FailSubmissionNoBudget(j, retryAllowed) == StoreFail(j, retryAllowed)

FailSubmission(j, retryAllowed) ==
    StoreFail(j, retryAllowed /\ attempts[j] < MaxAttempts)

\* The request of this attempt, and the request a task id stands for.
ThisTask  == <<wjob, attempts[wjob]>>
KnownTask == <<wjob, task[wjob]>>

\* The worker leaves submission_guard, or never got into it.
Release == wpc' = "idle" /\ wjob' = 0

\* History: the queue no longer knows what becomes of request t.
Orphan(t) ==
    orphaned' = IF remote[t] \in MayWrite THEN orphaned \cup {t} ELSE orphaned

-----------------------------------------------------------------------------
(***************************************************************************)
(* _process: the memory worker inside submission_guard.                    *)
(***************************************************************************)

\* The job has no task id, its member is ACTIVE and its row is still
\* processing: Add Message is called, the member's row staying locked.
BeginAdd ==
    /\ wpc = "claimed"
    /\ task[wjob] = 0
    /\ Active(Owner[wjob])
    /\ status[wjob] = "processing"
    /\ wpc' = "adding"
    /\ remote' = [remote EXCEPT ![ThisTask] = "sent"]
    /\ UNCHANGED <<identity, rows, nextTurn, wjob, deletion,
                   memories, orphaned, faults>>

\* Not active any more, or the row was cancelled: the job is left alone.
SkipInactive ==
    /\ wpc = "claimed"
    /\ task[wjob] = 0
    /\ ~ (Active(Owner[wjob]) /\ status[wjob] = "processing")
    /\ Release
    /\ UNCHANGED <<identity, rows, nextTurn, deletion,
                   remote, memories, orphaned, faults>>

\* The job has a task id: its status is queried, for a member being deleted too.
BeginPoll ==
    /\ wpc = "claimed"
    /\ task[wjob] # 0
    /\ wpc' = "polling"
    /\ UNCHANGED <<identity, rows, nextTurn, wjob, deletion,
                   remote, memories, orphaned, faults>>

\* The receipt of Add Message is read and recorded.  Reading and recording
\* are one action: the row is locked, and being cut short in between is
\* MemoryAbort or Crash from "adding".
AddAnswered ==
    /\ wpc = "adding"
    /\ \/ /\ remote[ThisTask] = "running"
          /\ StoreSubmit(wjob, attempts[wjob])
       \/ /\ remote[ThisTask] = "completed"
          /\ StoreComplete(wjob, attempts[wjob])
       \/ /\ remote[ThisTask] = "failed"
          /\ FailSubmission(wjob, TRUE)
    /\ Release
    /\ UNCHANGED <<identity, attempts, nextTurn, deletion,
                   remote, memories, orphaned, faults>>

\* Add Message raises: the request was refused, or its answer was lost.
AddRaised ==
    /\ wpc = "adding"
    /\ FailSubmission(wjob, TRUE)
    /\ Orphan(ThisTask)
    /\ Release
    /\ UNCHANGED <<identity, attempts, nextTurn, deletion,
                   remote, memories, faults>>

\* Mutant: the poll limit drops the task id of a member being deleted too.
PollLimitForAll == polls[wjob] > MaxPolls

PollLimitReached == polls[wjob] > MaxPolls /\ Active(Owner[wjob])

\* Too many polls for an active member: the submission counts as failed and
\* the task id is dropped, though the remote task may still be running.
PollLimit ==
    /\ wpc = "polling"
    /\ PollLimitReached
    /\ FailSubmission(wjob, TRUE)
    /\ Orphan(KnownTask)
    /\ Release
    /\ UNCHANGED <<identity, attempts, nextTurn, deletion,
                   remote, memories, faults>>

\* The remote status is read and recorded.
PollAnswered ==
    /\ wpc = "polling"
    /\ ~ PollLimitReached
    /\ \/ /\ remote[KnownTask] = "running"
          /\ StoreSubmit(wjob, task[wjob])
       \/ /\ remote[KnownTask] = "completed"
          /\ StoreComplete(wjob, task[wjob])
       \/ /\ remote[KnownTask] = "failed"
          /\ FailSubmission(wjob, Active(Owner[wjob]))
    /\ Release
    /\ UNCHANGED <<identity, attempts, nextTurn, deletion,
                   remote, memories, orphaned, faults>>

\* Mutant: a failed status query counts as a failed submission.
PollRaisedFails ==
    /\ wpc = "polling"
    /\ ~ PollLimitReached
    /\ FailSubmission(wjob, TRUE)
    /\ Release
    /\ UNCHANGED <<identity, attempts, nextTurn, deletion,
                   remote, memories, orphaned, faults>>

\* The status query raises: the same task is looked at again later.
PollRaised ==
    /\ wpc = "polling"
    /\ ~ PollLimitReached
    /\ StoreSubmit(wjob, task[wjob])
    /\ Release
    /\ UNCHANGED <<identity, attempts, nextTurn, deletion,
                   remote, memories, orphaned, faults>>

\* What a worker cut short leaves behind: an Add Message nobody will read the
\* answer of.
AbandonJob ==
    /\ Release
    /\ IF wpc = "adding" THEN Orphan(ThisTask) ELSE UNCHANGED orphaned

\* A database error escapes _process: _run logs it, the transaction rolls
\* back, and the lease is what brings the row back.
MemoryAbort ==
    /\ faults < MaxFaults
    /\ wpc # "idle"
    /\ AbandonJob
    /\ faults' = faults + 1
    /\ UNCHANGED <<identity, rows, nextTurn, deletion, remote, memories>>

-----------------------------------------------------------------------------
(***************************************************************************)
(* The memory provider.                                                    *)
(***************************************************************************)

RemoteAccept(t) ==
    /\ remote[t] = "sent"
    /\ remote' = [remote EXCEPT ![t] = "running"]
    /\ UNCHANGED <<identity, rows, nextTurn, worker, deletion,
                   memories, orphaned, faults>>

\* A request is refused or lost, or the task it started fails.
RemoteFail(t) ==
    /\ remote[t] \in {"sent", "running"}
    /\ remote' = [remote EXCEPT ![t] = "failed"]
    /\ UNCHANGED <<identity, rows, nextTurn, worker, deletion,
                   memories, orphaned, faults>>

RemoteFinish(t) ==
    /\ remote[t] = "running"
    /\ remote' = [remote EXCEPT ![t] = "completed"]
    /\ memories' = memories \cup {t}
    /\ UNCHANGED <<identity, rows, nextTurn, worker, deletion,
                   orphaned, faults>>

-----------------------------------------------------------------------------
(***************************************************************************)
(* Deleting a member.                                                      *)
(***************************************************************************)

\* Mutant: schedule does not take the member's row lock.
ScheduleUnlocked(i) ==
    /\ Active(i)
    /\ identity' = [identity EXCEPT ![i] = "deletion_pending"]
    /\ status' = [j \in Jobs |->
                    IF Owner[j] = i /\ status[j] \in {"pending", "processing"}
                    THEN "failed" ELSE status[j]]
    /\ dstatus' = [dstatus EXCEPT ![i] = "pending"]
    /\ ddue' = [ddue EXCEPT ![i] = TRUE]
    /\ UNCHANGED <<attempts, polls, task, due, nextTurn, worker, dpc, dident,
                   erased, remote, memories, orphaned, faults>>

\* Mutant: schedule cancels the submitted jobs along with the others.
ScheduleCancelsSubmitted(i) ==
    /\ Active(i)
    /\ ~ RowLocked(i)
    /\ identity' = [identity EXCEPT ![i] = "deletion_pending"]
    /\ status' = [j \in Jobs |->
                    IF Owner[j] = i /\ status[j] \in Open
                    THEN "failed" ELSE status[j]]
    /\ dstatus' = [dstatus EXCEPT ![i] = "pending"]
    /\ ddue' = [ddue EXCEPT ![i] = TRUE]
    /\ UNCHANGED <<attempts, polls, task, due, nextTurn, worker, dpc, dident,
                   erased, remote, memories, orphaned, faults>>

\* schedule: one transaction under the member's row lock hides the member,
\* cancels the jobs that were never submitted and queues the deletion.
Schedule(i) ==
    /\ Active(i)
    /\ ~ RowLocked(i)
    /\ identity' = [identity EXCEPT ![i] = "deletion_pending"]
    /\ status' = [j \in Jobs |->
                    IF Owner[j] # i THEN status[j]
                    ELSE IF status[j] = "processing" /\ task[j] # 0 THEN "submitted"
                    ELSE IF status[j] \in {"pending", "processing"} THEN "failed"
                    ELSE status[j]]
    /\ dstatus' = [dstatus EXCEPT ![i] = "pending"]
    /\ ddue' = [ddue EXCEPT ![i] = TRUE]
    /\ UNCHANGED <<attempts, polls, task, due, nextTurn, worker, dpc, dident,
                   erased, remote, memories, orphaned, faults>>

\* claim of a deletion job.  Which of two due jobs is older is not tracked.
DeletionClaim(i) ==
    /\ dpc = "idle"
    /\ dstatus[i] \in {"pending", "processing"}
    /\ ddue[i]
    /\ dstatus' = [dstatus EXCEPT ![i] = "processing"]
    /\ ddue' = [ddue EXCEPT ![i] = FALSE]
    /\ dpc' = "voiceprint"
    /\ dident' = i
    /\ UNCHANGED <<identity, rows, nextTurn, worker, erased,
                   remote, memories, orphaned, faults>>

\* The lease or the retry delay of a deletion job runs out.
DeletionDue(i) ==
    /\ dstatus[i] \in {"pending", "processing"}
    /\ ~ ddue[i]
    /\ dpc = "idle" \/ dident # i
    /\ ddue' = [ddue EXCEPT ![i] = TRUE]
    /\ UNCHANGED <<identity, rows, nextTurn, worker, dstatus, dpc, dident,
                   erased, remote, memories, orphaned, faults>>

\* _process erases the stores in this order, with the check of submitted
\* memory jobs between the first and the second.
After == [voiceprint |-> "check", memories |-> "profile",
          profile |-> "dialogue", dialogue |-> "complete"]

\* Mutant: the provider is cleaned for the whole device.
WipedAll(i) == {t \in memories : i \notin Identities}

\* delete_all_memories takes away what the provider has stored by now.
Wiped(i) == {t \in memories : TaskOwner(t) # i}

Erase(s) ==
    /\ dpc = s
    /\ erased' = [erased EXCEPT ![dident] = @ \cup {s}]
    /\ memories' = IF s = "memories" THEN Wiped(dident) ELSE memories
    /\ dpc' = After[s]
    /\ UNCHANGED <<identity, rows, nextTurn, worker, dstatus, ddue, dident,
                   remote, orphaned, faults>>

\* has_submitted_memory_jobs.
HasSubmittedJobs(i) ==
    \E j \in JobsOf(i) : status[j] \in InProgress /\ task[j] # 0

\* store.fail: the deletion job is put off, never given up.
DeletionFail ==
    /\ dstatus' = [dstatus EXCEPT ![dident] = "pending"]
    /\ ddue' = [ddue EXCEPT ![dident] = FALSE]
    /\ dpc' = "idle"

\* Mutant: a claimed row is recognised, one that waits to be polled is not.
HasProcessingJobs(i) ==
    \E j \in JobsOf(i) : status[j] = "processing" /\ task[j] # 0

DeletionCheckProcessing ==
    /\ dpc = "check"
    /\ IF HasProcessingJobs(dident)
       THEN DeletionFail
       ELSE dpc' = "memories" /\ UNCHANGED <<dstatus, ddue>>
    /\ UNCHANGED <<identity, rows, nextTurn, worker, dident, erased,
                   remote, memories, orphaned, faults>>

DeletionCheck ==
    /\ dpc = "check"
    /\ IF HasSubmittedJobs(dident)
       THEN DeletionFail
       ELSE dpc' = "memories" /\ UNCHANGED <<dstatus, ddue>>
    /\ UNCHANGED <<identity, rows, nextTurn, worker, dident, erased,
                   remote, memories, orphaned, faults>>

\* Mutant: a step that raises is logged and the next one is taken.
EraseRaisedGoesOn ==
    /\ dpc \in Stores
    /\ dpc' = After[dpc]
    /\ UNCHANGED <<identity, rows, nextTurn, worker, dstatus, ddue, dident, erased,
                   remote, memories, orphaned, faults>>

\* A step of _process raises.  A call whose answer was lost may have done its
\* work all the same.
EraseRaised ==
    /\ dpc \in Stores \cup {"check"}
    /\ DeletionFail
    /\ memories' \in {memories, IF dpc = "memories" THEN Wiped(dident) ELSE memories}
    /\ UNCHANGED <<identity, rows, nextTurn, worker, dident, erased,
                   remote, orphaned, faults>>

\* complete: the member's row goes, and with it every row that refers to it.
DeletionComplete ==
    /\ dpc = "complete"
    /\ ~ RowLocked(dident)
    /\ identity' = [identity EXCEPT ![dident] =
                      IF @ = "deletion_pending" THEN "deleted" ELSE @]
    /\ status' = [j \in Jobs |->
                    IF identity[dident] = "deletion_pending" /\ Owner[j] = dident
                    THEN "absent" ELSE status[j]]
    /\ dstatus' = [dstatus EXCEPT ![dident] = "completed"]
    /\ dpc' = "idle"
    /\ UNCHANGED <<attempts, polls, task, due, nextTurn, worker, ddue, dident,
                   erased, remote, memories, orphaned, faults>>

\* store.fail or store.complete raises: the lease recovers the job.
DeletionAbort ==
    /\ faults < MaxFaults
    /\ dpc # "idle"
    /\ dpc' = "idle"
    /\ faults' = faults + 1
    /\ UNCHANGED <<identity, rows, nextTurn, worker, dstatus, ddue, dident,
                   erased, remote, memories, orphaned>>

\* The process dies, or close() cancels both workers, and it starts again.
\* With one of the two idle this is the other's abort.
Crash ==
    /\ faults < MaxFaults
    /\ wpc # "idle" /\ dpc # "idle"
    /\ AbandonJob
    /\ dpc' = "idle"
    /\ faults' = faults + 1
    /\ UNCHANGED <<identity, rows, nextTurn, dstatus, ddue, dident,
                   erased, remote, memories>>

-----------------------------------------------------------------------------
MemoryStep ==
    \/ BeginAdd \/ SkipInactive \/ BeginPoll
    \/ AddAnswered \/ AddRaised
    \/ PollLimit \/ PollAnswered \/ PollRaised

DeletionStep ==
    \/ \E s \in Stores : Erase(s)
    \/ DeletionCheck \/ EraseRaised \/ DeletionComplete

Next ==
    \/ Enqueue
    \/ \E j \in Jobs : Claim(j) \/ JobDue(j)
    \/ MemoryStep
    \/ MemoryAbort
    \/ \E t \in Tasks : RemoteAccept(t) \/ RemoteFail(t) \/ RemoteFinish(t)
    \/ \E i \in Identities : Schedule(i) \/ DeletionClaim(i) \/ DeletionDue(i)
    \/ DeletionStep
    \/ DeletionAbort
    \/ Crash

Spec == Init /\ [][Next]_vars

\* Both workers keep running, clocks advance, and a due row is not overtaken
\* for ever: a row just processed is put off by at least poll_seconds.
WorkerFairness ==
    /\ WF_vars(MemoryStep)
    /\ \A j \in Jobs : SF_vars(Claim(j)) /\ WF_vars(JobDue(j))

\* Deletion further needs that external calls do not fail every time and that
\* the provider ends its tasks.
DeletionFairness ==
    /\ SF_vars(PollAnswered)
    /\ \A s \in Stores : SF_vars(Erase(s))
    /\ SF_vars(DeletionCheck)
    /\ WF_vars(DeletionComplete)
    /\ \A i \in Identities : SF_vars(DeletionClaim(i)) /\ WF_vars(DeletionDue(i))
    /\ WF_vars(\E t \in Tasks : RemoteAccept(t) \/ RemoteFinish(t))

QueueSpec == Spec /\ WorkerFairness
-----------------------------------------------------------------------------
(***************************************************************************)
(* Safety.                                                                 *)
(***************************************************************************)

\* While Add Message is under way its member is ACTIVE: deletion is never
\* scheduled past a submission in flight (submission_guard against schedule).
SubmitsOnlyForActive == wpc = "adding" => Active(Owner[wjob])

\* Once a member's memories have been erased, no row of the member waits for a
\* remote task any more, whatever was queued, claimed or retried before.
ErasedMeansQuiet ==
    \A i \in Identities : "memories" \in erased[i] => ~ HasSubmittedJobs(i)

\* The provider is left alone about a member who leaves: no Add Message is under way from
\* the moment of the schedule, and no task is polled once the memories are erased.
LeavingIsQuiet == SubmitsOnlyForActive /\ ErasedMeansQuiet

\* After the erasure the only requests that may still store, or have since
\* stored, a memory of the member are the ones the queue gave up knowing:
\* their answer was lost, the worker was cut short while waiting for it, or
\* the poll limit dropped their task id while the member was still active.
WriteBackOnlyFromOrphans ==
    \A t \in Tasks :
        /\ "memories" \in erased[TaskOwner(t)]
        /\ remote[t] \in {"sent", "running"} \/ t \in memories
        => t \in orphaned

\* A member who stays keeps every memory the provider has stored, whoever else
\* is deleted meanwhile.
KeepsMemoriesOfActive ==
    \A t \in Tasks :
        Active(TaskOwner(t)) /\ remote[t] = "completed" => t \in memories

\* Two requests for one turn can both store a memory only if the queue gave up
\* knowing one of them: a retry never races a task that is still known.
NoDuplicateWrite ==
    \A t, u \in Tasks :
        /\ t # u /\ t[1] = u[1]
        /\ remote[t] \in MayWrite /\ remote[u] \in MayWrite
        => t \in orphaned \/ u \in orphaned

\* A row is completed only when its provider task is, and is given up for a
\* member who stays only when its attempts are used up.
OutcomeIsTrue ==
    \A j \in Jobs :
        /\ status[j] = "completed" =>
              task[j] # 0 /\ remote[<<j, task[j]>>] = "completed"
        /\ status[j] = "failed" /\ Active(Owner[j]) => attempts[j] >= MaxAttempts

\* Claims beyond max_attempts come from claims cut short alone, one for each.
AttemptBudget == \A j \in Jobs : attempts[j] <= MaxAttempts + faults

\* The outcome of a row is true and its attempts are accounted for, through every crash,
\* lost answer, expired lease and retry.
OutcomeIsEarned == OutcomeIsTrue /\ AttemptBudget

\* A member's row goes only when every store has been erased, also when
\* erasing was retried, cut short and started over.
RemovedOnlyWhenErased ==
    \A i \in Identities : identity[i] = "deleted" => erased[i] = Stores

(***************************************************************************)
(* The inductive invariant behind the safety properties.                   *)
(***************************************************************************)

\* A turn not yet enqueued has left no trace.
FutureJobsUntouched ==
    \A j \in Jobs : j >= nextTurn =>
        status[j] = "absent" /\ attempts[j] = 0 /\ task[j] = 0

\* A row holds a task id when it is submitted and none before.  A member that
\* is not ACTIVE has submitted rows at most.
RowShape ==
    \A j \in Jobs :
        /\ status[j] \in {"pending", "processing"} =>
              task[j] = 0 /\ Active(Owner[j])
        /\ status[j] = "submitted" => task[j] # 0
        /\ status[j] = "processing" => attempts[j] # 0

\* What the worker may rely on in submission_guard: the row it writes to is
\* still there, as it was claimed.
WorkerShape ==
    /\ wpc = "adding" => status[wjob] = "processing"
    /\ wpc = "polling" => status[wjob] = "submitted"
    /\ wpc = "claimed" /\ task[wjob] # 0 => status[wjob] = "submitted"

\* A row that can be claimed for an attempt has an attempt left, or was last
\* claimed by a worker that was cut short.
AttemptsLeft ==
    \A j \in Jobs :
        /\ status[j] = "pending" => attempts[j] < MaxAttempts
        /\ status[j] = "processing" /\ wjob # j =>
              attempts[j] < MaxAttempts + faults

\* A request that may store a memory is known by its row, is being waited for
\* or is an orphan; while it is under way, the row it is known by is submitted.
KnownRequest(t) == task[t[1]] = t[2]
InHand(t) == wpc = "adding" /\ t = ThisTask

RequestsAccounted ==
    \A t \in Tasks : t \notin orphaned =>
        /\ remote[t] \in MayWrite => KnownRequest(t) \/ InHand(t)
        /\ remote[t] \in {"sent", "running"} =>
              InHand(t) \/ (KnownRequest(t) /\ status[t[1]] = "submitted")

\* The request an attempt is about to make has not been made before, and only
\* completed requests have stored a memory.
RequestsFresh ==
    \A t \in Tasks :
        /\ remote[t] # "none" =>
              /\ t[2] <= attempts[t[1]]
              /\ ~ (wpc = "claimed" /\ task[wjob] = 0 /\ t = ThisTask)
        /\ t \in memories => remote[t] = "completed"

\* Which stores are erased in each phase of a deletion, and when no submitted
\* row of the member can be left.
ErasedBefore(pc) ==
    CASE pc \in {"check", "memories"} -> {"voiceprint"}
      [] pc = "profile"  -> {"voiceprint", "memories"}
      [] pc = "dialogue" -> {"voiceprint", "memories", "profile"}
      [] pc = "complete" -> Stores
      [] OTHER -> {}

DeletionShape ==
    /\ \A i \in Identities :
          dstatus[i] # "none" \/ erased[i] # {} => ~ Active(i)
    /\ dpc # "idle" => ~ Active(dident)
    /\ ErasedBefore(dpc) \subseteq erased[dident]
    /\ dpc \in {"memories", "profile", "dialogue", "complete"} =>
          ~ HasSubmittedJobs(dident)

Inductive ==
    /\ TypeOK
    /\ FutureJobsUntouched /\ RowShape /\ WorkerShape
    /\ AttemptsLeft /\ AttemptBudget
    /\ RequestsAccounted /\ RequestsFresh
    /\ DeletionShape
    /\ ErasedMeansQuiet /\ WriteBackOnlyFromOrphans
    /\ OutcomeIsTrue /\ RemovedOnlyWhenErased

(***************************************************************************)
(* Action properties.                                                      *)
(***************************************************************************)

\* A job that has ended is never taken up again; its row can only go with the
\* member.
EndedStaysEnded ==
    [][\A j \in Jobs :
         status[j] \in {"completed", "failed"} =>
             status'[j] \in {status[j], "absent"}]_vars

\* As long as a row keeps its task id, the polls spent on it are never given
\* back, in particular not by a crash.
PollBudgetIsKept ==
    [][\A j \in Jobs :
         task[j] # 0 /\ task'[j] = task[j] => polls'[j] >= polls[j]]_vars

\* A member being deleted keeps waiting for a task that may still store a
\* memory: no poll budget, error or retry lets the row forget it.
DeletionKeepsTask ==
    [][\A j \in Jobs :
         /\ identity[Owner[j]] = "deletion_pending"
         /\ status[j] \in InProgress /\ task[j] # 0
         /\ remote[<<j, task[j]>>] \in {"sent", "running"}
         => status'[j] \in InProgress /\ task'[j] = task[j]]_vars

\* A row never goes back: an ended job stays ended, the polls spent on a task are
\* kept, and a member being deleted keeps waiting for a task under way.
RowsMoveForward == EndedStaysEnded /\ PollBudgetIsKept /\ DeletionKeepsTask

(***************************************************************************)
(* What the two queues implement.                                          *)
(***************************************************************************)

Erasure == INSTANCE MemberErasure WITH
    life <- identity,
    cleared <- erased,
    submitting <- IF wpc = "adding" THEN {Owner[wjob]} ELSE {},
    waiting <- {i \in Identities : HasSubmittedJobs(i)}

\* Whatever is retried, lost, cut short or restarted, the queues do no more than
\* MemberErasure allows: a member leaves only between submissions (submission_guard
\* against schedule), is never submitted for again, loses the memories when no task
\* is waited for, and the row last (_process of identity/deletion.py).
ImplementsErasure == Erasure!Spec

(***************************************************************************)
(* Liveness.                                                               *)
(***************************************************************************)

\* A queued job ends or its member is deleted, even when the provider never
\* ends the remote task and every call to it fails.
JobsEnd ==
    \A j \in Jobs :
        status[j] \in Open ~> status[j] \notin Open \/ ~ Active(Owner[j])

\* A member whose deletion was accepted is removed in the end, provided external
\* calls do not fail for ever and the provider ends its tasks.
DeletionEnds ==
    DeletionFairness =>
        \A i \in Identities :
            identity[i] = "deletion_pending" ~> identity[i] = "deleted"

(***************************************************************************)
(* What the documentation says and the code does not keep.                 *)
(***************************************************************************)

\* docs/architecture.md: checking submitted tasks before the provider is
\* cleaned keeps a memory from being written back afterwards.
NoWriteBack ==
    \A t \in memories : "memories" \notin erased[TaskOwner(t)]

\* docs/architecture.md: a memory is submitted max_attempts times at most.
SubmissionsBounded ==
    \A j \in Jobs :
        Cardinality({t \in Tasks : t[1] = j /\ remote[t] # "none"}) <= MaxAttempts
=============================================================================
