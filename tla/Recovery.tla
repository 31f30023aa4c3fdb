------------------------------- MODULE Recovery -------------------------------
(***************************************************************************)
(* Attempts to recover a device by its code: the requests of one client,   *)
(* the limiter they all pass, in memory or in the database, and the clear  *)
(* that follows a success. In memory a check has no await; in the database *)
(* it is a transaction of two steps, and its time is read before it waits. *)
(***************************************************************************)
EXTENDS Integers, Sequences, FiniteSets

CONSTANTS
    LastAttempt,    \* bound: recovery requests, numbered as they arrive
    MaxAttempts,    \* max_attempts
    Window,         \* window_seconds
    Wait,           \* bound: what a check waits for the lock of its row
    LastTime        \* bound: the clock

ASSUME RecoveryAssumption ==
    /\ LastAttempt \in Nat /\ LastTime \in Nat /\ MaxAttempts \in Nat \ {0}
    /\ Window \in Nat \ {0} /\ Wait \in 0 .. Window

VARIABLES
    store,      \* the limiter: memory or database
    clock,
    asked,      \* [Attempts -> the step of recover_device and the time it read]
    times,      \* _attempts of the client, the oldest first
    limitRow,   \* the client's row in recovery_rate_limits
    passed      \* history: times of the attempts let through since the last clear

Attempts == 1 .. LastAttempt
Arrives(a) == asked[a].at = "none" /\ \A b \in 1 .. a - 1 : asked[b].at # "none"
recoveryVars == <<store, clock, asked, times, limitRow, passed>>

NoLimit == [exists |-> FALSE, since |-> 0, count |-> 0]

RecoveryInit ==
    /\ store \in {"memory", "database"} /\ clock = 0
    /\ asked = [a \in Attempts |-> [at |-> "none", now |-> 0]]
    /\ times = <<>> /\ limitRow = NoLimit /\ passed = <<>>

Tick ==
    /\ clock < LastTime /\ clock' = clock + 1
    /\ \A a \in Attempts : asked[a].at = "inserted" => clock < asked[a].now + Wait
    /\ UNCHANGED <<store, asked, times, limitRow, passed>>

Goes(a, to) == asked' = [asked EXCEPT ![a] = [at |-> to, now |-> 0]]

LetThrough(a) == Goes(a, "passed") /\ passed' = Append(passed, clock)
Refused(a) == Goes(a, "refused") /\ UNCHANGED passed

\* with more than 1024 clients, those are dropped whose last attempt is outside the
\* window; other clients decide when
\* mutant: those whose first attempt is
Pruned_first(ts) == IF ts # <<>> /\ ts[1] > clock - Window THEN ts ELSE <<>>

Pruned(ts) == IF ts # <<>> /\ ts[Len(ts)] > clock - Window THEN ts ELSE <<>>

\* popleft: the first n of the attempts, and no more, are outside the window
Expired(ts, n) ==
    /\ \A i \in 1 .. n : ts[i] <= clock - Window
    /\ n < Len(ts) => ts[n + 1] > clock - Window

CheckInMemory(a) ==
    /\ store = "memory" /\ Arrives(a)
    /\ \E kept \in {times, Pruned(times)} : \E n \in 0 .. Len(kept) :
        /\ Expired(kept, n)
        /\ LET recent == SubSeq(kept, n + 1, Len(kept))
           IN  IF Len(recent) >= MaxAttempts
                 THEN Refused(a) /\ times' = recent
                 ELSE LetThrough(a) /\ times' = Append(recent, clock)
    /\ UNCHANGED <<store, clock, limitRow>>

\* the row is inserted unless it exists
CheckInserts(a) ==
    /\ store = "database" /\ Arrives(a)
    /\ asked' = [asked EXCEPT ![a] = [at |-> "inserted", now |-> clock]]
    /\ limitRow' = IF limitRow.exists THEN limitRow ELSE [exists |-> TRUE, since |-> clock, count |-> 0]
    /\ UNCHANGED <<store, clock, times, passed>>

\* mutant: a window that has passed is not started again, its attempts are forgotten
Renewed_since(row, now) == IF row.since <= now - Window THEN [row EXCEPT !.count = 0] ELSE row

Renewed(row, now) == IF row.since <= now - Window THEN [row EXCEPT !.since = now, !.count = 0] ELSE row

\* the row under its lock; a clear between the two steps has deleted it
CheckCounts(a) ==
    /\ asked[a].at = "inserted"
    /\ IF ~limitRow.exists THEN Goes(a, "failed") /\ UNCHANGED <<limitRow, passed>>
       ELSE LET row == Renewed(limitRow, asked[a].now)
            IN  IF row.count >= MaxAttempts
                  THEN Refused(a) /\ UNCHANGED limitRow
                  ELSE LetThrough(a) /\ limitRow' = [row EXCEPT !.count = @ + 1]
    /\ UNCHANGED <<store, clock, times>>

\* a wrong code ends the request; the right one gives the device and clears the limit
CodeIsRight(a) ==
    /\ asked[a].at = "passed" /\ Goes(a, "recovered")
    /\ times' = <<>> /\ limitRow' = NoLimit /\ passed' = <<>>
    /\ UNCHANGED <<store, clock>>

RecoveryNext ==
    \/ Tick
    \/ \E a \in Attempts : \/ CheckInMemory(a) \/ CheckInserts(a) \/ CheckCounts(a)
                           \/ CodeIsRight(a)

RecoverySpec == RecoveryInit /\ [][RecoveryNext]_recoveryVars

(***************************************************************************)
(* Properties.                                                             *)
(***************************************************************************)
\* What the variables hold.
RecoveryTypeOK ==
    /\ store \in {"memory", "database"} /\ clock \in 0 .. LastTime
    /\ asked \in [Attempts -> [at : {"none", "inserted", "passed", "refused", "failed", "recovered"},
                              now : 0 .. LastTime]]
    /\ times \in Seq(0 .. LastTime) /\ Len(times) <= MaxAttempts
    /\ limitRow \in [exists : BOOLEAN, since : 0 .. LastTime, count : 0 .. MaxAttempts]
    /\ passed \in Seq(0 .. LastTime)

\* Since the last success, no interval of the window's length lets more than max_attempts
\* through in memory, whatever is pruned; the fixed window of the database lets at most twice
\* as many through, in an interval shorter by what a check waits.
RateIsLimited ==
    LET span == IF store = "memory" THEN Window ELSE Window - Wait
        most == IF store = "memory" THEN MaxAttempts ELSE 2 * MaxAttempts
    IN  \A i \in DOMAIN passed :
            Cardinality({j \in DOMAIN passed : passed[i] - span < passed[j] /\ passed[j] <= passed[i]}) <= most

=============================================================================
