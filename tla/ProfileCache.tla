---------------------------- MODULE ProfileCache ----------------------------
(***************************************************************************)
(* The profile of one member: the copy MemOS keeps, the caches of the      *)
(* connections that load it in the background, and the edits of the memory *)
(* center that are written through and handed to every open cache.         *)
(*                                                                         *)
(* A profile is the number of edits it contains. A request to MemOS is two *)
(* steps: it takes effect there, its answer arrives here.                  *)
(***************************************************************************)
EXTENDS Integers

CONSTANTS
    Caches,     \* connections of the member's device
    Editors,    \* PATCH requests, each used once
    MaxOutages  \* bound: requests MemOS fails

ASSUME ProfileAssumption == MaxOutages \in Nat

VARIABLES
    stored,     \* edits in the profile MemOS keeps
    bound,      \* the template is bound to the member
    snapshots,  \* [Caches -> the edits its snapshot contains, None for no snapshot]
    load,       \* [Caches -> the step of _load and the answer it waits for]
    retryAfter, \* [Caches -> perf_counter() < _retry_after]
    alive,      \* [Caches -> new, open or closed]
    editor,     \* [Editors -> the step of update_profile and the answer it waits for]
    outages,    \* requests MemOS failed
    suspect     \* history: caches that an edit may have passed unseen

None == -1
atMemOS == <<stored, bound, outages>>
profileVars == <<atMemOS, snapshots, load, retryAfter, alive, editor, suspect>>

NoLoad == [step |-> "none", answer |-> None]

ProfileInit ==
    /\ stored = 0 /\ bound \in BOOLEAN /\ outages = 0
    /\ snapshots = [c \in Caches |-> None] /\ load = [c \in Caches |-> NoLoad]
    /\ retryAfter = [c \in Caches |-> FALSE] /\ alive = [c \in Caches |-> "new"]
    /\ editor = [e \in Editors |-> NoLoad]
    /\ suspect = {}

(***************************************************************************)
(* SessionProfileCache and prepare_profile                                 *)
(***************************************************************************)
Due(c) == alive[c] = "open" /\ load[c] = NoLoad /\ snapshots[c] = None /\ ~retryAfter[c]

OpenCache(c) ==
    /\ alive[c] = "new" /\ alive' = [alive EXCEPT ![c] = "open"]
    /\ UNCHANGED <<atMemOS, snapshots, load, retryAfter, editor, suspect>>

LoadReads(c, step) == load' = [load EXCEPT ![c] = [step |-> step, answer |-> None]]

\* schedule: prefetch, a turn that finds no snapshot, a speaker recognised
Schedule(c) ==
    /\ Due(c) /\ LoadReads(c, "get")
    /\ UNCHANGED <<atMemOS, snapshots, retryAfter, alive, editor, suspect>>

\* _load_profile takes effect: the profile, or nothing when it is not bound
Answered(c) ==
    /\ load[c].step \in {"get", "check", "reget"}
    /\ \/ bound /\ load' = [load EXCEPT ![c] = [step |-> "got", answer |-> stored]]
       \/ ~bound /\ load[c].step = "get" /\ LoadReads(c, "bind")
       \/ ~bound /\ load[c].step = "check" /\ LoadReads(c, "fail")
    /\ UNCHANGED <<atMemOS, snapshots, retryAfter, alive, editor, suspect>>

\* mutant: a bind that loses to another session fails the load
LostBind_fails == "fail"

\* the profile another session bound meanwhile is looked for before giving up
LostBind == "check"

\* MemOS refuses to bind twice
Bound(c) ==
    /\ load[c].step = "bind" /\ bound' = TRUE
    /\ LoadReads(c, IF bound THEN LostBind ELSE "reget")
    /\ UNCHANGED <<stored, outages, snapshots, retryAfter, alive, editor, suspect>>

Outage(c) ==
    /\ load[c].step \in {"get", "bind", "check", "reget", "got"} /\ outages < MaxOutages
    /\ outages' = outages + 1 /\ LoadReads(c, IF load[c].step = "bind" THEN "check" ELSE "fail")
    /\ bound' \in IF load[c].step = "bind" THEN {bound, TRUE} ELSE {bound}
    /\ UNCHANGED <<stored, snapshots, retryAfter, alive, editor, suspect>>

\* _load ends: the snapshot, or the delay before the next try
LoadEnds(c) ==
    /\ load[c].step \in {"got", "fail"}
    /\ load' = [load EXCEPT ![c] = NoLoad]
    /\ IF load[c].step = "got"
         THEN /\ snapshots' = [snapshots EXCEPT ![c] = load[c].answer]
              /\ retryAfter' = [retryAfter EXCEPT ![c] = FALSE]
         ELSE retryAfter' = [retryAfter EXCEPT ![c] = TRUE] /\ UNCHANGED snapshots
    /\ UNCHANGED <<atMemOS, alive, editor, suspect>>

RetryDue(c) ==
    /\ retryAfter[c] /\ retryAfter' = [retryAfter EXCEPT ![c] = FALSE]
    /\ UNCHANGED <<atMemOS, snapshots, load, alive, editor, suspect>>

\* close: loads are cancelled, later snapshots are not taken
CloseCache(c) ==
    /\ alive[c] = "open" /\ alive' = [alive EXCEPT ![c] = "closed"]
    /\ load' = [load EXCEPT ![c] = NoLoad]
    /\ UNCHANGED <<atMemOS, snapshots, retryAfter, editor, suspect>>

(***************************************************************************)
(* update_profile and ProfileCacheCoordinator                              *)
(***************************************************************************)
\* an answer read before the edit may arrive after it
Passed == {c \in Caches : load[c].step = "got"}
             \cup {c \in Caches : \E e \in Editors : editor[e].step = "got"}

EditStored(e) ==
    /\ editor[e] = NoLoad /\ bound
    /\ stored' = stored + 1
    /\ editor' = [editor EXCEPT ![e].step = "stored"]
    /\ suspect' = suspect \cup Passed
    /\ UNCHANGED <<bound, outages, snapshots, load, retryAfter, alive>>

EditRead(e) ==
    /\ editor[e].step = "stored"
    /\ editor' = [editor EXCEPT ![e] = [step |-> "got", answer |-> stored]]
    /\ UNCHANGED <<atMemOS, snapshots, load, retryAfter, alive, suspect>>

\* the edit is stored, its profile cannot be read: no cache hears of it
EditOutage(e) ==
    /\ editor[e].step \in {"stored", "got"} /\ outages < MaxOutages /\ outages' = outages + 1
    /\ editor' = [editor EXCEPT ![e].step = "done"]
    /\ suspect' = Caches
    /\ UNCHANGED <<stored, bound, snapshots, load, retryAfter, alive>>

\* mutant: only the caches without a snapshot take it
Updated_missing(e) == [c \in Caches |->
    IF alive[c] = "open" /\ snapshots[c] = None THEN editor[e].answer ELSE snapshots[c]]

\* update: every open cache of the device takes the snapshot
Updated(e) == [c \in Caches |-> IF alive[c] = "open" THEN editor[e].answer ELSE snapshots[c]]

EditTold(e) ==
    /\ editor[e].step = "got"
    /\ editor' = [editor EXCEPT ![e].step = "done"]
    /\ snapshots' = Updated(e)
    /\ retryAfter' = [c \in Caches |-> IF alive[c] = "open" THEN FALSE ELSE retryAfter[c]]
    /\ UNCHANGED <<atMemOS, load, alive, suspect>>

ProfileNext ==
    \/ \E c \in Caches : \/ OpenCache(c) \/ Schedule(c) \/ Answered(c) \/ Bound(c) \/ Outage(c)
                         \/ LoadEnds(c) \/ RetryDue(c) \/ CloseCache(c)
    \/ \E e \in Editors : EditStored(e) \/ EditRead(e) \/ EditOutage(e) \/ EditTold(e)

ProfileSpec == ProfileInit /\ [][ProfileNext]_profileVars

(***************************************************************************)
(* Properties.                                                             *)
(***************************************************************************)
\* What the variables hold.
ProfileTypeOK ==
    /\ stored \in Nat /\ bound \in BOOLEAN /\ outages \in 0 .. MaxOutages
    /\ snapshots \in [Caches -> None .. stored]
    /\ load \in [Caches -> [step : {"none", "get", "bind", "check", "reget", "got", "fail"},
                            answer : None .. stored]]
    /\ retryAfter \in [Caches -> BOOLEAN] /\ alive \in [Caches -> {"new", "open", "closed"}]
    /\ editor \in [Editors -> [step : {"none", "stored", "got", "done"}, answer : None .. stored]]
    /\ suspect \subseteq Caches

\* An open connection never talks with a profile older than an edit that was answered, but
\* for the windows the code leaves: an answer read before the edit that arrives after it,
\* and an edit stored whose profile could not be read back. And a load fails only when MemOS
\* did: sessions that bind the same member at once do not fail each other.
ProfileFollowsEdits ==
    /\ \A c \in Caches \ suspect :
         alive[c] = "open" /\ snapshots[c] # None /\ (\A e \in Editors : editor[e].step \in {"none", "done"})
            => snapshots[c] = stored
    /\ outages = 0 => \A c \in Caches : load[c].step # "fail" /\ ~retryAfter[c]

=============================================================================
