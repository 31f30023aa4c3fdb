------------------------ MODULE DialogueWritesProofs ------------------------
(***************************************************************************)
(* DialogueWrites for any number of connections, members and turns: what a *)
(* clear and a deletion take from the database does not come back, and the *)
(* windows of a device agree. The inductive invariant says who may hold    *)
(* the lock, and that an input the scope still permits was accepted since  *)
(* the last clear, but while a clear has yet to count the rows it deleted. *)
(***************************************************************************)
EXTENDS DialogueWrites, FiniteSetTheorems, WellFoundedInduction, TLAPS

\* A nonempty set of numbers has a least element.
LEMMA LeastOfNat ==
  ASSUME NEW S, S \subseteq Nat, S # {}
  PROVE  \E x \in S : \A y \in S : x <= y
<1> DEFINE R == OpToRel(<, Nat)
<1>1. R = {ss \in Nat \X Nat : ss[1] < ss[2]}
  BY Zenon DEF OpToRel
<1>2. IsWellFoundedOn(R, Nat)
  <2> HIDE DEF R
  <2> QED BY NatLessThanWellFounded DEF R
<1> HIDE DEF R
<1>3. \A a, b \in Nat : a < b => <<a, b>> \in R
  BY <1>1
<1>4. PICK x \in S : \A y \in S : ~ (<<y, x>> \in R)
  BY <1>2, WFMin
<1>5. \A y \in S : ~ (y < x)
  BY <1>3, <1>4
<1>6. \A y \in S : x <= y
  BY <1>5
<1> QED BY <1>6

\* start_turn takes the next number, one that is not in use.
LEMMA MinOfFresh ==
  ASSUME FreshTurns # {}, MaxTurns \in Nat
  PROVE  Min(FreshTurns) \in FreshTurns
<1>1. FreshTurns \subseteq Nat
  BY DEF FreshTurns, Turn
<1>2. \E x \in FreshTurns : \A y \in FreshTurns : x <= y
  BY <1>1, LeastOfNat
<1> QED BY <1>2 DEF Min

\* A deque(maxlen=n) keeps at most n of what is appended, and nothing else.
LEMMA LatestBounded ==
  ASSUME NEW S, S \subseteq Turn, NEW n \in Nat, MaxTurns \in Nat
  PROVE  /\ Latest(S, n) \subseteq S
         /\ IsFiniteSet(Latest(S, n)) /\ Cardinality(Latest(S, n)) <= n
<1> DEFINE L == Latest(S, n)
<1>1. IsFiniteSet(S) /\ IsFiniteSet(L) /\ L \subseteq S
  <2>1. IsFiniteSet(Turn)
    BY FS_Interval DEF Turn
  <2>2. L \subseteq S
    BY DEF Latest
  <2> QED BY <2>1, <2>2, FS_Subset
<1>2. CASE L = {}
  BY <1>2, FS_EmptySet
<1>3. CASE L # {}
  <2>1. PICK x \in L : \A y \in L : x <= y
    <3>1. L \subseteq Nat
      <4> HIDE DEF L
      <4> QED BY <1>1 DEF Turn
    <3> QED BY <1>3, <3>1, LeastOfNat
  <2> DEFINE U == {u \in S : u > x}
  <2>2. L \ {x} \subseteq U
    <3> HIDE DEF L
    <3> QED BY <1>1, <2>1 DEF Turn
  <2>3. IsFiniteSet(U) /\ Cardinality(U) < n
    BY <1>1, <2>1, FS_Subset DEF Latest
  <2>4. IsFiniteSet(L \ {x}) /\ Cardinality(L \ {x}) <= Cardinality(U)
    BY <2>2, <2>3, FS_Subset
  <2>5. Cardinality(L \ {x}) = Cardinality(L) - 1
    BY <1>1, <2>1, FS_RemoveElement
  <2>6. Cardinality(L) \in Nat /\ Cardinality(U) \in Nat
    BY <1>1, <2>3, FS_CardinalityType
  <2> HIDE DEF L, U
  <2>7. Cardinality(L) <= n
    BY <2>3, <2>4, <2>5, <2>6
  <2> QED BY <1>1, <2>7 DEF L
<1> QED BY <1>2, <1>3

\* A window from which exchanges were taken is within its bound.
LEMMA SubsetBounded ==
  ASSUME NEW S, S \subseteq Turn, Cardinality(S) <= WindowSize, NEW T, T \subseteq S
  PROVE  Cardinality(T) <= WindowSize
<1>1. IsFiniteSet(Turn)
  BY DialogueAssumption, FS_Interval DEF Turn
<1>2. IsFiniteSet(S) /\ IsFiniteSet(T)
  BY <1>1, FS_Subset
<1>3. Cardinality(T) <= Cardinality(S) /\ Cardinality(T) \in Nat /\ Cardinality(S) \in Nat
  BY <1>2, FS_Subset, FS_CardinalityType
<1> QED BY <1>3, DialogueAssumption

\* Cancelled turns are turns.
LEMMA EndedTasks ==
  ASSUME TasksOK, NEW S
  PROVE  Ended(S) \in [Turn -> Task]
<1>1. \A t \in Turn : [turn[t] EXCEPT !.phase = "ended"] \in Task
  BY DEF TasksOK, Task, Phases
<1> QED BY <1>1 DEF Ended, TasksOK

\* What cancelled turns leave in the database and at the lock has its type.
LEMMA LeftBehindTypes ==
  ASSUME DatabaseOK, GuardOK, NEW S, LeftBehind(S)
  PROVE  row' \in [Turn -> {"none", "user", "full"}] /\ lock' \in {Nobody} \cup Holders
<1>1. row' \in [Turn -> {"none", "user", "full"}]
  BY DEF DatabaseOK, LeftBehind
<1>2. lock' \in {Nobody} \cup Holders
  BY DEF GuardOK, LeftBehind
<1> QED BY <1>1, <1>2

\* Windows that only lose exchanges stay well-formed.
LEMMA WindowsKept ==
  ASSUME WindowsOK, window' \in [Connections -> SUBSET Turn], answered' \in [Connections -> SUBSET Turn],
         \A c \in Connections : window'[c] \subseteq window[c] /\ answered'[c] \subseteq window'[c]
  PROVE  WindowsOK'
BY SubsetBounded DEF WindowsOK

\* remove_identity leaves the windows and the scope well-formed.
LEMMA ForgetTypes ==
  ASSUME WindowsOK, GuardOK, NEW ms, ms \subseteq Members, Forget(ms)
  PROVE  WindowsOK' /\ scope' \in [revision : Nat, removed : SUBSET Members]
<1>1. window' \in [Connections -> SUBSET Turn] /\ answered' \in [Connections -> SUBSET Turn]
  BY DEF Forget, WindowsOK
<1>2. \A c \in Connections : window'[c] \subseteq window[c] /\ answered'[c] \subseteq window'[c]
  BY DEF Forget, WindowsOK
<1>3. WindowsOK'
  BY <1>1, <1>2, WindowsKept
<1>4. scope' \in [revision : Nat, removed : SUBSET Members]
  BY DEF Forget, GuardOK, FreshScope
<1> QED BY <1>3, <1>4

\* the parts of the type invariant no action touches stay as they are
LEMMA TypesKept ==
  ASSUME DialogueTypeOK
  PROVE  /\ UNCHANGED opening => OpeningOK'
         /\ UNCHANGED windows => WindowsOK'
         /\ UNCHANGED requests => RequestsOK'
         /\ UNCHANGED tasks => TasksOK'
         /\ UNCHANGED guard => GuardOK'
         /\ UNCHANGED members => MembersOK'
         /\ UNCHANGED database => DatabaseOK'
BY DEF DialogueTypeOK, opening, windows, requests, tasks, guard, members, database,
       OpeningOK, WindowsOK, RequestsOK, TasksOK, GuardOK, MembersOK, DatabaseOK

\* Opening and closing a connection keep the types.
LEMMA OpeningTypes ==
  ASSUME DialogueTypeOK, NEW c \in Connections,
         OpenSnapshot(c) \/ ListMembers(c) \/ Register(c) \/ BeginClose(c) \/ EndClose(c)
  PROVE  DialogueTypeOK'
<1>0. OpeningOK /\ WindowsOK /\ RequestsOK /\ TasksOK /\ GuardOK /\ MembersOK /\ DatabaseOK
  BY DEF DialogueTypeOK
<1>1. CASE OpenSnapshot(c)
  <2>1. Readable \subseteq Turn
    BY DEF Readable, Latest, Stored
  <2>2. OpeningOK'
    BY <1>0, <1>1, <2>1 DEF OpenSnapshot, OpeningOK
  <2> QED BY <1>1, <2>2, TypesKept DEF OpenSnapshot, DialogueTypeOK
<1>2. CASE ListMembers(c)
  <2> DEFINE visible == {t \in snapshot[c].seen : IsActive(turn[t].who)}
  <2>1. visible \subseteq Turn /\ snapshot[c].full \subseteq Turn /\ snapshot[c].seen \subseteq Turn
    BY <1>0 DEF OpeningOK
  <2>2. {turn[t].who : t \in snapshot[c].seen \ visible} \subseteq Members
    BY <1>0, <2>1 DEF TasksOK, Task, IsActive
  <2>3. WindowsOK' /\ scope' \in [revision : Nat, removed : SUBSET Members]
    BY <1>0, <1>2, <2>2, ForgetTypes DEF ListMembers
  <2>4. GuardOK'
    BY <1>0, <1>2, <2>3 DEF ListMembers, GuardOK
  <2>5. OpeningOK'
    BY <1>0, <1>2, <2>1 DEF ListMembers, OpeningOK
  <2> QED BY <1>2, <2>3, <2>4, <2>5, TypesKept DEF ListMembers, DialogueTypeOK, members, database
<1>3. CASE Register(c)
  <2>1. snapshot[c].full \subseteq Turn /\ snapshot[c].seen \subseteq Turn
    BY <1>0 DEF OpeningOK
  <2> DEFINE own == Latest(snapshot[c].seen, WindowSize)
  <2>2. own \subseteq Turn /\ Cardinality(own) <= WindowSize
    BY <2>1, LatestBounded, DialogueAssumption
  <2>3. WindowsOK'
    <3> HIDE DEF own
    <3>1. CASE /\ window' = [window EXCEPT ![c] = own]
               /\ answered' = [answered EXCEPT ![c] = snapshot[c].full \cap own]
      BY <1>0, <2>2, <3>1 DEF WindowsOK
    <3>2. ASSUME NEW d \in Connections, window' = [window EXCEPT ![c] = window[d]],
                 answered' = [answered EXCEPT ![c] = answered[d]]
          PROVE  WindowsOK'
      BY <1>0, <3>2 DEF WindowsOK
    <3> QED BY <1>3, <3>1, <3>2 DEF Register, own, Registered
  <2>4. OpeningOK'
    BY <1>0, <1>3 DEF Register, OpeningOK
  <2> QED BY <1>3, <2>3, <2>4, TypesKept DEF Register, DialogueTypeOK
<1>4. CASE BeginClose(c)
  <2>1. OpeningOK' /\ RequestsOK'
    BY <1>0, <1>4 DEF BeginClose, OpeningOK, RequestsOK
  <2> QED BY <1>4, <2>1, TypesKept DEF BeginClose, DialogueTypeOK
<1>5. CASE EndClose(c)
  <2>1. OpeningOK' /\ GuardOK'
    BY <1>0, <1>5 DEF EndClose, OpeningOK, GuardOK, FreshScope
  <2>2. WindowsOK'
    <3>1. window' \in [Connections -> SUBSET Turn] /\ answered' \in [Connections -> SUBSET Turn]
      BY <1>0, <1>5 DEF EndClose, WindowsOK
    <3>2. \A d \in Connections : window'[d] \subseteq window[d] /\ answered'[d] \subseteq window'[d]
      BY <1>0, <1>5 DEF EndClose, WindowsOK
    <3> QED BY <1>0, <3>1, <3>2, WindowsKept
  <2> QED BY <1>5, <2>1, <2>2, TypesKept DEF EndClose, DialogueTypeOK
<1> QED BY <1>1, <1>2, <1>3, <1>4, <1>5

\* Looking up a member, starting and cancelling a turn keep the types.
LEMMA TurnTypes ==
  ASSUME DialogueTypeOK, NEW c \in Connections,
         \/ CancelTurn(c) \/ StartTurn(c) \/ StartRefused(c)
         \/ \E m \in Members : LookUp(c, m)
  PROVE  DialogueTypeOK'
<1>0. OpeningOK /\ WindowsOK /\ RequestsOK /\ TasksOK /\ GuardOK /\ MembersOK /\ DatabaseOK
  BY DEF DialogueTypeOK
<1>1. CASE CancelTurn(c)
  <2>1. TasksOK'
    BY <1>0, <1>1, EndedTasks DEF CancelTurn, TasksOK
  <2>2. GuardOK' /\ DatabaseOK'
    BY <1>0, <1>1, LeftBehindTypes DEF CancelTurn, GuardOK, DatabaseOK
  <2> QED BY <1>1, <2>1, <2>2, TypesKept DEF CancelTurn, DialogueTypeOK
<1>2. CASE StartTurn(c)
  <2> DEFINE t == Min(FreshTurns)
  <2>1. t \in Turn
    BY <1>2, MinOfFresh, DialogueAssumption DEF StartTurn, FreshTurns
  <2>2. TasksOK'
    <3> DEFINE who == IF heard[c] = Nobody THEN Guest ELSE heard[c]
    <3>1. who \in Members \cup {Guest}
      BY <1>0 DEF RequestsOK
    <3>2. PICK phase \in {"streaming", "ended"} :
             turn' = [Ended(RunningOn(c)) EXCEPT ![t] =
                        [phase |-> phase, conn |-> c, who |-> who, revision |-> scope.revision,
                         epoch |-> epoch]]
      BY <1>2 DEF StartTurn
    <3> HIDE DEF who, t
    <3>3. [phase |-> phase, conn |-> c, who |-> who, revision |-> scope.revision, epoch |-> epoch] \in Task
      BY <1>0, <3>1 DEF Task, Phases, GuardOK, DatabaseOK
    <3>4. turn' \in [Turn -> Task]
      BY <1>0, <3>2, <3>3, EndedTasks
    <3>5. input' \in [Turn -> {"none", "wait", "append", "completed", "skipped", "failed"}]
      BY <1>0, <1>2, <2>1 DEF StartTurn, TasksOK, t
    <3> QED BY <3>4, <3>5 DEF TasksOK
  <2>3. GuardOK' /\ DatabaseOK'
    BY <1>0, <1>2, LeftBehindTypes DEF StartTurn, GuardOK, DatabaseOK
  <2>4. WindowsOK'
    <3>1. \A d \in Connections : /\ Latest(window[d] \cup {t}, WindowSize) \subseteq Turn
                                 /\ Cardinality(Latest(window[d] \cup {t}, WindowSize)) <= WindowSize
      <4> TAKE d \in Connections
      <4>1. window[d] \cup {t} \subseteq Turn
        BY <1>0, <2>1 DEF WindowsOK
      <4> QED BY <4>1, LatestBounded, DialogueAssumption
    <3>2. window' = Accepted(t) /\ answered' = [d \in Connections |-> answered[d] \cap window'[d]]
      BY <1>2 DEF StartTurn
    <3> HIDE DEF t
    <3>3. window' \in [Connections -> SUBSET Turn]
      BY <1>0, <3>1, <3>2 DEF Accepted, WindowsOK
    <3>4. \A d \in Connections : Cardinality(window'[d]) <= WindowSize
      BY <1>0, <3>1, <3>2 DEF Accepted, WindowsOK
    <3> QED BY <1>0, <3>2, <3>3, <3>4 DEF WindowsOK
  <2>5. RequestsOK'
    BY <1>0, <1>2 DEF StartTurn, RequestsOK
  <2> QED BY <1>2, <2>2, <2>3, <2>4, <2>5, TypesKept DEF StartTurn, DialogueTypeOK
<1>3. CASE StartRefused(c)
  <2>1. RequestsOK'
    BY <1>0, <1>3 DEF StartRefused, RequestsOK
  <2> QED BY <1>3, <2>1, TypesKept DEF StartRefused, DialogueTypeOK
<1>4. ASSUME NEW m \in Members, LookUp(c, m) PROVE DialogueTypeOK'
  <2>1. RequestsOK'
    BY <1>0, <1>4 DEF LookUp, RequestsOK
  <2> QED BY <1>4, <2>1, TypesKept DEF LookUp, DialogueTypeOK
<1> QED BY <1>1, <1>2, <1>3, <1>4

\* The steps of the input task and of the turn task keep the types.
LEMMA TaskTypes ==
  ASSUME DialogueTypeOK, NEW t \in Turn,
         \/ InputLocks(t) \/ InputAppends(t) \/ ReplyFails(t) \/ ReplyCompletes(t)
         \/ TurnCommits(t) \/ TurnLocks(t) \/ TurnCompletesRow(t)
  PROVE  DialogueTypeOK'
<1>0. OpeningOK /\ WindowsOK /\ RequestsOK /\ TasksOK /\ GuardOK /\ MembersOK /\ DatabaseOK
  BY DEF DialogueTypeOK
<1>0a. <<"input", t>> \in Holders /\ <<"turn", t>> \in Holders
  BY DEF Holders
<1>1. CASE InputLocks(t)
  <2>1. TasksOK' /\ GuardOK'
    BY <1>0, <1>0a, <1>1 DEF InputLocks, Settle, TasksOK, GuardOK
  <2> QED BY <1>1, <2>1, TypesKept DEF InputLocks, DialogueTypeOK
<1>2. CASE InputAppends(t)
  <2>1. TasksOK' /\ GuardOK' /\ DatabaseOK'
    BY <1>0, <1>2 DEF InputAppends, Settle, TasksOK, GuardOK, DatabaseOK
  <2> QED BY <1>2, <2>1, TypesKept DEF InputAppends, DialogueTypeOK
<1>3. ASSUME NEW phase \in Phases, Goes(t, phase), UNCHANGED input
      PROVE  TasksOK'
  <2>1. [turn[t] EXCEPT !.phase = phase] \in Task
    BY <1>0 DEF TasksOK, Task
  <2> QED BY <1>0, <1>3, <2>1 DEF Goes, TasksOK
<1>4. CASE ReplyFails(t)
  BY <1>3, <1>4, TypesKept DEF ReplyFails, DialogueTypeOK, Phases
<1>5. CASE ReplyCompletes(t)
  BY <1>3, <1>5, TypesKept DEF ReplyCompletes, DialogueTypeOK, Phases
<1>6. CASE TurnCommits(t)
  <2>1. TasksOK'
    BY <1>3, <1>6 DEF TurnCommits, Phases
  <2>2. WindowsOK'
    BY <1>0, <1>6 DEF TurnCommits, WindowsOK, Registered
  <2> QED BY <1>6, <2>1, <2>2, TypesKept DEF TurnCommits, DialogueTypeOK
<1>7. CASE TurnLocks(t)
  <2>1. TasksOK'
    BY <1>3, <1>7 DEF TurnLocks, Phases, database
  <2>2. GuardOK'
    BY <1>0, <1>0a, <1>7 DEF TurnLocks, GuardOK
  <2> QED BY <1>7, <2>1, <2>2, TypesKept DEF TurnLocks, DialogueTypeOK
<1>8. CASE TurnCompletesRow(t)
  <2>1. TasksOK'
    BY <1>3, <1>8 DEF TurnCompletesRow, Phases
  <2>2. GuardOK' /\ DatabaseOK'
    BY <1>0, <1>8 DEF TurnCompletesRow, CompleteRow, GuardOK, DatabaseOK
  <2> QED BY <1>8, <2>1, <2>2, TypesKept DEF TurnCompletesRow, DialogueTypeOK
<1> QED BY <1>1, <1>2, <1>4, <1>5, <1>6, <1>7, <1>8

\* The steps of clear_dialogue keep the types.
LEMMA ClearTypes ==
  ASSUME DialogueTypeOK, NEW c \in Connections,
         ClearBegins(c) \/ ClearLocks(c) \/ ClearDeletesRows(c) \/ ClearEmptiesWindows(c)
  PROVE  DialogueTypeOK'
<1>0. OpeningOK /\ WindowsOK /\ RequestsOK /\ TasksOK /\ GuardOK /\ MembersOK /\ DatabaseOK
  BY DEF DialogueTypeOK
<1>1. CASE ClearBegins(c)
  <2>1. TasksOK' /\ RequestsOK'
    BY <1>0, <1>1, EndedTasks DEF ClearBegins, TasksOK, RequestsOK
  <2>2. GuardOK' /\ DatabaseOK'
    BY <1>0, <1>1, LeftBehindTypes DEF ClearBegins, GuardOK, DatabaseOK
  <2> QED BY <1>1, <2>1, <2>2, TypesKept DEF ClearBegins, DialogueTypeOK
<1>2. CASE ClearLocks(c)
  <2>1. RequestsOK' /\ GuardOK'
    BY <1>0, <1>2 DEF ClearLocks, RequestsOK, GuardOK, Holders
  <2> QED BY <1>2, <2>1, TypesKept DEF ClearLocks, DialogueTypeOK
<1>3. CASE ClearDeletesRows(c)
  <2>1. RequestsOK' /\ GuardOK' /\ DatabaseOK'
    BY <1>0, <1>3 DEF ClearDeletesRows, RequestsOK, GuardOK, DatabaseOK, database
  <2> QED BY <1>3, <2>1, TypesKept DEF ClearDeletesRows, DialogueTypeOK
<1>4. CASE ClearEmptiesWindows(c)
  <2>1. RequestsOK' /\ GuardOK'
    BY <1>0, <1>4 DEF ClearEmptiesWindows, RequestsOK, GuardOK
  <2>2. WindowsOK'
    <3>1. window' \in [Connections -> SUBSET Turn] /\ answered' \in [Connections -> SUBSET Turn]
      BY <1>0, <1>4 DEF ClearEmptiesWindows, WindowsOK
    <3>2. \A d \in Connections : window'[d] \subseteq window[d] /\ answered'[d] \subseteq window'[d]
      BY <1>0, <1>4 DEF ClearEmptiesWindows, WindowsOK
    <3> QED BY <1>0, <3>1, <3>2, WindowsKept
  <2> QED BY <1>4, <2>1, <2>2, TypesKept DEF ClearEmptiesWindows, DialogueTypeOK
<1> QED BY <1>1, <1>2, <1>3, <1>4

\* The steps of a deletion keep the types.
LEMMA RemovalTypes ==
  ASSUME DialogueTypeOK, NEW m \in Members,
         ScheduleRemoval(m) \/ NoteRemoval(m) \/ WorkerLocks(m) \/ WorkerErases(m)
  PROVE  DialogueTypeOK'
<1>0. OpeningOK /\ WindowsOK /\ RequestsOK /\ TasksOK /\ GuardOK /\ MembersOK /\ DatabaseOK
  BY DEF DialogueTypeOK
<1>1. CASE ScheduleRemoval(m)
  <2>1. MembersOK'
    BY <1>0, <1>1 DEF ScheduleRemoval, MembersOK
  <2> QED BY <1>1, <2>1, TypesKept DEF ScheduleRemoval, DialogueTypeOK
<1>2. CASE NoteRemoval(m)
  <2>1. MembersOK'
    BY <1>0, <1>2 DEF NoteRemoval, MembersOK
  <2>2. WindowsOK' /\ GuardOK'
    BY <1>0, <1>2, ForgetTypes DEF NoteRemoval, GuardOK
  <2> QED BY <1>2, <2>1, <2>2, TypesKept DEF NoteRemoval, DialogueTypeOK
<1>3. CASE WorkerLocks(m)
  <2>1. MembersOK' /\ GuardOK'
    BY <1>0, <1>3 DEF WorkerLocks, MembersOK, GuardOK, Holders
  <2> QED BY <1>3, <2>1, TypesKept DEF WorkerLocks, DialogueTypeOK
<1>4. CASE WorkerErases(m)
  <2>1. GuardOK' /\ DatabaseOK'
    BY <1>0, <1>4 DEF WorkerErases, DropScope, FreshScope, GuardOK, DatabaseOK
  <2>2. MembersOK'
    BY <1>0, <1>4 DEF WorkerErases, MembersOK
  <2> QED BY <1>4, <2>1, <2>2, TypesKept DEF WorkerErases, DialogueTypeOK
<1> QED BY <1>1, <1>2, <1>3, <1>4

\* A restart keeps the types.
LEMMA RestartTypes ==
  ASSUME DialogueTypeOK, Restart
  PROVE  DialogueTypeOK'
<1>0. OpeningOK /\ WindowsOK /\ RequestsOK /\ TasksOK /\ GuardOK /\ MembersOK /\ DatabaseOK
  BY DEF DialogueTypeOK
<1>1. OpeningOK' /\ RequestsOK' /\ GuardOK'
  BY <1>0 DEF Restart, OpeningOK, RequestsOK, GuardOK, FreshScope
<1>2. WindowsOK'
  <2>1. \A c \in Connections : window'[c] = {} /\ answered'[c] = {}
    BY <1>0 DEF Restart
  <2>2. window' \in [Connections -> SUBSET Turn] /\ answered' \in [Connections -> SUBSET Turn]
    BY <1>0 DEF Restart
  <2> QED BY <1>0, <2>1, <2>2, WindowsKept
<1>3. TasksOK'
  BY <1>0, EndedTasks DEF Restart, TasksOK
<1>4. MembersOK'
  BY <1>0 DEF Restart, MembersOK
<1> QED BY <1>1, <1>2, <1>3, <1>4, TypesKept DEF Restart, DialogueTypeOK

\* The types hold at first.
LEMMA InitTypes == DialogueInit => DialogueTypeOK
<1> SUFFICES ASSUME DialogueInit PROVE DialogueTypeOK
  OBVIOUS
<1>1. OpeningOK /\ RequestsOK /\ GuardOK /\ MembersOK /\ DatabaseOK
  BY DEF DialogueInit, OpeningOK, RequestsOK, GuardOK, FreshScope, MembersOK, DatabaseOK
<1>2. TasksOK
  BY DEF DialogueInit, TasksOK, Unused, Task, Phases
<1>3. WindowsOK
  BY FS_EmptySet, DialogueAssumption DEF DialogueInit, WindowsOK
<1> QED BY <1>1, <1>2, <1>3 DEF DialogueTypeOK

\* Every step keeps the types.
LEMMA TypeStep ==
  ASSUME DialogueTypeOK, [DialogueNext]_dialogueVars
  PROVE  DialogueTypeOK'
<1>1. CASE UNCHANGED dialogueVars
  BY <1>1, TypesKept DEF dialogueVars, DialogueTypeOK
<1>2. CASE DialogueNext
  BY <1>2, OpeningTypes, TurnTypes, TaskTypes, ClearTypes, RemovalTypes, RestartTypes DEF DialogueNext
<1> QED BY <1>1, <1>2

\* Type correctness: in particular no window outgrows dialogue_max_turns, and an answer is
\* kept only with its input, for any number of connections, members, turns and clears.
THEOREM DialogueTypes == DialogueSpec => []DialogueTypeOK
<1>1. DialogueInit => DialogueTypeOK
  BY InitTypes
<1>2. DialogueTypeOK /\ [DialogueNext]_dialogueVars => DialogueTypeOK'
  BY TypeStep
<1> QED BY <1>1, <1>2, PTL DEF DialogueSpec

Pending(t) == input[t] \in {"wait", "append"}

\* the holder of the lock is the task that is between its acquisition and its release
LockShape ==
    /\ \A t \in Turn : input[t] = "append" => lock = <<"input", t>>
    /\ \A t \in Turn : turn[t].phase = "completing" => lock = <<"turn", t>>
    /\ \A c \in Connections : clearing[c] \in {"rows", "windows"} => lock = <<"clear", c>>
    /\ \A m \in Members : removal[m].worker = "locked" => lock = <<"worker", m>>

TaskShape ==
    \A t \in Turn :
        /\ turn[t].phase = "unused" => input[t] = "none" /\ row[t] = "none"
        /\ Pending(t) \/ Running(t) => turn[t].conn \in Registered

\* a pending input that the scope still permits was accepted since the last clear, but
\* while a clear that deleted the rows has yet to count it
RevisionShape ==
    \A t \in Turn : Pending(t) =>
        /\ turn[t].revision <= scope.revision
        /\ input[t] = "append" => turn[t].epoch = epoch
        /\ turn[t].revision = scope.revision /\ (\A c \in Connections : clearing[c] # "windows")
              => turn[t].epoch = epoch

RemovalShape ==
    \A m \in Members : removal[m].erased \/ removal[m].worker # "idle" => member[m] # "active"

DialogueInv ==
    /\ DialogueTypeOK /\ LockShape /\ TaskShape /\ RevisionShape /\ RemovalShape
    /\ ClearedStaysCleared /\ ErasedLeavesNoRow

\* Cancelling a set of turns changes their phase, and nothing else of them.
LEMMA EndedTurns ==
  ASSUME TasksOK, NEW S, NEW t \in Turn
  PROVE  /\ Ended(S)[t].phase = IF t \in S THEN "ended" ELSE turn[t].phase
         /\ Ended(S)[t].conn = turn[t].conn /\ Ended(S)[t].who = turn[t].who
         /\ Ended(S)[t].revision = turn[t].revision /\ Ended(S)[t].epoch = turn[t].epoch
BY DEF Ended, TasksOK, Task

\* Cancelled turns neither insert nor delete a row.
LEMMA LeftRows ==
  ASSUME DatabaseOK, NEW S, LeftBehind(S), NEW t \in Turn
  PROVE  row'[t] = "none" <=> row[t] = "none"
BY DEF DatabaseOK, LeftBehind, MayBeFull

\* only the tasks that are cancelled give the lock back
LEMMA LeftLock ==
  ASSUME NEW S, LeftBehind(S)
  PROVE  lock' = lock \/ \E t \in S : lock = <<"turn", t>>
BY DEF LeftBehind, Holds

\* A holder of the lock is somebody.
LEMMA HoldersAreNobody == Nobody \notin Holders
BY DialogueAssumption DEF Holders, Turn

\* Opening and closing: the scope is only dropped when no input is pending.
LEMMA OpeningInv ==
  ASSUME DialogueInv, NEW c \in Connections,
         OpenSnapshot(c) \/ ListMembers(c) \/ Register(c) \/ BeginClose(c) \/ EndClose(c)
  PROVE  DialogueInv'
<1>0. DialogueTypeOK /\ LockShape /\ TaskShape /\ RevisionShape /\ RemovalShape
      /\ ClearedStaysCleared /\ ErasedLeavesNoRow
  BY DEF DialogueInv
<1>0a. OpeningOK /\ TasksOK /\ GuardOK
  BY <1>0 DEF DialogueTypeOK
<1>1. UNCHANGED <<clearing, turn, input, member, removal, row, epoch, lock>>
  BY DEF OpenSnapshot, ListMembers, Register, BeginClose, EndClose,
         requests, tasks, members, database, guard
<1>2. DialogueTypeOK'
  BY <1>0, OpeningTypes
<1>3. LockShape' /\ RemovalShape' /\ ClearedStaysCleared' /\ ErasedLeavesNoRow'
  BY <1>0, <1>1 DEF LockShape, RemovalShape, ClearedStaysCleared, ErasedLeavesNoRow
<1>4. \A d \in Registered : d \in Registered' \/ (d = c /\ RunningOn(c) = {} /\ PendingOn(c) = {})
  BY <1>0a DEF OpenSnapshot, ListMembers, Register, BeginClose, EndClose, Registered, OpeningOK
<1>5. TaskShape'
  BY <1>0, <1>1, <1>4 DEF TaskShape, Pending, Running, RunningOn, PendingOn
<1>6. scope'.revision = scope.revision \/ \A t \in Turn : ~Pending(t)
  <2>1. CASE ListMembers(c)
    BY <1>0, <1>0a, <2>1 DEF ListMembers, Forget, ScopeHeld, TaskShape, GuardOK
  <2>2. CASE EndClose(c)
    BY <1>0, <1>0a, <2>2 DEF EndClose, TaskShape, PendingOn, Pending
  <2>3. CASE OpenSnapshot(c) \/ Register(c) \/ BeginClose(c)
    BY <2>3 DEF OpenSnapshot, Register, BeginClose, guard
  <2> QED BY <2>1, <2>2, <2>3
<1>7. RevisionShape'
  BY <1>0, <1>1, <1>6 DEF RevisionShape, Pending
<1> QED BY <1>2, <1>3, <1>5, <1>7 DEF DialogueInv

\* A turn starts: its input takes the revision and the clears of this moment.
LEMMA StartInv ==
  ASSUME DialogueInv, NEW c \in Connections, StartTurn(c)
  PROVE  DialogueInv'
<1>0. DialogueTypeOK /\ LockShape /\ TaskShape /\ RevisionShape /\ RemovalShape
      /\ ClearedStaysCleared /\ ErasedLeavesNoRow
  BY DEF DialogueInv
<1>0a. OpeningOK /\ TasksOK /\ GuardOK /\ DatabaseOK
  BY <1>0 DEF DialogueTypeOK
<1> DEFINE n == Min(FreshTurns)
           S == RunningOn(c)
<1>1. n \in Turn /\ turn[n].phase = "unused" /\ c \in Registered
  BY MinOfFresh, DialogueAssumption DEF StartTurn, FreshTurns, Registered
<1>2. UNCHANGED <<link, clearing, member, removal, scope, epoch>>
  BY DEF StartTurn, opening, members
<1>3. DialogueTypeOK'
  BY <1>0, TurnTypes
<1>4. LeftBehind(S)
  BY DEF StartTurn
<1>5. input' = [input EXCEPT ![n] = "wait"]
  BY DEF StartTurn
<1>6. /\ turn'[n].phase \in {"streaming", "ended"} /\ turn'[n].conn = c
      /\ turn'[n].revision = scope.revision /\ turn'[n].epoch = epoch
  BY <1>0a, <1>1, EndedTasks DEF StartTurn
<1>7. \A t \in Turn \ {n} : turn'[t] = Ended(S)[t]
  BY <1>0a, <1>1, EndedTasks DEF StartTurn
<1> HIDE DEF n, S
<1>8. \A t \in Turn \ {n} :
        /\ turn'[t].phase = IF t \in S THEN "ended" ELSE turn[t].phase
        /\ turn'[t].conn = turn[t].conn /\ turn'[t].who = turn[t].who
        /\ turn'[t].revision = turn[t].revision /\ turn'[t].epoch = turn[t].epoch
  BY <1>0a, <1>7, EndedTurns
<1>9. \A t \in Turn \ {n} : input'[t] = input[t]
  BY <1>0a, <1>1, <1>5 DEF TasksOK
<1>10. input'[n] = "wait" /\ row'[n] = "none"
  BY <1>0, <1>0a, <1>1, <1>4, <1>5, LeftRows DEF TasksOK, TaskShape
<1>11. lock' = lock \/ \E t \in S : lock = <<"turn", t>>
  BY <1>4, LeftLock
<1>12. LockShape'
  <2>1. S \subseteq Turn
    BY DEF S, RunningOn
  <2> QED BY <1>0, <1>1, <1>2, <1>6, <1>8, <1>9, <1>10, <1>11, <2>1 DEF LockShape
<1>13. TaskShape'
  BY <1>0, <1>0a, <1>1, <1>2, <1>4, <1>6, <1>8, <1>9, <1>10, LeftRows
     DEF TaskShape, Pending, Running, Registered
<1>14. RevisionShape'
  BY <1>0, <1>0a, <1>2, <1>6, <1>8, <1>9, <1>10 DEF RevisionShape, Pending, GuardOK
<1>15. RemovalShape'
  BY <1>0, <1>2 DEF RemovalShape
<1>16. ClearedStaysCleared' /\ ErasedLeavesNoRow'
  BY <1>0, <1>0a, <1>2, <1>4, <1>8, <1>10, LeftRows DEF ClearedStaysCleared, ErasedLeavesNoRow
<1> QED BY <1>3, <1>12, <1>13, <1>14, <1>15, <1>16 DEF DialogueInv

\* Turns are cancelled, by themselves or for a clear that begins.
LEMMA CancelInv ==
  ASSUME DialogueInv, NEW c \in Connections, CancelTurn(c) \/ ClearBegins(c)
  PROVE  DialogueInv'
<1>0. DialogueTypeOK /\ LockShape /\ TaskShape /\ RevisionShape /\ RemovalShape
      /\ ClearedStaysCleared /\ ErasedLeavesNoRow
  BY DEF DialogueInv
<1>0a. TasksOK /\ DatabaseOK /\ RequestsOK
  BY <1>0 DEF DialogueTypeOK
<1> DEFINE S == RunningOn(c)
<1>1. UNCHANGED <<link, input, member, removal, scope, epoch>>
  BY DEF CancelTurn, ClearBegins, opening, members
<1>2. DialogueTypeOK'
  BY <1>0, TurnTypes, ClearTypes
<1>3. LeftBehind(S) /\ turn' = Ended(S)
  BY DEF CancelTurn, ClearBegins
<1>4. \A d \in Connections : clearing'[d] = clearing[d] \/ (clearing'[d] = "wait" /\ clearing[d] = "no")
  BY <1>0a DEF CancelTurn, ClearBegins, requests, RequestsOK
<1>5. S \subseteq Turn
  BY DEF RunningOn
<1> HIDE DEF S
<1>6. \A t \in Turn :
        /\ turn'[t].phase = IF t \in S THEN "ended" ELSE turn[t].phase
        /\ turn'[t].conn = turn[t].conn /\ turn'[t].who = turn[t].who
        /\ turn'[t].revision = turn[t].revision /\ turn'[t].epoch = turn[t].epoch
  BY <1>0a, <1>3, EndedTurns
<1>7. LockShape'
  BY <1>0, <1>1, <1>3, <1>4, <1>5, <1>6, LeftLock DEF LockShape
<1>8. TaskShape'
  BY <1>0, <1>0a, <1>1, <1>3, <1>6, LeftRows DEF TaskShape, Pending, Running, Registered
<1>9. RevisionShape' /\ RemovalShape'
  BY <1>0, <1>1, <1>4, <1>6 DEF RevisionShape, RemovalShape, Pending
<1>10. ClearedStaysCleared' /\ ErasedLeavesNoRow'
  BY <1>0, <1>0a, <1>1, <1>3, <1>6, LeftRows DEF ClearedStaysCleared, ErasedLeavesNoRow
<1> QED BY <1>2, <1>7, <1>8, <1>9, <1>10 DEF DialogueInv

\* The input task: what the scope permits was accepted since the last clear.
LEMMA InputInv ==
  ASSUME DialogueInv, NEW t \in Turn, InputLocks(t) \/ InputAppends(t)
  PROVE  DialogueInv'
<1>0. DialogueTypeOK /\ LockShape /\ TaskShape /\ RevisionShape /\ RemovalShape
      /\ ClearedStaysCleared /\ ErasedLeavesNoRow
  BY DEF DialogueInv
<1>0a. TasksOK /\ DatabaseOK /\ GuardOK /\ MembersOK
  BY <1>0 DEF DialogueTypeOK
<1>1. UNCHANGED <<link, clearing, turn, member, removal, scope, epoch>>
  BY DEF InputLocks, InputAppends, opening, members, requests, database
<1>2. DialogueTypeOK'
  BY <1>0, TaskTypes
<1>3. Registered' = Registered /\ RemovalShape'
  BY <1>0, <1>1 DEF Registered, RemovalShape
<1>4. CASE InputLocks(t)
  <2>1. /\ lock = Nobody /\ input[t] = "wait" /\ UNCHANGED row
        /\ \A u \in Turn \ {t} : input'[u] = input[u]
    BY <1>0a, <1>4 DEF InputLocks, Free, Settle, database, TasksOK
  <2>2. \/ input'[t] = "append" /\ lock' = <<"input", t>> /\ turn[t].revision = scope.revision
        \/ input'[t] = "skipped" /\ lock' = Nobody
    BY <1>0a, <1>4 DEF InputLocks, Settle, Permits, TasksOK
  <2>3. \A u \in Turn : input[u] # "append" /\ turn[u].phase # "completing"
    BY <1>0, <2>1, HoldersAreNobody DEF LockShape, Holders
  <2>4. /\ \A c \in Connections : clearing[c] \notin {"rows", "windows"}
        /\ \A m \in Members : removal[m].worker # "locked"
    BY <1>0, <2>1, HoldersAreNobody DEF LockShape, Holders
  <2>5. LockShape'
    BY <1>1, <2>1, <2>2, <2>3, <2>4 DEF LockShape
  <2>6. TaskShape'
    BY <1>0, <1>1, <1>3, <2>1, <2>2 DEF TaskShape, Pending, Running
  <2>7. RevisionShape'
    BY <1>0, <1>1, <2>1, <2>2, <2>4 DEF RevisionShape, Pending
  <2>8. ClearedStaysCleared' /\ ErasedLeavesNoRow'
    BY <1>0, <1>1, <2>1 DEF ClearedStaysCleared, ErasedLeavesNoRow
  <2> QED BY <1>2, <1>3, <2>5, <2>6, <2>7, <2>8 DEF DialogueInv
<1>5. CASE InputAppends(t)
  <2>1. /\ input[t] = "append" /\ lock' = Nobody /\ input'[t] \in {"completed", "skipped", "failed"}
        /\ \A u \in Turn \ {t} : input'[u] = input[u] /\ row'[u] = row[u]
        /\ row'[t] = row[t] \/ (row'[t] = "user" /\ IsActive(turn[t].who))
    BY <1>0a, <1>5 DEF InputAppends, Settle, TasksOK, DatabaseOK
  <2>2. lock = <<"input", t>> /\ turn[t].epoch = epoch /\ turn[t].phase # "unused"
    BY <1>0, <2>1 DEF LockShape, RevisionShape, TaskShape, Pending
  <2>3. LockShape'
    BY <1>0, <1>1, <2>1, <2>2 DEF LockShape
  <2>4. TaskShape'
    BY <1>0, <1>1, <1>3, <2>1, <2>2 DEF TaskShape, Pending, Running
  <2>5. RevisionShape'
    BY <1>0, <1>1, <2>1 DEF RevisionShape, Pending
  <2>6. ClearedStaysCleared'
    BY <1>0, <1>1, <2>1, <2>2 DEF ClearedStaysCleared
  <2>7. \A m \in Members : removal[m].erased /\ turn[t].who = m => ~IsActive(turn[t].who)
    BY <1>0, DialogueAssumption DEF RemovalShape, IsActive
  <2>8. ErasedLeavesNoRow'
    BY <1>0, <1>1, <2>1, <2>7 DEF ErasedLeavesNoRow
  <2> QED BY <1>2, <1>3, <2>3, <2>4, <2>5, <2>6, <2>8 DEF DialogueInv
<1> QED BY <1>4, <1>5

\* The turn task: it completes a row that is there, and inserts none.
LEMMA ReplyInv ==
  ASSUME DialogueInv, NEW t \in Turn,
         \/ ReplyFails(t) \/ ReplyCompletes(t) \/ TurnCommits(t)
         \/ TurnLocks(t) \/ TurnCompletesRow(t)
  PROVE  DialogueInv'
<1>0. DialogueTypeOK /\ LockShape /\ TaskShape /\ RevisionShape /\ RemovalShape
      /\ ClearedStaysCleared /\ ErasedLeavesNoRow
  BY DEF DialogueInv
<1>0a. TasksOK /\ DatabaseOK /\ GuardOK
  BY <1>0 DEF DialogueTypeOK
<1>1. UNCHANGED <<link, clearing, input, member, removal, scope, epoch>>
  BY DEF ReplyFails, ReplyCompletes, TurnCommits, TurnLocks, TurnCompletesRow,
         opening, members, requests, database, guard
<1>2. DialogueTypeOK'
  BY <1>0, TaskTypes
<1>3. PICK phase \in Phases : Goes(t, phase)
  BY DEF ReplyFails, ReplyCompletes, TurnCommits, TurnLocks, TurnCompletesRow, Phases
<1>4. /\ turn'[t].phase = phase
      /\ \A u \in Turn \ {t} : turn'[u] = turn[u]
      /\ \A u \in Turn : /\ turn'[u].conn = turn[u].conn /\ turn'[u].who = turn[u].who
                         /\ turn'[u].revision = turn[u].revision /\ turn'[u].epoch = turn[u].epoch
  BY <1>0a, <1>3 DEF Goes, TasksOK, Task
<1>5. turn[t].phase \notin {"unused", "ended"} /\ phase # "unused"
  BY <1>0a, <1>3, <1>4 DEF ReplyFails, ReplyCompletes, TurnCommits, TurnLocks, TurnCompletesRow, Goes,
                  TasksOK, Task
<1>6. \A u \in Turn : row'[u] = "none" <=> row[u] = "none"
  BY <1>0a DEF ReplyFails, ReplyCompletes, TurnCommits, TurnLocks, TurnCompletesRow,
         database, DatabaseOK, CompleteRow
<1>7. \/ lock' = lock /\ phase # "completing" /\ turn[t].phase # "completing"
      \/ lock = Nobody /\ lock' = <<"turn", t>>
      \/ lock' = Nobody /\ turn[t].phase = "completing" /\ phase = "ended"
  BY <1>0a, <1>3, <1>4 DEF ReplyFails, ReplyCompletes, TurnCommits, TurnLocks, TurnCompletesRow, guard,
         Free, Goes, TasksOK, Task
<1>8. LockShape'
  <2>1. CASE lock' = lock /\ phase # "completing" /\ turn[t].phase # "completing"
    BY <1>0, <1>1, <1>4, <2>1 DEF LockShape
  <2>2. CASE lock = Nobody /\ lock' = <<"turn", t>>
    BY <1>0, <1>1, <1>4, <2>2, HoldersAreNobody DEF LockShape, Holders
  <2>3. CASE lock' = Nobody /\ turn[t].phase = "completing" /\ phase = "ended"
    <3>1. lock = <<"turn", t>>
      BY <1>0, <2>3 DEF LockShape
    <3> QED BY <1>0, <1>1, <1>4, <2>3, <3>1 DEF LockShape
  <2> QED BY <1>7, <2>1, <2>2, <2>3
<1>9. TaskShape'
  BY <1>0, <1>1, <1>4, <1>5, <1>6 DEF TaskShape, Pending, Running, Registered
<1>10. RevisionShape' /\ RemovalShape'
  BY <1>0, <1>1, <1>4 DEF RevisionShape, RemovalShape, Pending
<1>11. ClearedStaysCleared' /\ ErasedLeavesNoRow'
  BY <1>0, <1>1, <1>4, <1>6 DEF ClearedStaysCleared, ErasedLeavesNoRow
<1> QED BY <1>2, <1>8, <1>9, <1>10, <1>11 DEF DialogueInv

\* A clear: it counts as a revision before it gives the lock back.
LEMMA ClearInv ==
  ASSUME DialogueInv, NEW c \in Connections,
         ClearLocks(c) \/ ClearDeletesRows(c) \/ ClearEmptiesWindows(c)
  PROVE  DialogueInv'
<1>0. DialogueTypeOK /\ LockShape /\ TaskShape /\ RevisionShape /\ RemovalShape
      /\ ClearedStaysCleared /\ ErasedLeavesNoRow
  BY DEF DialogueInv
<1>0a. TasksOK /\ DatabaseOK /\ GuardOK /\ RequestsOK
  BY <1>0 DEF DialogueTypeOK
<1>1. UNCHANGED <<link, turn, input, member, removal>>
  BY DEF ClearLocks, ClearDeletesRows, ClearEmptiesWindows, opening, tasks, members
<1>2. DialogueTypeOK'
  BY <1>0, ClearTypes
<1>3. RemovalShape' /\ Registered' = Registered
  BY <1>0, <1>1 DEF RemovalShape, Registered
<1>4. CASE ClearLocks(c)
  <2>1. /\ lock = Nobody /\ lock' = <<"clear", c>> /\ UNCHANGED <<row, epoch, scope>>
        /\ \A d \in Connections \ {c} : clearing'[d] = clearing[d]
        /\ clearing[c] = "wait" /\ clearing'[c] = "rows"
    BY <1>0a, <1>4 DEF ClearLocks, Free, database, RequestsOK
  <2>2. LockShape'
    BY <1>0, <1>1, <2>1, HoldersAreNobody DEF LockShape, Holders
  <2>3. TaskShape' /\ RevisionShape'
    BY <1>0, <1>1, <1>3, <2>1 DEF TaskShape, RevisionShape, Pending, Running
  <2>4. ClearedStaysCleared' /\ ErasedLeavesNoRow'
    BY <1>0, <1>1, <2>1 DEF ClearedStaysCleared, ErasedLeavesNoRow
  <2> QED BY <1>2, <1>3, <2>2, <2>3, <2>4 DEF DialogueInv
<1>5. CASE ClearDeletesRows(c)
  <2>1. /\ clearing[c] = "rows" /\ lock = <<"clear", c>> /\ UNCHANGED scope
        /\ \A d \in Connections \ {c} : clearing'[d] = clearing[d]
    BY <1>0, <1>0a, <1>5 DEF ClearDeletesRows, RequestsOK, LockShape
  <2>2. /\ \A d \in Connections \ {c} : clearing[d] \notin {"rows", "windows"}
        /\ \A t \in Turn : input[t] # "append" /\ turn[t].phase # "completing"
        /\ \A m \in Members : removal[m].worker # "locked"
    BY <1>0, <2>1 DEF LockShape
  <2>3. CASE /\ row' = [t \in Turn |-> "none"] /\ epoch' = epoch + 1
             /\ clearing'[c] = "windows" /\ UNCHANGED lock
    <3>1. LockShape' /\ TaskShape' /\ RevisionShape'
      BY <1>0, <1>1, <1>3, <2>1, <2>2, <2>3 DEF LockShape, TaskShape, RevisionShape, Pending, Running
    <3>2. ClearedStaysCleared' /\ ErasedLeavesNoRow'
      BY <2>3 DEF ClearedStaysCleared, ErasedLeavesNoRow
    <3> QED BY <1>2, <1>3, <3>1, <3>2 DEF DialogueInv
  <2>4. CASE clearing'[c] = "no" /\ lock' = Nobody /\ UNCHANGED <<row, epoch>>
    <3>1. LockShape' /\ TaskShape' /\ RevisionShape'
      BY <1>0, <1>1, <1>3, <2>1, <2>2, <2>4 DEF LockShape, TaskShape, RevisionShape, Pending, Running
    <3>2. ClearedStaysCleared' /\ ErasedLeavesNoRow'
      BY <1>0, <1>1, <2>4 DEF ClearedStaysCleared, ErasedLeavesNoRow
    <3> QED BY <1>2, <1>3, <3>1, <3>2 DEF DialogueInv
  <2> QED BY <1>0a, <1>5, <2>3, <2>4 DEF ClearDeletesRows, RequestsOK, database
<1>6. CASE ClearEmptiesWindows(c)
  <2>1. /\ clearing[c] = "windows" /\ lock = <<"clear", c>> /\ lock' = Nobody
        /\ \A d \in Connections \ {c} : clearing'[d] = clearing[d]
        /\ clearing'[c] = "no" /\ UNCHANGED <<row, epoch>>
        /\ scope'.revision = scope.revision + 1 /\ scope.revision \in Nat
    BY <1>0, <1>0a, <1>6 DEF ClearEmptiesWindows, RequestsOK, LockShape, GuardOK, database
  <2>2. /\ \A d \in Connections \ {c} : clearing[d] \notin {"rows", "windows"}
        /\ \A t \in Turn : input[t] # "append" /\ turn[t].phase # "completing"
        /\ \A m \in Members : removal[m].worker # "locked"
    BY <1>0, <2>1 DEF LockShape
  <2>3. LockShape' /\ TaskShape'
    BY <1>0, <1>1, <1>3, <2>1, <2>2 DEF LockShape, TaskShape, Pending, Running
  <2>4. \A t \in Turn : turn[t].revision \in Nat
    BY <1>0a DEF TasksOK, Task
  <2>5. RevisionShape'
    BY <1>0, <1>1, <2>1, <2>2, <2>4 DEF RevisionShape, Pending
  <2>6. ClearedStaysCleared' /\ ErasedLeavesNoRow'
    BY <1>0, <1>1, <2>1 DEF ClearedStaysCleared, ErasedLeavesNoRow
  <2> QED BY <1>2, <1>3, <2>3, <2>5, <2>6 DEF DialogueInv
<1> QED BY <1>4, <1>5, <1>6

\* A deletion: the worker takes the rows of a member nothing is stored of any more.
LEMMA RemovalInv ==
  ASSUME DialogueInv, NEW m \in Members,
         ScheduleRemoval(m) \/ NoteRemoval(m) \/ WorkerLocks(m) \/ WorkerErases(m)
  PROVE  DialogueInv'
<1>0. DialogueTypeOK /\ LockShape /\ TaskShape /\ RevisionShape /\ RemovalShape
      /\ ClearedStaysCleared /\ ErasedLeavesNoRow
  BY DEF DialogueInv
<1>0a. MembersOK /\ DatabaseOK /\ GuardOK
  BY <1>0 DEF DialogueTypeOK
<1>1. UNCHANGED <<link, clearing, turn, input, epoch>>
  BY DEF ScheduleRemoval, NoteRemoval, WorkerLocks, WorkerErases, opening, requests, tasks, database
<1>2. DialogueTypeOK'
  BY <1>0, RemovalTypes
<1>3. \A n \in Members : member[n] # "active" => member'[n] # "active"
  BY <1>0a DEF ScheduleRemoval, NoteRemoval, WorkerLocks, WorkerErases, MembersOK, members
<1>4. \A n \in Members \ {m} : removal'[n] = removal[n]
  BY <1>0a DEF ScheduleRemoval, NoteRemoval, WorkerLocks, WorkerErases, MembersOK, members
<1>5. \A t \in Turn : row'[t] = row[t] \/ row'[t] = "none"
  BY <1>0a DEF ScheduleRemoval, NoteRemoval, WorkerLocks, WorkerErases, DatabaseOK, database
<1>6. scope'.revision = scope.revision \/ Registered = {}
  BY <1>0a DEF ScheduleRemoval, NoteRemoval, WorkerLocks, WorkerErases, guard, Forget, ScopeHeld,
               DropScope, GuardOK
<1>7. /\ removal'[m].erased = removal[m].erased \/ row' = [t \in Turn |-> IF turn[t].who = m THEN "none" ELSE row[t]]
      /\ removal'[m].erased \/ removal'[m].worker # "idle" => removal[m].erased \/ removal[m].worker # "idle" \/ member[m] # "active"
  BY <1>0a DEF ScheduleRemoval, NoteRemoval, WorkerLocks, WorkerErases, MembersOK
<1>8. LockShape'
  <2>1. CASE ScheduleRemoval(m) \/ NoteRemoval(m)
    <3>1. UNCHANGED lock /\ removal'[m].worker = removal[m].worker
      BY <1>0a, <2>1 DEF ScheduleRemoval, NoteRemoval, MembersOK, guard
    <3> QED BY <1>0, <1>1, <1>4, <3>1 DEF LockShape
  <2>2. CASE WorkerLocks(m)
    <3>1. lock = Nobody /\ lock' = <<"worker", m>>
      BY <2>2 DEF WorkerLocks, Free
    <3> QED BY <1>0, <1>1, <1>4, <3>1, HoldersAreNobody DEF LockShape, Holders
  <2>3. CASE WorkerErases(m)
    <3>1. lock = <<"worker", m>> /\ lock' = Nobody /\ removal'[m].worker # "locked"
      BY <1>0, <1>0a, <2>3 DEF WorkerErases, LockShape, MembersOK
    <3> QED BY <1>0, <1>1, <1>4, <3>1 DEF LockShape
  <2> QED BY <2>1, <2>2, <2>3
<1>9. TaskShape' /\ RevisionShape'
  BY <1>0, <1>1, <1>5, <1>6 DEF TaskShape, RevisionShape, Pending, Running, Registered
<1>10. RemovalShape'
  BY <1>0, <1>3, <1>4, <1>7 DEF RemovalShape
<1>11. ClearedStaysCleared'
  BY <1>0, <1>1, <1>5 DEF ClearedStaysCleared
<1>12. ErasedLeavesNoRow'
  BY <1>0, <1>1, <1>4, <1>5, <1>7 DEF ErasedLeavesNoRow
<1> QED BY <1>2, <1>8, <1>9, <1>10, <1>11, <1>12 DEF DialogueInv

\* A restart: no task is pending, the rows stay as they were.
LEMMA RestartInv ==
  ASSUME DialogueInv, Restart
  PROVE  DialogueInv'
<1>0. DialogueTypeOK /\ LockShape /\ TaskShape /\ RevisionShape /\ RemovalShape
      /\ ClearedStaysCleared /\ ErasedLeavesNoRow
  BY DEF DialogueInv
<1>0a. TasksOK /\ MembersOK
  BY <1>0 DEF DialogueTypeOK
<1> DEFINE S == {t \in Turn : turn[t].phase # "unused"}
<1>1. UNCHANGED <<row, epoch, member>> /\ turn' = Ended(S)
  BY DEF Restart, database
<1>2. \A t \in Turn :
        /\ turn'[t].phase = IF t \in S THEN "ended" ELSE turn[t].phase
        /\ turn'[t].conn = turn[t].conn /\ turn'[t].who = turn[t].who
        /\ turn'[t].revision = turn[t].revision /\ turn'[t].epoch = turn[t].epoch
  BY <1>0a, <1>1, EndedTurns
<1>3. \A t \in Turn : ~Pending(t)' /\ ~Running(t)' /\ (input[t] = "none" => input'[t] = "none")
  <2>1. \A t \in Turn : ~Pending(t)' /\ (input[t] = "none" => input'[t] = "none")
    BY DEF Restart, Pending
  <2>2. \A t \in Turn : ~Running(t)'
    BY <1>2 DEF Running
  <2> QED BY <2>1, <2>2
<1>4. DialogueTypeOK'
  BY <1>0, RestartTypes
<1>5. LockShape'
  BY <1>0a, <1>2, <1>3 DEF Restart, LockShape, Pending, MembersOK
<1>6. TaskShape' /\ RevisionShape'
  BY <1>0, <1>1, <1>2, <1>3 DEF TaskShape, RevisionShape
<1>7. RemovalShape'
  BY <1>0, <1>0a, <1>1 DEF Restart, RemovalShape, MembersOK
<1>8. ClearedStaysCleared'
  BY <1>0, <1>1, <1>2 DEF ClearedStaysCleared
<1>9. ErasedLeavesNoRow'
  <2>1. \A m \in Members : removal'[m].erased = removal[m].erased
    BY <1>0a DEF Restart, MembersOK
  <2> QED BY <1>0, <1>1, <1>2, <2>1 DEF ErasedLeavesNoRow
<1> QED BY <1>4, <1>5, <1>6, <1>7, <1>8, <1>9 DEF DialogueInv

\* Actions that touch none of what the invariant reads.
LEMMA OtherInv ==
  ASSUME DialogueInv, DialogueTypeOK',
         UNCHANGED <<link, clearing, turn, input, lock, scope, member, removal, row, epoch>>
  PROVE  DialogueInv'
BY DEF DialogueInv, LockShape, TaskShape, RevisionShape, RemovalShape, ClearedStaysCleared,
       ErasedLeavesNoRow, Pending, Running, Registered

\* Every step keeps the inductive invariant.
LEMMA DialogueStep ==
  ASSUME DialogueInv, [DialogueNext]_dialogueVars
  PROVE  DialogueInv'
<1>1. DialogueTypeOK'
  BY TypeStep DEF DialogueInv
<1>2. CASE UNCHANGED dialogueVars
  BY <1>1, <1>2, OtherInv
     DEF dialogueVars, opening, requests, tasks, guard, members, database
<1>3. ASSUME NEW c \in Connections, StartRefused(c) \/ \E m \in Members : LookUp(c, m)
      PROVE  DialogueInv'
  <2>1. UNCHANGED <<link, clearing, turn, input, lock, scope, member, removal, row, epoch>>
    BY <1>3 DEF StartRefused, LookUp, opening, tasks, guard, members, database
  <2> QED BY <1>1, <2>1, OtherInv
<1>4. CASE DialogueNext
  BY <1>3, <1>4, OpeningInv, StartInv, CancelInv, InputInv, ReplyInv, ClearInv, RemovalInv,
     RestartInv DEF DialogueNext
<1> QED BY <1>2, <1>4

\* The inductive invariant holds at first.
LEMMA DialogueInitInv ==
  ASSUME DialogueInit
  PROVE  DialogueInv
<1>1. DialogueTypeOK
  BY InitTypes
<1>2. LockShape /\ TaskShape /\ RevisionShape /\ RemovalShape
  BY DEF DialogueInit, LockShape, TaskShape, RevisionShape, RemovalShape, Unused, Pending, Running
<1>3. ClearedStaysCleared /\ ErasedLeavesNoRow
  BY DEF DialogueInit, ClearedStaysCleared, ErasedLeavesNoRow
<1> QED BY <1>1, <1>2, <1>3 DEF DialogueInv

\* The inductive invariant holds in every reachable state.
THEOREM DialogueInvariant == DialogueSpec => []DialogueInv
<1>1. DialogueInit => DialogueInv
  BY DialogueInitInv
<1>2. DialogueInv /\ [DialogueNext]_dialogueVars => DialogueInv'
  BY DialogueStep
<1> QED BY <1>1, <1>2, PTL DEF DialogueSpec

\* A clear is final in the database: whatever is stored was accepted after the last clear.
THEOREM ClearedStays == DialogueSpec => []ClearedStaysCleared
<1>1. DialogueInv => ClearedStaysCleared
  BY DEF DialogueInv
<1> QED BY <1>1, DialogueInvariant, PTL

\* Once the worker has erased the exchanges of a member, none of them comes back.
THEOREM ErasedStays == DialogueSpec => []ErasedLeavesNoRow
<1>1. DialogueInv => ErasedLeavesNoRow
  BY DEF DialogueInv
<1> QED BY <1>1, DialogueInvariant, PTL

-----------------------------------------------------------------------------
\* Windows that agree still agree once a member is forgotten in each of them.
LEMMA ForgetAgrees ==
  ASSUME DialogueTypeOK, WindowsAgree, NEW ms, Forget(ms)
  PROVE  \A c, d \in Registered : window'[c] = window'[d] /\ answered'[c] = answered'[d]
<1>1. Registered \subseteq Connections
  BY DEF Registered
<1>2. \A c \in Registered : window'[c] = {t \in window[c] : turn[t].who \notin ms}
  BY <1>1 DEF Forget
<1>3. \A c \in Registered : answered'[c] = answered[c] \cap window'[c]
  BY <1>1 DEF Forget
<1>4. \A c, d \in Registered : window[c] = window[d] /\ answered[c] = answered[d]
  BY DEF WindowsAgree
<1>5. \A c, d \in Registered : window'[c] = window'[d]
  BY <1>2, <1>4
<1> QED BY <1>3, <1>4, <1>5

\* Every step keeps the registered windows alike.
LEMMA AgreeStep ==
  ASSUME DialogueTypeOK, WindowsAgree, [DialogueNext]_dialogueVars
  PROVE  WindowsAgree'
<1>0. OpeningOK /\ WindowsOK
  BY DEF DialogueTypeOK
<1>1. ASSUME UNCHANGED <<link, window, answered>>
      PROVE  WindowsAgree'
  BY <1>1 DEF WindowsAgree, Registered
<1>2. CASE UNCHANGED dialogueVars
  BY <1>1, <1>2 DEF dialogueVars, opening, windows
<1>3. ASSUME NEW c \in Connections,
             \/ CancelTurn(c) \/ StartRefused(c) \/ ClearBegins(c) \/ ClearLocks(c)
             \/ ClearDeletesRows(c) \/ \E m \in Members : LookUp(c, m)
      PROVE  WindowsAgree'
  <2>1. UNCHANGED <<link, window, answered>>
    BY <1>3 DEF CancelTurn, StartRefused, ClearBegins, ClearLocks, ClearDeletesRows, LookUp,
                opening, windows
  <2> QED BY <1>1, <2>1
<1>4. ASSUME NEW c \in Connections, OpenSnapshot(c) \/ BeginClose(c)
      PROVE  WindowsAgree'
  <2>1. UNCHANGED windows /\ Registered' \subseteq Registered
    BY <1>0, <1>4 DEF OpenSnapshot, BeginClose, Registered, OpeningOK
  <2> QED BY <2>1 DEF WindowsAgree, windows
<1>5. ASSUME NEW c \in Connections, EndClose(c)
      PROVE  WindowsAgree'
  <2>1. Registered' \subseteq Registered \ {c}
    BY <1>0, <1>5 DEF EndClose, Registered, OpeningOK
  <2>2. \A d \in Connections \ {c} : window'[d] = window[d] /\ answered'[d] = answered[d]
    BY <1>0, <1>5 DEF EndClose, WindowsOK
  <2> QED BY <2>1, <2>2 DEF WindowsAgree, Registered
<1>6. ASSUME NEW c \in Connections, ListMembers(c)
      PROVE  WindowsAgree'
  <2>1. Registered' \subseteq Registered
    BY <1>0, <1>6 DEF ListMembers, Registered, OpeningOK
  <2> QED BY <1>6, <2>1, ForgetAgrees DEF ListMembers, WindowsAgree
<1>7. ASSUME NEW c \in Connections, Register(c)
      PROVE  WindowsAgree'
  <2>1. Registered' = Registered \cup {c} /\ c \notin Registered
    BY <1>0, <1>7 DEF Register, Registered, OpeningOK
  <2>2. \A d \in Registered : window'[d] = window[d] /\ answered'[d] = answered[d]
    BY <1>0, <1>7, <2>1 DEF Register, WindowsOK, Registered
  <2>3. \/ Registered = {}
        \/ \E d \in Registered : window'[c] = window[d] /\ answered'[c] = answered[d]
    BY <1>0, <1>7 DEF Register, WindowsOK
  <2> QED BY <2>1, <2>2, <2>3 DEF WindowsAgree
<1>8. ASSUME NEW c \in Connections, StartTurn(c)
      PROVE  WindowsAgree'
  <2> DEFINE n == Min(FreshTurns)
  <2>1. Registered' = Registered /\ Registered \subseteq Connections
    BY <1>8 DEF StartTurn, Registered, opening
  <2>2. window' = Accepted(n) /\ answered' = [d \in Connections |-> answered[d] \cap window'[d]]
    BY <1>8 DEF StartTurn
  <2> HIDE DEF n
  <2>3. \A d \in Registered : /\ window'[d] = Latest(window[d] \cup {n}, WindowSize)
                              /\ answered'[d] = answered[d] \cap window'[d]
    BY <2>1, <2>2 DEF Accepted
  <2>4. \A d, e \in Registered : window[d] = window[e] /\ answered[d] = answered[e]
    BY DEF WindowsAgree
  <2>5. \A d, e \in Registered : window'[d] = window'[e]
    BY <2>3, <2>4
  <2>6. \A d, e \in Registered : answered'[d] = answered'[e]
    BY <2>3, <2>4, <2>5
  <2> QED BY <2>1, <2>5, <2>6 DEF WindowsAgree
<1>9. ASSUME NEW c \in Connections, ClearEmptiesWindows(c)
      PROVE  WindowsAgree'
  BY <1>9 DEF ClearEmptiesWindows, WindowsAgree, Registered, opening
<1>10. ASSUME NEW t \in Turn, TurnCommits(t)
       PROVE  WindowsAgree'
  <2>1. Registered' = Registered /\ Registered \subseteq Connections /\ UNCHANGED window
    BY <1>10 DEF TurnCommits, Registered, opening
  <2>2. \/ UNCHANGED answered
        \/ \A d \in Registered : answered'[d] = IF t \in window[d] THEN answered[d] \cup {t} ELSE answered[d]
    BY <1>10, <2>1 DEF TurnCommits
  <2>3. \A d, e \in Registered : window[d] = window[e] /\ answered[d] = answered[e]
    BY DEF WindowsAgree
  <2>4. \A d, e \in Registered : answered'[d] = answered'[e]
    BY <2>2, <2>3
  <2> QED BY <2>1, <2>3, <2>4 DEF WindowsAgree
<1>11. ASSUME NEW t \in Turn,
              \/ InputLocks(t) \/ InputAppends(t) \/ ReplyFails(t) \/ ReplyCompletes(t)
              \/ TurnLocks(t) \/ TurnCompletesRow(t)
       PROVE  WindowsAgree'
  <2>1. UNCHANGED <<link, window, answered>>
    BY <1>11 DEF InputLocks, InputAppends, ReplyFails, ReplyCompletes, TurnLocks,
                 TurnCompletesRow, opening, windows
  <2> QED BY <1>1, <2>1
<1>12. ASSUME NEW m \in Members, ScheduleRemoval(m) \/ WorkerLocks(m) \/ WorkerErases(m)
       PROVE  WindowsAgree'
  <2>1. UNCHANGED <<link, window, answered>>
    BY <1>12 DEF ScheduleRemoval, WorkerLocks, WorkerErases, opening, windows
  <2> QED BY <1>1, <2>1
<1>13. ASSUME NEW m \in Members, NoteRemoval(m)
       PROVE  WindowsAgree'
  <2>1. Registered' = Registered
    BY <1>13 DEF NoteRemoval, Registered, opening
  <2> QED BY <1>13, <2>1, ForgetAgrees DEF NoteRemoval, WindowsAgree
<1>14. CASE Restart
  BY <1>14 DEF Restart, WindowsAgree, Registered
<1> QED BY <1>2, <1>3, <1>4, <1>5, <1>6, <1>7, <1>8, <1>9, <1>10, <1>11, <1>12, <1>13, <1>14
        DEF DialogueNext

\* The registered windows of a device hold the same exchanges with the same answers.
THEOREM WindowsAlwaysAgree == DialogueSpec => []WindowsAgree
<1>1. DialogueInit => WindowsAgree
  BY DEF DialogueInit, WindowsAgree, Registered
<1>2. DialogueTypeOK /\ WindowsAgree /\ [DialogueNext]_dialogueVars => WindowsAgree'
  BY AgreeStep
<1> QED BY <1>1, <1>2, DialogueTypes, PTL DEF DialogueSpec

=============================================================================
