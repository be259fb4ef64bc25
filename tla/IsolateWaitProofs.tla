------------------------- MODULE IsolateWaitProofs -------------------------
(***************************************************************************)
(* Proofs about IsolateWait, for any set of waiters, isolates, cancellers  *)
(* and lists: its types, that ACTIVE_WAKE_LISTENERS counts the waiters in  *)
(* wait_any, that neither a joiner nor a wait_any sleeps through what it   *)
(* waits for, but for a cancel() whose store comes after its own load, and *)
(* that every answer is true when it is given.                             *)
(***************************************************************************)
EXTENDS IsolateWait, FiniteSetTheorems, TLAPS

-----------------------------------------------------------------------------
(* ACTIVE_WAKE_LISTENERS *)

ListenerPlaces == {"lock", "relock", "scan", "last", "decide", "gateWait", "leave"}

Registered == {w \in Waiters : wpc[w] \in ListenerPlaces}

ListenersCounted == listeners = Cardinality(Registered)

CountInv == TypeOK /\ ListenersCounted

\* The register is a finite set, and its size a number.
LEMMA RegisteredFinite == IsFiniteSet(Registered) /\ Cardinality(Registered) \in Nat
<1>1. IsFiniteSet(Registered)
  BY WaitAssumption, FS_Subset DEF Registered
<1> QED  BY <1>1, FS_CardinalityType

\* Initially nobody waits.
LEMMA CountInvInit == Init => CountInv
<1> SUFFICES ASSUME Init PROVE CountInv
  OBVIOUS
<1>1. TypeOK
  BY WaitAssumption DEF Init, TypeOK, Outcomes, IsoPlaces, CancelPlaces, Ops, Deadlines,
       Answers, WaiterPlaces
<1>2. Registered = {}
  BY DEF Init, Registered, ListenerPlaces
<1>3. ListenersCounted
  BY <1>2, FS_EmptySet DEF Init, ListenersCounted
<1> QED  BY <1>1, <1>3 DEF CountInv

-----------------------------------------------------------------------------
(* Types are kept.  The counter is left to ListenersCounted. *)

\* finish() keeps every variable in its type.
LEMMA FinishTypes ==
    ASSUME TypeOK, NEW i \in Isos, Finish(i) \/ FinishGateLock(i)
    PROVE  TypeOK'
<1>1. CASE FinishStore(i)
  BY <1>1 DEF TypeOK, FinishStore, IsoGoto, IsoPlaces, Outcomes, cancelVars, gateVars, waiterVars
<1>2. CASE FinishNotify(i)
  BY <1>2 DEF TypeOK, FinishNotify, IsoGoto, IsoPlaces, Woken, WaiterPlaces, cancelVars, gateVars
<1>3. CASE FinishLoad(i)
  BY <1>3 DEF TypeOK, FinishLoad, IsoGoto, IsoPlaces, cancelVars, gateVars, waiterVars
<1>4. CASE FinishGateLock(i)
  BY <1>4 DEF TypeOK, FinishGateLock, IsoGoto, IsoPlaces, cancelVars, gateVars, waiterVars
<1>5. CASE FinishGateNotify(i)
  BY <1>5 DEF TypeOK, FinishGateNotify, IsoGoto, IsoPlaces, Woken, WaiterPlaces,
       cancelVars, gateVars
<1> QED  BY <1>1, <1>2, <1>3, <1>4, <1>5 DEF Finish

\* cancel() keeps every variable in its type.
LEMMA CancelTypes ==
    ASSUME TypeOK, NEW k \in Cancellers,
           \/ Cancel(k) \/ CancelGateLock(k) \/ Flush(k)
           \/ \E w \in Cancellable : CancelStore(k, w)
    PROVE  TypeOK'
<1> USE WaitAssumption
<1>1. CASE \E w \in Cancellable : CancelStore(k, w)
  <2>1. PICK w \in Cancellable : CancelStore(k, w)
    BY <1>1
  <2>2. cancelled' \in [Waiters -> BOOLEAN]
    BY <2>1 DEF TypeOK, CancelStore
  <2>3. buffered' \in [Cancellers -> Cancellable \cup {None}]
    BY <2>1 DEF TypeOK, CancelStore
  <2> QED
    BY <2>1, <2>2, <2>3 DEF TypeOK, CancelStore, CancelGoto, CancelPlaces, isoVars, gateVars, waiterVars
<1>2. CASE CancelLoad(k)
  BY <1>2 DEF TypeOK, CancelLoad, CancelGoto, CancelPlaces, isoVars, gateVars, waiterVars
<1>3. CASE CancelGateLock(k)
  BY <1>3 DEF TypeOK, CancelGateLock, CancelGoto, CancelPlaces, isoVars, gateVars, waiterVars
<1>4. CASE CancelGateNotify(k)
  BY <1>4 DEF TypeOK, CancelGateNotify, CancelGoto, CancelPlaces, Woken, WaiterPlaces,
       isoVars, gateVars
<1>5. CASE Flush(k)
  BY <1>5 DEF TypeOK, Flush, isoVars, gateVars, waiterVars
<1> QED  BY <1>1, <1>2, <1>3, <1>4, <1>5 DEF Cancel

\* The beginning of a wait keeps every variable in its type.
LEMMA BeginTypes ==
    ASSUME TypeOK, NEW w \in Waiters,
           NEW o \in Uses[w], NEW l \in Lists, NEW timed \in BOOLEAN, Begin(w, o, l, timed)
    PROVE  TypeOK'
<1>1. o \in {"join", "waitAll", "waitAny"} /\ l \in Seq(Isos)
  BY WaitAssumption
<1> QED
  BY <1>1 DEF Begin, TypeOK, Ops, Deadlines, Answers, WaiterPlaces, Goto, Answer,
       isoVars, cancelVars, gateVars

\* The end of the time given keeps every variable in its type.
LEMMA ExpireTypes ==
    ASSUME TypeOK, NEW w \in Waiters, Expire(w),
           UNCHANGED <<isoVars, observed, cancelVars, gateVars, op, list>>
    PROVE  TypeOK'
<1>1. CASE deadline[w] = "timeout"
  BY <1>1 DEF Expire, TypeOK, Return, Goto, Answer, Answers, WaiterPlaces,
       isoVars, cancelVars, gateVars
<1>2. CASE deadline[w] = "idle"
  <2>1. pos' \in [Waiters -> Nat]
    <3>1. pos' = [pos EXCEPT ![w] = 1]
      BY <1>2 DEF Expire
    <3> QED  BY <3>1 DEF TypeOK
  <2>2. wpc' \in [Waiters -> WaiterPlaces]
    <3>1. CASE op[w] = "waitAll"
      BY <1>2, <3>1 DEF Expire, TypeOK, Goto, WaiterPlaces
    <3>2. CASE op[w] # "waitAll"
      BY <1>2, <3>2 DEF Expire, TypeOK, Goto, WaiterPlaces
    <3> QED  BY <3>1, <3>2
  <2>3. deadline' \in [Waiters -> Deadlines] /\ UNCHANGED answer
    BY <1>2 DEF Expire, TypeOK, Deadlines
  <2> QED  BY <2>1, <2>2, <2>3 DEF TypeOK, isoVars, cancelVars, gateVars
<1> QED  BY <1>1, <1>2 DEF Expire

\* wait_all's step past a finished isolate keeps its place a number.
LEMMA PosNext ==
    ASSUME TypeOK, NEW w \in Waiters, pos' = [pos EXCEPT ![w] = @ + 1]
    PROVE  pos' \in [Waiters -> Nat]
<1>1. pos \in [Waiters -> Nat] /\ pos[w] + 1 \in Nat
  BY DEF TypeOK
<1> QED  BY <1>1

\* join and wait_all keep every variable in its type.
LEMMA JoinTypes ==
    ASSUME TypeOK, NEW w \in Waiters,
           \/ AllNext(w) \/ AllExpire(w) \/ JoinDone(w) \/ JoinPark(w) \/ JoinTick(w)
           \/ JoinMiss(w) \/ JoinCheck(w) \/ JoinExpire(w) \/ Spurious(w)
    PROVE  TypeOK'
<1>1. CASE AllNext(w)
  <2>1. pos' \in [Waiters -> Nat]
    BY <1>1, PosNext DEF AllNext, TypeOK
  <2>2. wpc' \in [Waiters -> WaiterPlaces]
    BY <1>1 DEF AllNext, TypeOK, Return, Goto, Answer, WaiterPlaces
  <2>3. answer' \in [Waiters -> Answers]
    BY <1>1 DEF AllNext, TypeOK, Return, Goto, Answer, Answers
  <2> QED  BY <1>1, <2>1, <2>2, <2>3 DEF AllNext, TypeOK, isoVars, cancelVars, gateVars
<1>2. CASE AllExpire(w)
  BY <1>2, ExpireTypes DEF AllExpire
<1>3. CASE JoinDone(w)
  <2>1. observed' \in [Isos -> BOOLEAN]
    BY <1>3 DEF JoinDone, TypeOK
  <2>2. pos' \in [Waiters -> Nat]
    BY <1>3, PosNext DEF JoinDone, TypeOK
  <2>3. wpc' \in [Waiters -> WaiterPlaces]
    BY <1>3 DEF JoinDone, TypeOK, Return, Goto, Answer, WaiterPlaces
  <2>4. answer' \in [Waiters -> Answers]
    BY <1>3 DEF JoinDone, TypeOK, Return, Goto, Answer, Answers
  <2> QED  BY <1>3, <2>1, <2>2, <2>3, <2>4 DEF JoinDone, TypeOK, isoVars, cancelVars, gateVars
<1>4. CASE JoinPark(w) \/ JoinTick(w) \/ JoinMiss(w) \/ Spurious(w)
  BY <1>4 DEF JoinPark, JoinTick, JoinMiss, Spurious, TypeOK, Goto, WaiterPlaces,
       isoVars, cancelVars, gateVars
<1>5. CASE JoinCheck(w)
  BY <1>5 DEF JoinCheck, TypeOK, Return, Goto, Answer, Answers, WaiterPlaces,
       isoVars, cancelVars, gateVars
<1>6. CASE JoinExpire(w)
  BY <1>6, ExpireTypes DEF JoinExpire
<1> QED  BY <1>1, <1>2, <1>3, <1>4, <1>5, <1>6

\* wait_any keeps every variable but the counter in its type.
LEMMA AnyTypes ==
    ASSUME TypeOK, NEW w \in Waiters, listeners' \in Nat,
           \/ AnyReady(w) \/ AnyMiss(w) \/ AnyEnter(w) \/ AnyLock(w) \/ AnyCancelled(w)
           \/ AnyExpire(w) \/ AnyPark(w) \/ AnyTimer(w) \/ AnyLeave(w)
    PROVE  TypeOK'
<1> USE DEF TypeOK, isoVars, cancelVars, gateVars, Goto, Answer, WaiterPlaces
<1>1. CASE AnyReady(w) \/ AnyCancelled(w)
  BY <1>1 DEF AnyReady, AnyCancelled, Answers
<1>2. CASE AnyMiss(w) \/ AnyTimer(w)
  BY <1>2 DEF AnyMiss, AnyTimer
<1>3. CASE AnyEnter(w) \/ AnyLeave(w)
  BY <1>3 DEF AnyEnter, AnyLeave
<1>4. CASE AnyLock(w) \/ AnyPark(w)
  BY <1>4 DEF AnyLock, AnyPark
<1>5. CASE AnyExpire(w)
  BY <1>5 DEF AnyExpire, Answers, Deadlines
<1> QED  BY <1>1, <1>2, <1>3, <1>4, <1>5

-----------------------------------------------------------------------------
(* The counter counts. *)

\* A step that lets nobody in or out of the register keeps the count.
LEMMA SameRegister ==
    ASSUME ListenersCounted, UNCHANGED listeners,
           \A v \in Waiters : wpc'[v] \in ListenerPlaces <=> wpc[v] \in ListenerPlaces
    PROVE  ListenersCounted'
<1>1. Registered' = Registered
  BY DEF Registered
<1> QED  BY <1>1 DEF ListenersCounted

\* finish() and cancel() wake waiters of the gate, who stay registered.
LEMMA WakersKeepCount ==
    ASSUME CountInv,
           \/ \E i \in Isos : Finish(i) \/ FinishGateLock(i)
           \/ \E k \in Cancellers : \/ Cancel(k) \/ CancelGateLock(k) \/ Flush(k)
                                    \/ \E w \in Cancellable : CancelStore(k, w)
    PROVE  ListenersCounted'
<1>1. UNCHANGED listeners
  BY DEF Finish, FinishStore, FinishNotify, FinishLoad, FinishGateLock, FinishGateNotify,
         Cancel, CancelStore, CancelLoad, CancelGateLock, CancelGateNotify, Flush, gateVars
<1>2. \/ UNCHANGED wpc
      \/ \E i \in Isos : wpc' = Woken(JoinersOf(i), "join")
      \/ wpc' = Woken(GateWaiters, "lock")
  BY DEF Finish, FinishStore, FinishNotify, FinishLoad, FinishGateLock, FinishGateNotify,
         Cancel, CancelStore, CancelLoad, CancelGateLock, CancelGateNotify, Flush, waiterVars
<1>3. \A v \in Waiters : wpc'[v] \in ListenerPlaces <=> wpc[v] \in ListenerPlaces
  BY <1>2 DEF Woken, JoinersOf, GateWaiters, ListenerPlaces
<1> QED  BY <1>1, <1>3, SameRegister DEF CountInv

\* Beginning, join and wait_all have nothing to do with the register.
LEMMA JoinKeepsCount ==
    ASSUME CountInv, NEW w \in Waiters,
           \/ AllNext(w) \/ AllExpire(w) \/ JoinDone(w) \/ JoinPark(w) \/ JoinTick(w)
           \/ JoinMiss(w) \/ JoinCheck(w) \/ JoinExpire(w) \/ Spurious(w)
           \/ \E o \in Uses[w], l \in Lists, timed \in BOOLEAN : Begin(w, o, l, timed)
    PROVE  ListenersCounted'
<1>1. UNCHANGED listeners
  BY DEF AllNext, AllExpire, JoinDone, JoinPark, JoinTick, JoinMiss, JoinCheck, JoinExpire,
         Spurious, Begin, gateVars
<1>2. wpc \in [Waiters -> WaiterPlaces]
  BY DEF CountInv, TypeOK
<1>3. CASE Spurious(w) /\ wpc[w] = "gateWait"
  <2>1. wpc' = [wpc EXCEPT ![w] = "lock"]
    BY <1>3 DEF Spurious, Goto
  <2>2. \A v \in Waiters : wpc'[v] \in ListenerPlaces <=> wpc[v] \in ListenerPlaces
    BY <1>2, <1>3, <2>1 DEF ListenerPlaces
  <2> QED  BY <1>1, <2>2, SameRegister DEF CountInv
<1>4. CASE ~(Spurious(w) /\ wpc[w] = "gateWait")
  <2>1. wpc[w] \in {"idle", "next", "join", "joinWait", "ticked", "check"}
    BY <1>4 DEF AllNext, AllExpire, JoinDone, JoinPark, JoinTick, JoinMiss, JoinCheck,
           JoinExpire, Spurious, Begin
  <2>2. \/ UNCHANGED wpc
        \/ \E p \in {"idle", "next", "join", "joinWait", "ticked", "check", "any"} :
               wpc' = [wpc EXCEPT ![w] = p]
    BY <1>4, WaitAssumption DEF AllNext, AllExpire, JoinDone, JoinPark, JoinTick, JoinMiss,
           JoinCheck, JoinExpire, Spurious, Begin, Expire, Return, Goto
  <2>3. \A v \in Waiters : wpc'[v] \in ListenerPlaces <=> wpc[v] \in ListenerPlaces
    BY <1>2, <2>1, <2>2 DEF ListenerPlaces
  <2> QED  BY <1>1, <2>3, SameRegister DEF CountInv
<1> QED  BY <1>3, <1>4

\* wait_any is counted in by WakeListenerGuard::new and out by its drop.
LEMMA AnyKeepsCount ==
    ASSUME CountInv, NEW w \in Waiters,
           \/ AnyReady(w) \/ AnyMiss(w) \/ AnyEnter(w) \/ AnyLock(w) \/ AnyCancelled(w)
           \/ AnyExpire(w) \/ AnyPark(w) \/ AnyTimer(w) \/ AnyLeave(w)
    PROVE  ListenersCounted' /\ listeners' \in Nat
<1>1. wpc \in [Waiters -> WaiterPlaces] /\ listeners \in Nat
  BY DEF CountInv, TypeOK
<1>2. CASE AnyEnter(w)
  <2>1. wpc[w] = "enter" /\ wpc' = [wpc EXCEPT ![w] = "lock"] /\ listeners' = listeners + 1
    BY <1>2 DEF AnyEnter, Goto
  <2>2. w \notin Registered /\ Registered' = Registered \cup {w}
    BY <1>1, <2>1 DEF Registered, ListenerPlaces
  <2>3. Cardinality(Registered') = Cardinality(Registered) + 1
    BY <2>2, RegisteredFinite, FS_AddElement
  <2> QED  BY <1>1, <2>1, <2>3 DEF CountInv, ListenersCounted
<1>3. CASE AnyLeave(w)
  <2>1. /\ wpc[w] = "leave" /\ listeners' = listeners - 1
        /\ wpc' = [wpc EXCEPT ![w] = "any"] \/ wpc' = [wpc EXCEPT ![w] = "idle"]
    BY <1>3 DEF AnyLeave, Goto
  <2>2. w \in Registered /\ Registered' = Registered \ {w}
    BY <1>1, <2>1 DEF Registered, ListenerPlaces
  <2>3. Cardinality(Registered') = Cardinality(Registered) - 1
    BY <2>2, RegisteredFinite, FS_RemoveElement
  <2>4. Cardinality(Registered') \in Nat
    BY <2>2, RegisteredFinite, FS_RemoveElement, FS_CardinalityType
  <2> QED  BY <2>1, <2>3, <2>4 DEF CountInv, ListenersCounted
<1>4. CASE ~AnyEnter(w) /\ ~AnyLeave(w)
  <2>1. UNCHANGED listeners
    BY <1>4 DEF AnyReady, AnyMiss, AnyLock, AnyCancelled, AnyExpire, AnyPark, AnyTimer, gateVars
  <2>2. \/ /\ wpc[w] \in ListenerPlaces
           /\ \E p \in ListenerPlaces : wpc' = [wpc EXCEPT ![w] = p]
        \/ /\ wpc[w] = "any"
           /\ \E p \in {"idle", "enter"} : wpc' = [wpc EXCEPT ![w] = p]
    BY <1>4 DEF AnyReady, AnyMiss, AnyLock, AnyCancelled, AnyExpire, AnyPark, AnyTimer,
           Goto, ListenerPlaces
  <2>3. \A v \in Waiters : wpc'[v] \in ListenerPlaces <=> wpc[v] \in ListenerPlaces
    BY <1>1, <2>2 DEF ListenerPlaces
  <2> QED  BY <1>1, <2>1, <2>3, SameRegister DEF CountInv
<1> QED  BY <1>2, <1>3, <1>4

\* Every step keeps the types and the count.
LEMMA CountInvNext == CountInv /\ [Next]_vars => CountInv'
<1> SUFFICES ASSUME CountInv, [Next]_vars PROVE CountInv'
  OBVIOUS
<1> USE DEF CountInv
<1>1. CASE \E i \in Isos : Finish(i) \/ FinishGateLock(i)
  BY <1>1, FinishTypes, WakersKeepCount
<1>2. CASE \E k \in Cancellers : \/ Cancel(k) \/ CancelGateLock(k) \/ Flush(k)
                                  \/ \E w \in Cancellable : CancelStore(k, w)
  BY <1>2, CancelTypes, WakersKeepCount
<1>3. ASSUME NEW w \in Waiters,
             Run(w) \/ AnyLock(w) \/ Timer(w) \/ Spurious(w)
      PROVE  CountInv'
  <2>1. \/ AllNext(w) \/ AllExpire(w) \/ JoinDone(w) \/ JoinPark(w) \/ JoinTick(w)
        \/ JoinMiss(w) \/ JoinCheck(w) \/ JoinExpire(w) \/ Spurious(w)
        \/ AnyReady(w) \/ AnyMiss(w) \/ AnyEnter(w) \/ AnyLock(w) \/ AnyCancelled(w)
        \/ AnyExpire(w) \/ AnyPark(w) \/ AnyTimer(w) \/ AnyLeave(w)
    BY <1>3 DEF Run, Timer
  <2> QED  BY <2>1, JoinTypes, JoinKeepsCount, AnyTypes, AnyKeepsCount
<1>4. ASSUME NEW w \in Waiters, NEW o \in Uses[w], NEW l \in Lists, NEW timed \in BOOLEAN,
             Begin(w, o, l, timed)
      PROVE  CountInv'
  BY <1>4, BeginTypes, JoinKeepsCount
<1>5. CASE UNCHANGED vars
  BY <1>5 DEF vars, isoVars, cancelVars, gateVars, waiterVars, TypeOK, ListenersCounted, Registered
<1> QED  BY <1>1, <1>2, <1>3, <1>4, <1>5 DEF Next

\* Every variable has its type, ACTIVE_WAKE_LISTENERS among them: the count
\* never goes below zero, because a guard that is dropped was counted in.
THEOREM TypeCorrect == Spec => []TypeOK
<1>1. CountInv => TypeOK
  BY DEF CountInv
<1> QED  BY <1>1, CountInvInit, CountInvNext, PTL DEF Spec

\* wake_all_waiters is skipped only when nobody is in wait_any.
THEOREM CountCorrect == Spec => [](TypeOK /\ ListenersCounted)
<1>1. CountInv => TypeOK /\ ListenersCounted
  BY DEF CountInv
<1> QED  BY <1>1, CountInvInit, CountInvNext, PTL DEF Spec

-----------------------------------------------------------------------------
(* Joiners.  JoinerWakeup is inductive together with the fact that a waiter *)
(* in join always has an isolate of its list before it.                     *)

JoinPlaces == {"join", "joinWait", "ticked", "check"}

PlaceInList ==
    \A w \in Waiters : /\ pos[w] >= 1
                       /\ wpc[w] # "idle" => Len(list[w]) >= 1
                       /\ wpc[w] \in JoinPlaces => pos[w] <= Len(list[w])

JoinInv == CountInv /\ PlaceInList /\ JoinerWakeup

\* Whoever is in join waits for one of the isolates.
LEMMA AwaitedIsAnIsolate ==
    ASSUME TypeOK, PlaceInList, NEW w \in Waiters, wpc[w] \in JoinPlaces
    PROVE  Awaited(w) \in Isos
<1>1. list[w] \in Seq(Isos) /\ pos[w] \in 1 .. Len(list[w])
  BY DEF TypeOK, PlaceInList
<1> QED  BY <1>1 DEF Awaited

\* Initially nobody waits.
LEMMA JoinInvInit == Init => JoinInv
<1> SUFFICES ASSUME Init PROVE JoinInv
  OBVIOUS
<1>1. PlaceInList /\ JoinerWakeup
  BY DEF Init, PlaceInList, JoinerWakeup, JoinPlaces
<1> QED  BY <1>1, CountInvInit DEF JoinInv

\* The place in the list is kept by every step of a waiter.
LEMMA WaiterKeepsPlace ==
    ASSUME TypeOK, PlaceInList, NEW w \in Waiters,
           \/ Run(w) \/ AnyLock(w) \/ Timer(w) \/ Spurious(w)
           \/ \E o \in Uses[w], l \in Lists, timed \in BOOLEAN : Begin(w, o, l, timed)
    PROVE  PlaceInList'
<1> DEFINE InPlace(v) == /\ pos[v] >= 1
                         /\ wpc[v] # "idle" => Len(list[v]) >= 1
                         /\ wpc[v] \in JoinPlaces => pos[v] <= Len(list[v])
<1>1. ASSUME NEW v \in Waiters, v # w PROVE InPlace(v)'
  <2>1. wpc'[v] = wpc[v] /\ pos'[v] = pos[v] /\ list'[v] = list[v]
    BY <1>1 DEF TypeOK, Run, Timer, AllNext, AllExpire, JoinDone, JoinPark, JoinTick, JoinMiss,
           JoinCheck, JoinExpire, Spurious, Begin, Expire, AnyReady, AnyMiss, AnyEnter, AnyLock,
           AnyCancelled, AnyExpire, AnyPark, AnyTimer, AnyLeave, Return, Goto
  <2> QED  BY <2>1 DEF PlaceInList
<1>2. InPlace(w)'
  <2>1. CASE \E o \in Uses[w], l \in Lists, timed \in BOOLEAN : Begin(w, o, l, timed)
    <3>1. PICK l \in Seq(Isos) \ {<<>>} : list' = [list EXCEPT ![w] = l]
                                         /\ pos' = [pos EXCEPT ![w] = 1]
      BY <2>1, WaitAssumption DEF Begin
    <3>2. list'[w] = l /\ pos'[w] = 1 /\ Len(l) >= 1
      BY <3>1 DEF TypeOK
    <3> QED  BY <3>2
  <2>2. CASE AllExpire(w) \/ JoinExpire(w)
    <3>1. list' = list /\ wpc[w] # "idle" /\ (wpc[w] = "next" \/ wpc[w] \in JoinPlaces)
      BY <2>2 DEF AllExpire, JoinExpire, JoinPlaces
    <3>2. \/ pos' = pos /\ wpc' = [wpc EXCEPT ![w] = "idle"]
          \/ pos' = [pos EXCEPT ![w] = 1]
      BY <2>2 DEF AllExpire, JoinExpire, Expire, Return, Goto
    <3> QED  BY <3>1, <3>2 DEF TypeOK, PlaceInList, JoinPlaces
  <2>3. CASE AllNext(w) \/ JoinDone(w)
    <3>1. list' = list /\ wpc[w] # "idle"
      BY <2>3 DEF AllNext, JoinDone
    <3>2. \/ pos' = pos /\ wpc' = [wpc EXCEPT ![w] = "idle"]
          \/ pos' = pos /\ pos[w] <= Len(list[w])
          \/ pos' = [pos EXCEPT ![w] = @ + 1] /\ wpc'[w] = "next"
      BY <2>3 DEF AllNext, JoinDone, Return, Goto, TypeOK
    <3> QED  BY <3>1, <3>2 DEF TypeOK, PlaceInList, JoinPlaces
  <2>4. CASE \/ JoinPark(w) \/ JoinTick(w) \/ JoinMiss(w) \/ JoinCheck(w)
             \/ Spurious(w) /\ wpc[w] = "joinWait"
    <3>1. list' = list /\ pos' = pos /\ wpc[w] \in JoinPlaces
      BY <2>4 DEF JoinPark, JoinTick, JoinMiss, JoinCheck, Spurious, JoinPlaces
    <3> QED  BY <3>1 DEF TypeOK, PlaceInList, JoinPlaces
  <2>5. CASE \/ AnyReady(w) \/ AnyMiss(w) \/ AnyEnter(w) \/ AnyLock(w) \/ AnyCancelled(w)
             \/ AnyExpire(w) \/ AnyPark(w) \/ AnyTimer(w) \/ AnyLeave(w)
             \/ Spurious(w) /\ wpc[w] = "gateWait"
    <3>1. list' = list /\ pos' = pos /\ wpc[w] # "idle"
      BY <2>5 DEF AnyReady, AnyMiss, AnyEnter, AnyLock, AnyCancelled, AnyExpire, AnyPark,
             AnyTimer, AnyLeave, Spurious
    <3>2. wpc'[w] \notin JoinPlaces
      BY <2>5 DEF AnyReady, AnyMiss, AnyEnter, AnyLock, AnyCancelled, AnyExpire, AnyPark,
             AnyTimer, AnyLeave, Spurious, Goto, TypeOK, JoinPlaces
    <3> QED  BY <3>1, <3>2 DEF PlaceInList
  <2> QED  BY <2>1, <2>2, <2>3, <2>4, <2>5 DEF Run, Timer, Spurious
<1> QED  BY <1>1, <1>2 DEF PlaceInList

\* finish() and cancel() only wake: nobody's place changes, and who was in
\* join stays in join.
LEMMA WakersKeepPlace ==
    ASSUME TypeOK, PlaceInList,
           \/ \E i \in Isos : Finish(i) \/ FinishGateLock(i)
           \/ \E k \in Cancellers : \/ Cancel(k) \/ CancelGateLock(k) \/ Flush(k)
                                    \/ \E w \in Cancellable : CancelStore(k, w)
    PROVE  PlaceInList'
<1>1. UNCHANGED <<list, pos>>
  BY DEF Finish, FinishStore, FinishNotify, FinishLoad, FinishGateLock, FinishGateNotify,
         Cancel, CancelStore, CancelLoad, CancelGateLock, CancelGateNotify, Flush, waiterVars
<1>2. \/ UNCHANGED wpc
      \/ \E i \in Isos : wpc' = Woken(JoinersOf(i), "join")
      \/ wpc' = Woken(GateWaiters, "lock")
  BY DEF Finish, FinishStore, FinishNotify, FinishLoad, FinishGateLock, FinishGateNotify,
         Cancel, CancelStore, CancelLoad, CancelGateLock, CancelGateNotify, Flush, waiterVars
<1>3. ASSUME NEW w \in Waiters
      PROVE  /\ wpc'[w] # "idle" => wpc[w] # "idle"
             /\ wpc'[w] \in JoinPlaces => wpc[w] \in JoinPlaces
  BY <1>2 DEF Woken, JoinersOf, GateWaiters, JoinPlaces
<1> QED  BY <1>1, <1>3 DEF PlaceInList

\* finish() stores the outcome, then notifies: a joiner that slept through
\* the store does not sleep through the notification.
LEMMA FinishWakesJoiners ==
    ASSUME JoinInv, NEW i \in Isos, Finish(i) \/ FinishGateLock(i)
    PROVE  JoinerWakeup'
<1> SUFFICES ASSUME NEW w \in Waiters, wpc'[w] = "joinWait", Done(Awaited(w))'
             PROVE  ipc'[Awaited(w)'] = "notify"
  BY DEF JoinerWakeup
<1>1. Awaited(w)' = Awaited(w)
  BY DEF Awaited, Finish, FinishStore, FinishNotify, FinishLoad, FinishGateLock,
         FinishGateNotify, waiterVars
<1>2. wpc[w] = "joinWait"
  BY DEF JoinInv, CountInv, TypeOK, Woken, Finish, FinishStore, FinishNotify, FinishLoad,
         FinishGateLock, FinishGateNotify, waiterVars
<1>3. Awaited(w) \in Isos
  BY <1>2, AwaitedIsAnIsolate DEF JoinInv, CountInv, JoinPlaces
<1>4. CASE FinishStore(i)
  BY <1>1, <1>2, <1>3, <1>4
     DEF FinishStore, IsoGoto, JoinInv, CountInv, TypeOK, JoinerWakeup, Done
<1>5. CASE FinishNotify(i)
  <2>1. Awaited(w) # i
    BY <1>2, <1>5 DEF FinishNotify, Woken, JoinersOf
  <2> QED
    BY <1>1, <1>2, <1>3, <1>5, <2>1
       DEF FinishNotify, IsoGoto, JoinInv, CountInv, TypeOK, JoinerWakeup, Done
<1>6. CASE FinishLoad(i) \/ FinishGateLock(i) \/ FinishGateNotify(i)
  BY <1>1, <1>2, <1>3, <1>6
     DEF FinishLoad, FinishGateLock, FinishGateNotify, IsoGoto, JoinInv, CountInv, TypeOK,
         JoinerWakeup, Done
<1> QED  BY <1>4, <1>5, <1>6 DEF Finish

\* A waiter goes to sleep in join only on an isolate that is not done.
LEMMA WaiterKeepsJoinerWakeup ==
    ASSUME JoinInv, NEW w \in Waiters,
           \/ Run(w) \/ AnyLock(w) \/ Timer(w) \/ Spurious(w)
           \/ \E o \in Uses[w], l \in Lists, timed \in BOOLEAN : Begin(w, o, l, timed)
    PROVE  JoinerWakeup'
<1> SUFFICES ASSUME NEW v \in Waiters, wpc'[v] = "joinWait", Done(Awaited(v))'
             PROVE  ipc'[Awaited(v)'] = "notify"
  BY DEF JoinerWakeup
<1>1. UNCHANGED <<slot, ipc>>
  BY DEF Run, Timer, AllNext, AllExpire, JoinDone, JoinPark, JoinTick, JoinMiss, JoinCheck,
         JoinExpire, Spurious, Begin, AnyReady, AnyMiss, AnyEnter, AnyLock, AnyCancelled,
         AnyExpire, AnyPark, AnyTimer, AnyLeave, isoVars
<1>2. \/ wpc[v] = "joinWait" /\ Awaited(v)' = Awaited(v)
      \/ v = w /\ JoinPark(w)
  BY WaitAssumption
     DEF Run, Timer, AllNext, AllExpire, JoinDone, JoinTick, JoinMiss, JoinCheck, JoinExpire,
         Spurious, Begin, Expire, AnyReady, AnyMiss, AnyEnter, AnyLock, AnyCancelled, AnyExpire,
         AnyPark, AnyTimer, AnyLeave, JoinPark, Return, Goto, Awaited, JoinInv, CountInv, TypeOK
<1>3. CASE v = w /\ JoinPark(w)
  BY <1>1, <1>3 DEF JoinPark, Awaited, Done
<1> QED  BY <1>1, <1>2, <1>3 DEF JoinInv, JoinerWakeup, Done

\* Every step keeps the joiners' invariant.
LEMMA JoinInvNext == JoinInv /\ [Next]_vars => JoinInv'
<1> SUFFICES ASSUME JoinInv, [Next]_vars PROVE JoinInv'
  OBVIOUS
<1>1. CountInv'
  BY CountInvNext DEF JoinInv
<1> USE DEF JoinInv, CountInv
<1>2. CASE \E i \in Isos : Finish(i) \/ FinishGateLock(i)
  BY <1>1, <1>2, WakersKeepPlace, FinishWakesJoiners
<1>3. CASE \E k \in Cancellers : \/ Cancel(k) \/ CancelGateLock(k) \/ Flush(k)
                                  \/ \E w \in Cancellable : CancelStore(k, w)
  <2>1. UNCHANGED <<slot, ipc, list, pos>>
    BY <1>3 DEF Cancel, CancelStore, CancelLoad, CancelGateLock, CancelGateNotify, Flush,
           isoVars, waiterVars
  <2>2. ASSUME NEW w \in Waiters, wpc'[w] = "joinWait" PROVE wpc[w] = "joinWait"
    BY <1>3, <2>2 DEF Cancel, CancelStore, CancelLoad, CancelGateLock, CancelGateNotify, Flush,
           Woken, waiterVars
  <2>3. JoinerWakeup'
    BY <2>1, <2>2 DEF JoinerWakeup, Awaited, Done
  <2> QED  BY <1>1, <1>3, <2>3, WakersKeepPlace
<1>4. ASSUME NEW w \in Waiters,
             \/ Run(w) \/ AnyLock(w) \/ Timer(w) \/ Spurious(w)
             \/ \E o \in Uses[w], l \in Lists, timed \in BOOLEAN : Begin(w, o, l, timed)
      PROVE  JoinInv'
  BY <1>1, <1>4, WaiterKeepsPlace, WaiterKeepsJoinerWakeup
<1>5. CASE UNCHANGED vars
  BY <1>1, <1>5 DEF vars, isoVars, waiterVars, PlaceInList, JoinerWakeup, Awaited, Done
<1> QED  BY <1>2, <1>3, <1>4, <1>5 DEF Next

\* No join and no wait_all sleeps through the end of the isolate it waits
\* for, however many joiners and isolates there are.
THEOREM JoinersAreWoken == Spec => []JoinerWakeup
<1>1. JoinInv => JoinerWakeup
  BY DEF JoinInv
<1> QED  BY <1>1, JoinInvInit, JoinInvNext, PTL DEF Spec

-----------------------------------------------------------------------------
(* wait_any.  That finish() wakes it is inductive with two more facts,      *)
(* whatever memory does: who holds the gate, and that an isolate which      *)
(* finishes after a waiter's scan cannot get through the gate before that   *)
(* waiter sleeps.  For cancel() it is who may have a store under way.       *)

HoldingPlaces == {"scan", "last", "decide", "leave"}

GateHeld == \A w \in Waiters : gateOwner = w <=> wpc[w] \in HoldingPlaces

\* Who has passed the gate's mutex has no store under way.
StoresVisible ==
    \A k \in Cancellers : buffered[k] # None => kpc[k] \in {"ready", "load", "gateLock"}

\* Between its scan and its sleep a waiter is followed by whoever it missed.
DecisionSafe ==
    \A w \in Waiters : wpc[w] = "decide" /\ AnyDone(w)
        => \E i \in Isos : ipc[i] \in {"notify", "load", "gateLock"}

GateInv == CountInv /\ GateHeld /\ DecisionSafe /\ FinishWakesGate

CancelInv == GateInv /\ StoresVisible /\ CancelWakesGate

\* Initially the gate is free.
LEMMA GateInvInit == Init => CancelInv
<1> SUFFICES ASSUME Init PROVE CancelInv
  OBVIOUS
<1>1. GateHeld
  BY WaitAssumption DEF Init, GateHeld, HoldingPlaces
<1>2. StoresVisible /\ DecisionSafe /\ FinishWakesGate /\ CancelWakesGate
  BY DEF Init, StoresVisible, DecisionSafe, FinishWakesGate, CancelWakesGate
<1> QED  BY <1>1, <1>2, CountInvInit DEF GateInv, CancelInv

\* A waiter of the gate is counted, so the counter is not zero.
LEMMA ListenersSeen ==
    ASSUME CountInv, NEW w \in Waiters, wpc[w] \in ListenerPlaces
    PROVE  listeners > 0
<1>1. Registered # {}
  BY DEF Registered
<1>2. Cardinality(Registered) # 0
  BY <1>1, RegisteredFinite, FS_EmptySet
<1> QED  BY <1>2, RegisteredFinite DEF CountInv, ListenersCounted

\* finish() stores before it looks at the counter, and passes the gate
\* before it notifies.
LEMMA FinishKeepsGate ==
    ASSUME GateInv, NEW i \in Isos, Finish(i) \/ FinishGateLock(i)
    PROVE  /\ GateHeld' /\ DecisionSafe' /\ FinishWakesGate'
           /\ StoresVisible /\ CancelWakesGate => StoresVisible' /\ CancelWakesGate'
<1> USE DEF GateInv, CountInv
<1>1. /\ UNCHANGED <<cancelVars, gateVars, list>>
      /\ ipc' = [ipc EXCEPT ![i] = ipc'[i]]
      /\ ipc'[i] \in IsoPlaces
  BY DEF Finish, FinishStore, FinishNotify, FinishLoad, FinishGateLock, FinishGateNotify,
         IsoGoto, IsoPlaces, TypeOK, waiterVars
<1>2. ASSUME NEW w \in Waiters
      PROVE  /\ wpc'[w] \in HoldingPlaces <=> wpc[w] \in HoldingPlaces
             /\ wpc'[w] = "decide" => wpc[w] = "decide"
             /\ wpc'[w] = "gateWait" => wpc[w] = "gateWait" /\ ~FinishGateNotify(i)
  BY DEF Finish, FinishStore, FinishNotify, FinishLoad, FinishGateLock, FinishGateNotify,
         Woken, JoinersOf, GateWaiters, waiterVars, TypeOK, HoldingPlaces
<1>3. /\ GateHeld'
      /\ StoresVisible /\ CancelWakesGate => StoresVisible' /\ CancelWakesGate'
  BY <1>1, <1>2 DEF GateHeld, StoresVisible, CancelWakesGate, IsCancelled, cancelVars, gateVars
<1>4. CASE FinishStore(i)
  <2>1. ipc'[i] = "notify"
    BY <1>4 DEF FinishStore, IsoGoto, TypeOK
  <2> QED  BY <1>3, <2>1 DEF DecisionSafe, FinishWakesGate
<1>5. CASE ~FinishStore(i)
  <2>1. UNCHANGED slot
    BY <1>5 DEF Finish, FinishNotify, FinishLoad, FinishGateLock, FinishGateNotify
  <2>2. ASSUME NEW w \in Waiters PROVE AnyDone(w)' <=> AnyDone(w)
    BY <1>1, <2>1 DEF AnyDone, Done
  <2>3. ASSUME NEW w \in Waiters, wpc'[w] = "decide", AnyDone(w)'
        PROVE  \E n \in Isos : ipc'[n] \in {"notify", "load", "gateLock"}
    <3>1. wpc[w] = "decide" /\ AnyDone(w)
      BY <1>2, <2>2, <2>3
    <3>2. PICK n \in Isos : ipc[n] \in {"notify", "load", "gateLock"}
      BY <3>1 DEF DecisionSafe
    <3>3. listeners > 0 /\ gateOwner # None
      BY <3>1, ListenersSeen, WaitAssumption DEF ListenerPlaces, GateHeld, HoldingPlaces
    <3>4. ipc'[n] \in {"notify", "load", "gateLock"}
      BY <1>5, <3>2, <3>3 DEF Finish, FinishNotify, FinishLoad, FinishGateLock, FinishGateNotify,
             IsoGoto, TypeOK
    <3> QED  BY <3>4
  <2>4. ASSUME NEW w \in Waiters, wpc'[w] = "gateWait", AnyDone(w)'
        PROVE  \E n \in Isos : ipc'[n] \in {"notify", "load", "gateLock", "gateNotify"}
    <3>1. wpc[w] = "gateWait" /\ AnyDone(w) /\ ~FinishGateNotify(i)
      BY <1>2, <2>2, <2>4
    <3>2. PICK n \in Isos : ipc[n] \in {"notify", "load", "gateLock", "gateNotify"}
      BY <3>1 DEF FinishWakesGate
    <3>3. listeners > 0
      BY <3>1, ListenersSeen DEF ListenerPlaces
    <3>4. ipc'[n] \in {"notify", "load", "gateLock", "gateNotify"}
      BY <1>5, <3>1, <3>2, <3>3 DEF Finish, FinishNotify, FinishLoad, FinishGateLock, IsoGoto, TypeOK
    <3> QED  BY <3>4
  <2> QED  BY <1>3, <2>3, <2>4 DEF DecisionSafe, FinishWakesGate
<1> QED  BY <1>4, <1>5

\* cancel(), visible or not, hides no finished isolate from a wait_any.
LEMMA CancelKeepsGate ==
    ASSUME GateInv, NEW k \in Cancellers,
           \/ Cancel(k) \/ CancelGateLock(k) \/ Flush(k)
           \/ \E w \in Cancellable : CancelStore(k, w)
    PROVE  GateHeld' /\ DecisionSafe' /\ FinishWakesGate'
<1> USE DEF GateInv, CountInv
<1>1. UNCHANGED <<isoVars, gateVars, list>>
  BY DEF Cancel, CancelStore, CancelLoad, CancelGateLock, CancelGateNotify, Flush, waiterVars
<1>2. ASSUME NEW w \in Waiters
      PROVE  /\ wpc'[w] \in HoldingPlaces <=> wpc[w] \in HoldingPlaces
             /\ wpc'[w] = "decide" => wpc[w] = "decide"
             /\ wpc'[w] = "gateWait" => wpc[w] = "gateWait"
  BY DEF Cancel, CancelStore, CancelLoad, CancelGateLock, CancelGateNotify, Flush,
         Woken, GateWaiters, waiterVars, TypeOK, HoldingPlaces
<1> QED  BY <1>1, <1>2 DEF GateHeld, DecisionSafe, FinishWakesGate, AnyDone, Done,
         isoVars, gateVars

\* A cancellation becomes visible while its cancel() is still on the way to the
\* gate, or it comes late; and cancel() passes the gate before it notifies.
LEMMA CancelKeepsCancel ==
    ASSUME CancelInv, NEW k \in Cancellers,
           \/ Cancel(k) \/ CancelGateLock(k) \/ Flush(k)
           \/ \E w \in Cancellable : CancelStore(k, w)
    PROVE  StoresVisible' /\ CancelWakesGate'
<1> USE DEF CancelInv, GateInv, CountInv
<1>1. CASE \E w \in Cancellable : CancelStore(k, w)
  <2>1. kpc'[k] = "load" /\ \A n \in Cancellers \ {k} : buffered'[n] = buffered[n] /\ kpc'[n] = kpc[n]
    BY <1>1 DEF CancelStore, CancelGoto, TypeOK
  <2> QED  BY <2>1 DEF StoresVisible, CancelWakesGate
<1>2. CASE Flush(k)
  <2>1. kpc' = kpc /\ wpc' = wpc /\ late \subseteq late'
        /\ \A n \in Cancellers : buffered'[n] # None => buffered[n] # None
    BY <1>2 DEF Flush, waiterVars, TypeOK
  <2>2. StoresVisible'
    BY <2>1 DEF StoresVisible
  <2>3. ASSUME NEW w \in Waiters, wpc[w] = "gateWait", IsCancelled(w)', w \notin late'
        PROVE  \E n \in Cancellers : kpc[n] \in {"load", "gateLock", "gateNotify"}
    <3>1. CASE IsCancelled(w)
      BY <2>1, <2>3, <3>1 DEF CancelWakesGate
    <3>2. CASE ~IsCancelled(w)
      <4>1. w = buffered[k] /\ ~cancelled[w]
        BY <1>2, <2>3, <3>2 DEF Flush, IsCancelled, TypeOK
      <4>2. kpc[k] # "ready"
        BY <1>2, <2>3, <4>1 DEF Flush
      <4> QED  BY <1>2, <4>2 DEF StoresVisible, Flush
    <3> QED  BY <3>1, <3>2
  <2> QED  BY <2>1, <2>2, <2>3 DEF CancelWakesGate
<1>3. CASE Cancel(k) \/ CancelGateLock(k)
  <2>1. UNCHANGED <<cancelled, buffered, late>>
    BY <1>3 DEF Cancel, CancelLoad, CancelGateLock, CancelGateNotify
  <2>2. ASSUME NEW w \in Waiters, wpc'[w] = "gateWait", IsCancelled(w)', w \notin late'
        PROVE  \E n \in Cancellers : kpc'[n] \in {"load", "gateLock", "gateNotify"}
    <3>1. wpc[w] = "gateWait" /\ IsCancelled(w) /\ w \notin late /\ ~CancelGateNotify(k)
      BY <1>3, <2>1, <2>2 DEF IsCancelled, Cancel, CancelLoad, CancelGateLock, CancelGateNotify,
             Woken, GateWaiters, waiterVars, TypeOK
    <3>2. PICK n \in Cancellers : kpc[n] \in {"load", "gateLock", "gateNotify"}
      BY <3>1 DEF CancelWakesGate
    <3>3. listeners > 0
      BY <3>1, ListenersSeen DEF ListenerPlaces
    <3>4. kpc'[n] \in {"load", "gateLock", "gateNotify"}
      BY <1>3, <3>1, <3>2, <3>3 DEF Cancel, CancelLoad, CancelGateLock, CancelGoto, TypeOK
    <3> QED  BY <3>4
  <2>3. StoresVisible'
    BY <1>3, <2>1 DEF StoresVisible, Cancel, CancelLoad, CancelGateLock, CancelGateNotify, CancelGoto,
           TypeOK
  <2> QED  BY <2>2, <2>3 DEF CancelWakesGate
<1> QED  BY <1>1, <1>2, <1>3

\* What a step of one waiter leaves alone, and how it moves.
LEMMA WaiterStep ==
    ASSUME TypeOK, NEW w \in Waiters,
           \/ Run(w) \/ AnyLock(w) \/ Timer(w) \/ Spurious(w)
           \/ \E o \in Uses[w], l \in Lists, timed \in BOOLEAN : Begin(w, o, l, timed)
    PROVE  /\ UNCHANGED <<isoVars, cancelVars>>
           /\ \A v \in Waiters \ {w} : wpc'[v] = wpc[v] /\ list'[v] = list[v]
           /\ wpc'[w] \in {"decide", "gateWait"} => list'[w] = list[w]
           /\ wpc'[w] = "decide" => wpc[w] = "decide" \/ AnyMiss(w)
           /\ wpc'[w] = "gateWait" => wpc[w] = "gateWait" \/ AnyPark(w)
<1> USE DEF Run, Timer, AllNext, AllExpire, JoinDone, JoinPark, JoinTick, JoinMiss, JoinCheck,
            JoinExpire, Spurious, Begin, AnyReady, AnyMiss, AnyEnter, AnyLock, AnyCancelled,
            AnyExpire, AnyPark, AnyTimer, AnyLeave
<1>1. UNCHANGED <<isoVars, cancelVars>>
  OBVIOUS
<1>2. ASSUME NEW v \in Waiters, v # w PROVE wpc'[v] = wpc[v] /\ list'[v] = list[v]
  BY <1>2 DEF TypeOK, Expire, Return, Goto
<1>3. /\ wpc'[w] \in {"decide", "gateWait"} => list'[w] = list[w]
      /\ wpc'[w] = "decide" => wpc[w] = "decide" \/ AnyMiss(w)
      /\ wpc'[w] = "gateWait" => wpc[w] = "gateWait" \/ AnyPark(w)
  BY WaitAssumption DEF TypeOK, Expire, Return, Goto
<1> QED  BY <1>1, <1>2, <1>3

\* The gate's owner is the waiter between taking the gate and letting it go.
LEMMA WaiterKeepsHeld ==
    ASSUME TypeOK, GateHeld, NEW w \in Waiters,
           \/ Run(w) \/ AnyLock(w) \/ Timer(w) \/ Spurious(w)
           \/ \E o \in Uses[w], l \in Lists, timed \in BOOLEAN : Begin(w, o, l, timed)
    PROVE  GateHeld'
<1>1. \A v \in Waiters \ {w} : wpc'[v] = wpc[v]
  BY WaiterStep
<1>2. CASE AnyLock(w)
  BY <1>1, <1>2, WaitAssumption DEF AnyLock, Goto, TypeOK, GateHeld, HoldingPlaces
<1>3. CASE AnyPark(w) \/ AnyLeave(w)
  <2>1. gateOwner = w /\ gateOwner' = None /\ wpc'[w] \notin HoldingPlaces
    BY <1>3 DEF AnyPark, AnyLeave, Goto, TypeOK, GateHeld, HoldingPlaces
  <2> QED  BY <1>1, <2>1, WaitAssumption DEF GateHeld
<1>4. CASE ~AnyLock(w) /\ ~AnyPark(w) /\ ~AnyLeave(w)
  <2>1. UNCHANGED gateOwner
    BY <1>4 DEF Run, Timer, AllNext, AllExpire, JoinDone, JoinPark, JoinTick, JoinMiss,
           JoinCheck, JoinExpire, Spurious, Begin, AnyReady, AnyMiss, AnyEnter, AnyCancelled,
           AnyExpire, AnyTimer, gateVars
  <2>2. wpc'[w] \in HoldingPlaces <=> wpc[w] \in HoldingPlaces
    BY <1>4, WaitAssumption
       DEF Run, Timer, AllNext, AllExpire, JoinDone, JoinPark, JoinTick, JoinMiss, JoinCheck,
           JoinExpire, Spurious, Begin, Expire, AnyReady, AnyMiss, AnyEnter, AnyCancelled,
           AnyExpire, AnyTimer, Return, Goto, TypeOK, HoldingPlaces
  <2> QED  BY <1>1, <2>1, <2>2 DEF GateHeld
<1> QED  BY <1>2, <1>3, <1>4

\* A waiter decides to sleep after a scan that found nothing, and sleeps only
\* when it is not cancelled.
LEMMA WaiterKeepsGate ==
    ASSUME GateInv, NEW w \in Waiters,
           \/ Run(w) \/ AnyLock(w) \/ Timer(w) \/ Spurious(w)
           \/ \E o \in Uses[w], l \in Lists, timed \in BOOLEAN : Begin(w, o, l, timed)
    PROVE  /\ DecisionSafe' /\ FinishWakesGate'
           /\ StoresVisible /\ CancelWakesGate => StoresVisible' /\ CancelWakesGate'
<1> USE DEF GateInv, CountInv
<1>1. /\ UNCHANGED <<isoVars, cancelVars>>
      /\ \A v \in Waiters \ {w} : wpc'[v] = wpc[v] /\ list'[v] = list[v]
      /\ wpc'[w] \in {"decide", "gateWait"} => list'[w] = list[w]
      /\ wpc'[w] = "decide" => wpc[w] = "decide" \/ AnyMiss(w)
      /\ wpc'[w] = "gateWait" => wpc[w] = "gateWait" \/ AnyPark(w)
  BY WaiterStep
<1>2. ASSUME NEW v \in Waiters, wpc'[v] \in {"decide", "gateWait"}
      PROVE  (AnyDone(v)' <=> AnyDone(v)) /\ (IsCancelled(v)' <=> IsCancelled(v))
  BY <1>1, <1>2 DEF AnyDone, Done, IsCancelled, isoVars, cancelVars
<1>3. ASSUME NEW v \in Waiters, wpc'[v] = "decide", AnyDone(v)'
      PROVE  wpc[v] = "decide" /\ AnyDone(v)
  BY <1>1, <1>2, <1>3 DEF AnyMiss
<1>4. ASSUME NEW v \in Waiters, wpc'[v] = "gateWait"
      PROVE  \/ wpc[v] = "gateWait"
             \/ wpc[v] = "decide" /\ ~IsCancelled(v)
  BY <1>1, <1>4 DEF AnyPark
<1>5. DecisionSafe'
  BY <1>1, <1>3 DEF DecisionSafe, isoVars
<1>6. FinishWakesGate'
  BY <1>1, <1>2, <1>4 DEF FinishWakesGate, DecisionSafe, isoVars
<1>7. ASSUME StoresVisible, CancelWakesGate PROVE StoresVisible' /\ CancelWakesGate'
  BY <1>1, <1>2, <1>4, <1>7 DEF StoresVisible, CancelWakesGate, cancelVars
<1> QED  BY <1>5, <1>6, <1>7

\* Every step keeps the gate's invariant.
LEMMA GateInvNext == GateInv /\ [Next]_vars => GateInv'
<1> SUFFICES ASSUME GateInv, [Next]_vars PROVE GateInv'
  OBVIOUS
<1>1. CountInv'
  BY CountInvNext DEF GateInv
<1>2. CASE \E i \in Isos : Finish(i) \/ FinishGateLock(i)
  BY <1>1, <1>2, FinishKeepsGate DEF GateInv
<1>3. CASE \E k \in Cancellers : \/ Cancel(k) \/ CancelGateLock(k) \/ Flush(k)
                                  \/ \E w \in Cancellable : CancelStore(k, w)
  BY <1>1, <1>3, CancelKeepsGate DEF GateInv
<1>4. ASSUME NEW w \in Waiters,
             \/ Run(w) \/ AnyLock(w) \/ Timer(w) \/ Spurious(w)
             \/ \E o \in Uses[w], l \in Lists, timed \in BOOLEAN : Begin(w, o, l, timed)
      PROVE  GateInv'
  BY <1>1, <1>4, WaiterKeepsHeld, WaiterKeepsGate DEF GateInv, CountInv
<1>5. CASE UNCHANGED vars
  BY <1>1, <1>5 DEF vars, isoVars, gateVars, waiterVars, GateInv, GateHeld,
         DecisionSafe, FinishWakesGate, AnyDone, Done
<1> QED  BY <1>2, <1>3, <1>4, <1>5 DEF Next

\* Every step keeps what cancel() needs.
LEMMA CancelInvNext == CancelInv /\ [Next]_vars => CancelInv'
<1> SUFFICES ASSUME CancelInv, [Next]_vars PROVE CancelInv'
  OBVIOUS
<1>1. GateInv'
  BY GateInvNext DEF CancelInv
<1>2. CASE \E i \in Isos : Finish(i) \/ FinishGateLock(i)
  BY <1>1, <1>2, FinishKeepsGate DEF CancelInv
<1>3. CASE \E k \in Cancellers : \/ Cancel(k) \/ CancelGateLock(k) \/ Flush(k)
                                  \/ \E w \in Cancellable : CancelStore(k, w)
  BY <1>1, <1>3, CancelKeepsCancel DEF CancelInv
<1>4. ASSUME NEW w \in Waiters,
             \/ Run(w) \/ AnyLock(w) \/ Timer(w) \/ Spurious(w)
             \/ \E o \in Uses[w], l \in Lists, timed \in BOOLEAN : Begin(w, o, l, timed)
      PROVE  CancelInv'
  BY <1>1, <1>4, WaiterKeepsGate DEF CancelInv
<1>5. CASE UNCHANGED vars
  BY <1>1, <1>5 DEF vars, cancelVars, waiterVars, CancelInv, StoresVisible,
         CancelWakesGate, IsCancelled
<1> QED  BY <1>2, <1>3, <1>4, <1>5 DEF Next

\* No wait_any sleeps through its own cancellation, unless cancel()'s relaxed
\* load passed its store and found nobody: those are the cancellations of late.
THEOREM CancelIsSeen == Spec => []CancelWakesGate
<1>1. CancelInv => CancelWakesGate
  BY DEF CancelInv
<1> QED  BY <1>1, GateInvInit, CancelInvNext, PTL DEF Spec

\* No wait_any sleeps through the end of an isolate of its list, however many
\* waiters, isolates and cancellers there are and however late cancel()'s
\* stores become visible; nor through a cancellation that does not come late.
THEOREM WaitAnyIsWoken == Spec => []GateWakeup
<1>1. CancelInv => GateWakeup
  BY DEF CancelInv, GateInv, GateWakeup
<1> QED  BY <1>1, GateInvInit, CancelInvNext, PTL DEF Spec
-----------------------------------------------------------------------------
(* Answers *)

AnyPlaces == {"any", "enter"} \cup ListenerPlaces

\* A wait is where its operation takes it; join has one isolate, and wait_all has passed
\* finished isolates only.
Serves(w) ==
    /\ wpc[w] = "next" => op[w] = "waitAll"
    /\ wpc[w] \in JoinPlaces => op[w] \in {"join", "waitAll"}
    /\ wpc[w] \in AnyPlaces => op[w] = "waitAny"
    /\ op[w] = "join" /\ wpc[w] # "idle" => Len(list[w]) = 1 /\ pos[w] = 1
    /\ op[w] = "waitAll" /\ wpc[w] # "idle" =>
           \A n \in DOMAIN list[w] : n < pos[w] => Done(list[w][n])

\* What AnswersAreTrue says of one waiter.
Truthful(w) ==
    /\ answer[w] = "ready" /\ op[w] = "waitAny" => AnyDone(w)
    /\ answer[w] = "ready" /\ op[w] # "waitAny" =>
           \A n \in DOMAIN list[w] : Done(list[w][n])
    /\ answer[w] = "cancelled" => IsCancelled(w)
    /\ answer[w] = "timedOut" => deadline[w] = "timeout"

ObservedDone == \A i \in Isos : observed[i] => Done(i)

AnswerInv ==
    JoinInv /\ ObservedDone /\ \A w \in Waiters : Serves(w) /\ Truthful(w)

\* Outcomes and cancellations are never taken back.
LEMMA OutcomesStay ==
    ASSUME TypeOK,
           \/ \E i \in Isos : Finish(i) \/ FinishGateLock(i)
           \/ \E k \in Cancellers : \/ Cancel(k) \/ CancelGateLock(k) \/ Flush(k)
                                    \/ \E w \in Cancellable : CancelStore(k, w)
    PROVE  /\ \A i \in Isos : Done(i) => Done(i)'
           /\ \A w \in Waiters : IsCancelled(w) => IsCancelled(w)'
           /\ UNCHANGED <<observed, op, list, pos, deadline, answer>>
           /\ \A w \in Waiters : \/ wpc'[w] = wpc[w]
                                 \/ wpc[w] = "joinWait" /\ wpc'[w] = "join"
                                 \/ wpc[w] = "gateWait" /\ wpc'[w] = "lock"
<1>1. CASE \E i \in Isos : Finish(i) \/ FinishGateLock(i)
  BY <1>1
     DEF Finish, FinishStore, FinishNotify, FinishLoad, FinishGateLock, FinishGateNotify, TypeOK,
         Done, IsCancelled, cancelVars, waiterVars, Woken, JoinersOf, GateWaiters
<1>2. CASE \E k \in Cancellers : \/ Cancel(k) \/ CancelGateLock(k) \/ Flush(k)
                                 \/ \E w \in Cancellable : CancelStore(k, w)
  BY <1>2
     DEF Cancel, CancelLoad, CancelGateLock, CancelGateNotify, CancelStore, Flush, TypeOK,
         Done, IsCancelled, isoVars, waiterVars, Woken, GateWaiters
<1> QED  BY <1>1, <1>2

\* finish() and cancel() make nothing true that was false, and nothing false that was true.
LEMMA WakersKeepAnswers ==
    ASSUME AnswerInv,
           \/ \E i \in Isos : Finish(i) \/ FinishGateLock(i)
           \/ \E k \in Cancellers : \/ Cancel(k) \/ CancelGateLock(k) \/ Flush(k)
                                    \/ \E w \in Cancellable : CancelStore(k, w)
    PROVE  ObservedDone' /\ \A w \in Waiters : Serves(w)' /\ Truthful(w)'
<1>0. TypeOK
  BY DEF AnswerInv, JoinInv, CountInv
<1>1. /\ \A i \in Isos : Done(i) => Done(i)'
      /\ \A w \in Waiters : IsCancelled(w) => IsCancelled(w)'
      /\ UNCHANGED <<observed, op, list, pos, deadline, answer>>
      /\ \A w \in Waiters : \/ wpc'[w] = wpc[w]
                            \/ wpc[w] = "joinWait" /\ wpc'[w] = "join"
                            \/ wpc[w] = "gateWait" /\ wpc'[w] = "lock"
  BY <1>0, OutcomesStay
<1>2. ObservedDone'
  BY <1>1 DEF AnswerInv, ObservedDone
<1>3. ASSUME NEW w \in Waiters
      PROVE  Serves(w)' /\ Truthful(w)'
  <2>1. \A n \in DOMAIN list[w] : Done(list[w][n]) => slot'[list[w][n]] # "pending"
    <3>1. \A n \in DOMAIN list[w] : list[w][n] \in Isos
      BY <1>0 DEF TypeOK
    <3> QED  BY <1>1, <3>1 DEF Done
  <2>2. Serves(w) /\ Truthful(w)
    BY DEF AnswerInv
  <2>3. Serves(w)'
    BY <1>1, <2>1, <2>2 DEF Serves, JoinPlaces, AnyPlaces, ListenerPlaces, Done
  <2>4. AnyDone(w) => AnyDone(w)'
    BY <1>1, <2>1 DEF AnyDone, Done
  <2>5. Truthful(w)'
    BY <1>1, <2>1, <2>2, <2>4 DEF Truthful, Done
  <2> QED  BY <2>3, <2>5
<1> QED  BY <1>2, <1>3

\* A waiter moves its own wait only.
LEMMA WaiterFrame ==
    ASSUME TypeOK, NEW w \in Waiters,
           \/ Run(w) \/ AnyLock(w) \/ Timer(w) \/ Spurious(w)
           \/ \E o \in Uses[w], l \in Lists, timed \in BOOLEAN : Begin(w, o, l, timed)
    PROVE  /\ UNCHANGED <<slot, cancelled>>
           /\ \A v \in Waiters \ {w} :
                  /\ wpc'[v] = wpc[v] /\ op'[v] = op[v] /\ list'[v] = list[v]
                  /\ pos'[v] = pos[v] /\ deadline'[v] = deadline[v] /\ answer'[v] = answer[v]
           /\ observed' = observed \/ JoinDone(w)
<1> USE DEF Run, Timer, AllNext, AllExpire, JoinDone, JoinPark, JoinTick, JoinMiss, JoinCheck,
            JoinExpire, Spurious, Begin, AnyReady, AnyMiss, AnyEnter, AnyLock, AnyCancelled,
            AnyExpire, AnyPark, AnyTimer, AnyLeave
<1>1. UNCHANGED <<slot, cancelled>> /\ (observed' = observed \/ JoinDone(w))
  BY DEF isoVars, cancelVars
<1>2. ASSUME NEW v \in Waiters, v # w
      PROVE  /\ wpc'[v] = wpc[v] /\ op'[v] = op[v] /\ list'[v] = list[v]
             /\ pos'[v] = pos[v] /\ deadline'[v] = deadline[v] /\ answer'[v] = answer[v]
  BY <1>2 DEF TypeOK, Expire, Return, Goto, Answer
<1> QED  BY <1>1, <1>2

\* A waiter's own wait: an answer is given when it is true.
LEMMA WaiterAnswers ==
    ASSUME TypeOK, PlaceInList, NEW w \in Waiters, Serves(w), Truthful(w),
           \/ Run(w) \/ AnyLock(w) \/ Timer(w) \/ Spurious(w)
           \/ \E o \in Uses[w], l \in Lists, timed \in BOOLEAN : Begin(w, o, l, timed)
    PROVE  Serves(w)' /\ Truthful(w)'
<1>0. /\ list[w] \in Seq(Isos) /\ pos[w] \in Nat /\ Len(list[w]) \in Nat
      /\ DOMAIN list[w] = 1 .. Len(list[w]) /\ pos[w] >= 1
  BY DEF TypeOK, PlaceInList
<1>1. slot' = slot /\ cancelled' = cancelled
  BY WaiterFrame
<1>2. CASE \E o \in Uses[w], l \in Lists, timed \in BOOLEAN : Begin(w, o, l, timed)
  <2> PICK o \in Uses[w], l \in Lists, timed \in BOOLEAN : Begin(w, o, l, timed)
    BY <1>2
  <2>1. o \in {"join", "waitAll", "waitAny"} /\ l \in Seq(Isos)
    BY WaitAssumption
  <2>2. /\ op'[w] = o /\ list'[w] = l /\ pos'[w] = 1 /\ answer'[w] = "none"
        /\ wpc'[w] = CASE o = "join" -> "join" [] o = "waitAll" -> "next" [] o = "waitAny" -> "any"
        /\ o = "join" => Len(l) = 1
    BY DEF Begin, Answer, Goto, TypeOK
  <2>3. Serves(w)'
    BY <2>1, <2>2 DEF Serves, JoinPlaces, AnyPlaces, ListenerPlaces
  <2>4. Truthful(w)'
    BY <2>2 DEF Truthful
  <2> QED  BY <2>3, <2>4
<1>3. ASSUME op' = op, list' = list, pos' = pos, deadline' = deadline, answer' = answer,
             \/ wpc'[w] = wpc[w]
             \/ wpc[w] # "idle" /\ wpc'[w] \in JoinPlaces /\ wpc[w] \in JoinPlaces
             \/ wpc[w] # "idle" /\ wpc'[w] \in AnyPlaces /\ wpc[w] \in AnyPlaces
             \/ wpc[w] = "next" /\ wpc'[w] \in JoinPlaces
             \/ wpc'[w] = "idle"
      PROVE  Serves(w)' /\ Truthful(w)'
  BY <1>1, <1>3 DEF Serves, Truthful, AnyDone, Done, IsCancelled, JoinPlaces, AnyPlaces,
       ListenerPlaces
<1>4. ASSUME op' = op, list' = list, pos' = pos, deadline' = deadline,
             \/ wpc'[w] = "idle"
             \/ wpc'[w] = "leave" /\ wpc[w] \in AnyPlaces,
             \/ answer'[w] = "cancelled" /\ IsCancelled(w)
             \/ answer'[w] = "timedOut" /\ deadline[w] = "timeout"
             \/ answer'[w] = "ready" /\ op[w] = "waitAny" /\ AnyDone(w)
             \/ /\ answer'[w] = "ready" /\ op[w] # "waitAny"
                /\ \A n \in DOMAIN list[w] : Done(list[w][n])
      PROVE  Serves(w)' /\ Truthful(w)'
  BY <1>1, <1>4 DEF Serves, Truthful, AnyDone, Done, IsCancelled, JoinPlaces, AnyPlaces,
       ListenerPlaces
<1>5. ASSUME op' = op, list' = list, answer' = answer, op[w] = "waitAll",
             deadline' = deadline, wpc'[w] = "next", wpc[w] # "idle",
             pos'[w] = pos[w] + 1, Done(Awaited(w))
      PROVE  Serves(w)' /\ Truthful(w)'
  <2>1. \A n \in DOMAIN list[w] : n < pos[w] + 1 => n < pos[w] \/ n = pos[w]
    BY <1>0
  <2>2. \A n \in DOMAIN list[w] : n < pos'[w] => Done(list[w][n])
    BY <1>5, <2>1 DEF Serves, Awaited
  <2>3. \A n \in DOMAIN list[w] : n < pos'[w] => slot'[list[w][n]] # "pending"
    BY <1>1, <1>5, <2>2 DEF Done
  <2>4. Serves(w)'
    BY <1>5, <2>3 DEF Serves, JoinPlaces, AnyPlaces, ListenerPlaces, Done
  <2>5. Truthful(w)'
    BY <1>1, <1>5 DEF Truthful, AnyDone, Done, IsCancelled
  <2> QED  BY <2>4, <2>5
<1>6. ASSUME Expire(w), op' = op, list' = list, op[w] \in {"join", "waitAll"}, wpc[w] # "idle"
      PROVE  Serves(w)' /\ Truthful(w)'
  <2>1. CASE deadline[w] = "timeout"
    <3>1. wpc'[w] = "idle" /\ answer'[w] = "timedOut" /\ deadline' = deadline /\ pos' = pos
      BY <1>6, <2>1 DEF Expire, Return, Goto, Answer, TypeOK
    <3> QED  BY <1>4, <1>6, <2>1, <3>1
  <2>2. CASE deadline[w] # "timeout"
    <3>1. /\ deadline[w] = "idle" /\ pos'[w] = 1 /\ answer' = answer
          /\ wpc'[w] = IF op[w] = "waitAll" THEN "next" ELSE "join"
      BY <1>6, <2>2 DEF Expire, Goto, TypeOK
    <3>2. Serves(w)'
      BY <1>0, <1>6, <3>1 DEF Serves, JoinPlaces, AnyPlaces, ListenerPlaces
    <3>3. Truthful(w)'
      BY <1>1, <1>6, <3>1 DEF Truthful, AnyDone, Done, IsCancelled
    <3> QED  BY <3>2, <3>3
  <2> QED  BY <2>1, <2>2
<1>7. CASE AllNext(w)
  <2>1. /\ wpc[w] = "next" /\ op[w] = "waitAll"
        /\ op' = op /\ list' = list /\ deadline' = deadline
    BY <1>7 DEF AllNext, Serves
  <2>2. CASE pos[w] > Len(list[w]) /\ Return(w, "ready") /\ UNCHANGED pos
    <3>1. \A n \in DOMAIN list[w] : Done(list[w][n])
      BY <1>0, <2>1, <2>2 DEF Serves
    <3>2. wpc'[w] = "idle" /\ answer'[w] = "ready"
      BY <2>2 DEF Return, Goto, Answer, TypeOK
    <3> QED  BY <1>4, <2>1, <2>2, <3>1, <3>2
  <2>3. CASE IsCancelled(w) /\ Return(w, "cancelled") /\ UNCHANGED pos
    <3>1. wpc'[w] = "idle" /\ answer'[w] = "cancelled"
      BY <2>3 DEF Return, Goto, Answer, TypeOK
    <3> QED  BY <1>4, <2>1, <2>3, <3>1
  <2>4. CASE Done(Awaited(w)) /\ pos' = [pos EXCEPT ![w] = @ + 1] /\ UNCHANGED <<answer, wpc>>
    <3>1. pos'[w] = pos[w] + 1
      BY <2>4 DEF TypeOK
    <3> QED  BY <1>5, <2>1, <2>4, <3>1
  <2>5. CASE Goto(w, "join") /\ UNCHANGED <<answer, pos>>
    <3>1. wpc'[w] = "join"
      BY <2>5 DEF Goto, TypeOK
    <3> QED  BY <1>3, <2>1, <2>5, <3>1 DEF JoinPlaces
  <2> QED  BY <1>7, <2>2, <2>3, <2>4, <2>5 DEF AllNext
<1>8. CASE AllExpire(w) \/ JoinExpire(w)
  BY <1>6, <1>8 DEF AllExpire, JoinExpire, Serves, JoinPlaces
<1>9. CASE JoinDone(w)
  <2>1. /\ wpc[w] \in JoinPlaces /\ op[w] \in {"join", "waitAll"} /\ wpc[w] # "idle"
        /\ Done(Awaited(w)) /\ op' = op /\ list' = list /\ deadline' = deadline
    BY <1>9 DEF JoinDone, Serves, JoinPlaces
  <2>2. CASE op[w] = "waitAll"
    <3>1. pos'[w] = pos[w] + 1 /\ wpc'[w] = "next" /\ answer' = answer
      BY <1>9, <2>2 DEF JoinDone, Goto, TypeOK
    <3> QED  BY <1>5, <2>1, <2>2, <3>1
  <2>3. CASE op[w] = "join"
    <3>1. Len(list[w]) = 1 /\ pos[w] = 1
      BY <2>1, <2>3 DEF Serves
    <3>2. \A n \in DOMAIN list[w] : n = pos[w]
      BY <1>0, <3>1
    <3>3. \A n \in DOMAIN list[w] : Done(list[w][n])
      BY <2>1, <3>2 DEF Awaited
    <3>4. answer'[w] = "ready" /\ wpc'[w] = "idle" /\ pos' = pos
      BY <1>9, <2>3 DEF JoinDone, Return, Goto, Answer, TypeOK
    <3> QED  BY <1>4, <2>1, <2>3, <3>3, <3>4
  <2> QED  BY <2>1, <2>2, <2>3
<1>10. CASE JoinPark(w) \/ JoinTick(w) \/ JoinMiss(w)
  <2>1. /\ wpc[w] \in JoinPlaces /\ wpc'[w] \in JoinPlaces /\ wpc[w] # "idle"
        /\ op' = op /\ list' = list /\ pos' = pos /\ deadline' = deadline /\ answer' = answer
    BY <1>10 DEF JoinPark, JoinTick, JoinMiss, Goto, TypeOK, JoinPlaces
  <2> QED  BY <1>3, <2>1
<1>11. CASE JoinCheck(w)
  <2>1. /\ wpc[w] = "check" /\ op' = op /\ list' = list /\ pos' = pos /\ deadline' = deadline
    BY <1>11 DEF JoinCheck
  <2>2. CASE IsCancelled(w)
    <3>1. answer'[w] = "cancelled" /\ wpc'[w] = "idle"
      BY <1>11, <2>2 DEF JoinCheck, Return, Goto, Answer, TypeOK
    <3> QED  BY <1>4, <2>1, <2>2, <3>1
  <2>3. CASE ~IsCancelled(w)
    <3>1. answer' = answer /\ wpc'[w] = "join"
      BY <1>11, <2>3 DEF JoinCheck, Goto, TypeOK
    <3> QED  BY <1>3, <2>1, <3>1 DEF JoinPlaces
  <2> QED  BY <2>2, <2>3
<1>12. CASE AnyReady(w)
  <2>1. /\ wpc[w] \in AnyPlaces /\ AnyDone(w) /\ op' = op /\ list' = list /\ pos' = pos
        /\ deadline' = deadline /\ answer'[w] = "ready" /\ wpc'[w] \in {"idle", "leave"}
    BY <1>12 DEF AnyReady, Answer, Goto, TypeOK, AnyPlaces, ListenerPlaces
  <2>2. op[w] = "waitAny"
    BY <2>1 DEF Serves
  <2> QED  BY <1>4, <2>1, <2>2
<1>13. CASE AnyCancelled(w)
  <2>1. /\ wpc[w] \in AnyPlaces /\ IsCancelled(w) /\ op' = op /\ list' = list /\ pos' = pos
        /\ deadline' = deadline /\ answer'[w] = "cancelled" /\ wpc'[w] = "leave"
    BY <1>13 DEF AnyCancelled, Answer, Goto, TypeOK, AnyPlaces, ListenerPlaces
  <2> QED  BY <1>4, <2>1
<1>14. CASE AnyExpire(w)
  <2>1. /\ wpc[w] \in AnyPlaces /\ op' = op /\ list' = list /\ pos' = pos /\ wpc'[w] = "leave"
    BY <1>14 DEF AnyExpire, Goto, TypeOK, AnyPlaces, ListenerPlaces
  <2>2. CASE deadline[w] = "timeout"
    <3>1. deadline' = deadline /\ answer'[w] = "timedOut"
      BY <1>14, <2>2 DEF AnyExpire, Answer, TypeOK
    <3> QED  BY <1>4, <2>1, <2>2, <3>1
  <2>3. CASE deadline[w] # "timeout"
    <3>1. answer' = answer
      BY <1>14, <2>3 DEF AnyExpire
    <3>2. Serves(w)'
      BY <2>1, <3>1 DEF Serves, JoinPlaces, AnyPlaces, ListenerPlaces
    <3>3. Truthful(w)'
      BY <1>1, <2>1, <2>3, <3>1 DEF Truthful, AnyDone, Done, IsCancelled
    <3> QED  BY <3>2, <3>3
  <2> QED  BY <2>2, <2>3
<1>15. CASE AnyMiss(w) \/ AnyEnter(w) \/ AnyLock(w) \/ AnyPark(w) \/ AnyTimer(w) \/ AnyLeave(w)
  <2>1. /\ wpc[w] \in AnyPlaces /\ (wpc'[w] \in AnyPlaces \/ wpc'[w] = "idle")
        /\ wpc[w] # "idle"
        /\ op' = op /\ list' = list /\ pos' = pos /\ deadline' = deadline /\ answer' = answer
    BY <1>15 DEF AnyMiss, AnyEnter, AnyLock, AnyPark, AnyTimer, AnyLeave, Goto, TypeOK,
                 AnyPlaces, ListenerPlaces
  <2> QED  BY <1>3, <2>1
<1>16. CASE Spurious(w)
  <2>1. /\ \/ wpc[w] = "joinWait" /\ wpc'[w] = "join"
           \/ wpc[w] = "gateWait" /\ wpc'[w] = "lock"
        /\ op' = op /\ list' = list /\ pos' = pos /\ deadline' = deadline /\ answer' = answer
    BY <1>16 DEF Spurious, Goto, TypeOK
  <2> QED  BY <1>3, <2>1 DEF JoinPlaces, AnyPlaces, ListenerPlaces
<1> QED
  BY <1>2, <1>7, <1>8, <1>9, <1>10, <1>11, <1>12, <1>13, <1>14, <1>15, <1>16 DEF Run, Timer

\* Every step keeps the answers true.
LEMMA AnswerInvNext == AnswerInv /\ [Next]_vars => AnswerInv'
<1> SUFFICES ASSUME AnswerInv, [Next]_vars PROVE AnswerInv'
  OBVIOUS
<1>0. JoinInv' /\ TypeOK /\ PlaceInList
  BY JoinInvNext DEF AnswerInv, JoinInv, CountInv
<1>1. CASE \/ \E i \in Isos : Finish(i) \/ FinishGateLock(i)
           \/ \E k \in Cancellers : \/ Cancel(k) \/ CancelGateLock(k) \/ Flush(k)
                                    \/ \E w \in Cancellable : CancelStore(k, w)
  BY <1>0, <1>1, WakersKeepAnswers DEF AnswerInv
<1>2. ASSUME NEW w \in Waiters,
             \/ Run(w) \/ AnyLock(w) \/ Timer(w) \/ Spurious(w)
             \/ \E o \in Uses[w], l \in Lists, timed \in BOOLEAN : Begin(w, o, l, timed)
      PROVE  AnswerInv'
  <2>1. /\ slot' = slot /\ cancelled' = cancelled
        /\ \A v \in Waiters \ {w} :
               /\ wpc'[v] = wpc[v] /\ op'[v] = op[v] /\ list'[v] = list[v]
               /\ pos'[v] = pos[v] /\ deadline'[v] = deadline[v] /\ answer'[v] = answer[v]
        /\ observed' = observed \/ JoinDone(w)
    BY <1>0, <1>2, WaiterFrame
  <2>2. Serves(w)' /\ Truthful(w)'
    BY <1>0, <1>2, WaiterAnswers DEF AnswerInv
  <2>3. \A v \in Waiters \ {w} : Serves(v)' /\ Truthful(v)'
    <3>1. ASSUME NEW v \in Waiters, v # w
          PROVE  Serves(v)' /\ Truthful(v)'
      BY <2>1, <3>1 DEF AnswerInv, Serves, Truthful, AnyDone, Done, IsCancelled
    <3> QED  BY <3>1
  <2>4. ObservedDone'
    <3>1. CASE observed' = observed
      BY <2>1, <3>1 DEF AnswerInv, ObservedDone, Done
    <3>2. CASE JoinDone(w)
      <4>1. \A i \in Isos : observed'[i] => observed[i] \/ i = Awaited(w)
        BY <1>0, <3>2 DEF JoinDone, TypeOK
      <4>2. Done(Awaited(w))
        BY <3>2 DEF JoinDone
      <4> QED  BY <2>1, <4>1, <4>2 DEF AnswerInv, ObservedDone, Done
    <3> QED  BY <2>1, <3>1, <3>2
  <2> QED  BY <1>0, <2>2, <2>3, <2>4 DEF AnswerInv
<1>3. CASE UNCHANGED vars
  BY <1>0, <1>3 DEF vars, isoVars, cancelVars, waiterVars, AnswerInv, ObservedDone, Serves,
       Truthful, AnyDone, Done, IsCancelled
<1> QED  BY <1>1, <1>2, <1>3 DEF Next

\* join, wait_all and wait_any say ready when that is so, cancelled when they are and timed
\* out when they were given a time, and a failure is observed only once it is there.
THEOREM AnswersTrue == Spec => []AnswersAreTrue
<1>1. Init => AnswerInv
  <2> SUFFICES ASSUME Init PROVE AnswerInv
    OBVIOUS
  <2>1. ObservedDone /\ \A w \in Waiters : Serves(w) /\ Truthful(w)
    BY DEF Init, ObservedDone, Serves, Truthful, JoinPlaces, AnyPlaces, ListenerPlaces
  <2> QED  BY <2>1, JoinInvInit DEF AnswerInv
<1>2. AnswerInv => AnswersAreTrue
  BY DEF AnswerInv, ObservedDone, Truthful, AnswersAreTrue
<1> QED  BY <1>1, <1>2, AnswerInvNext, PTL DEF Spec
=============================================================================
