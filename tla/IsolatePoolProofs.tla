------------------------- MODULE IsolatePoolProofs -------------------------
(***************************************************************************)
(* Proofs about IsolatePool, for any pool size, callers, tasks and         *)
(* batches, with panics, failed thread creations and timeouts: its types,  *)
(* that the counts under the queue's lock are the truth, that every        *)
(* waiting task has a thread to run on and no thread is started without    *)
(* need, that nobody sleeps through what it waits for, and that shutdown   *)
(* returns when everything is done.                                        *)
(***************************************************************************)
EXTENDS IsolatePool, FiniteSetTheorems, TLAPS

Counted == {w \in Threads : tpc[w] \in {"run", "ended", "failed", "free", "freeFailed",
                                        "notify", "uncount", "unrun"}}

\* The types, the counters left out.
Shapes ==
    /\ queue \in Seq(Tasks)
    /\ started \in 0 .. Size
    /\ idle \in Int
    /\ in_flight \in Int
    /\ running \in Int
    /\ shutting_down \in BOOLEAN
    /\ idleLock \in Callers \cup {None}
    /\ tpc \in [Threads -> ThreadPlaces]
    /\ task \in [Threads -> Tasks \cup {None}]
    /\ last \in [Threads -> BOOLEAN]
    /\ released \in [Threads -> BOOLEAN]
    /\ cpc \in [Callers -> CallerPlaces]
    /\ fresh \in [Callers -> SUBSET Threads]
    /\ target \in [Callers -> Tasks \cup {None}]
    /\ spawned \subseteq Tasks
    /\ status \in [Tasks -> Status]
    /\ peak \in Nat

\* A claimed thread that nobody has created yet is claimed by one caller.
FreshUnborn ==
    /\ \A w \in Threads : tpc[w] # "unborn" => w <= started
    /\ \A p \in Callers : \A w \in fresh[p] : w <= started /\ tpc[w] = "unborn"
    /\ \A p, q \in Callers : p # q => fresh[p] \cap fresh[q] = {}

\* A pool thread that is in a call is in the middle of its task.
CallerRuns == \A w \in Threads : cpc[w] # "ready" => tpc[w] = "run"

\* A thread has a task from the queue until task_completed.
TaskHeld ==
    \A w \in Threads : task[w] # None <=>
        tpc[w] \in {"picked", "run", "ended", "failed", "free", "freeFailed", "notify", "uncount"}

Structure == Shapes /\ FreshUnborn /\ CallerRuns /\ TaskHeld

RunningCounted == running = Cardinality(Counted)

-----------------------------------------------------------------------------
(* claim_threads *)

\* claim_threads stays within the pool's size and, short of that, starts a
\* thread for every waiting task that no idle thread can take.
LEMMA ClaimBounds ==
    ASSUME Shapes, NEW len \in Nat
    PROVE  /\ ClaimThreads(len) \in Nat
           /\ started + ClaimThreads(len) <= Size
           /\ \/ len <= idle + ClaimThreads(len)
              \/ started + ClaimThreads(len) = Size
<1>1. Size \in Nat /\ started \in Nat /\ started <= Size /\ idle \in Int
  BY PoolAssumption DEF Shapes
<1> QED  BY <1>1 DEF ClaimThreads, Min2, Subtract

\* A batch of the model is a sequence of tasks.
LEMMA BatchIsSeq ==
    ASSUME Shapes, NEW b \in Batches
    PROVE  /\ b \in Seq(Tasks)
           /\ queue \o b \in Seq(Tasks)
           /\ Len(queue \o b) = Len(queue) + Len(b)
           /\ Len(queue) \in Nat /\ Len(b) \in Nat
           /\ Elements(b) \subseteq Tasks
  BY PoolAssumption DEF Shapes, Elements

-----------------------------------------------------------------------------
(* The structure. *)

\* Every started pool begins in order.
LEMMA StructureInit == Init => Structure
<1> SUFFICES ASSUME Init PROVE Structure
  OBVIOUS
<1>1. queue \in Seq(Tasks) /\ started \in 0 .. Size /\ peak \in Nat
  BY PoolAssumption DEF Init
<1>2. fresh \in [Callers -> SUBSET Threads]
  BY DEF Init
<1>3. idle \in Int /\ in_flight \in Int /\ running \in Int
  BY DEF Init
<1>4. tpc \in [Threads -> ThreadPlaces] /\ cpc \in [Callers -> CallerPlaces]
  BY DEF Init, ThreadPlaces, CallerPlaces
<1>5. status \in [Tasks -> Status] /\ shutting_down \in BOOLEAN
  BY DEF Init, Status
<1>6. task \in [Threads -> Tasks \cup {None}] /\ target \in [Callers -> Tasks \cup {None}]
  BY DEF Init
<1>7. last \in [Threads -> BOOLEAN] /\ released \in [Threads -> BOOLEAN]
  BY DEF Init
<1>8. idleLock \in Callers \cup {None} /\ spawned \subseteq Tasks
  BY DEF Init
<1>9. Shapes
  BY <1>1, <1>2, <1>3, <1>4, <1>5, <1>6, <1>7, <1>8 DEF Shapes
<1>10. FreshUnborn /\ CallerRuns /\ TaskHeld
  BY DEF Init, FreshUnborn, CallerRuns, TaskHeld, Callers
<1> QED  BY <1>9, <1>10 DEF Structure

\* isolate_loop and finish() keep every variable in its type.
LEMMA ThreadShapes ==
    ASSUME Shapes, NEW w \in Threads, Thread(w) \/ WaitTimeout(w) \/ Spurious(w)
    PROVE  Shapes'
<1>1. CASE Pick(w)
  <2>1. queue' \in Seq(Tasks) /\ task' \in [Threads -> Tasks \cup {None}]
    BY <1>1 DEF Pick, Shapes
  <2>2. idle' \in Int
    BY <1>1 DEF Pick, Shapes
  <2>3. tpc' \in [Threads -> ThreadPlaces] /\ released' \in [Threads -> BOOLEAN]
    BY <1>1 DEF Pick, Shapes, Goto, ThreadPlaces
  <2> QED  BY <1>1, <2>1, <2>2, <2>3 DEF Pick, Shapes, callerVars
<1>2. CASE \/ Wait(w) \/ StillNothing(w) \/ CountRunning(w) \/ RunTask(w) \/ LastOne(w)
           \/ WaitTimeout(w) \/ Spurious(w) \/ Unrun(w)
  <2>1. tpc' \in [Threads -> ThreadPlaces]
    BY <1>2 DEF Wait, StillNothing, CountRunning, RunTask, LastOne, WaitTimeout, Spurious, Unrun,
           Shapes, Goto, ThreadPlaces
  <2>2. running' \in Int
    BY <1>2 DEF Wait, StillNothing, CountRunning, RunTask, LastOne, WaitTimeout, Spurious, Unrun,
           Shapes
  <2> QED
    BY <1>2, <2>1, <2>2
       DEF Wait, StillNothing, CountRunning, RunTask, LastOne, WaitTimeout, Spurious, Unrun,
           Shapes, poolVars, callerVars
<1>3. CASE ReleaseMemory(w)
  <2>1. tpc' \in [Threads -> ThreadPlaces] /\ released' \in [Threads -> BOOLEAN]
    BY <1>3 DEF ReleaseMemory, Shapes, Goto, ThreadPlaces
  <2> QED  BY <1>3, <2>1 DEF ReleaseMemory, Shapes, poolVars, callerVars
<1>4. CASE CountIdle(w)
  <2>1. idle' \in Int
    BY <1>4 DEF CountIdle, Shapes
  <2>2. tpc' \in [Threads -> ThreadPlaces]
    BY <1>4 DEF CountIdle, Shapes, Goto, ThreadPlaces
  <2> QED  BY <1>4, <2>1, <2>2 DEF CountIdle, Shapes, callerVars
<1>5. CASE FinishTask(w)
  <2>1. status' \in [Tasks -> Status]
    BY <1>5 DEF FinishTask, Shapes, Status
  <2>2. tpc' \in [Threads -> ThreadPlaces]
    BY <1>5 DEF FinishTask, Shapes, Goto, ThreadPlaces
  <2> QED  BY <1>5, <2>1, <2>2 DEF FinishTask, Shapes, poolVars, callerVars
<1>6. CASE NotifyJoiners(w) \/ TellIdle(w)
  <2>1. cpc' \in [Callers -> CallerPlaces]
    BY <1>6 DEF NotifyJoiners, TellIdle, Shapes, CallerPlaces
  <2>2. tpc' \in [Threads -> ThreadPlaces]
    BY <1>6 DEF NotifyJoiners, TellIdle, Shapes, Goto, ThreadPlaces
  <2> QED  BY <1>6, <2>1, <2>2 DEF NotifyJoiners, TellIdle, Shapes, poolVars
<1>7. CASE Uncount(w)
  <2>1. in_flight' \in Int
    BY <1>7 DEF Uncount, Shapes
  <2>2. last' \in [Threads -> BOOLEAN] /\ task' \in [Threads -> Tasks \cup {None}]
    BY <1>7 DEF Uncount, Shapes
  <2>3. tpc' \in [Threads -> ThreadPlaces]
    BY <1>7 DEF Uncount, Shapes, Goto, ThreadPlaces
  <2> QED  BY <1>7, <2>1, <2>2, <2>3 DEF Uncount, Shapes, callerVars
<1> QED  BY <1>1, <1>2, <1>3, <1>4, <1>5, <1>6, <1>7 DEF Thread

\* ... and so do the calls: spawn with its threads to create, join and
\* shutdown.
LEMMA SpawnShapes ==
    ASSUME Shapes, NEW p \in Callers, NEW b \in Batches, Spawn(p, b)
    PROVE  Shapes'
<1> DEFINE count == ClaimThreads(Len(queue) + Len(b))
<1>1. /\ Len(queue) \in Nat /\ Len(b) \in Nat
      /\ queue \o b \in Seq(Tasks) /\ Elements(b) \subseteq Tasks
  BY BatchIsSeq
<1>2. count \in Nat /\ started + count <= Size
  BY <1>1, ClaimBounds
<1>3. Size \in Nat /\ started \in Nat /\ started <= Size
  BY PoolAssumption DEF Shapes
<1>4. /\ queue' = queue \o b
      /\ started' = started + count
      /\ idle' = idle + count
      /\ in_flight' = in_flight + Len(b)
      /\ fresh' = [fresh EXCEPT ![p] = started + 1 .. started + count]
      /\ spawned' = spawned \cup Elements(b)
  BY DEF Spawn, Accept
<1> HIDE DEF count
<1>5. started' \in 0 .. Size
  BY <1>2, <1>3, <1>4
<1>6. idle' \in Int /\ in_flight' \in Int
  BY <1>1, <1>2, <1>4 DEF Shapes
<1>7. started + 1 .. started + count \subseteq Threads
  BY <1>2, <1>3 DEF Threads
<1>8. fresh' \in [Callers -> SUBSET Threads]
  BY <1>4, <1>7 DEF Shapes
<1>9. peak' \in Nat
  <2>1. Unfinished \cup Elements(b) \subseteq Tasks
    BY <1>1 DEF Unfinished, Shapes
  <2>2. Cardinality(Unfinished \cup Elements(b)) \in Nat
    BY <2>1, PoolAssumption, FS_Subset, FS_CardinalityType
  <2>3. peak' \in {peak, Cardinality(Unfinished \cup Elements(b))}
    BY DEF Spawn
  <2> QED  BY <2>2, <2>3 DEF Shapes
<1>10. cpc' \in [Callers -> CallerPlaces]
  BY DEF Spawn, CallGoto, CallerPlaces, Shapes
<1>11. queue' \in Seq(Tasks) /\ spawned' \subseteq Tasks
  BY <1>1, <1>4 DEF Shapes
<1> QED
  BY <1>5, <1>6, <1>8, <1>9, <1>10, <1>11 DEF Spawn, threadVars, Shapes

\* Calls and what they wait for keep every variable in its type.
LEMMA CallerShapes ==
    ASSUME Shapes, NEW p \in Callers,
           Caller(p) \/ Call(p) \/ ShutLock(p) \/ JoinWake(p) \/ ShutTimeout(p) \/ StartFails(p)
    PROVE  Shapes'
<1>1. CASE \E b \in Batches : Spawn(p, b)
  BY <1>1, SpawnShapes
<1>2. CASE \E w \in Threads : StartThread(p, w)
  <2> PICK w \in Threads : StartThread(p, w)
    BY <1>2
  <2>1. tpc' \in [Threads -> ThreadPlaces] /\ fresh' \in [Callers -> SUBSET Threads]
    BY DEF StartThread, Shapes, ThreadPlaces
  <2> QED  BY <2>1 DEF StartThread, Shapes, poolVars
<1>3. CASE StartFails(p)
  <2>1. tpc' \in [Threads -> ThreadPlaces] /\ fresh' \in [Callers -> SUBSET Threads]
    BY <1>3 DEF StartFails, Shapes, ThreadPlaces
  <2>2. cpc' \in [Callers -> CallerPlaces]
    BY <1>3 DEF StartFails, Shapes, CallGoto, CallerPlaces
  <2> QED  BY <1>3, <2>1, <2>2 DEF StartFails, Shapes, poolVars
<1>4. CASE NotifyNew(p)
  <2>1. tpc' \in [Threads -> ThreadPlaces]
    BY <1>4 DEF NotifyNew, WakeThreads, Shapes, ThreadPlaces
  <2>2. cpc' \in [Callers -> CallerPlaces]
    BY <1>4 DEF NotifyNew, Shapes, CallGoto, CallerPlaces
  <2> QED  BY <1>4, <2>1, <2>2 DEF NotifyNew, Shapes, poolVars
<1>5. CASE StartsDone(p) \/ JoinLook(p) \/ JoinWake(p)
  <2>1. cpc' \in [Callers -> CallerPlaces]
    BY <1>5 DEF StartsDone, JoinLook, JoinWake, Shapes, CallGoto, CallerPlaces
  <2> QED  BY <1>5, <2>1 DEF StartsDone, JoinLook, JoinWake, Shapes, poolVars, threadVars
<1>6. CASE \E k \in Tasks : Join(p, k)
  <2> PICK k \in Tasks : Join(p, k)
    BY <1>6
  <2>1. cpc' \in [Callers -> CallerPlaces] /\ target' \in [Callers -> Tasks \cup {None}]
    BY DEF Join, Shapes, CallGoto, CallerPlaces
  <2> QED  BY <2>1 DEF Join, Shapes, poolVars, threadVars
<1>7. CASE Shutdown(p)
  <2>1. cpc' \in [Callers -> CallerPlaces]
    BY <1>7 DEF Shutdown, Shapes, CallGoto, CallerPlaces
  <2> QED  BY <1>7, <2>1 DEF Shutdown, Shapes, threadVars
<1>8. CASE ShutLoad(p) \/ ShutPark(p) \/ ShutLast(p) \/ ShutLock(p) \/ ShutTimeout(p)
  <2>1. cpc' \in [Callers -> CallerPlaces]
    BY <1>8 DEF ShutLoad, ShutPark, ShutLast, ShutLock, ShutTimeout, ShutReturn, Shapes,
           CallGoto, CallerPlaces
  <2>2. idleLock' \in Callers \cup {None}
    BY <1>8 DEF ShutLoad, ShutPark, ShutLast, ShutLock, ShutTimeout, ShutReturn, Shapes
  <2> QED
    BY <1>8, <2>1, <2>2
       DEF ShutLoad, ShutPark, ShutLast, ShutLock, ShutTimeout, Shapes, poolVars, threadVars
<1> QED  BY <1>1, <1>2, <1>3, <1>4, <1>5, <1>6, <1>7, <1>8 DEF Caller, Call

\* The types, the counters left out, are inductive.
LEMMA ShapesNext == Shapes /\ [Next]_vars => Shapes'
<1> SUFFICES ASSUME Shapes, [Next]_vars PROVE Shapes'
  OBVIOUS
<1>1. CASE Next
  BY <1>1, ThreadShapes, CallerShapes DEF Next
<1>2. CASE UNCHANGED vars
  BY <1>2 DEF vars, poolVars, threadVars, callerVars, Shapes
<1> QED  BY <1>1, <1>2

-----------------------------------------------------------------------------
(* Who is where. *)

\* A step of a pool thread moves that thread only, never to or from the
\* unborn, and out of its task only when it is in no call.
LEMMA ThreadMoves ==
    ASSUME Shapes, NEW w \in Threads, Thread(w) \/ WaitTimeout(w) \/ Spurious(w)
    PROVE  /\ tpc[w] # "unborn" /\ tpc'[w] # "unborn"
           /\ \A v \in Threads : v # w => tpc'[v] = tpc[v]
           /\ tpc[w] = "run" => cpc[w] = "ready"
           /\ \A p \in Callers : cpc'[p] # "ready" => cpc[p] # "ready"
           /\ UNCHANGED <<started, fresh>>
<1>1. tpc[w] # "unborn"
  BY DEF Thread, WaitTimeout, Spurious, Pick, Wait, StillNothing, ReleaseMemory, CountRunning,
         RunTask, CountIdle, FinishTask, NotifyJoiners, Uncount, Unrun, LastOne, TellIdle
<1>2. \E place \in ThreadPlaces \ {"unborn"} : tpc' = [tpc EXCEPT ![w] = place]
  BY DEF Thread, WaitTimeout, Spurious, Pick, Wait, StillNothing, ReleaseMemory, CountRunning,
         RunTask, CountIdle, FinishTask, NotifyJoiners, Uncount, Unrun, LastOne, TellIdle,
         Goto, ThreadPlaces
<1>3. tpc'[w] # "unborn" /\ \A v \in Threads : v # w => tpc'[v] = tpc[v]
  BY <1>2 DEF Shapes, ThreadPlaces
<1>4. tpc[w] = "run" => cpc[w] = "ready"
  BY DEF Thread, WaitTimeout, Spurious, Pick, Wait, StillNothing, ReleaseMemory, CountRunning,
         RunTask, CountIdle, FinishTask, NotifyJoiners, Uncount, Unrun, LastOne, TellIdle
<1>5. \A p \in Callers : cpc'[p] # "ready" => cpc[p] # "ready"
  <2>1. CASE NotifyJoiners(w) \/ TellIdle(w)
    BY <2>1 DEF NotifyJoiners, TellIdle, Shapes
  <2>2. CASE ~(NotifyJoiners(w) \/ TellIdle(w))
    <3>1. UNCHANGED cpc
      BY <2>2
         DEF Thread, WaitTimeout, Spurious, Pick, Wait, StillNothing, ReleaseMemory,
             CountRunning, RunTask, CountIdle, FinishTask, Uncount, Unrun, LastOne, callerVars
    <3> QED  BY <3>1
  <2> QED  BY <2>1, <2>2
<1>6. UNCHANGED <<started, fresh>>
  BY DEF Thread, WaitTimeout, Spurious, Pick, Wait, StillNothing, ReleaseMemory, CountRunning,
         RunTask, CountIdle, FinishTask, NotifyJoiners, Uncount, Unrun, LastOne, TellIdle,
         poolVars, callerVars
<1> QED  BY <1>1, <1>3, <1>4, <1>5, <1>6

\* A claimed thread is created once, by the caller that claimed it.
LEMMA FreshNext == Structure /\ Shapes' /\ [Next]_vars => FreshUnborn'
<1> SUFFICES ASSUME Structure, Shapes', [Next]_vars PROVE FreshUnborn'
  OBVIOUS
<1>1. ASSUME NEW w \in Threads, Thread(w) \/ WaitTimeout(w) \/ Spurious(w)
      PROVE  FreshUnborn'
  <2>1. /\ tpc[w] # "unborn" /\ tpc'[w] # "unborn"
        /\ \A v \in Threads : v # w => tpc'[v] = tpc[v]
        /\ UNCHANGED <<started, fresh>>
    BY <1>1, ThreadMoves DEF Structure
  <2> QED  BY <2>1 DEF Structure, FreshUnborn, Shapes
<1>2. ASSUME NEW p \in Callers, NEW b \in Batches, Spawn(p, b)
      PROVE  FreshUnborn'
  <2> DEFINE count == ClaimThreads(Len(queue) + Len(b))
  <2>1. count \in Nat /\ started \in Nat
    <3>1. Shapes
      BY DEF Structure
    <3>2. Len(queue) + Len(b) \in Nat
      BY <3>1, BatchIsSeq
    <3>3. count \in Nat
      BY <3>1, <3>2, ClaimBounds
    <3>4. started \in Nat
      BY <3>1, PoolAssumption DEF Shapes
    <3> QED  BY <3>3, <3>4
  <2>2. /\ started' = started + count
        /\ fresh' = [fresh EXCEPT ![p] = started + 1 .. started + count]
        /\ UNCHANGED tpc
    BY <1>2 DEF Spawn, Accept, threadVars
  <2> HIDE DEF count
  <2>3. \A w \in Threads : tpc'[w] # "unborn" => w <= started'
    BY <2>1, <2>2 DEF Structure, FreshUnborn, Threads
  <2>4. \A w \in started + 1 .. started + count : ~(w <= started) /\ w <= started'
    BY <2>1, <2>2
  <2>5. fresh'[p] = started + 1 .. started + count
    BY <2>2 DEF Structure, Shapes
  <2>6. \A q \in Callers : q # p => fresh'[q] = fresh[q]
    BY <2>2 DEF Structure, Shapes
  <2>7. \A q \in Callers : \A w \in fresh'[q] : w \in Threads
    BY DEF Shapes
  <2>8. \A w \in fresh'[p] : w <= started' /\ tpc'[w] = "unborn"
    BY <2>2, <2>4, <2>5, <2>7 DEF Structure, FreshUnborn
  <2>9. \A q \in Callers : q # p => \A w \in fresh[q] : w <= started /\ tpc[w] = "unborn"
    BY DEF Structure, FreshUnborn
  <2>10. \A q \in Callers : q # p => \A w \in fresh'[q] : w <= started' /\ tpc'[w] = "unborn"
    <3>1. \A w \in Threads : w <= started => w <= started'
      BY <2>1, <2>2 DEF Threads
    <3> QED  BY <2>2, <2>6, <2>7, <2>9, <3>1
  <2>11. \A q \in Callers : q # p => fresh'[p] \cap fresh'[q] = {}
    BY <2>4, <2>5, <2>6, <2>9
  <2>12. \A q, r \in Callers : q # r => fresh'[q] \cap fresh'[r] = {}
    <3> SUFFICES ASSUME NEW q \in Callers, NEW r \in Callers, q # r
                 PROVE  fresh'[q] \cap fresh'[r] = {}
      OBVIOUS
    <3>1. CASE q = p
      BY <3>1, <2>11
    <3>2. CASE r = p
      BY <3>2, <2>11
    <3>3. CASE q # p /\ r # p
      BY <3>3, <2>6 DEF Structure, FreshUnborn
    <3> QED  BY <3>1, <3>2, <3>3
  <2> QED  BY <2>3, <2>8, <2>10, <2>12 DEF FreshUnborn
<1>3. ASSUME NEW p \in Callers, NEW w \in Threads, StartThread(p, w)
      PROVE  FreshUnborn'
  <2>1. w \in fresh[p] /\ UNCHANGED started
    BY <1>3 DEF StartThread, poolVars
  <2>2. fresh' = [fresh EXCEPT ![p] = fresh[p] \ {w}] /\ tpc' = [tpc EXCEPT ![w] = "get"]
    BY <1>3 DEF StartThread
  <2>3. \A q \in Callers : w \notin fresh'[q] /\ fresh'[q] \subseteq fresh[q]
    BY <2>1, <2>2 DEF Structure, FreshUnborn, Shapes
  <2>4. w <= started
    BY <2>1 DEF Structure, FreshUnborn
  <2>5. \A v \in Threads : v # w => tpc'[v] = tpc[v]
    BY <2>2 DEF Structure, Shapes
  <2>6. tpc'[w] # "unborn"
    BY <2>2 DEF Structure, Shapes
  <2>7. \A v \in Threads : tpc'[v] # "unborn" => v <= started'
    BY <2>1, <2>4, <2>5 DEF Structure, FreshUnborn
  <2>8. \A q \in Callers : \A v \in fresh'[q] : v \in Threads /\ v # w /\ v \in fresh[q]
    BY <2>3 DEF Structure, Shapes
  <2>9. \A q \in Callers : \A v \in fresh'[q] : v <= started' /\ tpc'[v] = "unborn"
    BY <2>1, <2>5, <2>8 DEF Structure, FreshUnborn
  <2>10. \A q, r \in Callers : q # r => fresh'[q] \cap fresh'[r] = {}
    BY <2>3 DEF Structure, FreshUnborn
  <2> QED  BY <2>7, <2>9, <2>10 DEF FreshUnborn
<1>4. ASSUME NEW p \in Callers, StartFails(p)
      PROVE  FreshUnborn'
  <2>1. fresh' = [fresh EXCEPT ![p] = {}] /\ UNCHANGED started
    BY <1>4 DEF StartFails, poolVars
  <2>2. \/ UNCHANGED tpc
        \/ p \in Threads /\ tpc[p] = "run" /\ tpc' = [tpc EXCEPT ![p] = "failed"]
    BY <1>4 DEF StartFails, Structure, CallerRuns
  <2>3. \A v \in Threads : tpc'[v] # tpc[v] => tpc[v] # "unborn" /\ tpc'[v] # "unborn"
    BY <2>2 DEF Structure, Shapes
  <2>4. \A q \in Callers : fresh'[q] \subseteq fresh[q]
    BY <2>1 DEF Structure, Shapes
  <2>5. \A q \in Callers : \A v \in fresh'[q] : v \in Threads /\ v \in fresh[q]
    BY <2>4 DEF Structure, Shapes
  <2> QED  BY <2>1, <2>3, <2>4, <2>5 DEF Structure, FreshUnborn
<1>5. ASSUME NEW p \in Callers, NotifyNew(p)
      PROVE  FreshUnborn'
  <2>1. \A v \in Threads : tpc'[v] # tpc[v] => tpc[v] # "unborn" /\ tpc'[v] # "unborn"
    BY <1>5 DEF NotifyNew, WakeThreads, Parked, Structure, Shapes
  <2>2. UNCHANGED <<started, fresh>>
    BY <1>5 DEF NotifyNew, poolVars
  <2> QED  BY <2>1, <2>2 DEF Structure, FreshUnborn, Shapes
<1>6. ASSUME NEW p \in Callers,
             \/ StartsDone(p) \/ JoinLook(p) \/ ShutLoad(p) \/ ShutPark(p) \/ ShutLast(p)
             \/ (\E k \in Tasks : Join(p, k)) \/ Shutdown(p) \/ ShutLock(p) \/ JoinWake(p)
             \/ ShutTimeout(p)
      PROVE  FreshUnborn'
  <2>1. UNCHANGED <<started, fresh, tpc>>
    BY <1>6 DEF StartsDone, JoinLook, ShutLoad, ShutPark, ShutLast, Join, Shutdown, ShutLock,
                JoinWake, ShutTimeout, poolVars, threadVars
  <2> QED  BY <2>1 DEF Structure, FreshUnborn
<1>7. CASE UNCHANGED vars
  BY <1>7 DEF vars, poolVars, threadVars, callerVars, Structure, FreshUnborn
<1> QED
  BY <1>1, <1>2, <1>3, <1>4, <1>5, <1>6, <1>7 DEF Next, Caller, Call

\* A pool thread leaves its task only between its calls.
LEMMA CallerRunsNext == Structure /\ [Next]_vars => CallerRuns'
<1> SUFFICES ASSUME Structure, [Next]_vars PROVE CallerRuns'
  OBVIOUS
<1>1. ASSUME NEW w \in Threads, Thread(w) \/ WaitTimeout(w) \/ Spurious(w)
      PROVE  CallerRuns'
  <2>1. /\ \A v \in Threads : v # w => tpc'[v] = tpc[v]
        /\ tpc[w] = "run" => cpc[w] = "ready"
        /\ \A p \in Callers : cpc'[p] # "ready" => cpc[p] # "ready"
    BY <1>1, ThreadMoves DEF Structure
  <2> QED  BY <2>1 DEF Structure, CallerRuns, Callers
<1>2. ASSUME NEW p \in Callers, Call(p)
      PROVE  CallerRuns'
  <2>1. UNCHANGED tpc
    BY <1>2 DEF Call, Spawn, Join, Shutdown, threadVars
  <2>2. p \in Threads => tpc[p] = "run"
    BY <1>2 DEF Call, Spawn, Join, Shutdown, MayCall, Structure, CallerRuns
  <2>3. \A q \in Callers : q # p => cpc'[q] = cpc[q]
    BY <1>2 DEF Call, Spawn, Join, Shutdown, CallGoto, Structure, Shapes
  <2> QED  BY <2>1, <2>2, <2>3 DEF Structure, CallerRuns, Callers
<1>3. ASSUME NEW p \in Callers,
             \/ StartsDone(p) \/ JoinLook(p) \/ ShutLoad(p) \/ ShutPark(p) \/ ShutLast(p)
             \/ ShutLock(p) \/ JoinWake(p) \/ ShutTimeout(p)
      PROVE  CallerRuns'
  <2>1. UNCHANGED tpc
    BY <1>3 DEF StartsDone, JoinLook, ShutLoad, ShutPark, ShutLast, ShutLock, JoinWake,
                ShutTimeout, poolVars, threadVars
  <2>2. cpc[p] # "ready"
    BY <1>3 DEF StartsDone, JoinLook, ShutLoad, ShutPark, ShutLast, ShutLock, JoinWake, ShutTimeout
  <2>3. \A q \in Callers : q # p => cpc'[q] = cpc[q]
    BY <1>3 DEF StartsDone, JoinLook, ShutLoad, ShutPark, ShutLast, ShutLock, JoinWake,
                ShutTimeout, ShutReturn, CallGoto, Structure, Shapes
  <2> QED  BY <2>1, <2>2, <2>3 DEF Structure, CallerRuns, Callers
<1>4. ASSUME NEW p \in Callers, NotifyNew(p)
      PROVE  CallerRuns'
  <2>1. \A v \in Threads : tpc[v] = "run" => tpc'[v] = "run"
    BY <1>4 DEF NotifyNew, WakeThreads, Parked, Structure, Shapes
  <2>2. \A q \in Callers : cpc'[q] # "ready" => cpc[q] # "ready"
    BY <1>4 DEF NotifyNew, CallGoto, Structure, Shapes
  <2> QED  BY <2>1, <2>2 DEF Structure, CallerRuns, Callers
<1>5. ASSUME NEW p \in Callers, NEW w \in Threads, StartThread(p, w)
      PROVE  CallerRuns'
  <2>1. tpc' = [tpc EXCEPT ![w] = "get"] /\ UNCHANGED cpc
    BY <1>5 DEF StartThread
  <2>2. tpc[w] = "unborn"
    BY <1>5 DEF StartThread, Structure, FreshUnborn
  <2> QED  BY <2>1, <2>2 DEF Structure, CallerRuns, Shapes
<1>6. ASSUME NEW p \in Callers, StartFails(p)
      PROVE  CallerRuns'
  <2>1. \A v \in Threads : v # p => tpc'[v] = tpc[v]
    BY <1>6 DEF StartFails, Structure, Shapes
  <2>2. \A q \in Callers : q # p => cpc'[q] = cpc[q]
    BY <1>6 DEF StartFails, CallGoto, Structure, Shapes
  <2>3. p \in Threads => cpc'[p] = "ready"
    BY <1>6 DEF StartFails, CallGoto, Structure, Shapes
  <2> QED  BY <2>1, <2>2, <2>3 DEF Structure, CallerRuns, Callers
<1>7. CASE UNCHANGED vars
  BY <1>7 DEF vars, threadVars, callerVars, Structure, CallerRuns
<1> QED
  BY <1>1, <1>2, <1>3, <1>4, <1>5, <1>6, <1>7 DEF Next, Caller

\* The places of a thread that has a task.
HeldPlaces == {"picked", "run", "ended", "failed", "free", "freeFailed", "notify", "uncount"}

\* A thread takes its task with pop_front and drops it in task_completed.
LEMMA TaskHeldNext == Structure /\ [Next]_vars => TaskHeld'
<1> SUFFICES ASSUME Structure, [Next]_vars PROVE TaskHeld'
  OBVIOUS
<1>0. \A w \in Threads : task[w] # None <=> tpc[w] \in HeldPlaces
  BY DEF Structure, TaskHeld, HeldPlaces
<1>00. SUFFICES \A w \in Threads : task'[w] # None <=> tpc'[w] \in HeldPlaces
  BY DEF TaskHeld, HeldPlaces
<1>1. ASSUME NEW w \in Threads, Pick(w)
      PROVE  \A v \in Threads : task'[v] # None <=> tpc'[v] \in HeldPlaces
  <2>1. Head(queue) \in Tasks /\ None \notin Tasks
    BY <1>1, PoolAssumption DEF Pick, Structure, Shapes
  <2>2. task'[w] # None /\ tpc'[w] \in HeldPlaces
    BY <1>1, <2>1 DEF Pick, Goto, Structure, Shapes, HeldPlaces
  <2>3. \A v \in Threads : v # w => task'[v] = task[v] /\ tpc'[v] = tpc[v]
    BY <1>1 DEF Pick, Goto, Structure, Shapes
  <2> QED  BY <1>0, <2>2, <2>3
<1>2. ASSUME NEW w \in Threads, Uncount(w)
      PROVE  \A v \in Threads : task'[v] # None <=> tpc'[v] \in HeldPlaces
  <2>1. task'[w] = None /\ tpc'[w] \notin HeldPlaces
    BY <1>2 DEF Uncount, Goto, Structure, Shapes, HeldPlaces
  <2>2. \A v \in Threads : v # w => task'[v] = task[v] /\ tpc'[v] = tpc[v]
    BY <1>2 DEF Uncount, Goto, Structure, Shapes
  <2> QED  BY <1>0, <2>1, <2>2
<1>3. ASSUME NEW w \in Threads,
             Thread(w) \/ WaitTimeout(w) \/ Spurious(w), ~Pick(w), ~Uncount(w)
      PROVE  \A v \in Threads : task'[v] # None <=> tpc'[v] \in HeldPlaces
  <2>1. UNCHANGED task
    BY <1>3
       DEF Thread, WaitTimeout, Spurious, Wait, StillNothing, ReleaseMemory, CountRunning,
           RunTask, CountIdle, FinishTask, NotifyJoiners, Unrun, LastOne, TellIdle
  <2>2. \E place \in ThreadPlaces :
            tpc' = [tpc EXCEPT ![w] = place] /\ (place \in HeldPlaces <=> tpc[w] \in HeldPlaces)
    BY <1>3
       DEF Thread, WaitTimeout, Spurious, Wait, StillNothing, ReleaseMemory, CountRunning,
           RunTask, CountIdle, FinishTask, NotifyJoiners, Unrun, LastOne, TellIdle,
           Goto, ThreadPlaces, HeldPlaces
  <2>3. \A v \in Threads : tpc'[v] \in HeldPlaces <=> tpc[v] \in HeldPlaces
    BY <2>2 DEF Structure, Shapes
  <2> QED  BY <1>0, <2>1, <2>3
<1>4. ASSUME NEW p \in Callers,
             \/ Caller(p) \/ Call(p) \/ ShutLock(p) \/ JoinWake(p) \/ ShutTimeout(p)
             \/ StartFails(p)
      PROVE  \A v \in Threads : task'[v] # None <=> tpc'[v] \in HeldPlaces
  <2>1. UNCHANGED task
    BY <1>4
       DEF Caller, Call, Spawn, StartThread, StartsDone, NotifyNew, Join, JoinLook, Shutdown,
           ShutLoad, ShutPark, ShutLast, ShutLock, JoinWake, ShutTimeout, StartFails, threadVars
  <2>2. \A v \in Threads : tpc'[v] \in HeldPlaces <=> tpc[v] \in HeldPlaces
    <3>1. CASE StartFails(p)
      <4>1. p \in Threads => tpc[p] = "run"
        BY <3>1 DEF StartFails, Structure, CallerRuns
      <4> QED  BY <3>1, <4>1 DEF StartFails, Structure, Shapes, HeldPlaces
    <3>2. CASE \E w \in Threads : StartThread(p, w)
      <4> PICK w \in Threads : StartThread(p, w)
        BY <3>2
      <4>1. tpc[w] = "unborn" /\ tpc' = [tpc EXCEPT ![w] = "get"]
        BY DEF StartThread, Structure, FreshUnborn
      <4> QED  BY <4>1 DEF Structure, Shapes, HeldPlaces
    <3>3. CASE NotifyNew(p)
      BY <3>3 DEF NotifyNew, WakeThreads, Parked, Structure, Shapes, HeldPlaces
    <3>4. CASE \/ StartsDone(p) \/ JoinLook(p) \/ ShutLoad(p) \/ ShutPark(p) \/ ShutLast(p)
               \/ Call(p) \/ ShutLock(p) \/ JoinWake(p) \/ ShutTimeout(p)
      <4>1. UNCHANGED tpc
        BY <3>4
           DEF StartsDone, JoinLook, ShutLoad, ShutPark, ShutLast, ShutLock, JoinWake,
               ShutTimeout, Call, Spawn, Join, Shutdown, poolVars, threadVars
      <4> QED  BY <4>1
    <3> QED  BY <1>4, <3>1, <3>2, <3>3, <3>4 DEF Caller
  <2> QED  BY <1>0, <2>1, <2>2
<1>5. CASE UNCHANGED vars
  BY <1>0, <1>5 DEF vars, threadVars
<1> QED
  BY <1>1, <1>2, <1>3, <1>4, <1>5 DEF Next

\* The structure is inductive.
LEMMA StructureNext == Structure /\ [Next]_vars => Structure'
<1> SUFFICES ASSUME Structure, [Next]_vars PROVE Structure'
  OBVIOUS
<1>1. Shapes'
  BY ShapesNext DEF Structure
<1> QED  BY <1>1, FreshNext, CallerRunsNext, TaskHeldNext DEF Structure

-----------------------------------------------------------------------------
(* The counts. *)

\* Sets of threads are finite, and count one thread at a time.
LEMMA ThreadSets ==
    ASSUME NEW A \in SUBSET Threads, NEW w \in Threads
    PROVE  /\ IsFiniteSet(A) /\ Cardinality(A) \in Nat
           /\ w \notin A => Cardinality(A \cup {w}) = Cardinality(A) + 1
           /\ w \in A => Cardinality(A \ {w}) = Cardinality(A) - 1
<1>1. IsFiniteSet(Threads)
  <2>1. 1 \in Int /\ Size \in Int
    BY PoolAssumption
  <2> QED  BY <2>1, FS_Interval DEF Threads
<1>2. IsFiniteSet(A)
  BY <1>1, FS_Subset
<1> QED  BY <1>2, FS_CardinalityType, FS_AddElement, FS_RemoveElement

\* claim_threads: "every waiting task has a thread to run on, within size" is
\* inductive: a spawn claims what is missing, a thread takes its task and its
\* idle count in one critical section, and nothing else touches the two.
LEMMA EveryTaskNext ==
    Structure /\ EveryTaskHasAThread /\ [Next]_vars => EveryTaskHasAThread'
<1> SUFFICES ASSUME Structure, EveryTaskHasAThread, [Next]_vars PROVE EveryTaskHasAThread'
  OBVIOUS
<1>0. Shapes /\ idle \in Int /\ Len(queue) \in Nat /\ started \in Nat
  BY PoolAssumption DEF Structure, Shapes
<1>1. ASSUME NEW p \in Callers, NEW b \in Batches, Spawn(p, b)
      PROVE  EveryTaskHasAThread'
  <2> DEFINE count == ClaimThreads(Len(queue) + Len(b))
  <2>1. /\ queue' = queue \o b
        /\ started' = started + count
        /\ idle' = idle + count
    BY <1>1 DEF Spawn, Accept
  <2>2. Len(queue \o b) = Len(queue) + Len(b) /\ Len(queue) + Len(b) \in Nat
    BY <1>0, BatchIsSeq
  <2>3. \/ Len(queue) + Len(b) <= idle + count
        \/ started + count = Size
    BY <1>0, <2>2, ClaimBounds
  <2> HIDE DEF count
  <2> QED  BY <2>1, <2>2, <2>3 DEF EveryTaskHasAThread
<1>2. ASSUME NEW w \in Threads, Pick(w)
      PROVE  EveryTaskHasAThread'
  <2>1. Len(queue') = Len(queue) - 1
    BY <1>2 DEF Pick, Structure, Shapes
  <2>2. idle' = idle - 1 /\ started' = started
    BY <1>2 DEF Pick
  <2> QED  BY <1>0, <2>1, <2>2 DEF EveryTaskHasAThread
<1>3. ASSUME NEW w \in Threads, CountIdle(w)
      PROVE  EveryTaskHasAThread'
  <2>1. idle' = idle + 1 /\ UNCHANGED <<started, queue>>
    BY <1>3 DEF CountIdle
  <2> QED  BY <1>0, <2>1 DEF EveryTaskHasAThread
<1>4. CASE UNCHANGED <<queue, idle, started>>
  BY <1>4 DEF EveryTaskHasAThread
<1>5. \/ \E p \in Callers : \E b \in Batches : Spawn(p, b)
      \/ \E w \in Threads : Pick(w) \/ CountIdle(w)
      \/ UNCHANGED <<queue, idle, started>>
  BY DEF Next, Thread, Caller, Call, Wait, WaitTimeout, Spurious, StillNothing, ReleaseMemory,
         CountRunning, RunTask, FinishTask, NotifyJoiners, Uncount, Unrun, LastOne, TellIdle,
         StartThread, StartFails, StartsDone, NotifyNew, Join, JoinLook, JoinWake, Shutdown,
         ShutLock, ShutLoad, ShutPark, ShutTimeout, ShutLast, vars, poolVars
<1> QED  BY <1>1, <1>2, <1>3, <1>4, <1>5

\* What a call does to the threads: creates one, wakes some, or panics in the
\* task of its own.
LEMMA CallerMoves ==
    ASSUME Structure, NEW p \in Callers,
           Caller(p) \/ Call(p) \/ ShutLock(p) \/ JoinWake(p) \/ ShutTimeout(p) \/ StartFails(p)
    PROVE  /\ UNCHANGED <<task, running>>
           /\ \A v \in Threads : \/ tpc'[v] = tpc[v]
                                 \/ tpc[v] \in {"unborn", "wait"} /\ tpc'[v] = "get"
                                 \/ tpc[v] = "run" /\ tpc'[v] = "failed"
<1>1. UNCHANGED <<task, running>>
  BY DEF Caller, Call, Spawn, StartThread, StartsDone, NotifyNew, Join, JoinLook, Shutdown,
         ShutLoad, ShutPark, ShutLast, ShutLock, JoinWake, ShutTimeout, StartFails, threadVars
<1>2. CASE StartFails(p)
  <2>1. p \in Threads => tpc[p] = "run"
    BY <1>2 DEF StartFails, Structure, CallerRuns
  <2> QED  BY <1>1, <1>2, <2>1 DEF StartFails, Structure, Shapes
<1>3. CASE \E w \in Threads : StartThread(p, w)
  <2> PICK w \in Threads : StartThread(p, w)
    BY <1>3
  <2>1. tpc[w] = "unborn" /\ tpc' = [tpc EXCEPT ![w] = "get"]
    BY DEF StartThread, Structure, FreshUnborn
  <2> QED  BY <1>1, <2>1 DEF Structure, Shapes
<1>4. CASE NotifyNew(p)
  BY <1>1, <1>4 DEF NotifyNew, WakeThreads, Parked, Structure, Shapes
<1>5. CASE \/ StartsDone(p) \/ JoinLook(p) \/ ShutLoad(p) \/ ShutPark(p) \/ ShutLast(p)
           \/ Call(p) \/ ShutLock(p) \/ JoinWake(p) \/ ShutTimeout(p)
  <2>1. UNCHANGED tpc
    BY <1>5
       DEF StartsDone, JoinLook, ShutLoad, ShutPark, ShutLast, ShutLock, JoinWake,
           ShutTimeout, Call, Spawn, Join, Shutdown, poolVars, threadVars
  <2> QED  BY <1>1, <2>1
<1> QED  BY <1>2, <1>3, <1>4, <1>5 DEF Caller

IdleTrue == idle + Cardinality(Running) = started

FlightTrue == in_flight = Len(queue) + Cardinality(Holding)

\* Queue.idle: a thread goes off the count with its task and back on it when
\* run_task returns, and a claimed thread is counted before it exists.
LEMMA IdleTrueNext == Structure /\ IdleTrue /\ [Next]_vars => IdleTrue'
<1> SUFFICES ASSUME Structure, IdleTrue, [Next]_vars PROVE IdleTrue'
  OBVIOUS
<1>0. /\ Shapes /\ idle \in Int /\ started \in Nat
      /\ Running \in SUBSET Threads /\ Cardinality(Running) \in Nat
  <2>1. Shapes /\ idle \in Int /\ started \in Nat
    BY PoolAssumption DEF Structure, Shapes
  <2>2. Running \in SUBSET Threads
    BY DEF Running
  <2>3. 1 \in Threads
    BY PoolAssumption DEF Threads
  <2> QED  BY <2>1, <2>2, <2>3, ThreadSets
<1>1. ASSUME NEW p \in Callers,
             Caller(p) \/ Call(p) \/ ShutLock(p) \/ JoinWake(p) \/ ShutTimeout(p) \/ StartFails(p)
      PROVE  IdleTrue'
  <2>1. Running' = Running
    BY <1>1, CallerMoves DEF Running, Busy
  <2>2. CASE \E b \in Batches : Spawn(p, b)
    <3> PICK b \in Batches : Spawn(p, b)
      BY <2>2
    <3> DEFINE count == ClaimThreads(Len(queue) + Len(b))
    <3>1. started' = started + count /\ idle' = idle + count
      BY DEF Spawn, Accept
    <3>2. Len(queue) + Len(b) \in Nat
      BY <1>0, BatchIsSeq
    <3>3. count \in Nat
      BY <1>0, <3>2, ClaimBounds
    <3> HIDE DEF count
    <3> QED  BY <1>0, <2>1, <3>1, <3>3 DEF IdleTrue
  <2>3. CASE ~\E b \in Batches : Spawn(p, b)
    <3>1. UNCHANGED <<idle, started>>
      BY <1>1, <2>3
         DEF Caller, Call, StartThread, StartsDone, NotifyNew, Join, JoinLook, Shutdown,
             ShutLoad, ShutPark, ShutLast, ShutLock, JoinWake, ShutTimeout, StartFails, poolVars
    <3> QED  BY <2>1, <3>1 DEF IdleTrue
  <2> QED  BY <2>2, <2>3
<1>2. ASSUME NEW w \in Threads, Pick(w)
      PROVE  IdleTrue'
  <2>1. tpc[w] \notin Busy /\ tpc' = [tpc EXCEPT ![w] = "picked"]
    BY <1>2 DEF Pick, Goto, Busy
  <2>2. w \notin Running /\ Running' = Running \cup {w}
    BY <1>0, <2>1 DEF Running, Shapes, Busy
  <2>3. Cardinality(Running') = Cardinality(Running) + 1
    BY <1>0, <2>2, ThreadSets
  <2>4. idle' = idle - 1 /\ started' = started
    BY <1>2 DEF Pick
  <2> QED  BY <1>0, <2>3, <2>4 DEF IdleTrue
<1>3. ASSUME NEW w \in Threads, CountIdle(w)
      PROVE  IdleTrue'
  <2>1. /\ tpc[w] \in Busy
        /\ \E place \in {"free", "freeFailed"} : tpc' = [tpc EXCEPT ![w] = place]
    BY <1>3 DEF CountIdle, Goto, Busy
  <2>2. w \in Running /\ Running' = Running \ {w}
    BY <1>0, <2>1 DEF Running, Shapes, Busy
  <2>3. Cardinality(Running') = Cardinality(Running) - 1
    BY <1>0, <2>2, ThreadSets
  <2>4. idle' = idle + 1 /\ started' = started
    BY <1>3 DEF CountIdle
  <2> QED  BY <1>0, <2>3, <2>4 DEF IdleTrue
<1>4. ASSUME NEW w \in Threads,
             Thread(w) \/ WaitTimeout(w) \/ Spurious(w), ~Pick(w), ~CountIdle(w)
      PROVE  IdleTrue'
  <2>1. UNCHANGED <<idle, started>>
    BY <1>4
       DEF Thread, WaitTimeout, Spurious, Wait, StillNothing, ReleaseMemory, CountRunning,
           RunTask, FinishTask, NotifyJoiners, Uncount, Unrun, LastOne, TellIdle, poolVars
  <2>2. \E place \in ThreadPlaces :
            tpc' = [tpc EXCEPT ![w] = place] /\ (place \in Busy <=> tpc[w] \in Busy)
    BY <1>4
       DEF Thread, WaitTimeout, Spurious, Wait, StillNothing, ReleaseMemory, CountRunning,
           RunTask, FinishTask, NotifyJoiners, Uncount, Unrun, LastOne, TellIdle,
           Goto, ThreadPlaces, Busy
  <2>3. Running' = Running
    BY <1>0, <2>2 DEF Running, Shapes
  <2> QED  BY <2>1, <2>3 DEF IdleTrue
<1>5. CASE UNCHANGED vars
  BY <1>5 DEF vars, poolVars, threadVars, IdleTrue, Running
<1> QED  BY <1>1, <1>2, <1>3, <1>4, <1>5 DEF Next

\* in_flight: counted at spawn, uncounted by task_completed.
LEMMA FlightTrueNext == Structure /\ FlightTrue /\ [Next]_vars => FlightTrue'
<1> SUFFICES ASSUME Structure, FlightTrue, [Next]_vars PROVE FlightTrue'
  OBVIOUS
<1>0. /\ Shapes /\ Len(queue) \in Nat
      /\ Holding \in SUBSET Threads /\ Cardinality(Holding) \in Nat
  <2>1. Shapes /\ Len(queue) \in Nat
    BY DEF Structure, Shapes
  <2>2. Holding \in SUBSET Threads
    BY DEF Holding
  <2>3. 1 \in Threads
    BY PoolAssumption DEF Threads
  <2> QED  BY <2>1, <2>2, <2>3, ThreadSets
<1>1. ASSUME NEW p \in Callers, NEW b \in Batches, Spawn(p, b)
      PROVE  FlightTrue'
  <2>1. in_flight' = in_flight + Len(b) /\ queue' = queue \o b /\ Holding' = Holding
    BY <1>1 DEF Spawn, Accept, threadVars, Holding
  <2>2. Len(queue \o b) = Len(queue) + Len(b) /\ Len(b) \in Nat
    BY <1>0, BatchIsSeq
  <2> QED  BY <1>0, <2>1, <2>2 DEF FlightTrue
<1>2. ASSUME NEW w \in Threads, Pick(w)
      PROVE  FlightTrue'
  <2>1. Len(queue') = Len(queue) - 1 /\ in_flight' = in_flight
    BY <1>0, <1>2 DEF Pick, Shapes
  <2>2. Head(queue) # None /\ task' = [task EXCEPT ![w] = Head(queue)]
    <3>1. Head(queue) \in Tasks
      BY <1>0, <1>2 DEF Pick, Shapes
    <3> QED  BY <1>2, <3>1, PoolAssumption DEF Pick
  <2>3. task[w] = None
    BY <1>2 DEF Pick, Structure, TaskHeld
  <2>4. w \notin Holding /\ Holding' = Holding \cup {w}
    BY <1>0, <2>2, <2>3 DEF Holding, Shapes
  <2>5. Cardinality(Holding') = Cardinality(Holding) + 1
    BY <1>0, <2>4, ThreadSets
  <2> QED  BY <1>0, <2>1, <2>5 DEF FlightTrue
<1>3. ASSUME NEW w \in Threads, Uncount(w)
      PROVE  FlightTrue'
  <2>1. in_flight' = in_flight - 1 /\ queue' = queue
    BY <1>3 DEF Uncount
  <2>2. task[w] # None /\ task' = [task EXCEPT ![w] = None]
    BY <1>3 DEF Uncount, Structure, TaskHeld
  <2>3. w \in Holding /\ Holding' = Holding \ {w}
    BY <1>0, <2>2 DEF Holding, Shapes
  <2>4. Cardinality(Holding') = Cardinality(Holding) - 1
    BY <1>0, <2>3, ThreadSets
  <2> QED  BY <1>0, <2>1, <2>4 DEF FlightTrue
<1>4. CASE UNCHANGED <<in_flight, queue, task>>
  BY <1>4 DEF FlightTrue, Holding
<1>5. \/ \E p \in Callers : \E b \in Batches : Spawn(p, b)
      \/ \E w \in Threads : Pick(w) \/ Uncount(w)
      \/ UNCHANGED <<in_flight, queue, task>>
  BY DEF Next, Thread, Caller, Call, Wait, WaitTimeout, Spurious, StillNothing, ReleaseMemory,
         CountRunning, RunTask, CountIdle, FinishTask, NotifyJoiners, Unrun, LastOne, TellIdle,
         StartThread, StartFails, StartsDone, NotifyNew, Join, JoinLook, JoinWake, Shutdown,
         ShutLock, ShutLoad, ShutPark, ShutTimeout, ShutLast, vars, poolVars, threadVars
<1> QED  BY <1>1, <1>2, <1>3, <1>4, <1>5

\* running: counted after the task is picked, uncounted by task_completed.
LEMMA RunningCountedNext == Structure /\ RunningCounted /\ [Next]_vars => RunningCounted'
<1> SUFFICES ASSUME Structure, RunningCounted, [Next]_vars PROVE RunningCounted'
  OBVIOUS
<1>0. /\ Shapes /\ Counted \in SUBSET Threads /\ Cardinality(Counted) \in Nat
  <2>1. Shapes
    BY DEF Structure
  <2>2. Counted \in SUBSET Threads
    BY DEF Counted
  <2>3. 1 \in Threads
    BY PoolAssumption DEF Threads
  <2> QED  BY <2>1, <2>2, <2>3, ThreadSets
<1>1. ASSUME NEW p \in Callers,
             Caller(p) \/ Call(p) \/ ShutLock(p) \/ JoinWake(p) \/ ShutTimeout(p) \/ StartFails(p)
      PROVE  RunningCounted'
  <2>1. Counted' = Counted /\ running' = running
    BY <1>1, CallerMoves DEF Counted
  <2> QED  BY <2>1 DEF RunningCounted
<1>2. ASSUME NEW w \in Threads, CountRunning(w)
      PROVE  RunningCounted'
  <2>1. tpc[w] = "picked" /\ tpc' = [tpc EXCEPT ![w] = "run"] /\ running' = running + 1
    BY <1>2 DEF CountRunning, Goto
  <2>2. w \notin Counted /\ Counted' = Counted \cup {w}
    BY <1>0, <2>1 DEF Counted, Shapes
  <2>3. Cardinality(Counted') = Cardinality(Counted) + 1
    BY <1>0, <2>2, ThreadSets
  <2> QED  BY <2>1, <2>3 DEF RunningCounted
<1>3. ASSUME NEW w \in Threads, Unrun(w)
      PROVE  RunningCounted'
  <2>1. tpc[w] = "unrun" /\ tpc' = [tpc EXCEPT ![w] = "lastOne"] /\ running' = running - 1
    BY <1>3 DEF Unrun, Goto
  <2>2. w \in Counted /\ Counted' = Counted \ {w}
    BY <1>0, <2>1 DEF Counted, Shapes
  <2>3. Cardinality(Counted') = Cardinality(Counted) - 1
    BY <1>0, <2>2, ThreadSets
  <2> QED  BY <2>1, <2>3 DEF RunningCounted
<1>4. ASSUME NEW w \in Threads,
             Thread(w) \/ WaitTimeout(w) \/ Spurious(w), ~CountRunning(w), ~Unrun(w)
      PROVE  RunningCounted'
  <2>1. UNCHANGED running
    BY <1>4
       DEF Thread, WaitTimeout, Spurious, Pick, Wait, StillNothing, ReleaseMemory, RunTask,
           CountIdle, FinishTask, NotifyJoiners, Uncount, LastOne, TellIdle
  <2>2. Counted' = Counted
    <3> DEFINE places == {"run", "ended", "failed", "free", "freeFailed",
                          "notify", "uncount", "unrun"}
    <3>1. \E place \in ThreadPlaces :
              tpc' = [tpc EXCEPT ![w] = place] /\ (place \in places <=> tpc[w] \in places)
      BY <1>4
         DEF Thread, WaitTimeout, Spurious, Pick, Wait, StillNothing, ReleaseMemory, RunTask,
             CountIdle, FinishTask, NotifyJoiners, Uncount, LastOne, TellIdle,
             Goto, ThreadPlaces
    <3> QED  BY <1>0, <3>1 DEF Counted, Shapes
  <2> QED  BY <2>1, <2>2 DEF RunningCounted
<1>5. CASE UNCHANGED vars
  BY <1>5 DEF vars, threadVars, RunningCounted, Counted
<1> QED  BY <1>1, <1>2, <1>3, <1>4, <1>5 DEF Next

-----------------------------------------------------------------------------
(* The theorems. *)

\* The inductive invariant: who is where, and the three counts.
PoolInv == Structure /\ IdleTrue /\ FlightTrue /\ RunningCounted

\* The three counts and the structure they rest on hold throughout.
LEMMA PoolInvHolds == Spec => []PoolInv
<1>1. Init => PoolInv
  <2> SUFFICES ASSUME Init PROVE PoolInv
    OBVIOUS
  <2>1. Running = {} /\ Holding = {} /\ Counted = {}
    BY DEF Init, Running, Holding, Counted, Busy
  <2>2. IdleTrue /\ FlightTrue /\ RunningCounted
    BY <2>1, FS_EmptySet DEF Init, IdleTrue, FlightTrue, RunningCounted
  <2> QED  BY <2>2, StructureInit DEF PoolInv
<1>2. PoolInv /\ [Next]_vars => PoolInv'
  BY StructureNext, IdleTrueNext, FlightTrueNext, RunningCountedNext DEF PoolInv
<1> QED  BY <1>1, <1>2, PTL DEF Spec

\* Every waiting task has a thread to run on, within size: a free one, or the
\* pool is at its limit.
THEOREM TasksHaveThreads == Spec => []EveryTaskHasAThread
<1>1. Init => EveryTaskHasAThread
  BY DEF Init, EveryTaskHasAThread
<1>2. Structure /\ EveryTaskHasAThread /\ [Next]_vars => (Structure /\ EveryTaskHasAThread)'
  BY StructureNext, EveryTaskNext
<1> QED  BY <1>1, <1>2, StructureInit, PTL DEF Spec

\* The counts under the queue's lock are the truth about the threads, whatever
\* panics, times out or is refused a thread.
THEOREM CountsTrue == Spec => []CountsAreTrue
<1>1. PoolInv => CountsAreTrue
  BY DEF PoolInv, IdleTrue, FlightTrue, CountsAreTrue
<1> QED  BY <1>1, PoolInvHolds, PTL

\* Every variable keeps its type: no counter of the pool ever goes below zero,
\* and idle never above the pool's size.
THEOREM PoolTypeCorrect == Spec => []TypeOK
<1>1. PoolInv => TypeOK
  <2> SUFFICES ASSUME PoolInv PROVE TypeOK
    OBVIOUS
  <2>0. Shapes /\ 1 \in Threads
    BY PoolAssumption DEF PoolInv, Structure, Threads
  <2>1. started \in 0 .. Size /\ Size \in Nat /\ idle \in Int /\ in_flight \in Int
    BY <2>0, PoolAssumption DEF Shapes
  <2>2. Cardinality(Running) \in Nat /\ Cardinality(Holding) \in Nat /\ Cardinality(Counted) \in Nat
    <3>1. Running \in SUBSET Threads /\ Holding \in SUBSET Threads /\ Counted \in SUBSET Threads
      BY DEF Running, Holding, Counted
    <3> QED  BY <2>0, <3>1, ThreadSets
  <2>3. Cardinality(Running) <= started
    <3>1. Running \subseteq 1 .. started
      <4>1. \A w \in Threads : tpc[w] \in Busy => w <= started
        BY DEF PoolInv, Structure, FreshUnborn, Busy
      <4> QED  BY <2>1, <4>1 DEF Running, Threads
    <3>2. IsFiniteSet(1 .. started) /\ Cardinality(1 .. started) = started
      BY <2>1, FS_Interval
    <3> QED  BY <3>1, <3>2, FS_Subset
  <2>4. idle \in 0 .. Size
    BY <2>1, <2>2, <2>3 DEF PoolInv, IdleTrue
  <2>5. Len(queue) \in Nat
    BY <2>0 DEF Shapes
  <2>6. in_flight \in Nat /\ running \in Nat
    BY <2>2, <2>5 DEF PoolInv, FlightTrue, RunningCounted
  <2> QED  BY <2>0, <2>4, <2>6 DEF Shapes, TypeOK
<1> QED  BY <1>1, PoolInvHolds, PTL
-----------------------------------------------------------------------------
(* Who is told: joiners and shutdown *)

ShutPlaces == {"shutLock", "shutLoad", "shutPark", "shutWait", "shutLast", "shutDone",
               "shutGaveUp"}

\* Who is in shutdown has said so, and looks at in_flight under idle_lock only.
ShuttingDown ==
    \A p \in Callers :
        /\ cpc[p] \in ShutPlaces => shutting_down
        /\ cpc[p] \in {"shutLoad", "shutPark", "shutLast"} => idleLock = p

\* A shutdown that is to sleep although nothing is in flight will be told by the thread
\* that brought in_flight to zero, which has not passed through idle_lock yet.
ShutdownTold ==
    \A p \in Callers :
        cpc[p] \in {"shutPark", "shutWait"} /\ in_flight = 0
          => \E w \in Threads : /\ last[w]
                                /\ \/ tpc[w] \in {"unrun", "lastOne"}
                                   \/ tpc[w] = "tellIdle" /\ cpc[p] = "shutWait"

\* A joiner that sleeps on a finished task is still to be notified.
JoinersTold ==
    \A p \in Callers :
        cpc[p] = "joinWait" /\ status[target[p]] # "pending"
          => \E w \in Threads : tpc[w] = "notify" /\ task[w] = target[p]

\* What a step of a thread leaves alone.
LEMMA ThreadFrame ==
    ASSUME Shapes, NEW w \in Threads, Thread(w) \/ WaitTimeout(w) \/ Spurious(w)
    PROVE  /\ UNCHANGED <<started, shutting_down, idleLock, spawned, peak, target, fresh>>
           /\ Uncount(w) \/ UNCHANGED <<in_flight, last>>
           /\ Pick(w) \/ Uncount(w) \/ UNCHANGED task
           /\ Pick(w) \/ UNCHANGED queue
           /\ Pick(w) \/ CountIdle(w) \/ UNCHANGED idle
           /\ FinishTask(w) \/ UNCHANGED status
           /\ NotifyJoiners(w) \/ TellIdle(w) \/ UNCHANGED cpc
           /\ \A p \in Callers : \/ cpc'[p] = cpc[p]
                                 \/ cpc[p] = "shutWait" /\ cpc'[p] = "shutLock" /\ TellIdle(w)
                                 \/ cpc[p] = "joinWait" /\ cpc'[p] = "join" /\ NotifyJoiners(w)
<1>1. /\ UNCHANGED <<started, shutting_down, idleLock, spawned, peak, target, fresh>>
      /\ Uncount(w) \/ UNCHANGED <<in_flight, last>>
      /\ Pick(w) \/ Uncount(w) \/ UNCHANGED task
      /\ Pick(w) \/ UNCHANGED queue
      /\ Pick(w) \/ CountIdle(w) \/ UNCHANGED idle
      /\ FinishTask(w) \/ UNCHANGED status
      /\ NotifyJoiners(w) \/ TellIdle(w) \/ UNCHANGED cpc
  BY DEF Thread, WaitTimeout, Spurious, Pick, Wait, StillNothing, ReleaseMemory, CountRunning,
         RunTask, CountIdle, FinishTask, NotifyJoiners, Uncount, Unrun, LastOne, TellIdle,
         poolVars, callerVars
<1>2. CASE NotifyJoiners(w)
  BY <1>1, <1>2 DEF NotifyJoiners
<1>3. CASE TellIdle(w)
  BY <1>1, <1>3 DEF TellIdle
<1> QED  BY <1>1, <1>2, <1>3

\* What a step of a caller leaves alone: everything of the other callers, and in
\* flight everything once shutdown was called.
LEMMA CallerFrame ==
    ASSUME Shapes, NEW p \in Callers,
           Caller(p) \/ Call(p) \/ ShutLock(p) \/ JoinWake(p) \/ ShutTimeout(p) \/ StartFails(p)
    PROVE  /\ UNCHANGED <<last, released, status>>
           /\ \A q \in Callers : q # p => cpc'[q] = cpc[q] /\ target'[q] = target[q]
           /\ (\E b \in Batches : Spawn(p, b))
              \/ UNCHANGED <<queue, started, idle, in_flight, spawned, peak>>
           /\ shutting_down => shutting_down'
<1>1. /\ UNCHANGED <<last, released, status>>
      /\ (\E b \in Batches : Spawn(p, b))
         \/ UNCHANGED <<queue, started, idle, in_flight, spawned, peak>>
      /\ shutting_down => shutting_down'
  <2>1. CASE \E b \in Batches : Spawn(p, b)
    BY <2>1 DEF Spawn, threadVars
  <2>2. CASE ~\E b \in Batches : Spawn(p, b)
    BY <2>2
       DEF Caller, Call, StartThread, StartsDone, NotifyNew, Join, JoinLook, Shutdown,
           ShutLoad, ShutPark, ShutLast, ShutLock, JoinWake, ShutTimeout, StartFails,
           poolVars, threadVars
  <2> QED  BY <2>1, <2>2
<1>2. UNCHANGED cpc \/ \E place \in CallerPlaces : cpc' = [cpc EXCEPT ![p] = place]
  BY DEF Caller, Call, Spawn, StartThread, StartsDone, NotifyNew, Join, JoinLook, Shutdown,
         ShutLoad, ShutPark, ShutLast, ShutLock, JoinWake, ShutTimeout, StartFails, ShutReturn,
         CallGoto, CallerPlaces
<1>3. UNCHANGED target \/ \E k \in Tasks : target' = [target EXCEPT ![p] = k]
  BY DEF Caller, Call, Spawn, StartThread, StartsDone, NotifyNew, Join, JoinLook, Shutdown,
         ShutLoad, ShutPark, ShutLast, ShutLock, JoinWake, ShutTimeout, StartFails, callerVars
<1>4. \A q \in Callers : q # p => cpc'[q] = cpc[q] /\ target'[q] = target[q]
  BY <1>2, <1>3 DEF Shapes
<1> QED  BY <1>1, <1>4

\* Whoever is in shutdown has taken its steps in their order.
LEMMA ShuttingDownNext == Structure /\ ShuttingDown /\ [Next]_vars => ShuttingDown'
<1> SUFFICES ASSUME Structure, ShuttingDown, [Next]_vars PROVE ShuttingDown'
  OBVIOUS
<1>0. Shapes
  BY DEF Structure
<1>1. ASSUME NEW w \in Threads, Thread(w) \/ WaitTimeout(w) \/ Spurious(w)
      PROVE  ShuttingDown'
  BY <1>0, <1>1, ThreadFrame DEF ShuttingDown, ShutPlaces
<1>2. ASSUME NEW p \in Callers,
             Caller(p) \/ Call(p) \/ ShutLock(p) \/ JoinWake(p) \/ ShutTimeout(p) \/ StartFails(p)
      PROVE  ShuttingDown'
  <2>1. /\ \A q \in Callers : q # p => cpc'[q] = cpc[q]
        /\ shutting_down => shutting_down'
    BY <1>0, <1>2, CallerFrame
  <2>2. CASE ShutLoad(p) \/ ShutPark(p) \/ ShutLast(p)
    <3>1. cpc[p] \in {"shutLoad", "shutPark", "shutLast"} /\ idleLock = p /\ shutting_down
      BY <2>2 DEF ShuttingDown, ShutPlaces, ShutLoad, ShutPark, ShutLast
    <3>2. \A q \in Callers : q # p => cpc[q] \notin {"shutLoad", "shutPark", "shutLast"}
      BY <3>1 DEF ShuttingDown
    <3>3. idleLock' = idleLock \/ idleLock' = None
      BY <2>2 DEF ShutLoad, ShutPark, ShutLast, ShutReturn
    <3>4. cpc'[p] \in {"shutLoad", "shutPark", "shutLast"} => idleLock' = idleLock
      BY <1>0, <2>2 DEF ShutLoad, ShutPark, ShutLast, ShutReturn, CallGoto, Shapes
    <3> QED  BY <2>1, <3>1, <3>2, <3>4 DEF ShuttingDown
  <2>3. CASE ShutLock(p)
    <3>1. /\ \A q \in Callers : cpc[q] \notin {"shutLoad", "shutPark", "shutLast"}
          /\ idleLock' = p /\ shutting_down
      BY <2>3, PoolAssumption DEF ShutLock, ShuttingDown, ShutPlaces
    <3> QED  BY <2>1, <3>1 DEF ShuttingDown
  <2>4. CASE ShutTimeout(p)
    <3>1. shutting_down
      BY <2>4 DEF ShutTimeout, ShuttingDown, ShutPlaces
    <3>2. CASE cpc[p] = "shutPark" /\ UNCHANGED idleLock
      BY <2>1, <3>1, <3>2 DEF ShuttingDown
    <3>3. CASE idleLock = None /\ idleLock' = p
      <4>1. \A q \in Callers : cpc[q] \notin {"shutLoad", "shutPark", "shutLast"}
        BY <3>3, PoolAssumption DEF ShuttingDown
      <4> QED  BY <2>1, <3>1, <3>3, <4>1 DEF ShuttingDown
    <3> QED  BY <2>4, <3>2, <3>3 DEF ShutTimeout
  <2>5. CASE Shutdown(p)
    <3>1. cpc'[p] = "shutLock" /\ shutting_down' = TRUE /\ idleLock' = idleLock
      BY <1>0, <2>5 DEF Shutdown, CallGoto, Shapes
    <3> QED  BY <2>1, <3>1 DEF ShuttingDown
  <2>6. CASE ~(\/ ShutLoad(p) \/ ShutPark(p) \/ ShutLast(p) \/ ShutLock(p) \/ ShutTimeout(p)
               \/ Shutdown(p))
    <3>1. (cpc'[p] = cpc[p] \/ cpc'[p] \notin ShutPlaces) /\ idleLock' = idleLock
      BY <1>0, <1>2, <2>6
         DEF Caller, Call, Spawn, StartThread, StartsDone, NotifyNew, Join, JoinLook, JoinWake,
             StartFails, CallGoto, ShutPlaces, Shapes
    <3> QED  BY <2>1, <3>1 DEF ShuttingDown, ShutPlaces
  <2> QED  BY <2>2, <2>3, <2>4, <2>5, <2>6
<1>3. CASE UNCHANGED vars
  BY <1>3 DEF vars, poolVars, callerVars, ShuttingDown
<1> QED  BY <1>1, <1>2, <1>3 DEF Next

\* The thread that brings in_flight to zero cannot miss a shutdown: it passes through
\* idle_lock between the two.
LEMMA ShutdownToldNext ==
    PoolInv /\ ShuttingDown /\ ShutdownTold /\ [Next]_vars => ShutdownTold'
<1> SUFFICES ASSUME PoolInv, ShuttingDown, ShutdownTold, [Next]_vars PROVE ShutdownTold'
  OBVIOUS
<1>0. Structure /\ Shapes /\ in_flight \in Int
  BY DEF PoolInv, Structure, Shapes
<1> SUFFICES ASSUME NEW p \in Callers, cpc'[p] \in {"shutPark", "shutWait"}, in_flight' = 0
             PROVE  \E w \in Threads : /\ last'[w]
                                       /\ \/ tpc'[w] \in {"unrun", "lastOne"}
                                          \/ tpc'[w] = "tellIdle" /\ cpc'[p] = "shutWait"
  BY DEF ShutdownTold
<1>1. ASSUME NEW w \in Threads, Thread(w) \/ WaitTimeout(w) \/ Spurious(w)
      PROVE  \E v \in Threads : /\ last'[v]
                                /\ \/ tpc'[v] \in {"unrun", "lastOne"}
                                   \/ tpc'[v] = "tellIdle" /\ cpc'[p] = "shutWait"
  <2>1. /\ cpc'[p] = cpc[p] /\ ~(cpc[p] = "shutWait" /\ TellIdle(w))
        /\ Uncount(w) \/ (in_flight' = in_flight /\ last' = last)
        /\ \A v \in Threads : v # w => tpc'[v] = tpc[v]
    <3>1. ~(cpc[p] = "shutWait" /\ TellIdle(w))
      BY DEF TellIdle
    <3> QED  BY <1>0, <1>1, <3>1, ThreadFrame, ThreadMoves
  <2>2. CASE Uncount(w)
    <3>1. last'[w] = (in_flight = 1) /\ in_flight' = in_flight - 1 /\ tpc'[w] = "unrun"
      BY <1>0, <2>2 DEF Uncount, Goto, Shapes
    <3>2. in_flight = 1
      BY <1>0, <3>1
    <3> QED  BY <3>1, <3>2
  <2>3. CASE ~Uncount(w)
    <3>1. PICK v \in Threads : /\ last[v]
                               /\ \/ tpc[v] \in {"unrun", "lastOne"}
                                  \/ tpc[v] = "tellIdle" /\ cpc[p] = "shutWait"
      BY <2>1, <2>3 DEF ShutdownTold
    <3>2. CASE v # w
      BY <2>1, <2>3, <3>1, <3>2
    <3>3. CASE v = w
      <4>1. shutting_down /\ (cpc[p] = "shutPark" => idleLock # None)
        BY <2>1, PoolAssumption DEF ShuttingDown, ShutPlaces
      <4>2. CASE tpc[w] = "unrun"
        <5>1. tpc'[w] = "lastOne"
          BY <1>0, <1>1, <4>2
             DEF Thread, WaitTimeout, Spurious, Pick, Wait, StillNothing, ReleaseMemory,
                 CountRunning, RunTask, CountIdle, FinishTask, NotifyJoiners, Uncount, Unrun,
                 LastOne, TellIdle, Goto, Shapes
        <5> QED  BY <2>1, <2>3, <3>1, <3>3, <5>1
      <4>3. CASE tpc[w] = "lastOne"
        <5>1. idleLock = None /\ tpc'[w] = "tellIdle"
          BY <1>0, <1>1, <3>1, <3>3, <4>1, <4>3
             DEF Thread, WaitTimeout, Spurious, Pick, Wait, StillNothing, ReleaseMemory,
                 CountRunning, RunTask, CountIdle, FinishTask, NotifyJoiners, Uncount, Unrun,
                 LastOne, TellIdle, Goto, Shapes
        <5> QED  BY <2>1, <2>3, <3>1, <3>3, <4>1, <5>1
      <4>4. CASE tpc[w] = "tellIdle" /\ cpc[p] = "shutWait"
        <5>1. TellIdle(w)
          BY <1>1, <4>4
             DEF Thread, WaitTimeout, Spurious, Pick, Wait, StillNothing, ReleaseMemory,
                 CountRunning, RunTask, CountIdle, FinishTask, NotifyJoiners, Uncount, Unrun,
                 LastOne
        <5>2. cpc'[p] = "shutLock"
          BY <4>4, <5>1 DEF TellIdle
        <5> QED  BY <2>1, <4>4, <5>2
      <4> QED  BY <3>1, <3>3, <4>2, <4>3, <4>4
    <3> QED  BY <3>2, <3>3
  <2> QED  BY <2>2, <2>3
<1>2. ASSUME NEW q \in Callers,
             Caller(q) \/ Call(q) \/ ShutLock(q) \/ JoinWake(q) \/ ShutTimeout(q) \/ StartFails(q)
      PROVE  \E v \in Threads : /\ last'[v]
                                /\ \/ tpc'[v] \in {"unrun", "lastOne"}
                                   \/ tpc'[v] = "tellIdle" /\ cpc'[p] = "shutWait"
  <2>1. cpc[p] \in {"shutPark", "shutWait"} /\ in_flight = 0
        /\ (cpc[p] = "shutWait" => cpc'[p] = "shutWait")
    <3>1. CASE q # p
      <4>1. cpc'[p] = cpc[p] /\ shutting_down
        BY <1>0, <1>2, <3>1, CallerFrame DEF ShuttingDown, ShutPlaces
      <4>2. in_flight' = in_flight
        BY <1>0, <1>2, <4>1, CallerFrame DEF Spawn
      <4> QED  BY <4>1, <4>2
    <3>2. CASE q = p
      <4>1. cpc[p] = "shutPark" /\ in_flight' = in_flight
        BY <1>0, <1>2, <3>2
           DEF Caller, Call, Spawn, StartThread, StartsDone, NotifyNew, Join, JoinLook, Shutdown,
               ShutLoad, ShutPark, ShutLast, ShutLock, JoinWake, ShutTimeout, StartFails,
               ShutReturn, CallGoto, poolVars, Shapes
      <4> QED  BY <4>1
    <3> QED  BY <3>1, <3>2
  <2>2. PICK v \in Threads : /\ last[v]
                             /\ \/ tpc[v] \in {"unrun", "lastOne"}
                                \/ tpc[v] = "tellIdle" /\ cpc[p] = "shutWait"
    BY <2>1 DEF ShutdownTold
  <2>3. last' = last /\ tpc'[v] = tpc[v]
    BY <1>0, <1>2, <2>2, CallerFrame, CallerMoves
  <2> QED  BY <2>1, <2>2, <2>3
<1>3. CASE UNCHANGED vars
  BY <1>3 DEF vars, poolVars, threadVars, callerVars, ShutdownTold
<1> QED  BY <1>1, <1>2, <1>3 DEF Next

\* A task's outcome is there before its joiners are notified.
LEMMA JoinersToldNext == Structure /\ JoinersTold /\ [Next]_vars => JoinersTold'
<1> SUFFICES ASSUME Structure, JoinersTold, [Next]_vars PROVE JoinersTold'
  OBVIOUS
<1>0. Shapes
  BY DEF Structure
<1> SUFFICES ASSUME NEW p \in Callers, cpc'[p] = "joinWait", status'[target'[p]] # "pending"
             PROVE  \E w \in Threads : tpc'[w] = "notify" /\ task'[w] = target'[p]
  BY DEF JoinersTold
<1>1. ASSUME NEW w \in Threads, Thread(w) \/ WaitTimeout(w) \/ Spurious(w)
      PROVE  \E v \in Threads : tpc'[v] = "notify" /\ task'[v] = target'[p]
  <2>1. /\ cpc[p] = "joinWait" /\ target' = target
        /\ Pick(w) \/ Uncount(w) \/ task' = task
        /\ FinishTask(w) \/ status' = status
        /\ \A v \in Threads : v # w => tpc'[v] = tpc[v]
    BY <1>0, <1>1, ThreadFrame, ThreadMoves
  <2>2. CASE status[target[p]] # "pending"
    <3>1. PICK v \in Threads : tpc[v] = "notify" /\ task[v] = target[p]
      BY <2>1, <2>2 DEF JoinersTold
    <3>2. v # w
      <4> SUFFICES ASSUME v = w PROVE FALSE
        OBVIOUS
      <4>1. NotifyJoiners(w)
        BY <1>1, <3>1
           DEF Thread, WaitTimeout, Spurious, Pick, Wait, StillNothing, ReleaseMemory,
               CountRunning, RunTask, CountIdle, FinishTask, NotifyJoiners, Uncount, Unrun,
               LastOne, TellIdle
      <4> QED  BY <2>1, <3>1, <4>1 DEF NotifyJoiners
    <3>3. task'[v] = task[v]
      BY <1>0, <2>1, <3>2 DEF Pick, Uncount, Shapes
    <3> QED  BY <2>1, <3>1, <3>2, <3>3
  <2>3. CASE status[target[p]] = "pending"
    <3>1. FinishTask(w)
      BY <2>1, <2>3
    <3>2. /\ tpc'[w] = "notify" /\ task' = task
          /\ \E s \in Status : status' = [status EXCEPT ![task[w]] = s]
      BY <1>0, <3>1 DEF FinishTask, Goto, Shapes, Status
    <3>3. task[w] = target[p]
      BY <1>0, <2>1, <2>3, <3>2 DEF Shapes
    <3> QED  BY <2>1, <3>2, <3>3
  <2> QED  BY <2>2, <2>3
<1>2. ASSUME NEW q \in Callers,
             Caller(q) \/ Call(q) \/ ShutLock(q) \/ JoinWake(q) \/ ShutTimeout(q) \/ StartFails(q)
      PROVE  \E v \in Threads : tpc'[v] = "notify" /\ task'[v] = target'[p]
  <2>1. status' = status /\ task' = task
    BY <1>0, <1>2, CallerFrame, CallerMoves
  <2>2. cpc[p] = "joinWait" /\ target'[p] = target[p]
    <3>1. CASE q # p
      BY <1>0, <1>2, <3>1, CallerFrame
    <3>2. CASE q = p
      <4>1. JoinLook(p) \/ (cpc'[p] = cpc[p] /\ target' = target)
        BY <1>0, <1>2, <3>2
           DEF Caller, Call, Spawn, StartThread, StartsDone, NotifyNew, Join, JoinLook, Shutdown,
               ShutLoad, ShutPark, ShutLast, ShutLock, JoinWake, ShutTimeout, StartFails,
               ShutReturn, CallGoto, callerVars, Shapes
      <4>2. ~JoinLook(p)
        BY <1>0, <2>1 DEF JoinLook, CallGoto, Shapes
      <4> QED  BY <4>1, <4>2
    <3> QED  BY <3>1, <3>2
  <2>3. PICK v \in Threads : tpc[v] = "notify" /\ task[v] = target[p]
    BY <2>1, <2>2 DEF JoinersTold
  <2>4. tpc'[v] = tpc[v]
    BY <1>2, <2>3, CallerMoves
  <2> QED  BY <2>1, <2>2, <2>3, <2>4
<1>3. CASE UNCHANGED vars
  BY <1>3 DEF vars, threadVars, callerVars, JoinersTold
<1> QED  BY <1>1, <1>2, <1>3 DEF Next
-----------------------------------------------------------------------------
(* Where the tasks are *)

\* An accepted task waits in the queue once, or one thread has it, until its outcome is
\* there; the thread that published the outcome has it a little longer.
TasksAre ==
    /\ \A i \in 1 .. Len(queue) : /\ queue[i] \in spawned /\ status[queue[i]] = "pending"
                                  /\ \A w \in Threads : task[w] # queue[i]
    /\ \A i, j \in 1 .. Len(queue) : queue[i] = queue[j] => i = j
    /\ \A w \in Threads : task[w] # None =>
         /\ task[w] \in spawned
         /\ status[task[w]] # "pending" <=> tpc[w] \in {"notify", "uncount"}
         /\ \A v \in Threads : v # w => task[v] # task[w]
    /\ \A k \in spawned : status[k] = "pending" =>
         (\E i \in 1 .. Len(queue) : queue[i] = k) \/ (\E w \in Threads : task[w] = k)
    /\ \A k \in Tasks : status[k] # "pending" => k \in spawned

\* A spawn queues tasks that nobody has.
LEMMA SpawnTasks ==
    ASSUME Structure, TasksAre, NEW p \in Callers, NEW b \in Batches, Spawn(p, b)
    PROVE  TasksAre'
<1>1. /\ queue' = queue \o b /\ spawned' = spawned \cup Elements(b)
      /\ Elements(b) \cap spawned = {} /\ status' = status /\ task' = task /\ tpc' = tpc
  BY DEF Spawn, Accept, threadVars
<1>2. /\ b \in Seq(Tasks) /\ Len(b) \in Nat /\ queue \in Seq(Tasks) /\ Len(queue) \in Nat
      /\ \A i, j \in 1 .. Len(b) : b[i] = b[j] => i = j
      /\ status \in [Tasks -> Status] /\ None \notin Tasks /\ spawned \subseteq Tasks
  BY BatchIsSeq, PoolAssumption DEF Structure, Shapes
<1>3. /\ Len(queue') = Len(queue) + Len(b)
      /\ \A i \in 1 .. Len(queue') : queue'[i] = IF i <= Len(queue) THEN queue[i]
                                                ELSE b[i - Len(queue)]
  BY <1>1, <1>2
<1>4. /\ \A i \in 1 .. Len(b) : b[i] \in Elements(b) /\ b[i] \in Tasks
      /\ \A k \in Elements(b) : \E i \in 1 .. Len(b) : b[i] = k
  BY <1>2 DEF Elements
<1>5. \A k \in Elements(b) : status[k] = "pending" /\ \A w \in Threads : task[w] # k
  <2>1. \A k \in Elements(b) : k \in Tasks /\ k \notin spawned /\ k # None
    BY <1>1, <1>2, <1>4
  <2> QED  BY <2>1 DEF TasksAre
<1>6. \A i \in 1 .. Len(queue') :
        \/ i \in 1 .. Len(queue) /\ queue'[i] = queue[i]
        \/ i - Len(queue) \in 1 .. Len(b) /\ queue'[i] = b[i - Len(queue)]
             /\ ~(i \in 1 .. Len(queue))
  BY <1>2, <1>3
<1>7. \A i \in 1 .. Len(queue') : /\ queue'[i] \in spawned' /\ status'[queue'[i]] = "pending"
                                  /\ \A w \in Threads : task'[w] # queue'[i]
  BY <1>1, <1>4, <1>5, <1>6 DEF TasksAre
<1>8. ASSUME NEW i \in 1 .. Len(queue'), NEW j \in 1 .. Len(queue'), queue'[i] = queue'[j]
      PROVE  i = j
  <2>1. CASE i \in 1 .. Len(queue) /\ j \in 1 .. Len(queue)
    BY <1>6, <1>8, <2>1 DEF TasksAre
  <2>2. CASE ~(i \in 1 .. Len(queue)) /\ ~(j \in 1 .. Len(queue))
    <3>1. i - Len(queue) = j - Len(queue)
      BY <1>2, <1>6, <1>8, <2>2
    <3> QED  BY <1>2, <3>1
  <2>3. \A m \in 1 .. Len(queue), n \in 1 .. Len(queue') :
          ~(n \in 1 .. Len(queue)) => queue'[m] # queue'[n]
    <3>1. \A n \in 1 .. Len(queue') : ~(n \in 1 .. Len(queue)) => queue'[n] \in Elements(b)
      BY <1>4, <1>6
    <3>2. \A m \in 1 .. Len(queue) : queue'[m] \in spawned
      BY <1>2, <1>3 DEF TasksAre
    <3> QED  BY <1>1, <3>1, <3>2
  <2> QED  BY <1>8, <2>1, <2>2, <2>3
<1>9. \A k \in spawned' : status'[k] = "pending" =>
        (\E i \in 1 .. Len(queue') : queue'[i] = k) \/ (\E w \in Threads : task'[w] = k)
  <2> SUFFICES ASSUME NEW k \in spawned', status'[k] = "pending", \A w \in Threads : task'[w] # k
               PROVE  \E i \in 1 .. Len(queue') : queue'[i] = k
    OBVIOUS
  <2>1. CASE k \in spawned
    <3>1. PICK i \in 1 .. Len(queue) : queue[i] = k
      BY <1>1, <2>1 DEF TasksAre
    <3>2. i \in 1 .. Len(queue') /\ queue'[i] = k
      BY <1>2, <1>3, <3>1
    <3> QED  BY <3>2
  <2>2. CASE k \in Elements(b)
    <3>1. PICK i \in 1 .. Len(b) : b[i] = k
      BY <1>4, <2>2
    <3>2. /\ Len(queue) + i \in 1 .. Len(queue') /\ ~(Len(queue) + i <= Len(queue))
          /\ (Len(queue) + i) - Len(queue) = i
      BY <1>2, <1>3
    <3>3. queue'[Len(queue) + i] = b[(Len(queue) + i) - Len(queue)]
      BY <1>3, <3>2
    <3> QED  BY <3>1, <3>2, <3>3
  <2> QED  BY <1>1, <2>1, <2>2
<1>10. \A w \in Threads : task'[w] # None =>
         /\ task'[w] \in spawned'
         /\ status'[task'[w]] # "pending" <=> tpc'[w] \in {"notify", "uncount"}
         /\ \A v \in Threads : v # w => task'[v] # task'[w]
  BY <1>1 DEF TasksAre
<1>11. \A k \in Tasks : status'[k] # "pending" => k \in spawned'
  BY <1>1 DEF TasksAre
<1> QED  BY <1>7, <1>8, <1>9, <1>10, <1>11 DEF TasksAre

\* A thread takes the task it finds at the head of the queue.
LEMMA PickTasks ==
    ASSUME Structure, TasksAre, NEW w \in Threads, Pick(w)
    PROVE  TasksAre'
<1>1. /\ queue # <<>> /\ queue' = Tail(queue) /\ tpc[w] \in {"get", "timedOut"}
      /\ task' = [task EXCEPT ![w] = Head(queue)] /\ tpc' = [tpc EXCEPT ![w] = "picked"]
      /\ spawned' = spawned /\ status' = status
  BY DEF Pick, Goto
<1>2. /\ queue \in Seq(Tasks) /\ Len(queue) \in Nat /\ None \notin Tasks
      /\ task \in [Threads -> Tasks \cup {None}] /\ tpc \in [Threads -> ThreadPlaces]
  BY PoolAssumption DEF Structure, Shapes
<1>3. /\ Head(queue) = queue[1] /\ Head(queue) \in Tasks /\ 1 \in 1 .. Len(queue)
      /\ Len(queue') = Len(queue) - 1
      /\ \A i \in 1 .. Len(queue') : i + 1 \in 1 .. Len(queue) /\ queue'[i] = queue[i + 1]
      /\ \A i \in 1 .. Len(queue) : i # 1 => i - 1 \in 1 .. Len(queue') /\ queue'[i - 1] = queue[i]
  BY <1>1, <1>2
<1>4. task[w] = None
  BY <1>1 DEF Structure, TaskHeld
<1>5. \A v \in Threads : /\ task'[v] = IF v = w THEN queue[1] ELSE task[v]
                         /\ tpc'[v] = IF v = w THEN "picked" ELSE tpc[v]
  BY <1>1, <1>2, <1>3
<1>6. \A i \in 1 .. Len(queue) : i # 1 => queue[i] # queue[1]
  BY <1>3 DEF TasksAre
<1>7. \A i \in 1 .. Len(queue') : /\ queue'[i] \in spawned' /\ status'[queue'[i]] = "pending"
                                  /\ \A v \in Threads : task'[v] # queue'[i]
  <2> SUFFICES ASSUME NEW i \in 1 .. Len(queue')
               PROVE  /\ queue'[i] \in spawned' /\ status'[queue'[i]] = "pending"
                      /\ \A v \in Threads : task'[v] # queue'[i]
    OBVIOUS
  <2>1. i + 1 \in 1 .. Len(queue) /\ queue'[i] = queue[i + 1] /\ i + 1 # 1
    BY <1>3
  <2>2. queue[i + 1] # queue[1]
    BY <1>6, <2>1
  <2> QED  BY <1>1, <1>5, <2>1, <2>2 DEF TasksAre
<1>8. \A i, j \in 1 .. Len(queue') : queue'[i] = queue'[j] => i = j
  <2> SUFFICES ASSUME NEW i \in 1 .. Len(queue'), NEW j \in 1 .. Len(queue'), queue'[i] = queue'[j]
               PROVE  i = j
    OBVIOUS
  <2>1. i + 1 = j + 1
    BY <1>3 DEF TasksAre
  <2> QED  BY <2>1
<1>9. ASSUME NEW v \in Threads, task'[v] # None
      PROVE  /\ task'[v] \in spawned'
             /\ status'[task'[v]] # "pending" <=> tpc'[v] \in {"notify", "uncount"}
             /\ \A u \in Threads : u # v => task'[u] # task'[v]
  BY <1>1, <1>3, <1>5, <1>9 DEF TasksAre
<1>10. \A k \in spawned' : status'[k] = "pending" =>
         (\E i \in 1 .. Len(queue') : queue'[i] = k) \/ (\E v \in Threads : task'[v] = k)
  <2> SUFFICES ASSUME NEW k \in spawned', status'[k] = "pending", \A v \in Threads : task'[v] # k
               PROVE  \E i \in 1 .. Len(queue') : queue'[i] = k
    OBVIOUS
  <2>1. \A v \in Threads : task[v] # k
    <3>1. k # None
      BY <1>1, <1>2 DEF Structure, Shapes
    <3> QED  BY <1>4, <1>5, <3>1
  <2>2. PICK i \in 1 .. Len(queue) : queue[i] = k
    BY <1>1, <2>1 DEF TasksAre
  <2>3. i # 1
    BY <1>5, <2>2
  <2> QED  BY <1>3, <2>2, <2>3
<1> QED  BY <1>1, <1>7, <1>8, <1>9, <1>10 DEF TasksAre

\* The outcome is published for the task of the thread, which has been taken from the
\* queue.
LEMMA FinishTasks ==
    ASSUME Structure, TasksAre, NEW w \in Threads, FinishTask(w)
    PROVE  TasksAre'
<1>1. /\ tpc[w] \in {"free", "freeFailed"} /\ tpc' = [tpc EXCEPT ![w] = "notify"]
      /\ queue' = queue /\ task' = task /\ spawned' = spawned
      /\ \E s \in {"ok", "err"} : status' = [status EXCEPT ![task[w]] = s]
  BY DEF FinishTask, Goto, poolVars
<1>2. PICK s \in {"ok", "err"} : status' = [status EXCEPT ![task[w]] = s]
  BY <1>1
<1>3. task[w] # None /\ task[w] \in Tasks /\ task[w] \in spawned
  BY <1>1 DEF Structure, Shapes, TaskHeld, TasksAre
<1>4. /\ \A k \in Tasks : status'[k] = IF k = task[w] THEN s ELSE status[k]
      /\ \A v \in Threads : tpc'[v] = IF v = w THEN "notify" ELSE tpc[v]
      /\ spawned \subseteq Tasks /\ queue \in Seq(Tasks)
      /\ \A v \in Threads : task[v] \in Tasks \cup {None}
      /\ \A i \in 1 .. Len(queue) : queue[i] \in Tasks
  BY <1>1, <1>2 DEF Structure, Shapes
<1>5. \A i \in 1 .. Len(queue) : status'[queue[i]] = "pending"
  BY <1>4 DEF TasksAre
<1>6. \A v \in Threads : task[v] # None =>
        (status'[task[v]] # "pending" <=> tpc'[v] \in {"notify", "uncount"})
  BY <1>3, <1>4 DEF TasksAre
<1>7. \A k \in spawned : status'[k] = "pending" => status[k] = "pending"
  BY <1>4
<1>8. \A k \in Tasks : status'[k] # "pending" => k \in spawned
  BY <1>3, <1>4 DEF TasksAre
<1> QED  BY <1>1, <1>5, <1>6, <1>7, <1>8 DEF TasksAre

\* The thread lets go of a task that is finished.
LEMMA UncountTasks ==
    ASSUME Structure, TasksAre, NEW w \in Threads, Uncount(w)
    PROVE  TasksAre'
<1>1. /\ tpc[w] = "uncount" /\ tpc' = [tpc EXCEPT ![w] = "unrun"]
      /\ task' = [task EXCEPT ![w] = None]
      /\ queue' = queue /\ spawned' = spawned /\ status' = status
  BY DEF Uncount, Goto
<1>2. task[w] # None /\ status[task[w]] # "pending"
  BY <1>1 DEF Structure, TaskHeld, TasksAre
<1>3. /\ \A v \in Threads : task'[v] = IF v = w THEN None ELSE task[v]
      /\ \A v \in Threads : tpc'[v] = IF v = w THEN "unrun" ELSE tpc[v]
      /\ \A i \in 1 .. Len(queue) : queue[i] # None
  BY <1>1, PoolAssumption DEF Structure, Shapes
<1> QED  BY <1>1, <1>2, <1>3 DEF TasksAre

\* No accepted task is lost or run twice.
LEMMA TasksAreNext == Structure /\ TasksAre /\ [Next]_vars => TasksAre'
<1> SUFFICES ASSUME Structure, TasksAre, [Next]_vars PROVE TasksAre'
  OBVIOUS
<1>0. Shapes
  BY DEF Structure
<1>1. ASSUME UNCHANGED <<queue, task, spawned, status>>,
             \A v \in Threads : tpc'[v] = tpc[v]
                                \/ (tpc[v] \in {"notify", "uncount"}
                                      <=> tpc'[v] \in {"notify", "uncount"})
      PROVE  TasksAre'
  BY <1>1 DEF TasksAre
<1>2. ASSUME NEW w \in Threads, Thread(w) \/ WaitTimeout(w) \/ Spurious(w)
      PROVE  TasksAre'
  <2>1. CASE ~(Pick(w) \/ Uncount(w) \/ FinishTask(w))
    <3>1. UNCHANGED <<queue, task, spawned, status>>
      BY <1>0, <1>2, <2>1, ThreadFrame
    <3>2. tpc[w] \in {"notify", "uncount"} <=> tpc'[w] \in {"notify", "uncount"}
      BY <1>0, <1>2, <2>1
         DEF Thread, WaitTimeout, Spurious, Wait, StillNothing, ReleaseMemory,
             CountRunning, RunTask, CountIdle, NotifyJoiners, Unrun, LastOne, TellIdle,
             Goto, Shapes
    <3>3. \A v \in Threads : v # w => tpc'[v] = tpc[v]
      BY <1>0, <1>2, ThreadMoves
    <3> QED  BY <1>1, <3>1, <3>2, <3>3
  <2> QED  BY <2>1, PickTasks, UncountTasks, FinishTasks
<1>3. ASSUME NEW p \in Callers,
             Caller(p) \/ Call(p) \/ ShutLock(p) \/ JoinWake(p) \/ ShutTimeout(p) \/ StartFails(p)
      PROVE  TasksAre'
  <2>1. CASE \E b \in Batches : Spawn(p, b)
    BY <2>1, SpawnTasks
  <2>2. CASE ~\E b \in Batches : Spawn(p, b)
    <3>1. UNCHANGED <<queue, task, spawned, status>>
      BY <1>0, <1>3, <2>2, CallerFrame, CallerMoves
    <3>2. \A v \in Threads : tpc'[v] = tpc[v]
                             \/ (tpc[v] \in {"notify", "uncount"}
                                   <=> tpc'[v] \in {"notify", "uncount"})
      BY <1>3, CallerMoves
    <3> QED  BY <1>1, <3>1, <3>2
  <2> QED  BY <2>1, <2>2
<1>4. CASE UNCHANGED vars
  BY <1>1, <1>4 DEF vars, poolVars, threadVars
<1> QED  BY <1>2, <1>3, <1>4 DEF Next

\* shutdown that returned true found nothing in flight, and nothing is accepted since.
DoneDrained == \A p \in Clients : cpc[p] = "shutDone" => in_flight = 0

\* in_flight stays zero: spawn refuses and no thread has a task.
LEMMA DoneDrainedNext ==
    PoolInv /\ ShuttingDown /\ DoneDrained /\ [Next]_vars => DoneDrained'
<1> SUFFICES ASSUME PoolInv, ShuttingDown, DoneDrained, [Next]_vars PROVE DoneDrained'
  OBVIOUS
<1>0. Structure /\ Shapes /\ Clients \subseteq Callers /\ FlightTrue
  BY DEF PoolInv, Structure, Callers
<1> SUFFICES ASSUME NEW p \in Clients, cpc'[p] = "shutDone"
             PROVE  in_flight' = 0
  BY DEF DoneDrained
<1>1. ASSUME NEW w \in Threads, Thread(w) \/ WaitTimeout(w) \/ Spurious(w)
      PROVE  in_flight' = 0
  <2>1. cpc[p] = "shutDone" /\ (Uncount(w) \/ in_flight' = in_flight)
    BY <1>0, <1>1, ThreadFrame
  <2>2. in_flight = 0
    BY <2>1 DEF DoneDrained
  <2>3. ~Uncount(w)
    <3> SUFFICES ASSUME Uncount(w) PROVE FALSE
      OBVIOUS
    <3>1. w \in Holding /\ Holding \in SUBSET Threads
      BY <1>0 DEF Uncount, Structure, TaskHeld, Holding
    <3>2. IsFiniteSet(Holding) /\ Cardinality(Holding) \in Nat
      BY <3>1, ThreadSets
    <3>3. Cardinality(Holding) # 0
      BY <3>1, <3>2, FS_EmptySet
    <3>4. Len(queue) \in Nat /\ in_flight = Len(queue) + Cardinality(Holding)
      BY <1>0 DEF FlightTrue, Shapes
    <3> QED  BY <2>2, <3>2, <3>3, <3>4
  <2> QED  BY <2>1, <2>2, <2>3
<1>2. ASSUME NEW q \in Callers,
             Caller(q) \/ Call(q) \/ ShutLock(q) \/ JoinWake(q) \/ ShutTimeout(q) \/ StartFails(q)
      PROVE  in_flight' = 0
  <2>1. CASE cpc[p] = "shutDone"
    <3>1. in_flight = 0 /\ shutting_down
      BY <1>0, <2>1 DEF DoneDrained, ShuttingDown, ShutPlaces
    <3>2. in_flight' = in_flight
      BY <1>0, <1>2, <3>1, CallerFrame DEF Spawn
    <3> QED  BY <3>1, <3>2
  <2>2. CASE cpc[p] # "shutDone"
    <3>1. q = p
      BY <1>0, <1>2, <2>2, CallerFrame
    <3>2. (ShutLoad(p) \/ ShutLast(p)) /\ ShutReturn(p)
      BY <1>0, <1>2, <2>2, <3>1
         DEF Caller, Call, Spawn, StartThread, StartsDone, NotifyNew, Join, JoinLook, Shutdown,
             ShutLoad, ShutPark, ShutLast, ShutLock, JoinWake, ShutTimeout, StartFails,
             CallGoto, poolVars, Shapes
    <3>3. in_flight = 0
      <4>1. p \notin Threads
        BY PoolAssumption
      <4> QED  BY <1>0, <3>2, <4>1 DEF ShutReturn, CallGoto, Shapes
    <3>4. in_flight' = in_flight
      BY <3>2 DEF ShutLoad, ShutLast, poolVars
    <3> QED  BY <3>3, <3>4
  <2> QED  BY <2>1, <2>2
<1>3. CASE UNCHANGED vars
  BY <1>0, <1>3 DEF vars, poolVars, callerVars, DoneDrained
<1> QED  BY <1>1, <1>2, <1>3 DEF Next
-----------------------------------------------------------------------------
(* Who is told: threads that wait for a task *)

\* Claimed threads that nobody will ever create: the caller panicked in start_threads.
Lost ==
    {w \in Threads : w <= started /\ tpc[w] = "unborn" /\ \A p \in Callers : w \notin fresh[p]}

\* Threads that are there, or about to be, and in no task.
Free ==
    {w \in Threads : \/ tpc[w] \notin Busy \cup {"unborn"}
                     \/ \E p \in Callers : w \in fresh[p]}

EveryoneIsTold == \E p \in Callers : cpc[p] \in {"startAll", "notifyAll"}

\* NoSleepBesideWork as the steps keep it: once a claimed thread is lost it stays lost.
SleepInv ==
    \/ Parked = {} \/ Lost # {} \/ EveryoneIsTold
    \/ Len(queue) <= (idle - Cardinality(Parked)) + Cardinality(ComingNotifies)

\* The pool counts a thread idle for each one that is free, and for each that was lost.
IdleView ==
    /\ IdleThreadsExist <=> Lost = {}
    /\ Lost = {} => idle = Cardinality(Free)
    /\ Cardinality(Parked) <= idle

\* The sizes of sets of callers and threads.
LEMMA CallerSets ==
    ASSUME NEW A \in SUBSET Callers, NEW p \in Callers
    PROVE  /\ IsFiniteSet(A) /\ Cardinality(A) \in Nat
           /\ p \notin A => Cardinality(A \cup {p}) = Cardinality(A) + 1
           /\ p \in A => Cardinality(A \ {p}) = Cardinality(A) - 1
<1>1. IsFiniteSet(Threads)
  <2>1. 1 \in Int /\ Size \in Int
    BY PoolAssumption
  <2> QED  BY <2>1, FS_Interval DEF Threads
<1>2. IsFiniteSet(Callers)
  BY <1>1, PoolAssumption, FS_Union DEF Callers
<1>3. IsFiniteSet(A)
  BY <1>2, FS_Subset
<1> QED  BY <1>3, FS_CardinalityType, FS_AddElement, FS_RemoveElement

\* The started threads are the running, the free and the lost ones.
LEMMA IdleIs == PoolInv => IdleView
<1> SUFFICES ASSUME PoolInv PROVE IdleView
  OBVIOUS
<1>0. /\ Shapes /\ FreshUnborn /\ 1 \in Threads /\ started \in Nat /\ started <= Size
      /\ Size \in Nat /\ idle \in Int
  BY PoolAssumption DEF PoolInv, Structure, Shapes, Threads
<1>1. /\ Running \in SUBSET Threads /\ Free \in SUBSET Threads /\ Lost \in SUBSET Threads
      /\ Parked \in SUBSET Threads /\ Parked \in SUBSET Free
  BY DEF Running, Free, Lost, Parked, Busy
<1>2. /\ IsFiniteSet(Running) /\ Cardinality(Running) \in Nat
      /\ IsFiniteSet(Free) /\ Cardinality(Free) \in Nat
      /\ IsFiniteSet(Lost) /\ Cardinality(Lost) \in Nat
      /\ Cardinality(Parked) \in Nat /\ Cardinality(Parked) <= Cardinality(Free)
  BY <1>0, <1>1, ThreadSets, FS_Subset
<1>3. Running \cap Free = {} /\ (Running \cup Free) \cap Lost = {}
  <2>1. \A w \in Threads : (\E p \in Callers : w \in fresh[p]) => tpc[w] = "unborn"
    BY <1>0 DEF FreshUnborn
  <2> QED  BY <2>1 DEF Running, Free, Lost, Busy
<1>4. 1 .. started = (Running \cup Free) \cup Lost
  <2>1. \A w \in Running \cup Free \cup Lost : w \in 1 .. started
    BY <1>0 DEF FreshUnborn, Running, Free, Lost, Busy, Threads
  <2>2. \A w \in 1 .. started : w \in Threads /\ w <= started
    BY <1>0 DEF Threads
  <2>3. \A w \in 1 .. started : w \in Running \cup Free \cup Lost
    BY <2>2 DEF Running, Free, Lost
  <2> QED  BY <2>1, <2>3
<1>5. IsFiniteSet(Running \cup Free)
      /\ Cardinality(Running \cup Free) = Cardinality(Running) + Cardinality(Free)
  BY <1>2, <1>3, FS_Union, FS_EmptySet
<1>6. Cardinality((Running \cup Free) \cup Lost)
        = (Cardinality(Running) + Cardinality(Free)) + Cardinality(Lost)
  <2> DEFINE Known == Running \cup Free
  <2>1. IsFiniteSet(Known) /\ Known \cap Lost = {}
    BY <1>3, <1>5
  <2>2. Cardinality(Known) = Cardinality(Running) + Cardinality(Free)
    BY <1>5
  <2> HIDE DEF Known
  <2>3. Cardinality(Known \cup Lost)
          = Cardinality(Known) + Cardinality(Lost) - Cardinality(Known \cap Lost)
    BY <1>2, <2>1, FS_Union
  <2>4. Cardinality(Known \cup Lost) = Cardinality(Known) + Cardinality(Lost)
    BY <1>2, <2>1, <2>2, <2>3, FS_EmptySet
  <2> QED  BY <2>2, <2>4 DEF Known
<1>7. Cardinality(1 .. started) = started
  BY <1>0, FS_Interval
<1>8. idle = Cardinality(Free) + Cardinality(Lost)
  <2>1. idle + Cardinality(Running) = started
    BY DEF PoolInv, IdleTrue
  <2>2. started = (Cardinality(Running) + Cardinality(Free)) + Cardinality(Lost)
    BY <1>4, <1>6, <1>7
  <2> QED  BY <1>0, <1>2, <2>1, <2>2
<1>9. Lost = {} <=> Cardinality(Lost) = 0
  BY <1>2, FS_EmptySet
<1>10. IdleThreadsExist <=> idle <= Cardinality(Free)
  BY DEF IdleThreadsExist, Free
<1>11. IdleThreadsExist <=> Lost = {}
  BY <1>2, <1>8, <1>9, <1>10
<1>12. Cardinality(Parked) <= idle
  BY <1>2, <1>8
<1>13. Lost = {} => idle = Cardinality(Free)
  BY <1>2, <1>8, <1>9
<1> QED  BY <1>11, <1>12, <1>13 DEF IdleView

\* A claim that was given up is never taken up again.
LEMMA LostGrows == Structure /\ [Next]_vars => Lost \subseteq Lost'
<1> SUFFICES ASSUME Structure, [Next]_vars PROVE Lost \subseteq Lost'
  OBVIOUS
<1>0. Shapes /\ started \in Nat
  BY PoolAssumption DEF Structure, Shapes
<1>1. ASSUME NEW w \in Threads, Thread(w) \/ WaitTimeout(w) \/ Spurious(w)
      PROVE  Lost \subseteq Lost'
  BY <1>0, <1>1, ThreadMoves DEF Lost
<1>2. ASSUME NEW p \in Callers,
             Caller(p) \/ Call(p) \/ ShutLock(p) \/ JoinWake(p) \/ ShutTimeout(p) \/ StartFails(p)
      PROVE  Lost \subseteq Lost'
  <2>1. CASE \E b \in Batches : Spawn(p, b)
    <3> PICK b \in Batches : Spawn(p, b)
      BY <2>1
    <3> DEFINE count == ClaimThreads(Len(queue) + Len(b))
    <3>1. /\ started' = started + count
          /\ fresh' = [fresh EXCEPT ![p] = started + 1 .. started + count]
          /\ tpc' = tpc
      BY DEF Spawn, Accept, threadVars
    <3>2. Len(queue) + Len(b) \in Nat
      BY <1>0, BatchIsSeq
    <3>3. count \in Nat
      BY <1>0, <3>2, ClaimBounds
    <3> HIDE DEF count
    <3>4. ASSUME NEW w \in Lost
          PROVE  w \in Lost'
      <4>1. w \in Threads /\ w \in Nat /\ w <= started /\ tpc'[w] = "unborn"
        BY <3>1, PoolAssumption DEF Lost, Threads
      <4>2. w <= started' /\ w \notin started + 1 .. started + count
        BY <1>0, <3>1, <3>3, <4>1
      <4>3. \A q \in Callers : w \notin fresh'[q]
        BY <1>0, <3>1, <4>2 DEF Lost, Shapes
      <4> QED  BY <4>1, <4>2, <4>3 DEF Lost
    <3> QED  BY <3>4
  <2>2. CASE ~\E b \in Batches : Spawn(p, b)
    <3>1. started' = started
      BY <1>0, <1>2, <2>2, CallerFrame
    <3>2. \A q \in Callers : fresh'[q] \subseteq fresh[q]
      BY <1>0, <1>2, <2>2
         DEF Caller, Call, StartThread, StartsDone, NotifyNew, Join, JoinLook, Shutdown,
             ShutLoad, ShutPark, ShutLast, ShutLock, JoinWake, ShutTimeout, StartFails,
             callerVars, Shapes
    <3>3. \A w \in Lost : tpc'[w] = "unborn"
      <4>1. CASE \E w \in Threads : StartThread(p, w)
        BY <1>0, <4>1 DEF StartThread, Lost, Shapes
      <4>2. CASE StartFails(p)
        <5>1. p \in Threads => tpc[p] = "run"
          BY <4>2 DEF StartFails, Structure, CallerRuns
        <5> QED  BY <1>0, <4>2, <5>1 DEF StartFails, Lost, Shapes
      <4>3. CASE NotifyNew(p)
        BY <1>0, <4>3 DEF NotifyNew, WakeThreads, Parked, Lost, Shapes
      <4>4. CASE /\ ~\E w \in Threads : StartThread(p, w)
                 /\ ~StartFails(p) /\ ~NotifyNew(p)
        <5>1. tpc' = tpc
          BY <1>2, <2>2, <4>4
             DEF Caller, Call, StartsDone, Join, JoinLook, Shutdown, ShutLoad, ShutPark, ShutLast,
                 ShutLock, JoinWake, ShutTimeout, threadVars
        <5> QED  BY <5>1 DEF Lost
      <4> QED  BY <4>1, <4>2, <4>3, <4>4
    <3> QED  BY <3>1, <3>2, <3>3 DEF Lost
  <2> QED  BY <2>1, <2>2
<1>3. CASE UNCHANGED vars
  BY <1>3 DEF vars, poolVars, threadVars, callerVars, Lost
<1> QED  BY <1>1, <1>2, <1>3 DEF Next
\* What covers the queue covers it after a step that leaves all of it alone.
LEMMA SleepFrame ==
    ASSUME SleepInv, Lost \subseteq Lost', queue' = queue, idle' = idle, Parked' = Parked,
           ComingNotifies' = ComingNotifies, EveryoneIsTold' = EveryoneIsTold
    PROVE  SleepInv'
  BY DEF SleepInv

\* One sleeper fewer, or a free thread more, leaves the rest of the queue covered.
LEMMA SleepersFewer ==
    ASSUME Structure, SleepInv, Lost \subseteq Lost', queue' = queue, cpc' = cpc,
           \/ Parked' = Parked /\ idle' = idle + 1
           \/ idle' = idle /\ \E w \in Parked : Parked' = Parked \ {w}
    PROVE  SleepInv'
<1>1. /\ Parked \in SUBSET Threads /\ ComingNotifies' = ComingNotifies
      /\ EveryoneIsTold' = EveryoneIsTold /\ Len(queue) \in Nat /\ idle \in Int
      /\ ComingNotifies \in SUBSET Callers /\ 1 \in Threads /\ 1 \in Callers
  BY PoolAssumption
     DEF Parked, ComingNotifies, EveryoneIsTold, Structure, Shapes, Threads, Callers
<1>2. Cardinality(Parked) \in Nat /\ Cardinality(ComingNotifies) \in Nat
  BY <1>1, ThreadSets, CallerSets
<1>3. CASE Parked' = Parked /\ idle' = idle + 1
  BY <1>1, <1>2, <1>3 DEF SleepInv
<1>4. CASE idle' = idle /\ \E w \in Parked : Parked' = Parked \ {w}
  <2> PICK w \in Parked : Parked' = Parked \ {w}
    BY <1>4
  <2>1. Cardinality(Parked') = Cardinality(Parked) - 1
    BY <1>1, ThreadSets
  <2> QED  BY <1>1, <1>2, <1>4, <2>1 DEF SleepInv
<1> QED  BY <1>3, <1>4

\* The same for a step of a thread.
LEMMA ThreadSleeps ==
    ASSUME PoolInv, SleepInv, IdleView', Lost \subseteq Lost', NEW w \in Threads,
           Thread(w) \/ WaitTimeout(w) \/ Spurious(w)
    PROVE  SleepInv'
<1>0. Structure /\ Shapes
  BY DEF PoolInv, Structure
<1>1. /\ \A p \in Callers : \/ cpc'[p] = cpc[p]
                            \/ cpc[p] = "shutWait" /\ cpc'[p] = "shutLock"
                            \/ cpc[p] = "joinWait" /\ cpc'[p] = "join"
      /\ Pick(w) \/ queue' = queue
      /\ Pick(w) \/ CountIdle(w) \/ idle' = idle
  BY <1>0, ThreadFrame
<1>2. ComingNotifies' = ComingNotifies /\ EveryoneIsTold' = EveryoneIsTold
  BY <1>1 DEF ComingNotifies, EveryoneIsTold
<1>3. /\ Parked \in SUBSET Threads /\ ComingNotifies \in SUBSET Callers /\ 1 \in Threads
      /\ 1 \in Callers /\ Len(queue) \in Nat /\ idle \in Int /\ queue \in Seq(Tasks)
  BY <1>0, PoolAssumption DEF Parked, ComingNotifies, Shapes, Threads, Callers
<1>4. Cardinality(Parked) \in Nat /\ Cardinality(ComingNotifies) \in Nat
  BY <1>3, ThreadSets, CallerSets
<1>5. CASE Pick(w)
  <2>1. queue # <<>> /\ queue' = Tail(queue) /\ idle' = idle - 1 /\ Parked' = Parked
    BY <1>0, <1>5 DEF Pick, Goto, Parked, Shapes
  <2>2. Len(queue') = Len(queue) - 1
    BY <1>3, <2>1
  <2> QED  BY <1>2, <1>3, <1>4, <2>1, <2>2 DEF SleepInv
<1>6. CASE Wait(w)
  <2>1. queue' = <<>> /\ Len(queue') = 0 /\ idle' = idle
    BY <1>6 DEF Wait, poolVars
  <2>2. Parked' \in SUBSET Threads
    BY DEF Parked
  <2>3. Cardinality(Parked') \in Nat /\ Cardinality(Parked') <= idle'
    BY <1>3, <2>2, ThreadSets DEF IdleView
  <2> QED  BY <1>2, <1>3, <1>4, <2>1, <2>3 DEF SleepInv
<1>7. CASE WaitTimeout(w) \/ Spurious(w)
  <2>1. w \in Parked /\ Parked' = Parked \ {w} /\ idle' = idle /\ queue' = queue /\ cpc' = cpc
    BY <1>0, <1>7 DEF WaitTimeout, Spurious, Goto, Parked, Shapes, poolVars, callerVars
  <2> QED  BY <1>0, <2>1, SleepersFewer
<1>8. CASE CountIdle(w)
  <2>1. Parked' = Parked /\ idle' = idle + 1 /\ queue' = queue /\ cpc' = cpc
    BY <1>0, <1>8 DEF CountIdle, Goto, Parked, Shapes, callerVars
  <2> QED  BY <1>0, <2>1, SleepersFewer
<1>9. CASE ~(Pick(w) \/ Wait(w) \/ WaitTimeout(w) \/ Spurious(w) \/ CountIdle(w))
  <2>1. Parked' = Parked
    BY <1>0, <1>9
       DEF Thread, StillNothing, ReleaseMemory, CountRunning, RunTask, FinishTask,
           NotifyJoiners, Uncount, Unrun, LastOne, TellIdle, Goto, Parked, Shapes
  <2> QED  BY <1>1, <1>2, <1>9, <2>1, SleepFrame
<1> QED  BY <1>5, <1>6, <1>7, <1>8, <1>9

\* The same for a step of a caller: a spawn of one task brings one notification, one of
\* more tells everyone, and a caller refused a thread loses it.
LEMMA CallerSleeps ==
    ASSUME PoolInv, SleepInv, Lost \subseteq Lost', NEW p \in Callers,
           Caller(p) \/ Call(p) \/ ShutLock(p) \/ JoinWake(p) \/ ShutTimeout(p) \/ StartFails(p)
    PROVE  SleepInv'
<1>0. Structure /\ Shapes
  BY DEF PoolInv, Structure
<1>1. /\ Parked \in SUBSET Threads /\ ComingNotifies \in SUBSET Callers /\ 1 \in Threads
      /\ 1 \in Callers /\ Len(queue) \in Nat /\ idle \in Int /\ queue \in Seq(Tasks)
  BY <1>0, PoolAssumption DEF Parked, ComingNotifies, Shapes, Threads, Callers
<1>2. Cardinality(Parked) \in Nat /\ Cardinality(ComingNotifies) \in Nat
  BY <1>1, ThreadSets, CallerSets
<1>3. \A q \in Callers : q # p => cpc'[q] = cpc[q]
  BY <1>0, CallerFrame
<1>4. CASE \E b \in Batches : Spawn(p, b)
  <2> PICK b \in Batches : Spawn(p, b)
    BY <1>4
  <2> DEFINE count == ClaimThreads(Len(queue) + Len(b))
  <2>1. /\ queue' = queue \o b /\ idle' = idle + count /\ tpc' = tpc
        /\ cpc[p] = "ready"
        /\ cpc' = [cpc EXCEPT ![p] = IF Len(b) = 1 THEN "start" ELSE "startAll"]
    BY DEF Spawn, Accept, MayCall, CallGoto, threadVars
  <2>2. /\ Len(queue) + Len(b) \in Nat /\ Len(queue') = Len(queue) + Len(b)
    BY <1>0, <2>1, BatchIsSeq
  <2>3. count \in Nat
    BY <1>0, <2>2, ClaimBounds
  <2> HIDE DEF count
  <2>4. CASE Len(b) # 1
    <3>1. cpc'[p] = "startAll"
      BY <1>0, <2>1, <2>4 DEF Shapes
    <3> QED  BY <3>1 DEF SleepInv, EveryoneIsTold
  <2>5. CASE Len(b) = 1
    <3>1. cpc'[p] = "start" /\ Parked' = Parked
      BY <1>0, <2>1, <2>5 DEF Shapes, Parked
    <3>2. EveryoneIsTold => EveryoneIsTold'
      BY <1>3, <2>1 DEF EveryoneIsTold
    <3>3. p \notin ComingNotifies /\ ComingNotifies' = ComingNotifies \cup {p}
      BY <1>3, <2>1, <3>1 DEF ComingNotifies
    <3>4. Cardinality(ComingNotifies') = Cardinality(ComingNotifies) + 1
      BY <1>1, <3>3, CallerSets
    <3>5. idle' >= idle /\ idle' \in Int
      BY <1>1, <2>1, <2>3
    <3> QED  BY <1>1, <1>2, <2>2, <2>5, <3>1, <3>2, <3>4, <3>5 DEF SleepInv
  <2> QED  BY <2>4, <2>5
<1>5. CASE StartFails(p)
  <2>1. PICK w \in fresh[p] : TRUE
    BY <1>5 DEF StartFails
  <2>2. /\ w \in Threads /\ w <= started /\ tpc[w] = "unborn"
        /\ \A q \in Callers : q # p => w \notin fresh[q]
    BY <1>0, <2>1 DEF Structure, FreshUnborn, Shapes
  <2>3. started' = started /\ (p \in Threads => tpc[p] = "run")
        /\ fresh' = [fresh EXCEPT ![p] = {}]
    BY <1>0, <1>5 DEF StartFails, poolVars, Structure, CallerRuns
  <2>4. tpc'[w] = "unborn" /\ \A q \in Callers : w \notin fresh'[q]
    BY <1>0, <1>5, <2>2, <2>3 DEF StartFails, Shapes
  <2>5. w \in Lost'
    BY <2>2, <2>3, <2>4 DEF Lost
  <2> QED  BY <2>5 DEF SleepInv
<1>6. CASE NotifyNew(p)
  <2>1. queue' = queue /\ idle' = idle /\ cpc'[p] = "ready"
    BY <1>0, <1>6 DEF NotifyNew, CallGoto, Shapes, poolVars
  <2>2. CASE cpc[p] = "notifyAll" /\ WakeThreads(Parked)
    <3>1. Parked' = {}
      BY <1>0, <2>2 DEF WakeThreads, Parked, Shapes
    <3> QED  BY <3>1 DEF SleepInv
  <2>3. CASE cpc[p] = "notifyOne"
    <3>1. /\ EveryoneIsTold' = EveryoneIsTold
          /\ p \in ComingNotifies /\ ComingNotifies' = ComingNotifies \ {p}
      BY <1>3, <2>1, <2>3 DEF EveryoneIsTold, ComingNotifies
    <3>2. Cardinality(ComingNotifies') = Cardinality(ComingNotifies) - 1
      BY <1>1, <3>1, CallerSets
    <3>3. CASE Parked = {} /\ UNCHANGED tpc
      BY <3>3 DEF SleepInv, Parked
    <3>4. CASE \E w \in Parked : WakeThreads({w})
      <4> PICK w \in Parked : WakeThreads({w})
        BY <3>4
      <4>1. Parked' = Parked \ {w}
        BY <1>0 DEF WakeThreads, Parked, Shapes
      <4>2. Cardinality(Parked') = Cardinality(Parked) - 1
        BY <1>1, <4>1, ThreadSets
      <4> QED  BY <1>1, <1>2, <2>1, <3>1, <3>2, <4>2 DEF SleepInv
    <3> QED  BY <1>6, <2>3, <3>3, <3>4 DEF NotifyNew
  <2> QED  BY <1>6, <2>2, <2>3 DEF NotifyNew
<1>7. CASE ~(\E b \in Batches : Spawn(p, b)) /\ ~StartFails(p) /\ ~NotifyNew(p)
  <2>1. queue' = queue /\ idle' = idle
    BY <1>0, <1>7, CallerFrame
  <2>2. Parked' = Parked
    <3>1. CASE \E w \in Threads : StartThread(p, w)
      <4> PICK w \in Threads : StartThread(p, w)
        BY <3>1
      <4>1. tpc[w] = "unborn" /\ tpc' = [tpc EXCEPT ![w] = "get"]
        BY <1>0 DEF StartThread, Structure, FreshUnborn
      <4> QED  BY <1>0, <4>1 DEF Parked, Shapes
    <3>2. CASE ~\E w \in Threads : StartThread(p, w)
      <4>1. tpc' = tpc
        BY <1>7, <3>2
           DEF Caller, Call, StartsDone, Join, JoinLook, Shutdown, ShutLoad, ShutPark, ShutLast,
               ShutLock, JoinWake, ShutTimeout, threadVars
      <4> QED  BY <4>1 DEF Parked
    <3> QED  BY <3>1, <3>2
  <2>3. \/ cpc'[p] = cpc[p]
        \/ cpc[p] = "start" /\ cpc'[p] = "notifyOne"
        \/ cpc[p] = "startAll" /\ cpc'[p] = "notifyAll"
        \/ /\ cpc[p] \notin {"start", "notifyOne", "startAll", "notifyAll"}
           /\ cpc'[p] \notin {"start", "notifyOne", "startAll", "notifyAll"}
    <3>1. CASE StartsDone(p)
      BY <1>0, <3>1 DEF StartsDone, CallGoto, Shapes
    <3>2. CASE ~StartsDone(p)
      BY <1>0, <1>7, <3>2
         DEF Caller, Call, StartThread, Join, JoinLook, Shutdown, ShutLoad, ShutPark, ShutLast,
             ShutLock, JoinWake, ShutTimeout, ShutReturn, CallGoto, MayCall, Shapes
    <3> QED  BY <3>1, <3>2
  <2>4. ComingNotifies' = ComingNotifies /\ EveryoneIsTold' = EveryoneIsTold
    BY <1>3, <2>3 DEF ComingNotifies, EveryoneIsTold
  <2> QED  BY <2>1, <2>2, <2>4, SleepFrame
<1> QED  BY <1>4, <1>5, <1>6, <1>7

\* No thread falls asleep beside a task.
LEMMA SleepNext == PoolInv /\ SleepInv /\ IdleView' /\ [Next]_vars => SleepInv'
<1> SUFFICES ASSUME PoolInv, SleepInv, IdleView', [Next]_vars PROVE SleepInv'
  OBVIOUS
<1>1. Lost \subseteq Lost'
  BY LostGrows DEF PoolInv
<1>2. CASE Next
  BY <1>1, <1>2, ThreadSleeps, CallerSleeps DEF Next
<1>3. CASE UNCHANGED vars
  <2>1. /\ queue' = queue /\ idle' = idle /\ Parked' = Parked
        /\ ComingNotifies' = ComingNotifies /\ EveryoneIsTold' = EveryoneIsTold
    BY <1>3
       DEF vars, poolVars, threadVars, callerVars, Parked, ComingNotifies, EveryoneIsTold
  <2> QED  BY <1>1, <2>1, SleepFrame
<1> QED  BY <1>2, <1>3
-----------------------------------------------------------------------------
(* How many threads are started *)

\* The tasks that threads run and the tasks that wait are different unfinished tasks.
WorkView == Cardinality(Running) + Len(queue) <= Cardinality(Unfinished)

\* Each running thread and each place of the queue has an unfinished task of its own.
LEMMA WorkFits == Structure /\ TasksAre => WorkView
<1> SUFFICES ASSUME Structure, TasksAre PROVE WorkView
  OBVIOUS
<1> DEFINE Places == 1 .. Len(queue)
           Queued == {queue[i] : i \in Places}
           Run == {task[w] : w \in Running}
           Nth == [i \in Places |-> queue[i]]
           Own == [w \in Running |-> task[w]]
<1>0. /\ Shapes /\ Len(queue) \in Nat /\ 1 \in Threads /\ Running \in SUBSET Threads
  BY PoolAssumption DEF Structure, Shapes, Threads, Running
<1>1. IsFiniteSet(Unfinished) /\ Unfinished \in SUBSET Tasks
  BY <1>0, PoolAssumption, FS_Subset DEF Unfinished, Shapes
<1>2. \A w \in Running : task[w] # None /\ task[w] \in spawned /\ status[task[w]] = "pending"
  <2>1. \A w \in Running : task[w] # None /\ tpc[w] \notin {"notify", "uncount"}
    BY DEF Running, Busy, Structure, TaskHeld
  <2> QED  BY <2>1 DEF Running, TasksAre
<1>3. Queued \in SUBSET Unfinished /\ Run \in SUBSET Unfinished
  BY <1>2 DEF TasksAre, Unfinished
<1>4. Queued \cap Run = {}
  BY DEF TasksAre, Running
<1>5. IsFiniteSet(Queued) /\ IsFiniteSet(Run)
  BY <1>1, <1>3, FS_Subset
<1>6. Nth \in Injection(Places, Queued)
  BY DEF Injection, IsInjective, TasksAre
<1>7. Own \in Injection(Running, Run)
  <2>1. \A v, w \in Running : task[v] = task[w] => v = w
    BY <1>2 DEF TasksAre, Running
  <2> QED  BY <2>1 DEF Injection, IsInjective
<1>8. Len(queue) <= Cardinality(Queued)
  <2>1. Cardinality(Places) <= Cardinality(Queued)
    BY <1>5, <1>6, FS_Injection
  <2>2. Cardinality(1 .. Len(queue)) = IF 1 > Len(queue) THEN 0 ELSE Len(queue) - 1 + 1
    BY <1>0, FS_Interval
  <2> QED  BY <1>0, <2>1, <2>2
<1>9. Cardinality(Running) <= Cardinality(Run)
  BY <1>5, <1>7, FS_Injection
<1> HIDE DEF Queued, Run
<1>10. Cardinality(Queued \cup Run)
         = Cardinality(Queued) + Cardinality(Run) - Cardinality(Queued \cap Run)
  BY <1>5, FS_Union
<1>11. Cardinality(Queued \cap Run) = 0
  BY <1>4, FS_EmptySet
<1>12. Cardinality(Queued \cup Run) <= Cardinality(Unfinished)
  BY <1>1, <1>3, FS_Subset
<1>13. /\ Cardinality(Queued) \in Nat /\ Cardinality(Run) \in Nat
       /\ Cardinality(Running) \in Nat /\ Cardinality(Unfinished) \in Nat
  BY <1>0, <1>1, <1>5, ThreadSets, FS_CardinalityType
<1> QED  BY <1>0, <1>8, <1>9, <1>10, <1>11, <1>12, <1>13 DEF WorkView

\* A claim adds what the queue has beyond the idle threads: no more than the tasks that
\* are unfinished at once.
LEMMA NoSpareNext ==
    PoolInv /\ TasksAre /\ NoSpareThreads /\ WorkView' /\ [Next]_vars => NoSpareThreads'
<1> SUFFICES ASSUME PoolInv, TasksAre, NoSpareThreads, WorkView', [Next]_vars
             PROVE  NoSpareThreads'
  OBVIOUS
<1>0. /\ Structure /\ Shapes /\ started \in Nat /\ idle \in Int /\ Size \in Nat
      /\ Running \in SUBSET Threads /\ 1 \in Threads /\ peak \in Nat
  BY PoolAssumption DEF PoolInv, Structure, Shapes, Running, Threads
<1>1. ASSUME NEW p \in Callers, NEW b \in Batches, Spawn(p, b)
      PROVE  NoSpareThreads'
  <2> DEFINE count == ClaimThreads(Len(queue) + Len(b))
             outstanding == Cardinality(Unfinished \cup Elements(b))
  <2>1. /\ queue' = queue \o b /\ started' = started + count /\ tpc' = tpc
        /\ spawned' = spawned \cup Elements(b) /\ status' = status
        /\ Elements(b) \cap spawned = {}
        /\ peak' = IF outstanding > peak THEN outstanding ELSE peak
    BY <1>1 DEF Spawn, Accept, threadVars
  <2>2. Len(queue') = Len(queue) + Len(b) /\ Len(queue) + Len(b) \in Nat /\ Elements(b) \subseteq Tasks
    BY <1>0, <2>1, BatchIsSeq
  <2>3. Running' = Running
    BY <2>1 DEF Running
  <2>4. Unfinished' = Unfinished \cup Elements(b)
    <3>1. \A k \in Elements(b) : status[k] = "pending"
      BY <2>1, <2>2 DEF TasksAre
    <3> QED  BY <2>1, <3>1 DEF Unfinished
  <2>5. outstanding \in Nat
    <3>1. Unfinished \cup Elements(b) \in SUBSET Tasks
      BY <1>0, <2>2 DEF Unfinished, Shapes
    <3>2. IsFiniteSet(Unfinished \cup Elements(b))
      BY <3>1, PoolAssumption, FS_Subset
    <3> QED  BY <3>2, FS_CardinalityType
  <2>6. Cardinality(Running) + Len(queue') <= outstanding
    BY <2>3, <2>4 DEF WorkView
  <2>7. idle + Cardinality(Running) = started /\ Cardinality(Running) \in Nat
    BY <1>0, ThreadSets DEF PoolInv, IdleTrue
  <2>8. count \in Nat /\ (count = 0 \/ count <= (Len(queue) + Len(b)) - idle)
    <3>1. count \in Nat
      BY <1>0, <2>2, ClaimBounds
    <3>2. count = 0 \/ count <= (Len(queue) + Len(b)) - idle
      BY <1>0, <2>2 DEF ClaimThreads, Min2, Subtract
    <3> QED  BY <3>1, <3>2
  <2> HIDE DEF count, outstanding
  <2>9. started' <= peak \/ started' <= outstanding
    BY <1>0, <2>1, <2>2, <2>5, <2>6, <2>7, <2>8 DEF NoSpareThreads
  <2> QED  BY <1>0, <2>1, <2>5, <2>8, <2>9 DEF NoSpareThreads
<1>2. CASE Next /\ ~\E p \in Callers, b \in Batches : Spawn(p, b)
  <2>1. UNCHANGED <<started, peak>>
    BY <1>0, <1>2, ThreadFrame, CallerFrame DEF Next
  <2> QED  BY <2>1 DEF NoSpareThreads
<1>3. CASE UNCHANGED vars
  BY <1>3 DEF vars, poolVars, NoSpareThreads
<1> QED  BY <1>1, <1>2, <1>3

-----------------------------------------------------------------------------
(* Nobody is lost when the system creates the threads it is asked for *)

\* Claimed threads are there while their caller is in start_threads only.
NobodyLost ==
    /\ Lost = {}
    /\ \A p \in Callers : fresh[p] # {} => cpc[p] \in {"start", "startAll"}

\* start_threads creates every thread it was told to, one after the other.
LEMMA NobodyLostNext ==
    ASSUME ~StartMayFail
    PROVE  Structure /\ NobodyLost /\ [Next]_vars => NobodyLost'
<1> SUFFICES ASSUME Structure, NobodyLost, [Next]_vars PROVE NobodyLost'
  OBVIOUS
<1>0. Shapes /\ started \in Nat
  BY PoolAssumption DEF Structure, Shapes
<1>1. ASSUME NEW w \in Threads, Thread(w) \/ WaitTimeout(w) \/ Spurious(w)
      PROVE  NobodyLost'
  <2>1. /\ started' = started /\ fresh' = fresh
        /\ \A p \in Callers : cpc'[p] = cpc[p] \/ cpc[p] \in {"shutWait", "joinWait"}
    BY <1>0, <1>1, ThreadFrame
  <2>2. \A v \in Threads : tpc'[v] = "unborn" => tpc[v] = "unborn"
    BY <1>0, <1>1, ThreadMoves
  <2> QED  BY <2>1, <2>2 DEF NobodyLost, Lost
<1>2. ASSUME NEW p \in Callers, NEW b \in Batches, Spawn(p, b)
      PROVE  NobodyLost'
  <2> DEFINE count == ClaimThreads(Len(queue) + Len(b))
  <2>1. /\ started' = started + count /\ tpc' = tpc /\ cpc[p] = "ready"
        /\ fresh' = [fresh EXCEPT ![p] = started + 1 .. started + count]
        /\ cpc' = [cpc EXCEPT ![p] = IF Len(b) = 1 THEN "start" ELSE "startAll"]
    BY <1>2 DEF Spawn, Accept, MayCall, CallGoto, threadVars
  <2>2. count \in Nat
    <3>1. Len(queue) + Len(b) \in Nat
      BY <1>0, BatchIsSeq
    <3> QED  BY <1>0, <3>1, ClaimBounds
  <2> HIDE DEF count
  <2>3. fresh[p] = {}
    BY <2>1 DEF NobodyLost
  <2>4. ASSUME NEW w \in Threads, w <= started', tpc'[w] = "unborn"
        PROVE  \E q \in Callers : w \in fresh'[q]
    <3>0. w \in Nat /\ w >= 1
      BY PoolAssumption DEF Threads
    <3>1. CASE w <= started
      <4>1. PICK q \in Callers : w \in fresh[q]
        BY <2>1, <2>4, <3>1 DEF NobodyLost, Lost
      <4>2. fresh'[q] = fresh[q]
        BY <1>0, <2>1, <2>3, <4>1 DEF Shapes
      <4> QED  BY <4>1, <4>2
    <3>2. CASE w > started
      <4>1. w \in started + 1 .. started + count
        BY <1>0, <2>1, <2>2, <2>4, <3>0, <3>2
      <4>2. fresh'[p] = started + 1 .. started + count
        BY <1>0, <2>1 DEF Shapes
      <4> QED  BY <4>1, <4>2
    <3> QED  BY <1>0, <3>0, <3>1, <3>2
  <2>5. Lost' = {}
    BY <2>4 DEF Lost
  <2>6. \A q \in Callers : fresh'[q] # {} => cpc'[q] \in {"start", "startAll"}
    BY <1>0, <2>1 DEF NobodyLost, Shapes
  <2> QED  BY <2>5, <2>6 DEF NobodyLost
<1>3. ASSUME NEW p \in Callers, NEW w \in Threads, StartThread(p, w)
      PROVE  NobodyLost'
  <2>1. /\ started' = started /\ cpc' = cpc /\ w \in fresh[p]
        /\ fresh' = [fresh EXCEPT ![p] = @ \ {w}] /\ tpc' = [tpc EXCEPT ![w] = "get"]
    BY <1>3 DEF StartThread, poolVars
  <2>2. /\ \A v \in Threads : tpc'[v] = "unborn" => tpc[v] = "unborn" /\ v # w
        /\ \A q \in Callers : fresh'[q] \subseteq fresh[q] /\ fresh[q] \ {w} \subseteq fresh'[q]
    BY <1>0, <2>1 DEF Shapes
  <2> QED  BY <2>1, <2>2 DEF NobodyLost, Lost
<1>4. ASSUME NEW p \in Callers,
             Caller(p) \/ Call(p) \/ ShutLock(p) \/ JoinWake(p) \/ ShutTimeout(p) \/ StartFails(p),
             ~\E b \in Batches : Spawn(p, b), ~\E w \in Threads : StartThread(p, w)
      PROVE  NobodyLost'
  <2>1. started' = started /\ fresh' = fresh
    BY <1>4 DEF Caller, Call, StartsDone, NotifyNew, Join, JoinLook, Shutdown, ShutLoad, ShutPark,
                ShutLast, ShutLock, JoinWake, ShutTimeout, StartFails, callerVars, poolVars
  <2>2. \A v \in Threads : tpc'[v] = "unborn" => tpc[v] = "unborn"
    BY <1>4, CallerMoves
  <2>3. /\ \A q \in Callers : q # p => cpc'[q] = cpc[q]
        /\ fresh[p] # {} => cpc'[p] = cpc[p]
    <3>1. \A q \in Callers : q # p => cpc'[q] = cpc[q]
      BY <1>0, <1>4, CallerFrame
    <3>2. CASE fresh[p] # {}
      <4>1. cpc[p] \in {"start", "startAll"}
        BY <3>2 DEF NobodyLost
      <4> QED  BY <1>4, <3>2, <4>1
                  DEF Caller, Call, StartsDone, NotifyNew, Join, JoinLook, Shutdown, ShutLoad,
                      ShutPark, ShutLast, ShutLock, JoinWake, ShutTimeout, StartFails, MayCall
    <3> QED  BY <3>1, <3>2
  <2> QED  BY <2>1, <2>2, <2>3 DEF NobodyLost, Lost
<1>5. CASE UNCHANGED vars
  BY <1>5 DEF vars, poolVars, threadVars, callerVars, NobodyLost, Lost
<1> QED  BY <1>1, <1>2, <1>3, <1>4, <1>5 DEF Next
-----------------------------------------------------------------------------
(* Theorems: who is told, what waits, what is started *)

\* Everything the theorems below follow from, in one inductive invariant.
WorkInv ==
    /\ PoolInv /\ EveryTaskHasAThread
    /\ TasksAre /\ SleepInv
    /\ ShuttingDown /\ ShutdownTold /\ JoinersTold /\ DoneDrained
    /\ NoSpareThreads

\* A new pool has no task, no sleeper and no thread.
LEMMA WorkInvInit == Init => WorkInv
<1> SUFFICES ASSUME Init PROVE WorkInv
  OBVIOUS
<1>1. Running = {} /\ Holding = {} /\ Counted = {} /\ Parked = {}
  BY DEF Init, Running, Holding, Counted, Parked, Busy
<1>2. PoolInv
  BY <1>1, StructureInit, FS_EmptySet
     DEF Init, PoolInv, IdleTrue, FlightTrue, RunningCounted
<1>3. EveryTaskHasAThread /\ NoSpareThreads /\ SleepInv
  BY <1>1 DEF Init, EveryTaskHasAThread, NoSpareThreads, SleepInv
<1>4. TasksAre
  BY DEF Init, TasksAre
<1>5. ShuttingDown /\ ShutdownTold /\ JoinersTold /\ DoneDrained
  BY DEF Init, ShuttingDown, ShutPlaces, ShutdownTold, JoinersTold, DoneDrained, Callers
<1> QED  BY <1>2, <1>3, <1>4, <1>5 DEF WorkInv

\* The inductive invariant of the pool.
LEMMA WorkInvHolds == Spec => []WorkInv
<1>1. Init => WorkInv
  BY WorkInvInit
<1>2. PoolInv /\ [Next]_vars => PoolInv'
  BY StructureNext, IdleTrueNext, FlightTrueNext, RunningCountedNext DEF PoolInv
<1>3. WorkInv /\ [Next]_vars => PoolInv' /\ TasksAre'
  BY <1>2, TasksAreNext DEF WorkInv, PoolInv
<1>4. (PoolInv => IdleView)'
  BY IdleIs, PTL
<1>5. (Structure /\ TasksAre => WorkView)'
  BY WorkFits, PTL
<1>6. WorkInv /\ [Next]_vars => IdleView' /\ WorkView'
  BY <1>3, <1>4, <1>5 DEF PoolInv
<1>7. WorkInv /\ [Next]_vars => EveryTaskHasAThread' /\ SleepInv' /\ NoSpareThreads'
  BY <1>6, EveryTaskNext, SleepNext, NoSpareNext DEF WorkInv, PoolInv
<1>8. WorkInv /\ [Next]_vars => ShuttingDown' /\ ShutdownTold' /\ JoinersTold' /\ DoneDrained'
  BY ShuttingDownNext, ShutdownToldNext, JoinersToldNext, DoneDrainedNext DEF WorkInv, PoolInv
<1>9. WorkInv /\ [Next]_vars => WorkInv'
  BY <1>3, <1>7, <1>8 DEF WorkInv
<1> QED  BY <1>1, <1>9, PTL DEF Spec

\* Threads on work_available, joiners on a task's condvar and shutdown on idle: nobody
\* sleeps beside what it waits for without being told soon.
THEOREM PoolWakeups == Spec => []NoLostWakeup
<1>1. WorkInv => NoLostWakeup
  <2> SUFFICES ASSUME WorkInv PROVE NoLostWakeup
    OBVIOUS
  <2>1. NoSleepBesideWork
    BY IdleIs DEF WorkInv, IdleView, SleepInv, NoSleepBesideWork, EveryoneIsTold
  <2>2. SleepersAreTold
    BY DEF WorkInv, ShutdownTold, JoinersTold, SleepersAreTold
  <2> QED  BY <2>1, <2>2 DEF NoLostWakeup
<1> QED  BY <1>1, WorkInvHolds, PTL

\* A pool at rest with tasks queued has all its threads in tasks that wait for tasks.
THEOREM RestMeansWaiting == Spec => []OnlyTasksBlockTasks
<1>1. WorkInv => OnlyTasksBlockTasks
  <2> SUFFICES ASSUME WorkInv, AtRest, IdleThreadsExist, queue # <<>>, NEW w \in Threads
               PROVE  Suspended(w)
    BY DEF OnlyTasksBlockTasks
  <2>0. /\ Structure /\ Shapes /\ Len(queue) \in Nat /\ Len(queue) # 0 /\ started \in Nat
        /\ idle \in Int /\ w \in 1 .. Size /\ Size \in Nat
    BY PoolAssumption DEF WorkInv, PoolInv, Structure, Shapes, Threads
  <2>1. Lost = {} /\ idle = Cardinality(Free)
    BY IdleIs DEF WorkInv, IdleView
  <2>2. /\ \A p \in Callers : fresh[p] = {}
        /\ \A v \in Threads : tpc[v] \in {"unborn", "wait"} \/ Suspended(v)
        /\ ~EveryoneIsTold /\ ComingNotifies = {}
    BY DEF AtRest, EveryoneIsTold
  <2>3. Free = Parked
    BY <2>2 DEF Free, Parked, Suspended, Busy
  <2>4. Cardinality(ComingNotifies) = 0
    BY <2>2, FS_EmptySet
  <2>5. Parked \in SUBSET Threads /\ Cardinality(Parked) \in Nat
    BY ThreadSets DEF Parked
  <2>6. Parked = {}
    <3>1. ~(Len(queue) <= (idle - Cardinality(Parked)) + Cardinality(ComingNotifies))
      BY <2>0, <2>1, <2>3, <2>4, <2>5
    <3> QED  BY <2>1, <2>2, <3>1 DEF WorkInv, SleepInv
  <2>7. started = Size
    <3>1. idle = 0
      BY <2>1, <2>3, <2>6, FS_EmptySet
    <3> QED  BY <2>0, <3>1 DEF WorkInv, EveryTaskHasAThread
  <2>8. tpc[w] # "unborn"
    BY <2>0, <2>1, <2>2, <2>7 DEF Lost
  <2> QED  BY <2>2, <2>6, <2>8 DEF Parked
<1> QED  BY <1>1, WorkInvHolds, PTL

\* shutdown returned true: nothing is queued, running or still to be published, and
\* nothing ever is from then on.
THEOREM ShutdownIsComplete == Spec => []ShutdownDrains
<1>1. WorkInv => ShutdownDrains
  <2> SUFFICES ASSUME WorkInv, NEW p \in Clients, cpc[p] = "shutDone"
               PROVE  Unfinished = {} /\ queue = <<>> /\ Holding = {}
    BY DEF ShutdownDrains
  <2>0. Shapes /\ Len(queue) \in Nat /\ queue \in Seq(Tasks)
    BY DEF WorkInv, PoolInv, Structure, Shapes
  <2>1. IsFiniteSet(Holding) /\ Cardinality(Holding) \in Nat
    <3>1. 1 \in Threads /\ Holding \in SUBSET Threads
      BY PoolAssumption DEF Holding, Threads
    <3> QED  BY <3>1, ThreadSets
  <2>2. Len(queue) = 0 /\ Cardinality(Holding) = 0
    BY <2>0, <2>1 DEF WorkInv, DoneDrained, PoolInv, FlightTrue
  <2>3. queue = <<>> /\ Holding = {}
    BY <2>0, <2>1, <2>2, FS_EmptySet
  <2>4. Unfinished = {}
    <3>1. \A k \in spawned : status[k] # "pending"
      <4>1. \A k \in spawned : k # None
        BY <2>0, PoolAssumption DEF Shapes
      <4> QED  BY <2>2, <2>3, <4>1 DEF WorkInv, TasksAre, Holding
    <3> QED  BY <3>1 DEF Unfinished
  <2> QED  BY <2>3, <2>4
<1> QED  BY <1>1, WorkInvHolds, PTL

\* claim_threads starts no thread that no task ever needed, whatever is refused.
THEOREM NoThreadIsSpare == Spec => []NoSpareThreads
<1>1. WorkInv => NoSpareThreads
  BY DEF WorkInv
<1> QED  BY <1>1, WorkInvHolds, PTL

\* Where every thread asked for is created, the pool also counts on no thread that is not
\* there (a caller that panics in start_threads leaves the rest of its claim counted).
THEOREM ThreadsFit ==
    ASSUME ~StartMayFail
    PROVE  Spec => []ThreadsFitTheWork
<1>1. Init => NobodyLost
  BY DEF Init, NobodyLost, Lost, Threads
<1>2. WorkInv /\ NobodyLost /\ [Next]_vars => NobodyLost'
  BY NobodyLostNext DEF WorkInv, PoolInv
<1>3. WorkInv /\ NobodyLost => ThreadsFitTheWork
  BY IdleIs DEF WorkInv, NobodyLost, IdleView, ThreadsFitTheWork
<1> QED  BY <1>1, <1>2, <1>3, WorkInvHolds, PTL DEF Spec
=============================================================================
