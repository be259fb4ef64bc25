----------------------------- MODULE IsolatePool -----------------------------
(***************************************************************************)
(* The isolate pool of src/modules/isolate_util/pool.rs: the task queue    *)
(* with its started and idle counts, the threads that claim_threads starts *)
(* on demand, the loop each of them runs, join on a task's state, and      *)
(* shutdown.  A step is one critical section, one atomic operation, one    *)
(* notification or one thread creation.                                    *)
(*                                                                         *)
(* Threads are numbered as the pool numbers them.  Outside callers, and    *)
(* the tasks themselves while they run, spawn, join and shut down.         *)
(***************************************************************************)
EXTENDS Naturals, Sequences, FiniteSets

CONSTANTS
    Size,           \* IsolatePool.size: how many threads may be started
    Clients,        \* threads outside the pool
    Tasks,          \* bound: the tasks that are ever spawned, each once
    Batches,        \* the sequences of tasks a call may spawn
    Nested,         \* whether tasks spawn and join too
    Panics,         \* whether a task may panic
    Deadline,       \* whether shutdown is given a timeout
    StartMayFail,   \* whether the system may refuse to create a thread
    None

Threads == 1 .. Size

Callers == Clients \cup Threads

ASSUME PoolAssumption ==
    /\ Size \in Nat \ {0}
    /\ IsFiniteSet(Clients) /\ Clients \cap Threads = {}
    /\ IsFiniteSet(Tasks) /\ None \notin Tasks \cup Callers
    /\ Batches \subseteq Seq(Tasks)
    /\ \A b \in Batches : \A i, j \in 1 .. Len(b) : b[i] = b[j] => i = j
    /\ {Nested, Panics, Deadline, StartMayFail} \subseteq BOOLEAN

VARIABLES
    queue,          \* Queue.tasks
    started,        \* Queue.started
    idle,           \* Queue.idle
    in_flight, running, shutting_down,
    idleLock,       \* who holds idle_lock
    tpc,            \* [Threads -> ThreadPlaces]: where each pool thread is
    task,           \* [Threads -> Tasks \cup {None}]: what it runs
    last,           \* [Threads -> BOOLEAN]: its fetch_sub returned 1
    released,       \* [Threads -> BOOLEAN]: it gave back its memory in this wait
    cpc,            \* [Callers -> CallerPlaces]
    fresh,          \* [Callers -> SUBSET Threads]: claimed, not created yet
    target,         \* [Callers -> Tasks \cup {None}]: the task it joins
    spawned,        \* tasks accepted so far
    status,         \* [Tasks -> Status]  IsolateState.status
    peak            \* history: the most tasks ever accepted and not finished

poolVars == <<queue, started, idle, in_flight, shutting_down, spawned, peak>>
threadVars == <<tpc, task, last, released, running>>
callerVars == <<cpc, fresh, target>>
vars == <<poolVars, threadVars, callerVars, idleLock, status>>

Status == {"pending", "ok", "err"}

ThreadPlaces == { "unborn",     \* not claimed, or claimed and not created
                  "get", "wait", "timedOut", "release",
                  "picked", "run", "ended", "failed", "free", "freeFailed",
                  "notify", "uncount", "unrun", "lastOne", "tellIdle" }

CallerPlaces == { "ready", "dead",
                  "start", "startAll", "notifyOne", "notifyAll",
                  "join", "joinWait",
                  "shutLock", "shutLoad", "shutPark", "shutWait", "shutLast",
                  "shutDone", "shutGaveUp" }

Busy == {"picked", "run", "ended", "failed"}

Unfinished == {k \in spawned : status[k] = "pending"}

TypeOK ==
    /\ queue \in Seq(Tasks)
    /\ started \in 0 .. Size
    /\ idle \in 0 .. Size
    /\ in_flight \in Nat
    /\ running \in Nat
    /\ shutting_down \in BOOLEAN
    /\ idleLock \in Callers \cup {None}
    /\ tpc \in [Threads -> ThreadPlaces]
    /\ task \in [Threads -> Tasks \cup {None}]
    /\ last \in [Threads -> BOOLEAN]
    /\ released \in [Threads -> BOOLEAN]
    /\ cpc \in [Callers -> CallerPlaces]
    /\ fresh \in [Callers -> SUBSET Threads]
    /\ target \in [Callers -> Tasks \cup {None}]
    /\ spawned \subseteq Tasks
    /\ status \in [Tasks -> Status]
    /\ peak \in Nat

Init ==
    /\ queue = <<>>
    /\ started = 0
    /\ idle = 0
    /\ in_flight = 0
    /\ running = 0
    /\ shutting_down = FALSE
    /\ idleLock = None
    /\ tpc = [w \in Threads |-> "unborn"]
    /\ task = [w \in Threads |-> None]
    /\ last = [w \in Threads |-> FALSE]
    /\ released = [w \in Threads |-> FALSE]
    /\ cpc = [p \in Callers |-> "ready"]
    /\ fresh = [p \in Callers |-> {}]
    /\ target = [p \in Callers |-> None]
    /\ spawned = {}
    /\ status = [k \in Tasks |-> "pending"]
    /\ peak = 0

-----------------------------------------------------------------------------
(* spawn, spawn_batch *)

\* A caller makes a call when it is not in one; a pool thread only from
\* inside the task it runs.
MayCall(p) ==
    /\ cpc[p] = "ready"
    /\ p \in Threads => Nested /\ tpc[p] = "run"

Subtract(m, n) == IF m > n THEN m - n ELSE 0

Min2(m, n) == IF m < n THEN m ELSE n

\* Seeded bugs: idle threads are not counted on, or counted on for everything.
ClaimPerTask(len) == Min2(len, Subtract(Size, started))

ClaimIfNoneIdle(len) == IF idle = 0 THEN Min2(len, Subtract(Size, started)) ELSE 0

\* Queue::claim_threads, with len tasks waiting: how many threads to start.
ClaimThreads(len) == Min2(Subtract(len, idle), Subtract(Size, started))

CallGoto(p, place) == cpc' = [cpc EXCEPT ![p] = place]

Accept(p, batch) ==
    LET count == ClaimThreads(Len(queue) + Len(batch))
    IN  /\ in_flight' = in_flight + Len(batch)
        /\ queue' = queue \o batch
        /\ started' = started + count
        /\ idle' = idle + count
        /\ fresh' = [fresh EXCEPT ![p] = started + 1 .. started + count]

Elements(s) == {s[i] : i \in DOMAIN s}

Spawn(p, batch) ==
    /\ MayCall(p)
    /\ ~shutting_down
    /\ Elements(batch) \cap spawned = {}
    /\ Accept(p, batch)
    /\ spawned' = spawned \cup Elements(batch)
    /\ LET outstanding == Cardinality(Unfinished \cup Elements(batch))
       IN  peak' = IF outstanding > peak THEN outstanding ELSE peak
    /\ CallGoto(p, IF Len(batch) = 1 THEN "start" ELSE "startAll")
    /\ UNCHANGED <<shutting_down, threadVars, target, idleLock, status>>

\* Seeded bug: nobody looks whether the thread was created.
StartThreadUnchecked(p, w) ==
    /\ cpc[p] \in {"start", "startAll"}
    /\ w \in fresh[p]
    /\ fresh' = [fresh EXCEPT ![p] = @ \ {w}]
    /\ tpc' \in {tpc, [tpc EXCEPT ![w] = "get"]}
    /\ UNCHANGED <<poolVars, task, last, released, running, cpc, target, idleLock, status>>

\* start_threads creates the claimed threads one by one.
StartThread(p, w) ==
    /\ cpc[p] \in {"start", "startAll"}
    /\ w \in fresh[p]
    /\ \A v \in fresh[p] : w <= v
    /\ fresh' = [fresh EXCEPT ![p] = @ \ {w}]
    /\ tpc' = [tpc EXCEPT ![w] = "get"]
    /\ UNCHANGED <<poolVars, task, last, released, running, cpc, target, idleLock, status>>

\* .expect("failed to spawn isolate isolate thread"): the caller panics with
\* the rest of its threads claimed.  In a task the panic is caught.
StartFails(p) ==
    /\ StartMayFail
    /\ cpc[p] \in {"start", "startAll"}
    /\ fresh[p] # {}
    /\ fresh' = [fresh EXCEPT ![p] = {}]
    /\ \/ p \in Threads /\ tpc' = [tpc EXCEPT ![p] = "failed"] /\ CallGoto(p, "ready")
       \/ p \notin Threads /\ UNCHANGED tpc /\ CallGoto(p, "dead")
    /\ UNCHANGED <<poolVars, task, last, released, running, target, idleLock, status>>

StartsDone(p) ==
    /\ cpc[p] \in {"start", "startAll"}
    /\ fresh[p] = {}
    /\ CallGoto(p, IF cpc[p] = "start" THEN "notifyOne" ELSE "notifyAll")
    /\ UNCHANGED <<poolVars, threadVars, fresh, target, idleLock, status>>

Parked == {w \in Threads : tpc[w] = "wait"}

WakeThreads(ws) == tpc' = [w \in Threads |-> IF w \in ws THEN "get" ELSE tpc[w]]

\* Seeded bug: nobody is notified.
NotifyNewNobody(p) ==
    /\ cpc[p] \in {"notifyOne", "notifyAll"}
    /\ CallGoto(p, "ready")
    /\ UNCHANGED <<poolVars, threadVars, fresh, target, idleLock, status>>

NotifyNew(p) ==
    /\ \/ cpc[p] = "notifyOne" /\ Parked = {} /\ UNCHANGED tpc
       \/ cpc[p] = "notifyOne" /\ \E w \in Parked : WakeThreads({w})
       \/ cpc[p] = "notifyAll" /\ WakeThreads(Parked)
    /\ CallGoto(p, "ready")
    /\ UNCHANGED <<poolVars, task, last, released, running, fresh, target, idleLock, status>>

-----------------------------------------------------------------------------
(* isolate_loop *)

Goto(w, place) == tpc' = [tpc EXCEPT ![w] = place]

\* pop_front, and one thread fewer is free.
Pick(w) ==
    /\ tpc[w] \in {"get", "timedOut"}
    /\ queue # <<>>
    /\ task' = [task EXCEPT ![w] = Head(queue)]
    /\ queue' = Tail(queue)
    /\ idle' = idle - 1
    /\ released' = [released EXCEPT ![w] = FALSE]
    /\ Goto(w, "picked")
    /\ UNCHANGED <<started, in_flight, shutting_down, spawned, peak, last, running,
                   callerVars, idleLock, status>>

Wait(w) ==
    /\ tpc[w] = "get"
    /\ queue = <<>>
    /\ Goto(w, "wait")
    /\ UNCHANGED <<poolVars, task, last, released, running, callerVars, idleLock, status>>

\* The IDLE_AFTER wait runs out, once per wait for a task.
WaitTimeout(w) ==
    /\ tpc[w] = "wait"
    /\ ~released[w]
    /\ Goto(w, "timedOut")
    /\ UNCHANGED <<poolVars, task, last, released, running, callerVars, idleLock, status>>

Spurious(w) ==
    /\ tpc[w] = "wait"
    /\ Goto(w, "get")
    /\ UNCHANGED <<poolVars, task, last, released, running, callerVars, idleLock, status>>

StillNothing(w) ==
    /\ tpc[w] = "timedOut"
    /\ queue = <<>>
    /\ Goto(w, "release")
    /\ UNCHANGED <<poolVars, task, last, released, running, callerVars, idleLock, status>>

\* release_idle_memory, with the queue's lock let go.
ReleaseMemory(w) ==
    /\ tpc[w] = "release"
    /\ released' = [released EXCEPT ![w] = TRUE]
    /\ Goto(w, "get")
    /\ UNCHANGED <<poolVars, task, last, running, callerVars, idleLock, status>>

\* Seeded bug: running is only ever counted down.
CountRunningForgotten(w) ==
    /\ tpc[w] = "picked"
    /\ Goto(w, "run")
    /\ UNCHANGED <<poolVars, task, last, released, running, callerVars, idleLock, status>>

CountRunning(w) ==
    /\ tpc[w] = "picked"
    /\ running' = running + 1
    /\ Goto(w, "run")
    /\ UNCHANGED <<poolVars, task, last, released, callerVars, idleLock, status>>

\* run_task returns, with a result, an error or a caught panic.
RunTask(w) ==
    /\ tpc[w] = "run"
    /\ cpc[w] = "ready"
    /\ \/ Goto(w, "ended")
       \/ Panics /\ Goto(w, "failed")
    /\ UNCHANGED <<poolVars, task, last, released, running, callerVars, idleLock, status>>

\* Seeded bug: a thread is not counted idle again after a panic.
CountIdleUnlessPanic(w) ==
    /\ tpc[w] \in {"ended", "failed"}
    /\ idle' = IF tpc[w] = "ended" THEN idle + 1 ELSE idle
    /\ Goto(w, IF tpc[w] = "ended" THEN "free" ELSE "freeFailed")
    /\ UNCHANGED <<queue, started, in_flight, shutting_down, spawned, peak,
                   task, last, released, running, callerVars, idleLock, status>>

\* Free again before anyone hears the result.
CountIdle(w) ==
    /\ tpc[w] \in {"ended", "failed"}
    /\ idle' = idle + 1
    /\ Goto(w, IF tpc[w] = "ended" THEN "free" ELSE "freeFailed")
    /\ UNCHANGED <<queue, started, in_flight, shutting_down, spawned, peak,
                   task, last, released, running, callerVars, idleLock, status>>

\* IsolateState::finish sets the slot and the status under the slot's lock ...
FinishTask(w) ==
    /\ tpc[w] \in {"free", "freeFailed"}
    /\ status' = [status EXCEPT ![task[w]] = IF tpc[w] = "free" THEN "ok" ELSE "err"]
    /\ Goto(w, "notify")
    /\ UNCHANGED <<poolVars, task, last, released, running, callerVars, idleLock>>

\* Seeded bug: the joiners are not woken.
NotifyNoJoiners(w) ==
    /\ tpc[w] = "notify"
    /\ Goto(w, "uncount")
    /\ UNCHANGED <<poolVars, task, last, released, running, callerVars, idleLock, status>>

\* ... and then wakes its joiners.
NotifyJoiners(w) ==
    /\ tpc[w] = "notify"
    /\ cpc' = [p \in Callers |-> IF cpc[p] = "joinWait" /\ target[p] = task[w]
                                 THEN "join" ELSE cpc[p]]
    /\ Goto(w, "uncount")
    /\ UNCHANGED <<poolVars, task, last, released, running, fresh, target, idleLock, status>>

\* task_completed
Uncount(w) ==
    /\ tpc[w] = "uncount"
    /\ in_flight' = in_flight - 1
    /\ last' = [last EXCEPT ![w] = in_flight = 1]
    /\ task' = [task EXCEPT ![w] = None]
    /\ Goto(w, "unrun")
    /\ UNCHANGED <<queue, started, idle, shutting_down, spawned, peak,
                   released, running, callerVars, idleLock, status>>

Unrun(w) ==
    /\ tpc[w] = "unrun"
    /\ running' = running - 1
    /\ Goto(w, "lastOne")
    /\ UNCHANGED <<poolVars, task, last, released, callerVars, idleLock, status>>

\* Seeded bug: shutdown is told without passing through idle_lock.
LastOneUnlocked(w) ==
    /\ tpc[w] = "lastOne"
    /\ Goto(w, IF shutting_down /\ last[w] THEN "tellIdle" ELSE "get")
    /\ UNCHANGED <<poolVars, task, last, released, running, callerVars, idleLock, status>>

LastOne(w) ==
    /\ tpc[w] = "lastOne"
    /\ \/ /\ shutting_down /\ last[w]
          /\ idleLock = None            \* drop(lock(&self.idle_lock))
          /\ Goto(w, "tellIdle")
       \/ /\ ~(shutting_down /\ last[w])
          /\ Goto(w, "get")
    /\ UNCHANGED <<poolVars, task, last, released, running, callerVars, idleLock, status>>

TellIdle(w) ==
    /\ tpc[w] = "tellIdle"
    /\ Goto(w, "get")
    /\ cpc' = [p \in Callers |-> IF cpc[p] = "shutWait" THEN "shutLock" ELSE cpc[p]]
    /\ UNCHANGED <<poolVars, task, last, released, running, fresh, target, idleLock, status>>

-----------------------------------------------------------------------------
(* join: IsolateState::join_inner *)

Join(p, k) ==
    /\ MayCall(p)
    /\ k \in spawned
    /\ p \in Threads => task[p] # k
    /\ target' = [target EXCEPT ![p] = k]
    /\ CallGoto(p, "join")
    /\ UNCHANGED <<poolVars, threadVars, fresh, idleLock, status>>

JoinLook(p) ==
    /\ cpc[p] = "join"
    /\ CallGoto(p, IF status[target[p]] = "pending" THEN "joinWait" ELSE "ready")
    /\ UNCHANGED <<poolVars, threadVars, fresh, target, idleLock, status>>

\* A tick of an isolate's join, a spurious wake-up of anybody's.
JoinWake(p) ==
    /\ cpc[p] = "joinWait"
    /\ CallGoto(p, "join")
    /\ UNCHANGED <<poolVars, threadVars, fresh, target, idleLock, status>>

-----------------------------------------------------------------------------
(* shutdown *)

Shutdown(p) ==
    /\ MayCall(p)
    /\ shutting_down' = TRUE
    /\ CallGoto(p, "shutLock")
    /\ UNCHANGED <<queue, started, idle, in_flight, spawned, peak, threadVars,
                   fresh, target, idleLock, status>>

ShutLock(p) ==
    /\ cpc[p] = "shutLock"
    /\ idleLock = None
    /\ idleLock' = p
    /\ CallGoto(p, "shutLoad")
    /\ UNCHANGED <<poolVars, threadVars, fresh, target, status>>

\* Seeded bug: shutdown reports success when its time is up too.
ShutReturnDone(p) ==
    /\ idleLock' = None
    /\ CallGoto(p, IF p \in Threads THEN "ready" ELSE "shutDone")

\* Returns from shutdown, letting go of idle_lock.
ShutReturn(p) ==
    /\ idleLock' = None
    /\ CallGoto(p, CASE p \in Threads -> "ready"
                     [] in_flight = 0 /\ p \in Clients -> "shutDone"
                     [] OTHER -> "shutGaveUp")

ShutLoad(p) ==
    /\ cpc[p] = "shutLoad"
    /\ \/ in_flight = 0 /\ ShutReturn(p)
       \/ in_flight # 0 /\ CallGoto(p, "shutPark") /\ UNCHANGED idleLock
    /\ UNCHANGED <<poolVars, threadVars, fresh, target, status>>

ShutPark(p) ==
    /\ cpc[p] = "shutPark"
    /\ idleLock' = None
    /\ CallGoto(p, "shutWait")
    /\ UNCHANGED <<poolVars, threadVars, fresh, target, status>>

ShutTimeout(p) ==
    /\ Deadline
    /\ \/ cpc[p] = "shutPark" /\ UNCHANGED idleLock       \* no time left
       \/ cpc[p] = "shutWait" /\ idleLock = None /\ idleLock' = p
    /\ CallGoto(p, "shutLast")
    /\ UNCHANGED <<poolVars, threadVars, fresh, target, status>>

ShutLast(p) ==
    /\ cpc[p] = "shutLast"
    /\ ShutReturn(p)
    /\ UNCHANGED <<poolVars, threadVars, fresh, target, status>>

-----------------------------------------------------------------------------
Thread(w) ==
    \/ Pick(w) \/ Wait(w) \/ StillNothing(w) \/ ReleaseMemory(w)
    \/ CountRunning(w) \/ RunTask(w) \/ CountIdle(w)
    \/ FinishTask(w) \/ NotifyJoiners(w) \/ Uncount(w) \/ Unrun(w)
    \/ LastOne(w) \/ TellIdle(w)

Caller(p) ==
    \/ (\E w \in Threads : StartThread(p, w)) \/ StartsDone(p) \/ NotifyNew(p)
    \/ JoinLook(p) \/ ShutLoad(p) \/ ShutPark(p) \/ ShutLast(p)

Call(p) ==
    \/ \E b \in Batches : Spawn(p, b)
    \/ \E k \in Tasks : Join(p, k)
    \/ Shutdown(p)

Next ==
    \/ \E w \in Threads : Thread(w) \/ WaitTimeout(w) \/ Spurious(w)
    \/ \E p \in Callers : \/ Caller(p) \/ Call(p) \/ ShutLock(p)
                          \/ JoinWake(p) \/ ShutTimeout(p) \/ StartFails(p)

Spec == Init /\ [][Next]_vars

\* Threads are scheduled and a free mutex is acquired.  Calls, time-outs and
\* spurious wake-ups need not happen, and a thread polls its own join.
FairSpec ==
    /\ Spec
    /\ \A w \in Threads : WF_vars(Thread(w)) /\ SF_vars(LastOne(w)) /\ WF_vars(JoinWake(w))
    /\ \A p \in Callers : WF_vars(Caller(p)) /\ SF_vars(ShutLock(p))

-----------------------------------------------------------------------------
(* Properties *)

Running == {w \in Threads : tpc[w] \in Busy}

Holding == {w \in Threads : task[w] # None}

\* The two counts kept under the queue's lock are the truth about the
\* threads: a started thread is idle from its claim to its first task and
\* from the end of run_task on, panic or not, and in_flight counts a task
\* from spawn until its thread has published the result.
CountsAreTrue ==
    /\ idle + Cardinality(Running) = started
    /\ in_flight = Len(queue) + Cardinality(Holding)

\* Queue.idle counts "started threads free to take a task: parked waiting for
\* one, or just started and on their way to it", so each of them exists or is
\* about to be created by the caller that claimed it.
IdleThreadsExist ==
    idle <= Cardinality({w \in Threads :
                \/ tpc[w] \notin Busy \cup {"unborn"}
                \/ \E p \in Callers : w \in fresh[p]})

\* claim_threads: "every waiting task has a thread to run on, within size".
EveryTaskHasAThread == Len(queue) <= idle \/ started = Size

\* ... and never more threads than tasks were ever outstanding at once: a
\* caller that joins a task and then spawns the next one reuses the thread,
\* because isolate_loop counts itself idle before finish() tells the joiner.
NoSpareThreads == started <= peak

\* The pool counts on no thread that is not there and has none that no task
\* ever needed.
ThreadsFitTheWork == NoSpareThreads /\ IdleThreadsExist

\* No thread sleeps on not_empty beside a task: every waiting task is
\* matched by a free thread that is on its way to the queue or by a
\* notification still to come (as long as the threads counted idle exist: a
\* caller that panics in start_threads notifies nobody).
ComingNotifies == {p \in Callers : cpc[p] \in {"start", "notifyOne"}}

NoSleepBesideWork ==
    \/ Parked = {} \/ ~IdleThreadsExist
    \/ \E p \in Callers : cpc[p] \in {"startAll", "notifyAll"}
    \/ Len(queue) <= (idle - Cardinality(Parked)) + Cardinality(ComingNotifies)

\* Whoever sleeps has a reason to, or is about to be told: a joiner on a task
\* whose outcome is there is still to be notified by the thread that published
\* it (IsolateState::finish), and a shutdown that waits although nothing is in
\* flight by the thread that brought in_flight to zero (task_completed).
SleepersAreTold ==
    \A p \in Callers :
        /\ cpc[p] = "joinWait" /\ status[target[p]] # "pending"
            => \E w \in Threads : tpc[w] = "notify" /\ task[w] = target[p]
        /\ cpc[p] = "shutWait" /\ in_flight = 0
            => \E w \in Threads : last[w] /\ tpc[w] \in {"unrun", "lastOne", "tellIdle"}

\* Threads (isolate_loop on work_available), joiners (join on the task's
\* condvar) and shutdown (on idle): nobody sleeps beside what it waits for.
NoLostWakeup == NoSleepBesideWork /\ SleepersAreTold

\* The pool comes to rest with tasks queued in one way only: all the threads it
\* may have run tasks that wait for tasks (join), or for themselves (shutdown).
Suspended(w) == tpc[w] = "run" /\ cpc[w] \in {"joinWait", "shutWait"}

AtRest ==
    /\ \A w \in Threads : tpc[w] \in {"unborn", "wait"} \/ Suspended(w)
    /\ \A p \in Callers : fresh[p] = {} /\ cpc[p] \notin {"startAll", "notifyAll"}
    /\ ComingNotifies = {}

OnlyTasksBlockTasks ==
    AtRest /\ IdleThreadsExist /\ queue # <<>> => \A w \in Threads : Suspended(w)

\* shutdown() returns true only when nothing is queued, running or still to
\* be published, and from then on nothing ever is.
ShutdownDrains ==
    \A p \in Clients : cpc[p] = "shutDone" =>
        /\ Unfinished = {}
        /\ queue = <<>> /\ Holding = {}

\* Every task that spawn accepted is finished.
TasksFinish == \A k \in Tasks : k \in spawned ~> status[k] # "pending"

\* shutdown() without a timeout returns.
ShutdownReturns == \A p \in Clients : cpc[p] = "shutLock" ~> cpc[p] = "shutDone"

\* join() returns.
JoinReturns == \A p \in Callers : cpc[p] = "join" ~> cpc[p] = "ready"

\* Whatever was begun comes to an end: a spawned task is finished, also when it
\* panics (isolate_loop's catch_unwind), and join() and shutdown() return.
EverythingEnds == TasksFinish /\ ShutdownReturns /\ JoinReturns
=============================================================================
