---------------------------- MODULE IsolateCompiler ----------------------------
(***************************************************************************)
(* The background JIT compiler the isolate threads share: started by the   *)
(* first task that needs it, stopped by the task that leaves nothing in    *)
(* flight or by shutdown (isolate_util/pool.rs), the worker loop of        *)
(* jit/background.rs, and the VM's side of the hand-off, enqueue_compile,  *)
(* drain_jit_results and invalidate_compiled (vm/vm.rs).                   *)
(*                                                                         *)
(* Each start of the compiler is a generation of its own, with its own job *)
(* channel and shutdown flag.  A VM's reply channel lasts as long as it,   *)
(* and a VM lasts for ever: a thread whose task panicked goes on with a    *)
(* new one and leaks the old one, pins, reply channel and all, because a   *)
(* worker may be reading functions out of its heap.                        *)
(***************************************************************************)
EXTENDS Naturals, Sequences, FiniteSets

CONSTANTS Threads,    \* the isolate threads
          VMs,        \* the VMs they go through: one each, and one per panic
          Funcs,      \* the functions each VM runs; a job names VM and function
          Workers,    \* worker_count() threads in every generation
          MaxTasks,   \* bound: tasks ever spawned
          MaxInvalidations, \* MAX_JIT_INVALIDATIONS
          Closer,           \* the caller of shutdown()
          None, Signal      \* Signal: CompileJob::shutdown_signal()

ASSUME CompilerAssumption ==
    /\ IsFiniteSet(Workers) /\ Workers # {}
    /\ IsFiniteSet(VMs) /\ IsFiniteSet(Threads) /\ Cardinality(Threads) <= Cardinality(VMs)
    /\ MaxTasks \in Nat /\ MaxInvalidations \in Nat
    /\ Closer \notin Threads /\ None \notin Threads \cup {Closer}
    /\ None # Signal /\ {None, Signal} \cap (VMs \X Funcs) = {}

\* One generation per time the tasks in flight come back from zero.
Gens == 1..MaxTasks

Stoppers == Threads \cup {Closer}

VARIABLES
    spawned, queued, in_flight, \* tasks: ever, in the queue, not completed
    compLock,    \* who holds IsolatePool.compiler
    compiler,    \* its generation, 0 for none
    started,     \* generations started
    jobs,        \* [Gens -> Seq]: the job channel
    shutdown,    \* [Gens -> BOOLEAN]
    wpc, wjob,   \* [Gens -> [Workers -> ..]]: place, and job in hand
    dropped,     \* history: the jobs that workers left without answering
    tpc,         \* [Stoppers -> ..]: where the isolate thread, or shutdown, is
    vm,          \* [Threads -> VMs]: IsolateIsolate.vm
    fresh,       \* the VMs that are yet to be made
    jobTx,       \* [VMs -> Gens]: the sender in VM::shared_compiler, 0 before one
    compiling,   \* [VMs -> SUBSET Funcs]: JitInfo::compiling
    pinned,      \* [VMs -> SUBSET Funcs]: VM::pending_jit_compiles
    code,        \* [VMs -> [Funcs -> ..]]: JitInfo::entry and ineligible
    invalidations, \* [VMs -> [Funcs -> Nat]]
    replies,     \* [VMs -> Seq]: results sent back and not drained
    pending      \* [VMs -> BOOLEAN]: the flag beside the reply channel

poolVars == <<spawned, queued, in_flight>>
compVars == <<compLock, compiler, started>>
workVars == <<wpc, wjob, dropped>>
jitVars == <<compiling, pinned, code, invalidations>>
replyVars == <<replies, pending>>
threadVars == <<tpc, vm, fresh>>
vars == <<poolVars, compVars, jobs, shutdown, workVars, threadVars, jobTx, jitVars, replyVars>>

Init ==
    /\ spawned = 0 /\ queued = 0 /\ in_flight = 0
    /\ compLock = None /\ compiler = 0 /\ started = 0
    /\ jobs = [g \in Gens |-> <<>>]
    /\ shutdown = [g \in Gens |-> FALSE]
    /\ wpc = [g \in Gens |-> [w \in Workers |-> "unborn"]]
    /\ wjob = [g \in Gens |-> [w \in Workers |-> None]]
    /\ dropped = {}
    /\ tpc = [t \in Stoppers |-> IF t = Closer THEN "open" ELSE "idle"]
    /\ vm \in [Threads -> VMs]
    /\ \A t, u \in Threads : vm[t] = vm[u] => t = u
    /\ fresh = VMs \ {vm[t] : t \in Threads}
    /\ jobTx = [v \in VMs |-> 0]
    /\ compiling = [v \in VMs |-> {}]
    /\ pinned = [v \in VMs |-> {}]
    /\ code = [v \in VMs |-> [f \in Funcs |-> "none"]]
    /\ invalidations = [v \in VMs |-> [f \in Funcs |-> 0]]
    /\ replies = [v \in VMs |-> <<>>]
    /\ pending = [v \in VMs |-> FALSE]

(* The receiver of a job channel lives in the workers: it is gone, with what  *)
(* the channel held, once all of them have returned.                          *)
Connected(g) == \E w \in Workers : wpc[g][w] # "exited"

-------------------------------------------------------------------------------
(* The isolate pool. *)

(* Seeded bug: a task is queued and not counted.                              *)
SpawnTaskUncounted ==
    /\ tpc[Closer] = "open" /\ spawned < MaxTasks
    /\ spawned' = spawned + 1 /\ queued' = queued + 1
    /\ UNCHANGED <<in_flight, compVars, jobs, shutdown, workVars, threadVars, jobTx, jitVars, replyVars>>

SpawnTask ==
    /\ tpc[Closer] = "open" /\ spawned < MaxTasks
    /\ spawned' = spawned + 1 /\ queued' = queued + 1 /\ in_flight' = in_flight + 1
    /\ UNCHANGED <<compVars, jobs, shutdown, workVars, threadVars, jobTx, jitVars, replyVars>>

Goto(t, p) == /\ tpc' = [tpc EXCEPT ![t] = p]
              /\ UNCHANGED <<vm, fresh>>

TakeTask(t) ==
    /\ tpc[t] = "idle" /\ queued > 0
    /\ queued' = queued - 1
    /\ Goto(t, "picked")
    /\ UNCHANGED <<spawned, in_flight, compVars, jobs, shutdown, workVars, jobTx, jitVars, replyVars>>

(* get_or_spawn_compiler, then set_shared_jit_compiler with what it returned. *)
UseCompiler(t) ==
    /\ tpc[t] = "picked" /\ compLock = None
    /\ IF compiler # 0
         THEN /\ jobTx' = [jobTx EXCEPT ![vm[t]] = compiler]
              /\ UNCHANGED <<compiler, started, wpc>>
         ELSE /\ started' = started + 1
              /\ compiler' = started'
              /\ jobTx' = [jobTx EXCEPT ![vm[t]] = started']
              /\ wpc' = [wpc EXCEPT ![started'] = [w \in Workers |-> "top"]]
    /\ Goto(t, "run")
    /\ UNCHANGED <<poolVars, compLock, jobs, shutdown, wjob, dropped, jitVars, replyVars>>

(* task_completed: the task that brings in_flight to zero stops the compiler. *)
TaskCompleted(t) ==
    /\ tpc[t] \in {"run", "panicked"}
    /\ in_flight' = in_flight - 1
    /\ Goto(t, IF in_flight = 1 THEN "stop" ELSE "idle")
    /\ UNCHANGED <<spawned, queued, compVars, jobs, shutdown, workVars, jobTx, jitVars, replyVars>>

(* Seeded bug: the VM of the panicking task is dropped, and its roots with it. *)
TaskPanicsDrops(t) ==
    /\ tpc[t] = "run"
    /\ \E v \in fresh :
         /\ vm' = [vm EXCEPT ![t] = v]
         /\ fresh' = fresh \ {v}
    /\ tpc' = [tpc EXCEPT ![t] = "panicked"]
    /\ pinned' = [pinned EXCEPT ![vm[t]] = {}]
    /\ UNCHANGED <<poolVars, compVars, jobs, shutdown, workVars, jobTx,
                   compiling, code, invalidations, replyVars>>

(* The task panics: the thread goes on to its end with a VM made from scratch. *)
TaskPanics(t) ==
    /\ tpc[t] = "run"
    /\ \E v \in fresh :
         /\ vm' = [vm EXCEPT ![t] = v]
         /\ fresh' = fresh \ {v}
    /\ tpc' = [tpc EXCEPT ![t] = "panicked"]
    /\ UNCHANGED <<poolVars, compVars, jobs, shutdown, workVars, jobTx, jitVars, replyVars>>

(* shutdown finds nothing in flight; spawn refuses from then on.              *)
Shutdown ==
    /\ tpc[Closer] = "open" /\ in_flight = 0
    /\ Goto(Closer, "stop")
    /\ UNCHANGED <<poolVars, compVars, jobs, shutdown, workVars, jobTx, jitVars, replyVars>>

(* stop_compiler: takes the compiler out, if there still is one, and raises   *)
(* its flag under the lock ...                                                *)
StopTakes(t) ==
    /\ tpc[t] = "stop" /\ compLock = None
    /\ IF compiler = 0
         THEN Goto(t, "idle") /\ UNCHANGED <<compLock, shutdown>>
         ELSE /\ Goto(t, "signal")
              /\ compLock' = t
              /\ shutdown' = [shutdown EXCEPT ![compiler] = TRUE]
    /\ UNCHANGED <<poolVars, compiler, started, jobs, workVars, jobTx, jitVars, replyVars>>

(* Seeded bug: one wake-up for all the workers.                               *)
StopSignalsOnce(t) ==
    /\ tpc[t] = "signal"
    /\ jobs' = [jobs EXCEPT ![compiler] = IF Connected(compiler) THEN Append(@, Signal) ELSE @]
    /\ compiler' = 0
    /\ compLock' = None
    /\ Goto(t, "idle")
    /\ UNCHANGED <<poolVars, started, shutdown, workVars, jobTx, jitVars, replyVars>>

(* ... and sends every worker one wake-up before it lets the lock go.         *)
StopSignals(t) ==
    /\ tpc[t] = "signal"
    /\ jobs' = [jobs EXCEPT ![compiler] = IF Connected(compiler)
                   THEN @ \o [n \in 1..Cardinality(Workers) |-> Signal] ELSE @]
    /\ compiler' = 0
    /\ compLock' = None
    /\ Goto(t, "idle")
    /\ UNCHANGED <<poolVars, started, shutdown, workVars, jobTx, jitVars, replyVars>>

-------------------------------------------------------------------------------
(* The VM, while it runs a task. *)

Runner(v) == {t \in Threads : vm[t] = v}

At(v, p) == \E t \in Runner(v) : tpc[t] = p

RunnerGoes(v, p) == \E t \in Runner(v) : Goto(t, p)

(* Seeded bugs: a function being compiled is queued again, and is not pinned. *)
EnqueueAgain(v, f) ==
    /\ At(v, "run")
    /\ code[v][f] = "none"
    /\ Connected(jobTx[v])
    /\ Len(jobs[jobTx[v]]) < 2
    /\ compiling' = [compiling EXCEPT ![v] = @ \cup {f}]
    /\ pinned' = [pinned EXCEPT ![v] = @ \cup {f}]
    /\ jobs' = [jobs EXCEPT ![jobTx[v]] = Append(@, <<v, f>>)]
    /\ UNCHANGED <<poolVars, compVars, shutdown, workVars, threadVars, jobTx, code, invalidations, replyVars>>

EnqueueUnpinned(v, f) ==
    /\ At(v, "run")
    /\ code[v][f] = "none" /\ f \notin compiling[v]
    /\ Connected(jobTx[v])
    /\ compiling' = [compiling EXCEPT ![v] = @ \cup {f}]
    /\ jobs' = [jobs EXCEPT ![jobTx[v]] = Append(@, <<v, f>>)]
    /\ UNCHANGED <<poolVars, compVars, shutdown, workVars, threadVars, jobTx, pinned, code, invalidations, replyVars>>

(* tiered_entry/maybe_osr, past the drain: a warm function without code that  *)
(* is neither given up on nor already being compiled; enqueue_compile.        *)
Enqueue(v, f) ==
    /\ At(v, "run")
    /\ code[v][f] = "none" /\ f \notin compiling[v]
    /\ IF Connected(jobTx[v])
         THEN /\ compiling' = [compiling EXCEPT ![v] = @ \cup {f}]
              /\ pinned' = [pinned EXCEPT ![v] = @ \cup {f}]
              /\ jobs' = [jobs EXCEPT ![jobTx[v]] = Append(@, <<v, f>>)]
              /\ UNCHANGED code
         ELSE /\ code' = [code EXCEPT ![v][f] = "ineligible"]
              /\ UNCHANGED <<compiling, pinned, jobs>>
    /\ UNCHANGED <<poolVars, compVars, shutdown, workVars, threadVars, jobTx, invalidations, replyVars>>

(* drain_jit_results: only when the flag is up, and the flag comes down first. *)
DrainStarts(v) ==
    /\ At(v, "run") /\ pending[v]
    /\ pending' = [pending EXCEPT ![v] = FALSE]
    /\ RunnerGoes(v, "drain")
    /\ UNCHANGED <<poolVars, compVars, jobs, shutdown, workVars, jobTx, jitVars, replies>>

(* Seeded bug: the mark stays when the result is installed.                  *)
DrainInstallsMarked(v) ==
    /\ At(v, "drain") /\ replies[v] # <<>>
    /\ LET r == Head(replies[v]) IN
         /\ code' = [code EXCEPT ![v][r[1]] = r[2]]
         /\ pinned' = [pinned EXCEPT ![v] = @ \ {r[1]}]
    /\ replies' = [replies EXCEPT ![v] = Tail(@)]
    /\ UNCHANGED <<poolVars, compVars, jobs, shutdown, workVars, threadVars, jobTx,
                   compiling, invalidations, pending>>

DrainInstalls(v) ==
    /\ At(v, "drain") /\ replies[v] # <<>>
    /\ LET r == Head(replies[v]) IN
         /\ code' = [code EXCEPT ![v][r[1]] = r[2]]
         /\ compiling' = [compiling EXCEPT ![v] = @ \ {r[1]}]
         /\ pinned' = [pinned EXCEPT ![v] = @ \ {r[1]}]
    /\ replies' = [replies EXCEPT ![v] = Tail(@)]
    /\ UNCHANGED <<poolVars, compVars, jobs, shutdown, workVars, threadVars, jobTx, invalidations, pending>>

DrainEnds(v) ==
    /\ At(v, "drain") /\ replies[v] = <<>>
    /\ RunnerGoes(v, "run")
    /\ UNCHANGED <<poolVars, compVars, jobs, shutdown, workVars, jobTx, jitVars, replyVars>>

(* invalidate_compiled of a function whose code deopted. *)
Invalidate(v, f) ==
    /\ At(v, "run")
    /\ code[v][f] = "entry" /\ invalidations[v][f] <= MaxInvalidations
    /\ code' = [code EXCEPT ![v][f] = "none"]
    /\ invalidations' = [invalidations EXCEPT ![v][f] = @ + 1]
    /\ UNCHANGED <<poolVars, compVars, jobs, shutdown, workVars, threadVars, jobTx, compiling, pinned, replyVars>>

-------------------------------------------------------------------------------
(* compiler_loop. *)

WGoto(g, w, p) == wpc' = [wpc EXCEPT ![g][w] = p]

Drops(g, w) == wjob' = [wjob EXCEPT ![g][w] = None]

(* The worker returns, with the job it has in hand unanswered, and the last   *)
(* one to do so takes the channel along.                                      *)
Leaves(g, w) ==
    /\ WGoto(g, w, "exited") /\ Drops(g, w)
    /\ IF \A x \in Workers \ {w} : wpc[g][x] = "exited"
         THEN /\ jobs' = [jobs EXCEPT ![g] = <<>>]
              /\ dropped' = dropped \cup
                     (({wjob[g][w]} \cup {jobs[g][n] : n \in DOMAIN jobs[g]}) \ {None, Signal})
         ELSE /\ UNCHANGED jobs
              /\ dropped' = dropped \cup ({wjob[g][w]} \ {None, Signal})

LoopTop(g, w) ==
    /\ wpc[g][w] = "top"
    /\ IF shutdown[g] THEN Leaves(g, w) ELSE WGoto(g, w, "recv") /\ UNCHANGED <<jobs, wjob, dropped>>
    /\ UNCHANGED <<poolVars, compVars, shutdown, threadVars, jobTx, jitVars, replyVars>>

(* jobs.lock() and recv(): whoever holds the mutex takes the next message.    *)
Receive(g, w) ==
    /\ wpc[g][w] = "recv" /\ jobs[g] # <<>>
    /\ wjob' = [wjob EXCEPT ![g][w] = Head(jobs[g])]
    /\ jobs' = [jobs EXCEPT ![g] = Tail(@)]
    /\ WGoto(g, w, "check")
    /\ UNCHANGED <<poolVars, compVars, shutdown, dropped, threadVars, jobTx, jitVars, replyVars>>

(* Seeded bug: the flag is not looked at again after recv().                  *)
CheckJobNot(g, w) ==
    /\ wpc[g][w] = "check"
    /\ WGoto(g, w, "compile")
    /\ UNCHANGED <<poolVars, compVars, jobs, shutdown, wjob, dropped, threadVars, jobTx, jitVars, replyVars>>

CheckJob(g, w) ==
    /\ wpc[g][w] = "check"
    /\ IF shutdown[g] THEN Leaves(g, w)
                      ELSE WGoto(g, w, "compile") /\ UNCHANGED <<jobs, wjob, dropped>>
    /\ UNCHANGED <<poolVars, compVars, shutdown, threadVars, jobTx, jitVars, replyVars>>

(* The compile is over, with code, an error or a caught panic; the flag is    *)
(* looked at once more before anything is sent.                               *)
CompileEnds(g, w) ==
    /\ wpc[g][w] = "compile"
    /\ IF shutdown[g] THEN Leaves(g, w)
                      ELSE WGoto(g, w, "reply") /\ UNCHANGED <<jobs, wjob, dropped>>
    /\ UNCHANGED <<poolVars, compVars, shutdown, threadVars, jobTx, jitVars, replyVars>>

Reply(g, w) ==
    /\ wpc[g][w] = "reply"
    /\ \E result \in {"entry", "ineligible"} :
         replies' = [replies EXCEPT ![wjob[g][w][1]] = Append(@, <<wjob[g][w][2], result>>)]
    /\ WGoto(g, w, "flag")
    /\ UNCHANGED <<poolVars, compVars, jobs, shutdown, wjob, dropped, threadVars, jobTx, jitVars, pending>>

(* Seeded bug: the VM is not told.                                            *)
RaiseNoFlag(g, w) ==
    /\ wpc[g][w] = "flag"
    /\ WGoto(g, w, "top") /\ Drops(g, w)
    /\ UNCHANGED <<poolVars, compVars, jobs, shutdown, dropped, threadVars, jobTx, jitVars, replyVars>>

RaiseFlag(g, w) ==
    /\ wpc[g][w] = "flag"
    /\ pending' = [pending EXCEPT ![wjob[g][w][1]] = TRUE]
    /\ WGoto(g, w, "top") /\ Drops(g, w)
    /\ UNCHANGED <<poolVars, compVars, jobs, shutdown, dropped, threadVars, jobTx, jitVars, replies>>

-------------------------------------------------------------------------------

Work(g, w) == \/ LoopTop(g, w) \/ Receive(g, w) \/ CheckJob(g, w)
              \/ CompileEnds(g, w) \/ Reply(g, w) \/ RaiseFlag(g, w)

(* What an isolate thread does whatever its program does. *)
Advance(t) == TakeTask(t) \/ UseCompiler(t) \/ TaskCompleted(t)

Drain(v) == DrainStarts(v) \/ DrainInstalls(v) \/ DrainEnds(v)

Stop(t) == StopTakes(t) \/ StopSignals(t)

Next ==
    \/ SpawnTask \/ Shutdown
    \/ \E t \in Stoppers : Stop(t)
    \/ \E t \in Threads : Advance(t) \/ TaskPanics(t)
    \/ \E v \in VMs : Drain(v)
    \/ \E v \in VMs, f \in Funcs : Enqueue(v, f) \/ Invalidate(v, f)
    \/ \E g \in Gens, w \in Workers : Work(g, w)

Spec == Init /\ [][Next]_vars

-------------------------------------------------------------------------------

Messages == (VMs \X Funcs) \cup {Signal}

(* Every variable has its type. *)
TypeOK ==
    /\ spawned \in 0..MaxTasks /\ queued \in 0..MaxTasks /\ in_flight \in 0..MaxTasks
    /\ compLock \in Stoppers \cup {None}
    /\ compiler \in 0..MaxTasks /\ started \in 0..MaxTasks
    /\ jobs \in [Gens -> Seq(Messages)]
    /\ shutdown \in [Gens -> BOOLEAN]
    /\ wpc \in [Gens -> [Workers -> {"unborn", "top", "recv", "check", "compile",
                                     "reply", "flag", "exited"}]]
    /\ wjob \in [Gens -> [Workers -> Messages \cup {None}]]
    /\ dropped \subseteq VMs \X Funcs
    /\ tpc \in [Stoppers -> {"open", "idle", "picked", "run", "drain", "panicked",
                             "stop", "signal"}]
    /\ vm \in [Threads -> VMs] /\ fresh \subseteq VMs
    /\ jobTx \in [VMs -> 0..MaxTasks]
    /\ compiling \in [VMs -> SUBSET Funcs] /\ pinned \in [VMs -> SUBSET Funcs]
    /\ code \in [VMs -> [Funcs -> {"none", "entry", "ineligible"}]]
    /\ invalidations \in [VMs -> [Funcs -> 0..(MaxInvalidations + 1)]]
    /\ replies \in [VMs -> Seq(Funcs \X {"entry", "ineligible"})]
    /\ pending \in [VMs -> BOOLEAN]

(* Where raw pointers to functions are while they are outside their VMs: in   *)
(* the channel of a compiler that has workers left, with a worker, or on the  *)
(* way back.                                                                  *)
InChannel ==
    UNION {{<<"job", g, n, jobs[g][n]>> : n \in {m \in DOMAIN jobs[g] : jobs[g][m] # Signal}} :
             g \in {h \in Gens : jobs[h] # <<>> /\ Connected(h)}}
AtWorker ==
    UNION {{<<"worker", g, w, wjob[g][w]>> :
              w \in {x \in Workers : wjob[g][x] \notin {None, Signal} /\ wpc[g][x] # "flag"}} :
             g \in Gens}
InReply == UNION {{<<"reply", v, n, <<v, replies[v][n][1]>>>> : n \in DOMAIN replies[v]} : v \in VMs}

Away == InChannel \cup AtWorker \cup InReply

(* A function whose pointer is with the compiler, or on its way back, is a    *)
(* root of its VM the whole time (pending_jit_compiles).                      *)
PinnedForTheRoundTrip ==
    \A a \in Away : LET v == a[4][1] IN a[4][2] \in pinned[v] \cap compiling[v]

(* No two workers, of one compiler or of the one that replaced it, ever have  *)
(* the same function, nor is it queued twice (JitInfo::compiling).            *)
CompiledOnceAtATime ==
    \A a, b \in Away : a[4] = b[4] => a = b

(* The unsafe Send of a function's pointer is sound: it is one pointer, in one  *)
(* place, to an object that stays where it is until the pointer is back.        *)
RoundTripIsSafe == PinnedForTheRoundTrip /\ CompiledOnceAtATime

(* The wake-up carries a null pointer: no worker gets as far as compiling it  *)
(* (the check right after recv()).                                            *)
WakeUpIsNeverCompiled ==
    \A g \in Gens, w \in Workers :
        wpc[g][w] \in {"compile", "reply", "flag"} => wjob[g][w] \in VMs \X Funcs

(* A result that was sent is announced: the flag is up, or the worker that    *)
(* sent it is about to raise it, or the VM is already taking results.         *)
ResultsAreAnnounced ==
    \A v \in VMs : replies[v] # <<>> =>
        \/ pending[v]
        \/ At(v, "drain")
        \/ \E g \in Gens, w \in Workers :
             wpc[g][w] = "flag" /\ wjob[g][w][1] = v

(* Every worker of a stopped compiler that may be in recv() has a wake-up     *)
(* waiting there, or a message before it that wakes it as well, although      *)
(* other VMs hold senders that keep the channel open (stop_compiler).         *)
StoppedWorkersWake ==
    \A g \in Gens : shutdown[g] /\ compiler # g =>
        Cardinality({w \in Workers : wpc[g][w] = "recv"}) <= Len(jobs[g])

(* Stopping the compiler (stop_compiler, Drop of BackgroundCompiler) reaches  *)
(* every worker, and as nothing but a wake-up.                                *)
StopReachesWorkers == WakeUpIsNeverCompiled /\ StoppedWorkersWake

(* A function marked as being compiled has a job or a result on its way, or   *)
(* its job is one a worker left unanswered (Leaves).                          *)
CompilingMeansInFlight ==
    \A v \in VMs : \A f \in compiling[v] :
        <<v, f>> \in {a[4] : a \in Away} \cup dropped

(* JitInfo::compiling is "True from the moment a compile job for this         *)
(* function is handed to the background compiler thread (...) until its       *)
(* result is drained" (object.rs:1184-1186), "while one is already in         *)
(* flight": a marked function is on its way.  compiler_loop drops the job in  *)
(* hand, and the queue, when its flag is up, and nothing takes the mark off.  *)
MarkMeansInFlight ==
    \A v \in VMs : \A f \in compiling[v] : <<v, f>> \in {a[4] : a \in Away}

(* What a VM asked of a compiler (enqueue_compile) is under way, or was       *)
(* dropped by a worker of a stopped one (MarkMeansInFlight does not hold);    *)
(* and what a worker answered is seen (drain_jit_results).                    *)
CompilesAreAnswered == ResultsAreAnnounced /\ CompilingMeansInFlight
================================================================================
