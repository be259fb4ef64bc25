# Zuri: a TLA+ development of its core

Zuri is a scripting language: a Rust runtime (`src/src`: compiler, register VM,
generational heap, background JIT, native modules), a standard library written in
Zuri (`src/libs`), and a command line with a package manager, also written in Zuri
(`src/cmds`). Most of it is sequential. What runs concurrently is the *isolate*
system, and everything parallel above it (the HTTP server's workers, `map()`, the
language server) goes through it. Two parts of each VM are as hard though they run on
one thread: the heap, whose collections move objects under everybody who holds their
address, and the life of compiled code. And the package manager is several processes
that may be killed, over files. This development models these four, checks them with
TLC and proves their safety with TLAPS. Paths below are relative to the repository.

## Inventory

### The isolate system (`src/modules/isolate_util/pool.rs`, `src/modules/isolate.rs`, `libs/isolate/`)

| part | state | operations | talks to |
|---|---|---|---|
| pool | `Queue {tasks, started, idle}` under one mutex; atomics `in_flight`, `running`, `shutting_down`; `idle` condvar with an empty `idle_lock` | `spawn`, `spawn_batch`, `isolate_loop`, `shutdown`, `configure` | starts OS threads, resolves task states, starts and stops the compiler |
| task state (handle) | `slot` and `status`, `cancelled`, `observed`, one condvar | `finish`, `cancel`, `join`, `try_join`, `peek` | wake gate |
| wake gate | one global mutex and condvar, the counter `ACTIVE_WAKE_LISTENERS` | `WakeListenerGuard`, `wake_all_waiters` | `wait_any`, `select` sleep on it; `finish`, `cancel`, `send`, `close` pass through it |
| channels | bounded or unbounded queue, `closed`, condvars `not_empty`, `not_full` | `send`, `recv` (each with a timeout or without), `try_recv`, `close`, `select` | wake gate, the calling isolate's own `cancelled` flag |
| `wait_any`, `wait_all` | none of their own | wait for a list of handles | gate, task condvars |
| `Scope` (`libs/isolate/index.zu`) | the list of children | `spawn`, `scope` | handles, cancellation |
| shared JIT compiler (`src/jit/background.rs`, `pool.rs`, `src/vm/vm.rs`) | job channel, shutdown flag, worker threads; per VM `pending_jit_compiles`, a reply channel and its flag; per function `compiling`, `ineligible` and its code | `get_or_spawn_compiler`, `stop_compiler`, `compiler_loop`, `enqueue_compile`, `drain_jit_results`, `invalidate_compiled` | pool, VM |
| broadcast, map | lists of channels and of handles | | channels, pool |
| transfer | value graphs copied between heaps | `capture`, `materialize` | heaps |

Values never cross between isolates by reference, so a message or a result is opaque
to everything here.

What is hard in it:

- wake-ups through two different kinds of sleep: an object's own condvar, on which a
  waiter that runs an isolate or has a deadline polls every 50 ms, and the gate, on
  which nobody polls;
- notifications sent after the lock is let go, a counter read without any lock, and
  timeouts and spurious wake-ups beside all of them;
- counts that decide whether a thread is started, kept right through panics, refused
  threads and tasks that are spawned by tasks;
- cancellation, which is a request, arrives at any point, and is itself reported as a
  failure of whoever was cancelled;
- a compiler that is shared, is stopped by the last task and started again by the
  next, and holds raw pointers into the heaps of VMs that go on collecting.

### One VM (`src/vm/object.rs`, `src/vm/vm.rs`, `src/jit/background.rs`)

| part | state | operations | talks to |
|---|---|---|---|
| heap | nursery (eden and survivors), old generation, remembered set, epoch stamps, mark and remembered bits | allocation in either generation, `write_barrier`, minor collection (`forward_or_promote`), major collection | every root: registers, frames, pins; the closure pointers of dispatch loops; dictionaries hashed by address |
| tiers | per function `JitInfo`: entry and osr code, baseline, tier, `compiling`, `ineligible`, sites that failed | `tiered_entry`, `maybe_osr`, `note_deopt_site`, `settle_deopt`, `tier_up`, `invalidate_compiled`, `drain_jit_results` | the compiler; the stack of frames and nested interpreters |

What is hard: an address outlives what it pointed to unless every holder of it is told;
the barrier has to be passed at every store, of which there are many; a compile takes
so long that the function it is for has been given up on, or replaced, when it is back.

### Package commands on one project (`cmds/_shared/lock.zu`, `store.zu`, `sync.zu`; `cmds/install`, `uninstall`, `restore`, `clean`)

| part | state | operations | talks to |
|---|---|---|---|
| lock | a file created in `x` mode with its holder's process id in it | `acquire`, `release`, taking over a stale one | every other command, through the file |
| transaction | a staging directory with what is to come, what was taken out, and a journal | `commit`, `rollback`, `finish`, `abandon`, and `recover` by the next command | `.zuri/libs` |
| synchronisation | manifest, lockfile, record of what zuri installed | `resolve`, `plan`, `apply`, `_clean_libs` | lock, transaction, hooks |

What is hard: any command may be killed between two renames or two writes, and what it
left is judged by another that has only the files; a lock that is taken over must not
be somebody else's by then; a failed rename or hook has to leave everything as it was.

### The rest

| part | what it keeps | hard behaviour | here |
|---|---|---|---|
| JIT proper (`jit/codegen.rs`, `ir`, `escape.rs`, `typeflow.rs`, ...) | programs being rewritten | speculation and its undoing | not modelled: equivalence of programs |
| front end, builtins, native modules | sequential | — | not modelled |
| HTTP (`libs/http`) | connections, sessions, HTTP/2 flow-control windows | accept loop over workers, windows at their limits | planned |
| SQL (`libs/sql`) | a pool of connections, nested transactions | waiting for a connection, rollback in the middle | planned |
| RPC (`libs/rpc`) | pending calls | late answers | planned |
| log files (`libs/log/file.zu`) | size, rotated names | rotation that fails half way | planned |
| resolver and versions (`cmds/_shared/resolver.zu`, `semver.zu`) | a partial solution | PubGrub | planned as pure functions |
| LSP, formatter, test runner, registry server, other libraries | data | sequential | not modelled |

`PROJECT.json` lists every component with its files, and the hazards at their lines.

## Modules

| module | models | main correspondence |
|---|---|---|
| `ChannelCalls` | calls and outcomes | `SendOutcome`, `RecvOutcome`, what a caller asks for |
| `AbstractChannel` | what channels promise | every call takes effect at one instant; bounded FIFO, drained before it reports closed |
| `IsolateChannel` | channels, `select`, the gate as they use it | one action per critical section or notification; `pc` is the line a thread is at; `buffered` is a `cancel()` whose store the processor has not made visible |
| `IsolateWait` | `finish`, `cancel`, `join`, `wait_all`, `wait_any`, `wait_quietly` | `ipc`, `kpc`, `wpc`: places of the finishing isolate, of the canceller, of the waiter; `buffered` is a store the processor has not made visible |
| `IsolatePool` | queue, threads, `isolate_loop`, `join` as the pool needs it, `shutdown` | `tpc` follows `isolate_loop` line by line, `cpc` a caller in `spawn`, `join` or `shutdown` |
| `IsolateCompiler` | the compiler's life, its workers, a VM's side of the round trip, VMs that a panic replaces | every start of the compiler is a *generation* with a channel and flag of its own |
| `IsolateScope` | `scope()` over a tree of isolates that share the pool's threads | `pc`: queued, body, blocked in it, sweep, collect, done; an isolate holds one of `size` threads from its first step to its last; errors by what `scope()` can tell of them |
| `AbstractHeap` | what a program is promised of the heap | objects with fields, roots, and no addresses |
| `GenHeap` | both generations, barrier, minor and major collection, roots and raw pointers | `phase` is where `collect_minor` or `collect_garbage` is; a box and the object in it are told apart (`home`) |
| `JitTiers` | what code a function of one VM has, and who is in it | `jit[f]` is its `JitInfo`; `job` and `result` are with the compiler; `stack` the activations |
| `CommandLock` | the lock file | one step per system call of `_try` and `acquire` |
| `PackageSync` | the package commands, with kills and failures, those that nothing catches included | `pc` follows `apply`, `commit`, `_undo`, `recover` and `_clean_libs`; `staging[p].state` and `.done` are the journal, `cmd[p].done` is `_done` in memory |
| `IsolatePoolProofs`, `IsolateWaitProofs`, `IsolateChannelProofs`, `IsolateScopeProofs`, `IsolateCompilerProofs`, `GenHeapProofs`, `JitTiersProofs`, `PackageSyncProofs` | theorems about the module in their name | inductive invariants, one lemma per action or group of actions |
| `MC...` | constants for TLC | |

`IsolateChannel`, `IsolatePool` and `IsolateWait` stand beside each other: they share
the gate and the task state, and each models the part of those it depends on in full.
`IsolateScope` is written on top of what the lower ones establish: a join answers if the
child is done, or is interrupted if the caller is cancelled (`IsolateWait`), and a task
at the head of the queue is begun when a thread is free (`EverythingEnds` of
`IsolatePool`). That a thread gets free is not established by anything: joins hold
theirs, and the pool may starve. `IsolateCompiler` has the hand-off of a function to the
compiler threads (which pointer is where, across panics and restarts), `JitTiers` what
the function's own VM makes of the answers. `PackageSync` extends `CommandLock`.

Definitions called "Seeded bug" are not part of any specification: each is a variant of
the definition after it, with one plausible mistake, and shows which property notices.

### Abstractions

- Time is a timeout that may strike at any moment of a timed wait. `IDLE_AFTER` splits
  a wait in two (`deadline` is `"idle"`, then `"none"`), because the code does.
- A condition variable is the set of threads at its waiting place. `notify_one` wakes
  any one of them; spurious wake-ups are actions. A poll tick in `join`, `send` and
  `recv` releases the lock, looks at the isolate's own flag and waits again, in three
  steps, so that anything can happen between them.
- A value, a function and what is compiled are model values. `materialize` does not
  fail, which leaves the message lost between `recv` and a failing `materialize`
  (`isolate.rs:596`) outside.
- Memory is sequentially consistent except for the one flag whose ordering matters and
  is relaxed: `cancel()`'s store. In `IsolateWait` and in `IsolateChannel` it goes into
  a store buffer first (`buffered`) and becomes visible at any later moment (`Flush`),
  before or after the load that follows it. `late` remembers who was cancelled by a
  store that came out only after its `cancel()` had returned; a thread drains its buffer
  before its next locked operation.
- The isolates of `IsolateScope` share `size` threads, and which of the queued ones is
  begun next is left open. Main has a thread of its own.
- The main program's own compiler, which no other thread uses, is left out of
  `IsolateCompiler`, and so is code itself.
- An object of `GenHeap` is its slots; any object can be called, one slot is at the
  same time a dictionary's key, hashed by the address it holds, and an error's
  stacktrace. Globals, upvalues, pending errors and handlers are roots just as
  registers are. A retired box keeps its stamp and nothing else. `Callers` says what
  may call (an instruction, an operator's method, a constructor), `RaiseKept` whether
  an error that was kept is raised again. The marking of a major collection advances
  one object at a time, in any order. Interned strings, the ASCII table, the roots only
  a major collection has, and a second heap on the same thread are left out.
- Code in `JitTiers` is its tier, whether it profiles, the sites it bets on, the loops
  it can be entered at and whether it bets on list elements; a bet may fail whenever
  the code runs. What makes a function warm, a loop hot or a tier-up due is a choice.
  `GlobalSites` are the bets on globals that tier 1 makes whatever failed before
  (`codegen.rs:7898-7917`). Calls built into their caller, which charge a failed bet to
  the callee too, are left out.
- A package is a name with versions and no dependencies; `resolve` is any choice that
  keeps what is locked. A command reads the manifest and the lockfile at one moment,
  plans at one, and removes a directory at one; `atomic_write` is atomic, as its
  comment says, and writing a journal fails only where nothing catches it, at the end
  of `commit()`. All commands run on one machine, no
  process id is used twice, and a living command writes its id within the five seconds
  that `_abandoned` gives it. The lock of the download cache, path and git packages,
  `--force`, `--verify`, `--production` and launchers are left out. A rename, a remove, a
  save, a download and a hook may fail, each as a whole; an error that `apply()` catches
  is told from one that nothing catches (`Raises`, which leaves by the place `"raise"`)
  and from one that `recover()` swallows (`GivesUp`).

## Runs

| run | bounds | asks |
|---|---|---|
| `ChannelSafety` | 3 threads, one of them an isolate; a channel of capacity 2 and an unbounded one; 2 messages, so that the two producers send different ones | `NoLostWakeup` of receivers, senders and select; `Linearizable`: refinement of `AbstractChannel` (550,925 states); select is the timed one here and the untimed one in `ChannelLive` |
| `ChannelLive` | 3 threads, capacity 1, 1 message, every blocking call | `EverybodyIsServed`: is anybody left asleep by send, close or cancel, but for a select whose `cancel()` came late (61,379 states) |
| `PoolSafety` | 2 threads, 3 tasks, spawned singly and as a pair, by the outside or by tasks; shutdown with a timeout; creation may fail | counts, a thread for every task, sleeping beside work, drained shutdown, and that only tasks which wait for each other can stop the pool |
| `PoolLive` | 2 threads, 2 tasks, panics; shutdown without a timeout | tasks, joins and shutdowns end; every counted thread is there and none is one too many |
| `WaitHandles` | one cancellable waiter on a list of one or two isolates, all three waits, one canceller whose store may be late | wake-ups, true answers, release by finish and (where it polls) by cancel |
| `CancelRace` | `wait_any` on one isolate, one canceller | **violated**: a cancelled `wait_any` sleeps on |
| `ScopeTree` | main and two isolates in every tree shape, one blocking or cancelling call per body, a pool of one thread or of two | what `scope()` guarantees of its children, which failure it raises, and that teardown ends unless the pool starves (58,176 states) |
| `CompilerSafety` | 2 threads going through 3 VMs with 1 function each, 2 workers, 2 tasks (so two generations and a panic) | the round trip of a pointer, stop and restart, and that every compile is answered unless its very job was dropped by a worker of a stopped compiler |
| `HeapCollections` | 1 eden, 3 survivor and 3 old boxes, 3 objects of one slot, epochs that wrap after 2 | nothing dangles, everything old that points to young is remembered, addresses are current (but after an operator's method), no collection is noticed (refinement of `AbstractHeap`), and each comes to its end (2,079,662 states) |
| `HeapRaise` | the same, with errors raised again | **violated**: a new stacktrace is not remembered |
| `TierSafety` | one recursive function, one site and one loop, 4 activations, direct and tiered | `JitInfo` agrees with the code it speaks of, nesting is bounded, compiling stops |
| `PackageSync` | 2 packages, 2 versions; two or three commands in 5 combinations (three `clean --libs`; an install, a clean and a dry run; an uninstall, a restore and a dry run; two installs; an uninstall and an install); 2 kills, 1 failure | taking turns, caught failures without trace, recovery after kills and failures where the journal tells enough, and that every command ends (371,908 states) |

Why these bounds: a lost wake-up needs a sleeper, a waker, and somebody who takes the
wake-up away, hence three channel threads, with two roles to choose from where the
mirror cases differ. Two pool threads and three tasks are the least in which a thread
is idle, another busy and a task waiting. Two tasks restart the compiler once; a third
generation meets no state the second did not leave behind, and a third VM is the one
that replaces a leaked one. Two isolates below main make a chain and a pair of
siblings. One waiter is enough for the gate because waiters do not affect each other
except through the mutex and the counter, and the theorems below are for any number.
Three objects make a chain from an old one over a young one to another with a root
elsewhere, and with one eden box every allocation collects first, so that what survives
is of every age (new, survived once, old) at once; an epoch that wraps
at 2 wraps after every other collection. One function is enough for the tiers because
functions meet only on the stack, and it can call itself. Three commands are the least
in which two break the lock of a third, or one recovers what another left of a
recovery; two kills leave a recovery half done.

Five more configurations state what a document or a comment promises without the
exception that the code needs. Each is a counterexample, found in seconds; they are
beside the runs above, which state what does hold, and are run the same way
(`tlc -config ScopeCascade.cfg MCIsolateScope`):

| configuration | module | property TLC refutes | the trace |
|---|---|---|---|
| `ScopeCascade` | `MCIsolateScope` | `NoCascadeIsRaised` | a child that fails because a join of its cancelled sibling failed is raised by `scope()` as the failure |
| `CompilerMark` | `MCIsolateCompiler` | `MarkMeansInFlight` | a worker of a stopped compiler drops its job, and the function stays marked |
| `HeapOperator` | `MCGenHeap` | `ClosureIsCurrent` | an operator's method collects, and the loop around it goes on with the address its closure had |
| `PackageFailure` | `MCPackageSync` | `AnyFailureChangesNothing` | the packages have moved, a write that nothing catches fails (the journal's last, or a save after it), and nothing is rolled back |
| `PackageKill` | `MCPackageSync` | `KilledIsPutRight` | a command is killed after the commit and before it saves the record; the next restore ends, and `.zuri/libs` has the new version under the old record |

`CompilerSafety` uses symmetry, and has no liveness property. Deadlock is not checked
for the pool, the scopes, the compiler, the tiers and the package commands, which come
to rest when nobody has anything more to ask. It is checked for `GenHeap`: with
`CollectionsEnd` (a measure falls with every step of a collection) and no deadlock,
every collection ends without any fairness at all.

`select` sleeps on the same gate as `wait_any`, and neither polls, so what `CancelRace`
shows of the one holds for the other. `SelectWakeup`, `CancelInterrupts` and
`CancelWakesGate` therefore leave out one waiter by name: the one in `late`, whose
`cancel()` stored so late that its own load, which found nobody at the gate, had passed
the store. A store that becomes visible before that load must wake.

The escapes in a property are the code's own limits, and each was found necessary:
without it TLC has a counterexample. `PutRight` leaves out a command that was stopped,
by a kill or by a failure that nothing catches, where the journal says less than
happened (`Unrecorded`: dropping any of its disjuncts is refuted), a recovery that gave
up on an error (both are `unlucky`), and behaviours in which two commands were at work
at once (`overlap`), which happens through a dry run or a lock taken from its living
holder; `TakeTurns` names that holder (`robbed`). `FailureChangesNothing` speaks of
failures that `apply()` catches and undoes (`"release"`), not of those that leave by
`"raise"`. `CompilingMeansInFlight` excuses the very jobs that a worker of a stopped
compiler left unanswered (`dropped`), `ClosureIsReread` a loop that goes on after an
operator's method, and `OnlyStarvationHangs` a pool all of whose threads are held while
an isolate is queued. `NoSleepBesideWork` excuses a pool that counts on a thread which
could not be created.

### Fairness

Weak fairness of a thread's own steps: the operating system schedules it. Strong
fairness of a blocked thread's next move, which is either to acquire its mutex or to
have its poll tick: a mutex may be taken and released again and again before a thread
gets it, but none is held for ever, and a deadline passes even when notifications keep
arriving. Weak fairness of a store reaching memory. Nothing is assumed of callers: no
call, no `cancel()`, no end of an isolate in `IsolateWait` and no spurious wake-up has
to happen. In `IsolatePool` a task that runs is assumed to end, and so is a body in
`IsolateScope` (`MaxCalls` bounds its calls), but a wait on a channel in a body
(`WaitAnswered`) need not be answered: the cancellation has to end it. An isolate of
`IsolateScope` that has a thread goes on, and a free thread does not leave the queue
standing; that a queued isolate ever gets a thread is not assumed, since joins hold
theirs (`pool.rs:927`, ch11:1013-1026). `TreeComesDown` says what is left of teardown
then: a cancelled isolate that has a thread ends, the program's own scope is always left
(its sweep frees the threads), and any other is, unless the pool starves.
`CompilingStops` needs no fairness: it says that something does not go on for ever. In
`PackageSync` a process that has begun and is not killed goes on, and an empty lock file
whose creator is dead gets old; that a waiting command gives up after 120 seconds is
possible and never relied on.

## Disagreements between the code and what it says

Shown by a run of its own:

1. **`cancel()` may not interrupt `wait_any`** (`pool.rs:851-852`, `CancelRace`). Store
   and load are both relaxed, the load may pass the store, and `wait_any` does not poll;
   nor does `select`.
2. **A raised error's stacktrace is stored without a barrier** (`vm.rs:1457`,
   `HeapRaise`). An error that has become old is raised again, its new stacktrace is
   young, and the next minor collection frees it.

Shown by a configuration of its own (the table above):

3. **A cancellation may be raised as a failure** (`ScopeCascade`). "Secondary
   IsolateCancelledError cascades" are not to count (`index.zu:645-648`), but the filter
   (`index.zu:697-702`) knows the child that was interrupted itself, not one that failed
   because a join of such a child did. `FirstFailureIsRaised` says what is raised: the
   first failure in spawn order, cascades included.
4. **A function may stay "compiling" for ever** (`CompilerMark`): a worker that sees the
   flag drops its job without an answer (`background.rs:315`), and nothing takes the mark
   off, against "until its result is drained" (`object.rs:1184-1186`).
5. **A method called by an operator runs in a nested loop, and the loop around it keeps
   the closure pointer it had** (`HeapOperator`; `vm.rs:5596`, `7178`, `8181`, against
   the comment at `vm.rs:5609-5616`): after a collection in between it is stale until
   that loop reads it again.
6. **"A failure anywhere, a script included, leaves the installed packages as they
   were"** (`cmds/install/README.md:49-51`, `PackageFailure`) does not hold of the
   journal's last write (`store.zu:332`), `tree_digest()`, `installed.save()`,
   `lock.save()` and `manifest.save()` (`sync.zu:1195-1225`), which nothing catches:
   packages, the record, the lockfile and the manifest may part at each of them. Nor does
   it of an error in the rollback itself (`store.zu:361-377`); and one in a recovery is
   swallowed, and what was saved is deleted (`store.zu:413-418`).
7. **"A command that is killed halfway is rolled back by the next"** (`store.zu:14-16`,
   `PackageKill`) does not hold where the journal is behind: a move is written after it
   was made, although "every move is written to a journal first", and the record is
   saved after the journal says committed. A kill after a package with nothing to
   replace was moved in, and before that is written, leaves a directory that the next
   command takes for somebody else's and refuses to touch. A kill after the journal says
   "committed" and before the record is saved leaves new packages under the old record:
   the next command deletes the directory with the old ones and keeps the new, wrong
   versions (`store.zu:410`, `sync.zu:1220`); the same after a post-install hook failed,
   while the moves are undone.

Met while modelling; where a property has to make an exception for one, it is named:

*Isolates*
- A thread that cannot be created stays counted (`pool.rs:235`): `Queue.idle` is
  "started threads free to take a task", `claim_threads` counts a thread before it
  exists and the panic of `start_threads` takes nothing back (`IdleThreadsExist` in
  `NoSleepBesideWork`).
- A scope may return before its children do (`index.zu:694-703`, against
  `:630-632`): when the isolate in `scope()` is cancelled each join of the collecting
  loop gives up, and the loop swallows that. Hence `ChildrenAreContained` has three
  parts, and only the main program's scope outlives its children whatever happens.
- `scope()` cancels its children when the body returns normally too (`index.zu:681`),
  although the book recommends a scope for work that "must be complete — and correct —
  before the next step begins" (`docs/book/src/ch11-00-isolates.md:852`); a child's
  failure cancels its siblings only once the body is over, not "automatically" when it
  happens (`index.zu:486-489`, `:672`).
- `wait_all` marks a failure as `observed` without reporting it (`pool.rs:829`), and
  `map_batch` leaves its pins behind when `materialize` fails (`isolate.rs:348`).

*Compiler and tiers*
- "Permanently drop" and "can't be re-entered from there" (`vm.rs:38-40`) do not hold
  with a compile in flight: the drain installs its code without looking at `ineligible`
  (hence `2 * |Funcs|` in `NestingIsBounded`).
- "The last compile a function gets never traps" (`object.rs:1141-1147`,
  `ir/build.rs:1105-1108`) does not hold when the last invalidation came from
  `disable_elem_speculation` or a tier-1 bet on a global, nor does "the next
  compilation skips it" (`object.rs:1118-1121`) for the latter (`codegen.rs:7917`).
- A deopt and an enqueue of one prototype do overlap (`object.rs:1121-1126` says never).
- `ineligible` is called sticky, but `maybe_osr` looks at it before the drain that sets
  it (`vm.rs:4512-4517`).
- A tier exit past the nesting limit does give up on the function, though "nothing is
  noted against" it (`runtime.rs:313`).

*Package manager* (`cmds/install/README.md:48-57`, `cmds/clean/README.md`)
- "Two commands can never both hold it" (`lock.zu:5`): breaking a stale lock and
  `release` delete whatever lock is there. Two commands that judge one dead holder, or
  one that found the file gone between its create and its read, can delete the lock a
  third has just taken. Three commands and no kill are enough.
- A command that waits fails with "could not create the lock" when the holder lets go
  between its create and its `exists()` (`lock.zu:70`).
- A dry run calls `recover` without the lock (`sync.zu:1235`, `clean/index.zu:90`) and
  undoes and deletes the transaction of a command that is at work, which "a command
  installing at the same moment is waited for, never cut short" rules out.
- A recovery that is itself killed after it put a replaced package back removes that
  package when it is repeated; the next restore installs it again.
- Only the record is read again under the lock (`sync.zu:1016`): of two installs at
  once, the later saves a manifest and a lockfile without the other's package.
- Outside the model: a removal cut short inside a directory leaves part of a package
  that the record still names, which `plan` keeps unless asked to `--verify`.

## Proofs

Every invariant and action property that a run checks is also proved, for every value
of the constants that the ASSUMEs allow: any number of threads, callers, tasks,
waiters, channels, isolates, VMs, functions, boxes, objects, packages and commands, and
any of the bounds (kills, faults, calls). So are both refinements. Only liveness is
left to TLC.

### The isolate system

**`IsolatePoolProofs`**
- `TasksHaveThreads` (`EveryTaskHasAThread`). Inductive with `Structure` (the shapes of
  the variables; threads claimed and not created belong to one caller; a thread in a
  call is in its task; a thread has a task from the queue to `task_completed`). The
  heart is `ClaimBounds`, what `claim_threads` returns.
- `CountsTrue` (`CountsAreTrue`): `PoolInv` adds that `idle`, `in_flight` and `running`
  are the sizes of the sets of threads they stand for. `PoolTypeCorrect` (`TypeOK`)
  follows only from it, since the counters are decremented.
- `PoolWakeups` (`NoLostWakeup`), `RestMeansWaiting` (`OnlyTasksBlockTasks`),
  `ShutdownIsComplete` (`ShutdownDrains`), `NoThreadIsSpare`, from `WorkInv`: a task
  that is queued beside a parked thread is matched by a thread that is up and free, or
  by a notification still to come (`SleepInv`, counted against `idle`); a joiner asleep
  on a finished task has its notifier at `notify`; a shutdown asleep beside
  `in_flight = 0` has the thread that brought it there before `idle_lock`; and the
  threads running and the tasks queued are no more than the tasks unfinished
  (`WorkView`), so that a claim is never for nothing.
- `ThreadsFit` (`ThreadsFitTheWork`), assuming `~StartMayFail`. With threads refused the
  half of it that counts on a thread which is not there is false, as said above; the
  other half, `NoThreadIsSpare`, needs no assumption.

**`IsolateWaitProofs`**
- `TypeCorrect`, and `CountCorrect`: `ACTIVE_WAKE_LISTENERS` is the number of threads
  between `WakeListenerGuard::new` and `drop`.
- `JoinersAreWoken` (`JoinerWakeup`), with `PlaceInList` (a waiter that waits has an
  isolate to wait for).
- `WaitAnyIsWoken` (`GateWakeup`). For `finish`, whatever memory does to `cancel()`, one
  needs that the counter is positive while somebody is registered (so `finish` does not
  skip the gate), who holds the gate, and `DecisionSafe`: an isolate that finished after
  a waiter's scan cannot be past the gate before that waiter sleeps, because the waiter
  holds it.
- `CancelWakesGate`, the other half of `GateWakeup`, needs who is between a `cancel()`'s
  store and its load, and whose store is still buffered. `CancelIsSeen` says it the other
  way round: a cancelled `wait_any` that sleeps with nobody about to notify it is one
  whose `cancel()` loaded the count before its store was visible, the case of
  `CancelRace`.
- `AnswersTrue` (`AnswersAreTrue`): `AnswerInv` says of every place on the way to an
  answer what is already settled there; outcomes and cancellations are never taken back.

**`IsolateChannelProofs`**
- `ChannelTypes`; `Wakeups` (`NoLostWakeup`) from `WakeInv`: besides the property, which
  thread owns the gate, that the counter is the number of selects between registering
  and leaving, and `SelectInv`: whatever a select's scan has found empty is empty until
  it sleeps, or whoever filled it has still to pass the gate; and a cancellation
  that became visible before the canceller's load has the canceller at the gate.
- `ChannelsLinearize` (`Linearizable`): every initial state is one of `AbstractChannel`,
  and every step is the one abstract step at which a call takes effect, or none. It
  rests on `ChannelInv`, which says that a call has its outcome exactly from that
  instant on.

**`IsolateScopeProofs`**
- `ScopeTypes`, `Contained` (`ChildrenAreContained`), `FirstFailure`
  (`FirstFailureIsRaised`), for any finite set of isolates and any size of the pool.
  `ScopeInv` follows the three loops of `scope()`: the children before the sweep's place
  are cancelled; of the children before the join loop's place each ended, or the caller
  was interrupted, and a failure seen is noted (`CollectedSoFar`); what was noted has a
  child to blame.

**`IsolateCompilerProofs`**
- `CompilerTypes`: that generations stay within `MaxTasks` needs that each one is
  started by a task of its own (`TasksCounted`).
- `RoundTrip` (`RoundTripIsSafe`) from `TripInv`: wherever a pointer is (a job channel
  of any generation, a worker's hands, a reply channel), its function is pinned and
  marked in its VM (`PinnedAway`), and it is in one place only (`OnceAway`). VMs that
  panics leak keep their pins, which is what makes it inductive.
- `StopReaches` (`StopReachesWorkers`): whoever raised a flag holds the lock until it has
  signalled, and a wake-up is never taken for a job (`SignalsFollowFlag`).
- `Answers` (`CompilesAreAnswered`): a marked function is somewhere on the trip, or its
  very job is one that a worker of a stopped compiler left unanswered (`dropped`, which
  `CompilerMark` shows to happen); and a channel with something in it is read.

### One VM

**`GenHeapProofs`**, all with the hypothesis `~RaiseKept`: a program that never raises
again an error it kept. `HeapRaise` shows that without it `RememberedIsComplete` fails,
and with it everything below.
- `HeapInvariant`: `HeapInv` is inductive. Its parts hold in every phase of both
  collections: what is current and whose (`SpacesFit`, `HomesFit`: every current box is
  one object's and every object in one current box, hence no space runs full), stamps
  and forwarding (`StampsFit`, `ForwardsFit`), what was looked at names boxes that stay
  and what was not is on a worklist (`ScannedFits`, `MarksFit`), and the closure
  pointers beside the roots (`ClosuresFit`).
- `HeapTypes` (`TypeOK`), `NothingEverDangles`, `RememberedSet` (`RememberedIsComplete`)
  and `AddressesStayCurrent` (`AddressesAreCurrent`) follow from it; the last leaves out
  the loop that goes on after an operator's method that collected (`ClosureIsReread`;
  `ClosureIsCurrent` is refuted by `HeapOperator`).
- `CollectionsStayInvisible` (`CollectionsAreInvisible`), the refinement of
  `AbstractHeap`: objects are seen through the boxes they are in or were moved to
  (`View`), no step of a collection changes that view, a step of the program changes it
  as the abstract one does, and an object whose box is swept was out of reach.
- `CollectionsFinish` (`CollectionsDoTheirWork`): each step of a collection goes to a
  later phase, or stays in it and leaves less `Work`; and a major one marks nothing that
  is out of reach (`MarkedReached`), so it leaves exactly what is in reach.

**`JitTiersProofs`**
- `TiersTypes` and `TiersStayInStep` (`TiersAreInStep`) from `TiersInv`: at most one job
  or result is in flight for a function, while it is marked, and tier 1 is asked for
  only while there is no code.
- `GivenUp` (`GivenUpForGood`, the safety half of `CompilingStops`).
- `NestingBound` (`NestingIsBounded`): of one function at most two activations are
  stacked past the limit, because the first that is has it given up, and the second
  takes the code that was under way with it (`NestOf`); the bound then is a count of
  injections into the functions.

### The package commands

**`PackageSyncProofs`**, in three layers, each used by the next:
- `SoundInv` (types; what a command holds by where it is; logs name a package once) gives
  `PackageTypes` (`TypeOK`). With `AllOwned` (who is at work and not on a dry run has the
  lock file, or was robbed of it) it gives `CommandsTakeTurns` (`TakeTurns`).
- `SoloInv`, as long as no two commands were at work at once: one transaction is left at
  most, and what a command finds is what it recovers (`Found`, `Others`); `.zuri/libs`
  differs from what it was at the plan exactly by the moves in memory (`Tells`, whatever
  part of them is undone already), and the journal is at most one move behind
  (`Journalled`). All of it is about commands that have the work in hand (`InHand`): a
  command at `"raise"`, where a failure nothing caught has left it, only lets go of the
  lock. This gives `FailureUndone` (`FailureChangesNothing`), of the failures that
  `apply()` catches.
- `AllSafe` (nobody is about to move what others put there) and `MendInv`, as long as no
  command was stopped where `Unrecorded` says and no recovery gave up: the journal that
  a kill or an uncaught failure leaves can be undone, and still can be after any part of
  that was done and its command stopped in turn (`Mendable`); and where nothing half
  done is left every package is at the version of the record, or missing (`Quiet`). This
  gives `KilledPutRight` (`PutRight`).

### What the proofs asked of the models

Attempts that failed for a reason changed these:

- `SenderWakeup` of `IsolateChannel` counted free places against senders that are up in
  a closed channel too. That is false for a channel of capacity 2: a sender woken for a
  place is refused there and leaves it free. The property now counts places in open
  channels only and demands of a closed one that its closer has still to notify;
  `ChannelSafety` has the capacity and the closer that show it.
- `CompilesAreAnswered` and `RoundTripIsSafe` need that the closer and "nobody" are not
  threads (`CompilerAssumption`), the pool that no batch has a task twice
  (`PoolAssumption`; a batch is a fresh list of states in the code), the tiers and scopes
  that functions and isolates are finitely many, the package commands that what is in
  `.zuri/staging` is not the value for nothing (`RootAssumption`).
- In `GenHeap` the roots still to be forwarded are a set, taken in their order by
  `Foremost`, and in `PackageSync` so are the packages still to be moved (`Turn`). They
  were sequences cut from one by `SelectSeq`, about which nothing can be proved without
  induction. The steps and their order are the same.
- `Reached` of `AbstractHeap` is the least set that contains the roots' objects and is
  closed under fields, where it was computed by recursion.
- `AllPlaces` and `AllLogs` had to say of each place which fields of memory are blank
  there, and `Found` that what a recovery has yet to visit is there; all parts of the
  invariants were invariants of the runs' instances before they were proved.

### Only model-checked

Liveness: `EverybodyIsServed`, `EverythingEnds`, `WaitersReturn`, `TreeComesDown`,
`EveryCommandEnds` and `SettlesDown` (the other half of `CompilingStops`). The first
five rest on fairness, which means reasoning about ENABLED; the last on a measure that
falls for ever, which means induction. The counterexamples (the two runs that expect a
violation, and the five configurations beside them) stand for themselves.

## Not modelled

Translation (front end, IR, code generation, type flow, escape analysis): its state is
a program and its correctness the equivalence of programs, which a model small enough
for TLC says nothing about. It is also the largest part of the code, so the mapped
lines are a small share of the whole. Builtins, native modules, parsers, formatters,
servers' routes and templates are sequential functions of data. `capture` and
`materialize` are a sequential copy of a graph. `broadcast.zu` is a list and calls on
channels by one isolate. The rest of the inventory marked "planned" is below.

## Plan

1. Proofs: the safety of what follows, component by component, as for the others.
2. The SQL pool and nested transactions; HTTP/2 flow control; the pending calls of RPC;
   the rotation of log files.
3. `map_batch`, `try_join` and the warning of a dropped failure.
4. Pure algorithms against reference definitions: version ranges and the resolver.
