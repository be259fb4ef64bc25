----------------------------- MODULE IsolateWait -----------------------------
(***************************************************************************)
(* Waiting for isolates to finish (src/modules/isolate_util/pool.rs): the  *)
(* state an isolate publishes its outcome in, join, wait_all and wait_any  *)
(* on it, and cancel.  join and wait_all sleep on the state's own          *)
(* condition variable and poll for their own cancellation; wait_any sleeps *)
(* on the wake gate, which finish and cancel pass through only when        *)
(* ACTIVE_WAKE_LISTENERS says that somebody is there.                      *)
(*                                                                         *)
(* cancel() stores its flag and loads that counter with relaxed ordering,  *)
(* so the store may still sit in the processor's store buffer when the     *)
(* load is performed: buffered is that store, and Flush writes it back.    *)
(* finish() has a notify_all between the two, which is a full barrier.     *)
(***************************************************************************)
EXTENDS Naturals, Sequences, FiniteSets

CONSTANTS
    Waiters,        \* threads that wait
    Cancellable,    \* those of them that run an isolate
    Isos,           \* the isolates waited for, each with its own thread
    Cancellers,     \* threads that cancel
    Lists,          \* the lists that wait_any and wait_all are called with
    Uses,           \* [Waiters -> SUBSET Ops]: the waits a thread makes
    None

ASSUME WaitAssumption ==
    /\ IsFiniteSet(Waiters) /\ IsFiniteSet(Isos) /\ IsFiniteSet(Cancellers)
    /\ Cancellable \subseteq Waiters
    /\ Uses \in [Waiters -> SUBSET {"join", "waitAll", "waitAny"}]
    /\ Lists \subseteq Seq(Isos) \ {<<>>}
    /\ None \notin Waiters

VARIABLES
    slot,           \* [Isos -> Outcomes]   IsolateState.slot, and status with it
    ipc,            \* [Isos -> IsoPlaces]
    observed,       \* [Isos -> BOOLEAN]
    cancelled,      \* [Waiters -> BOOLEAN] as the other threads see it
    buffered,       \* [Cancellers -> Waiters \cup {None}]: store not visible yet
    late,           \* history: who was asleep on the gate when a store became
                    \*   visible, its cancel() being over
    listeners,      \* ACTIVE_WAKE_LISTENERS
    gateOwner,
    wpc,            \* [Waiters -> WaiterPlaces]
    op,             \* [Waiters -> Ops]
    list,           \* [Waiters -> Seq(Isos)]: what it waits for
    pos,            \* [Waiters -> Nat]: wait_all's place in it
    deadline,       \* [Waiters -> Deadlines]
    answer,         \* [Waiters -> Answers]
    kpc             \* [Cancellers -> CancelPlaces]

isoVars == <<slot, ipc>>
cancelVars == <<cancelled, buffered, late, kpc>>
gateVars == <<listeners, gateOwner>>
waiterVars == <<wpc, op, list, pos, deadline, answer>>
vars == <<isoVars, observed, cancelVars, gateVars, waiterVars>>

Outcomes == {"pending", "ok", "err"}
IsoPlaces == {"running", "notify", "load", "gateLock", "gateNotify", "done"}
CancelPlaces == {"ready", "load", "gateLock", "gateNotify"}
Ops == {"none", "join", "waitAll", "waitAny"}
Deadlines == {"none", "timeout", "idle"}
Answers == {"none", "ready", "timedOut", "cancelled"}
WaiterPlaces == { "idle", "next", "join", "joinWait", "ticked", "check",
                  "any", "enter", "lock", "relock", "scan", "last",
                  "decide", "gateWait", "leave" }

TypeOK ==
    /\ slot \in [Isos -> Outcomes]
    /\ ipc \in [Isos -> IsoPlaces]
    /\ observed \in [Isos -> BOOLEAN]
    /\ cancelled \in [Waiters -> BOOLEAN]
    /\ buffered \in [Cancellers -> Cancellable \cup {None}]
    /\ late \subseteq Cancellable
    /\ listeners \in Nat
    /\ gateOwner \in Waiters \cup {None}
    /\ wpc \in [Waiters -> WaiterPlaces]
    /\ op \in [Waiters -> Ops]
    /\ list \in [Waiters -> Seq(Isos)]
    /\ pos \in [Waiters -> Nat]
    /\ deadline \in [Waiters -> Deadlines]
    /\ answer \in [Waiters -> Answers]
    /\ kpc \in [Cancellers -> CancelPlaces]

Init ==
    /\ slot = [i \in Isos |-> "pending"]
    /\ ipc = [i \in Isos |-> "running"]
    /\ observed = [i \in Isos |-> FALSE]
    /\ cancelled = [w \in Waiters |-> FALSE]
    /\ buffered = [k \in Cancellers |-> None]
    /\ late = {}
    /\ listeners = 0
    /\ gateOwner = None
    /\ wpc = [w \in Waiters |-> "idle"]
    /\ op = [w \in Waiters |-> "none"]
    /\ list = [w \in Waiters |-> <<>>]
    /\ pos = [w \in Waiters |-> 1]
    /\ deadline = [w \in Waiters |-> "none"]
    /\ answer = [w \in Waiters |-> "none"]
    /\ kpc = [k \in Cancellers |-> "ready"]

Done(i) == slot[i] # "pending"

Awaited(w) == list[w][pos[w]]

Goto(w, place) == wpc' = [wpc EXCEPT ![w] = place]

IsoGoto(i, place) == ipc' = [ipc EXCEPT ![i] = place]

CancelGoto(k, place) == kpc' = [kpc EXCEPT ![k] = place]

Answer(w, a) == answer' = [answer EXCEPT ![w] = a]

IsCancelled(w) == w \in Cancellable /\ cancelled[w]

GateWaiters == {w \in Waiters : wpc[w] = "gateWait"}

Woken(ws, place) == [w \in Waiters |-> IF w \in ws THEN place ELSE wpc[w]]

-----------------------------------------------------------------------------
(* IsolateState::finish, on the isolate's own thread *)

FinishStore(i) ==
    /\ ipc[i] = "running"
    /\ \E r \in {"ok", "err"} : slot' = [slot EXCEPT ![i] = r]
    /\ IsoGoto(i, "notify")
    /\ UNCHANGED <<observed, cancelVars, gateVars, waiterVars>>

JoinersOf(i) == {w \in Waiters : wpc[w] = "joinWait" /\ Awaited(w) = i}

\* Seeded bug: finish() forgets the state's own condition variable.
FinishSilent(i) ==
    /\ ipc[i] = "notify"
    /\ IsoGoto(i, "load")
    /\ UNCHANGED <<slot, observed, cancelVars, gateVars, waiterVars>>

FinishNotify(i) ==
    /\ ipc[i] = "notify"
    /\ wpc' = Woken(JoinersOf(i), "join")
    /\ IsoGoto(i, "load")
    /\ UNCHANGED <<slot, observed, cancelVars, gateVars, op, list, pos, deadline, answer>>

FinishLoad(i) ==
    /\ ipc[i] = "load"
    /\ IsoGoto(i, IF listeners > 0 THEN "gateLock" ELSE "done")
    /\ UNCHANGED <<slot, observed, cancelVars, gateVars, waiterVars>>

FinishGateLock(i) ==
    /\ ipc[i] = "gateLock"
    /\ gateOwner = None
    /\ IsoGoto(i, "gateNotify")
    /\ UNCHANGED <<slot, observed, cancelVars, gateVars, waiterVars>>

FinishGateNotify(i) ==
    /\ ipc[i] = "gateNotify"
    /\ wpc' = Woken(GateWaiters, "lock")
    /\ IsoGoto(i, "done")
    /\ UNCHANGED <<slot, observed, cancelVars, gateVars, op, list, pos, deadline, answer>>

-----------------------------------------------------------------------------
(* IsolateState::cancel *)

CancelStore(k, w) ==
    /\ kpc[k] = "ready"
    /\ ~cancelled[w] /\ buffered[k] = None
    /\ buffered' = [buffered EXCEPT ![k] = w]
    /\ CancelGoto(k, "load")
    /\ UNCHANGED <<isoVars, observed, cancelled, late, gateVars, waiterVars>>

\* The processor writes the store back.
Flush(k) ==
    /\ buffered[k] # None
    /\ cancelled' = [cancelled EXCEPT ![buffered[k]] = TRUE]
    /\ buffered' = [buffered EXCEPT ![k] = None]
    /\ late' = IF kpc[k] = "ready" /\ wpc[buffered[k]] = "gateWait" /\ ~cancelled[buffered[k]]
               THEN late \cup {buffered[k]} ELSE late
    /\ UNCHANGED <<isoVars, observed, kpc, gateVars, waiterVars>>

CancelLoad(k) ==
    /\ kpc[k] = "load"
    /\ CancelGoto(k, IF listeners > 0 THEN "gateLock" ELSE "ready")
    /\ UNCHANGED <<isoVars, observed, cancelled, buffered, late, gateVars, waiterVars>>

\* Acquiring a mutex is a locked instruction: the buffer is empty after it.
CancelGateLock(k) ==
    /\ kpc[k] = "gateLock"
    /\ gateOwner = None
    /\ buffered[k] = None
    /\ CancelGoto(k, "gateNotify")
    /\ UNCHANGED <<isoVars, observed, cancelled, buffered, late, gateVars, waiterVars>>

CancelGateNotify(k) ==
    /\ kpc[k] = "gateNotify"
    /\ wpc' = Woken(GateWaiters, "lock")
    /\ CancelGoto(k, "ready")
    /\ UNCHANGED <<isoVars, observed, cancelled, buffered, late, gateVars,
                   op, list, pos, deadline, answer>>

-----------------------------------------------------------------------------
(* The three waits.  Without a timeout each waits for IDLE_AFTER first. *)

Begin(w, o, l, timed) ==
    /\ wpc[w] = "idle"
    /\ o = "join" => Len(l) = 1
    /\ op' = [op EXCEPT ![w] = o]
    /\ list' = [list EXCEPT ![w] = l]
    /\ pos' = [pos EXCEPT ![w] = 1]
    /\ deadline' = [deadline EXCEPT ![w] = IF timed THEN "timeout" ELSE "idle"]
    /\ Answer(w, "none")
    /\ Goto(w, CASE o = "join" -> "join" [] o = "waitAll" -> "next" [] o = "waitAny" -> "any")
    /\ UNCHANGED <<isoVars, observed, cancelVars, gateVars>>

Return(w, a) == Answer(w, a) /\ Goto(w, "idle")

\* wait_all_isolates, before each isolate of the list.
AllNext(w) ==
    /\ wpc[w] = "next"
    /\ \/ pos[w] > Len(list[w]) /\ Return(w, "ready") /\ UNCHANGED pos
       \/ pos[w] <= Len(list[w]) /\ IsCancelled(w) /\ Return(w, "cancelled") /\ UNCHANGED pos
       \/ /\ pos[w] <= Len(list[w]) /\ ~IsCancelled(w) /\ Done(Awaited(w))
          /\ pos' = [pos EXCEPT ![w] = @ + 1]
          /\ UNCHANGED <<answer, wpc>>
       \/ /\ pos[w] <= Len(list[w]) /\ ~IsCancelled(w) /\ ~Done(Awaited(w))
          /\ Goto(w, "join")
          /\ UNCHANGED <<answer, pos>>
    /\ UNCHANGED <<isoVars, observed, cancelVars, gateVars, op, list, deadline>>

\* The time given is over, with the wait that follows IDLE_AFTER still to come.
Expire(w) ==
    \/ /\ deadline[w] = "timeout"
       /\ Return(w, "timedOut")
       /\ UNCHANGED <<deadline, pos>>
    \/ /\ deadline[w] = "idle"
       /\ deadline' = [deadline EXCEPT ![w] = "none"]
       /\ pos' = [pos EXCEPT ![w] = 1]
       /\ Goto(w, IF op[w] = "waitAll" THEN "next" ELSE "join")
       /\ UNCHANGED answer

AllExpire(w) ==
    /\ wpc[w] = "next"
    /\ pos[w] <= Len(list[w])
    /\ ~IsCancelled(w) /\ ~Done(Awaited(w))
    /\ Expire(w)
    /\ UNCHANGED <<isoVars, observed, cancelVars, gateVars, op, list>>

\* Seeded bug: wait_all returns with the first outcome.
JoinDoneAtFirst(w) ==
    /\ wpc[w] \in {"join", "ticked"}
    /\ Done(Awaited(w))
    /\ observed' = [observed EXCEPT ![Awaited(w)] = TRUE]
    /\ Return(w, "ready")
    /\ UNCHANGED <<isoVars, cancelVars, gateVars, op, list, pos, deadline>>

\* IsolateState::join_inner: the outcome is there, and is now observed.
JoinDone(w) ==
    /\ wpc[w] \in {"join", "ticked"}
    /\ Done(Awaited(w))
    /\ observed' = [observed EXCEPT ![Awaited(w)] = TRUE]
    /\ \/ /\ op[w] = "waitAll"
          /\ pos' = [pos EXCEPT ![w] = @ + 1]
          /\ Goto(w, "next")
          /\ UNCHANGED answer
       \/ op[w] # "waitAll" /\ Return(w, "ready") /\ UNCHANGED pos
    /\ UNCHANGED <<isoVars, cancelVars, gateVars, op, list, deadline>>

JoinPark(w) ==
    /\ wpc[w] = "join"
    /\ ~Done(Awaited(w))
    /\ Goto(w, "joinWait")
    /\ UNCHANGED <<isoVars, observed, cancelVars, gateVars, op, list, pos, deadline, answer>>

Polls(w) == deadline[w] # "none" \/ w \in Cancellable

JoinTick(w) ==
    /\ wpc[w] = "joinWait"
    /\ Polls(w)
    /\ Goto(w, "ticked")
    /\ UNCHANGED <<isoVars, observed, cancelVars, gateVars, op, list, pos, deadline, answer>>

JoinMiss(w) ==
    /\ wpc[w] = "ticked"
    /\ ~Done(Awaited(w))
    /\ Goto(w, "check")
    /\ UNCHANGED <<isoVars, observed, cancelVars, gateVars, op, list, pos, deadline, answer>>

\* Seeded bug: a poll tick does not look at the flag.
JoinCheckNothing(w) ==
    /\ wpc[w] = "check"
    /\ Goto(w, "join")
    /\ UNCHANGED <<isoVars, observed, cancelVars, gateVars, op, list, pos, deadline, answer>>

JoinCheck(w) ==
    /\ wpc[w] = "check"
    /\ IF IsCancelled(w) THEN Return(w, "cancelled") ELSE Goto(w, "join") /\ UNCHANGED answer
    /\ UNCHANGED <<isoVars, observed, cancelVars, gateVars, op, list, pos, deadline>>

\* A pass that began with no time left.
JoinExpire(w) ==
    /\ wpc[w] = "join"
    /\ ~Done(Awaited(w))
    /\ Expire(w)
    /\ UNCHANGED <<isoVars, observed, cancelVars, gateVars, op, list>>

-----------------------------------------------------------------------------
(* wait_any_isolates *)

AnyDone(w) == \E n \in DOMAIN list[w] : Done(list[w][n])

AnyReady(w) ==
    /\ wpc[w] \in {"any", "scan", "last"}
    /\ AnyDone(w)
    /\ Answer(w, "ready")
    /\ Goto(w, IF wpc[w] = "any" THEN "idle" ELSE "leave")
    /\ UNCHANGED <<isoVars, observed, cancelVars, gateVars, op, list, pos, deadline>>

AnyMiss(w) ==
    /\ wpc[w] \in {"any", "scan"}
    /\ ~AnyDone(w)
    /\ Goto(w, IF wpc[w] = "any" THEN "enter" ELSE "decide")
    /\ UNCHANGED <<isoVars, observed, cancelVars, gateVars, op, list, pos, deadline, answer>>

\* Seeded bug: the listener is not counted in.
AnyEnterUncounted(w) ==
    /\ wpc[w] = "enter"
    /\ Goto(w, "lock")
    /\ UNCHANGED <<isoVars, observed, cancelVars, gateVars, op, list, pos, deadline, answer>>

\* WakeListenerGuard::new, a sequentially consistent increment.
AnyEnter(w) ==
    /\ wpc[w] = "enter"
    /\ listeners' = listeners + 1
    /\ Goto(w, "lock")
    /\ UNCHANGED <<isoVars, observed, cancelVars, gateOwner, op, list, pos, deadline, answer>>

\* Seeded bug: no second look once registered and under the gate.
AnyLockNoScan(w) ==
    /\ wpc[w] \in {"lock", "relock"}
    /\ gateOwner = None
    /\ gateOwner' = w
    /\ Goto(w, IF wpc[w] = "lock" THEN "decide" ELSE "last")
    /\ UNCHANGED <<isoVars, observed, cancelVars, listeners, op, list, pos, deadline, answer>>

AnyLock(w) ==
    /\ wpc[w] \in {"lock", "relock"}
    /\ gateOwner = None
    /\ gateOwner' = w
    /\ Goto(w, IF wpc[w] = "lock" THEN "scan" ELSE "last")
    /\ UNCHANGED <<isoVars, observed, cancelVars, listeners, op, list, pos, deadline, answer>>

AnyCancelled(w) ==
    /\ wpc[w] = "decide"
    /\ IsCancelled(w)
    /\ Answer(w, "cancelled")
    /\ Goto(w, "leave")
    /\ UNCHANGED <<isoVars, observed, cancelVars, gateVars, op, list, pos, deadline>>

AnyExpire(w) ==
    /\ \/ wpc[w] = "last" /\ ~AnyDone(w)
       \/ wpc[w] = "decide" /\ ~IsCancelled(w)
    /\ \/ /\ deadline[w] = "timeout"
          /\ Answer(w, "timedOut")
          /\ UNCHANGED deadline
       \/ /\ deadline[w] = "idle"
          /\ deadline' = [deadline EXCEPT ![w] = "none"]
          /\ UNCHANGED answer
    /\ Goto(w, "leave")
    /\ UNCHANGED <<isoVars, observed, cancelVars, gateVars, op, list, pos>>

AnyPark(w) ==
    /\ wpc[w] = "decide"
    /\ ~IsCancelled(w)
    /\ gateOwner' = None
    /\ Goto(w, "gateWait")
    /\ UNCHANGED <<isoVars, observed, cancelVars, listeners, op, list, pos, deadline, answer>>

AnyTimer(w) ==
    /\ wpc[w] = "gateWait"
    /\ deadline[w] # "none"
    /\ Goto(w, "relock")
    /\ UNCHANGED <<isoVars, observed, cancelVars, gateVars, op, list, pos, deadline, answer>>

AnyLeave(w) ==
    /\ wpc[w] = "leave"
    /\ gateOwner' = None
    /\ listeners' = listeners - 1
    /\ Goto(w, IF answer[w] = "none" THEN "any" ELSE "idle")
    /\ UNCHANGED <<isoVars, observed, cancelVars, op, list, pos, deadline, answer>>

Spurious(w) ==
    /\ wpc[w] \in {"joinWait", "gateWait"}
    /\ Goto(w, IF wpc[w] = "joinWait" THEN "join" ELSE "lock")
    /\ UNCHANGED <<isoVars, observed, cancelVars, gateVars, op, list, pos, deadline, answer>>

-----------------------------------------------------------------------------
Finish(i) ==
    FinishStore(i) \/ FinishNotify(i) \/ FinishLoad(i) \/ FinishGateNotify(i)

Cancel(k) == CancelLoad(k) \/ CancelGateNotify(k)

Run(w) ==
    \/ AllNext(w) \/ AllExpire(w)
    \/ JoinDone(w) \/ JoinPark(w) \/ JoinMiss(w) \/ JoinCheck(w) \/ JoinExpire(w)
    \/ AnyReady(w) \/ AnyMiss(w) \/ AnyEnter(w) \/ AnyCancelled(w)
    \/ AnyExpire(w) \/ AnyPark(w) \/ AnyLeave(w)

Timer(w) == JoinTick(w) \/ AnyTimer(w)

Next ==
    \/ \E i \in Isos : Finish(i) \/ FinishGateLock(i)
    \/ \E k \in Cancellers : \/ Cancel(k) \/ CancelGateLock(k) \/ Flush(k)
                             \/ \E w \in Cancellable : CancelStore(k, w)
    \/ \E w \in Waiters : \/ Run(w) \/ AnyLock(w) \/ Timer(w) \/ Spurious(w)
                          \/ \E o \in Uses[w], l \in Lists, timed \in BOOLEAN :
                                Begin(w, o, l, timed)

Spec == Init /\ [][Next]_vars

\* Threads are scheduled, stores reach memory, mutexes are granted and ticks
\* run out.  An isolate need not finish, a cancel need not be called.
FairSpec ==
    /\ Spec
    /\ \A i \in Isos : /\ WF_vars(ipc[i] # "running" /\ Finish(i))
                       /\ SF_vars(FinishGateLock(i))
    /\ \A k \in Cancellers : WF_vars(Cancel(k)) /\ WF_vars(Flush(k)) /\ SF_vars(CancelGateLock(k))
    /\ \A w \in Waiters : WF_vars(Run(w)) /\ SF_vars(AnyLock(w) \/ Timer(w))

-----------------------------------------------------------------------------
(* Properties *)

\* A joiner asleep on a finished isolate's condition variable is about to be
\* notified: finish() stores under the slot's lock and notifies after it.
JoinerWakeup ==
    \A w \in Waiters : wpc[w] = "joinWait" /\ Done(Awaited(w))
        => ipc[Awaited(w)] = "notify"

\* A wait_any asleep on the wake gate with an isolate of its list finished is
\* about to be woken: finish() tests ACTIVE_WAKE_LISTENERS after its store,
\* wait_any raises it before it looks.
FinishWakesGate ==
    \A w \in Waiters : wpc[w] = "gateWait" /\ AnyDone(w)
        => \E i \in Isos : ipc[i] \in {"notify", "load", "gateLock", "gateNotify"}

\* The same of cancel(), which has no barrier between its store and its test:
\* a wait_any asleep on the gate beside its own cancellation is about to be
\* woken, unless the store became visible only after cancel() had found
\* nobody registered and returned (late; the run CancelRace ends there).
CancelWakesGate ==
    \A w \in Waiters : wpc[w] = "gateWait" /\ IsCancelled(w) /\ w \notin late
        => \E k \in Cancellers : kpc[k] \in {"load", "gateLock", "gateNotify"}

\* No wait_any sleeps on the gate beside an isolate that has finished, nor,
\* but for the cancellations that come late, beside its own cancellation.
GateWakeup == FinishWakesGate /\ CancelWakesGate

\* A failure is taken for observed only when its outcome was there to be
\* seen, and every answer is true when it is given: ready only if the whole
\* list (wait_all, join) or one of it (wait_any) is done, cancelled only if
\* the waiter was, a timeout only if one was asked for.
AnswersAreTrue ==
    /\ \A i \in Isos : observed[i] => Done(i)
    /\ \A w \in Waiters :
         /\ answer[w] = "ready" /\ op[w] = "waitAny" => AnyDone(w)
         /\ answer[w] = "ready" /\ op[w] # "waitAny" =>
                \A n \in DOMAIN list[w] : Done(list[w][n])
         /\ answer[w] = "cancelled" => IsCancelled(w)
         /\ answer[w] = "timedOut" => deadline[w] = "timeout"

\* Whoever waits for isolates that have all finished gets an answer.
FinishReleases ==
    \A w \in Waiters :
        (wpc[w] # "idle" /\ \A n \in DOMAIN list[w] : Done(list[w][n])) ~> wpc[w] = "idle"

\* join and wait_all poll: they return once they are cancelled, whatever
\* cancel()'s missing barrier does.
CancelInterruptsPolling ==
    \A w \in Cancellable :
        cancelled[w] /\ op[w] \in {"join", "waitAll"} /\ wpc[w] # "idle" ~> wpc[w] = "idle"

\* join, wait_all and wait_any end for both reasons they have to: finish() of
\* what they wait for, and, where they poll, cancel() of who waits.
WaitersReturn == FinishReleases /\ CancelInterruptsPolling

\* cancel(): "if it is blocked in recv(), send(), join(), wait_any(),
\* wait_all(), or select(), that call is interrupted".
CancelInterrupts ==
    \A w \in Cancellable : cancelled[w] /\ wpc[w] # "idle" ~> wpc[w] = "idle"
=============================================================================
