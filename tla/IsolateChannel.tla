--------------------------- MODULE IsolateChannel ---------------------------
(***************************************************************************)
(* The channels of src/modules/isolate_util/pool.rs: ChannelState with its *)
(* mutex and its two condition variables, and the process-wide wake gate   *)
(* that select() sleeps on.  A step is what a thread does while it holds a *)
(* ChannelState's mutex, or one notification, or one use of the gate's     *)
(* mutex: everything between two steps can be interleaved.                 *)
(*                                                                         *)
(* A thread that runs an isolate, or was given a deadline, waits in ticks  *)
(* of at most CANCEL_POLL_INTERVAL and so may wake at any moment; any      *)
(* other thread waits until it is notified.  recv and select without a     *)
(* timeout wait for IDLE_AFTER first (isolate.rs, wait_quietly) and for as *)
(* long as it takes after that.                                            *)
(*                                                                         *)
(* The locks order everything but cancel(), which stores its flag and then *)
(* loads ACTIVE_WAKE_LISTENERS, both relaxed: the load may be performed    *)
(* while the store still sits in the processor's store buffer.  buffered   *)
(* is that store, at most one for each thread, and Flush writes it back.   *)
(***************************************************************************)
EXTENDS ChannelCalls, FiniteSets

CONSTANTS
    Calls,      \* [Threads -> SUBSET Call]: the calls a thread may make
    NoThread,   \* stands for "the gate's mutex is free"
    MaxQueued   \* bound: messages in, or on their way to, an unbounded channel

ASSUME ThreadsAssumption ==
    /\ IsFiniteSet(Threads)
    /\ Isolates \subseteq Threads
    /\ NoThread \notin Threads
    /\ NoMsg \notin Msgs
    /\ NoChan \notin Chans

ASSUME CallsAssumption ==
    /\ Capacity \in [Chans -> Nat]
    /\ MaxQueued \in Nat
    /\ DOMAIN Calls = Threads
    /\ \A t \in Threads : \A r \in Calls[t] :
         /\ r \in Call
         /\ r.op # "none"
         /\ r.op # "cancel" => r.chans # <<>>
         /\ r.op = "send" => r.msg \in Msgs

VARIABLES
    queue,      \* [Chans -> Seq(Msgs)]   ChannelInner.queue
    closed,     \* [Chans -> BOOLEAN]     ChannelInner.closed
    cancelled,  \* [Threads -> BOOLEAN]   IsolateState.cancelled of its isolate,
                \*   as the other threads see it
    buffered,   \* [Threads -> Isolates \cup {NoThread}]: whom the thread has
                \*   cancelled by a store that is not visible yet
    late,       \* history: the isolates that were asleep in select() when the
                \*   store became visible, cancel() itself being over
    gateOwner,  \* who holds the wake gate's mutex
    listeners,  \* ACTIVE_WAKE_LISTENERS
    pc,         \* [Threads -> Places]
    pos,        \* [Threads -> Nat]: select's place in its list
    deadline,   \* [Threads -> Deadlines] of the wait in progress
    call,       \* [Threads -> Call]
    result      \* [Threads -> Result]

channelVars == <<queue, closed>>
cancelVars == <<cancelled, buffered, late>>
gateVars == <<gateOwner, listeners>>
callVars == <<call, deadline, pos>>
vars == <<channelVars, cancelVars, gateVars, callVars, pc, result>>

\* "idle": the IDLE_AFTER wait that wait_quietly puts before an endless one
Deadlines == {"none", "timeout", "idle"}

Blocked == {"sendWait", "recvWait", "selectWait"}   \* in a wait set

Places == Blocked \cup
    { "idle",
      "send", "sendTicked", "recv", "recvTicked", "check", "try",
      "notifyReceiver", "notifySender", "gateLock", "gateNotify",
      "closeReceivers", "closeSenders", "cancelLoad",
      "select", "selectEnter", "selectLock", "selectRelock",
      "selectScan", "selectLast", "selectDecide", "selectLeave" }

Scanning == {"select", "selectScan", "selectLast"}

TypeOK ==
    /\ queue \in [Chans -> Seq(Msgs)]
    /\ closed \in [Chans -> BOOLEAN]
    /\ cancelled \in [Threads -> BOOLEAN]
    /\ buffered \in [Threads -> Isolates \cup {NoThread}]
    /\ late \subseteq Isolates
    /\ gateOwner \in Threads \cup {NoThread}
    /\ listeners \in Nat
    /\ pc \in [Threads -> Places]
    /\ pos \in [Threads -> Nat]
    /\ deadline \in [Threads -> Deadlines]
    /\ call \in [Threads -> Call]
    /\ result \in [Threads -> Result]

Init ==
    /\ queue = [c \in Chans |-> <<>>]
    /\ closed = [c \in Chans |-> FALSE]
    /\ cancelled = [t \in Threads |-> FALSE]
    /\ buffered = [t \in Threads |-> NoThread]
    /\ late = {}
    /\ gateOwner = NoThread
    /\ listeners = 0
    /\ pc = [t \in Threads |-> "idle"]
    /\ pos = [t \in Threads |-> 1]
    /\ deadline = [t \in Threads |-> "none"]
    /\ call = [t \in Threads |-> NoCall]
    /\ result = [t \in Threads |-> NoResult]

-----------------------------------------------------------------------------
(* Reading the state *)

Chan(t) == call[t].chans[pos[t]]

At(places, c) == {t \in Threads : pc[t] \in places /\ Chan(t) = c}

Available(c) == queue[c] # <<>> \/ closed[c]

Room(c) == closed[c] \/ ~Full(queue, c)

Polls(t) == deadline[t] # "none" \/ t \in Isolates

Goto(t, p) == pc' = [pc EXCEPT ![t] = p]

\* An operation that holds the wake gate still has to let go of it.
Finish(t, r) ==
    /\ result' = [result EXCEPT ![t] = r]
    /\ Goto(t, IF gateOwner = t THEN "selectLeave" ELSE "idle")

-----------------------------------------------------------------------------
(* Calls *)

FirstDeadline(r) ==
    IF r.timed THEN "timeout"
    ELSE IF r.op \in {"recv", "select"} THEN "idle" ELSE "none"

Sending(c) == Cardinality(At({"send", "sendWait", "sendTicked", "check"}, c))

WithinBound(r) ==
    r.op = "send" =>
        LET c == r.chans[1]
        IN  Capacity[c] = 0 => Len(queue[c]) + Sending(c) < MaxQueued

Begin(t, r) ==
    /\ pc[t] = "idle"
    /\ r.op \in {"send", "recv", "try", "select"}
    /\ WithinBound(r)
    /\ call' = [call EXCEPT ![t] = r]
    /\ deadline' = [deadline EXCEPT ![t] = FirstDeadline(r)]
    /\ pos' = [pos EXCEPT ![t] = 1]
    /\ result' = [result EXCEPT ![t] = NoResult]
    /\ Goto(t, r.op)
    /\ UNCHANGED <<channelVars, gateVars, cancelVars>>

Close(t, r) ==
    /\ pc[t] = "idle"
    /\ r.op = "close"
    /\ closed' = [closed EXCEPT ![r.chans[1]] = TRUE]
    /\ call' = [call EXCEPT ![t] = [NoCall EXCEPT !.op = "close", !.chans = <<r.chans[1]>>]]
    /\ pos' = [pos EXCEPT ![t] = 1]
    /\ result' = [result EXCEPT ![t] = NoResult]
    /\ Goto(t, "closeReceivers")
    /\ UNCHANGED <<queue, gateVars, cancelVars, deadline>>

\* IsolateState::cancel, up to its load: the store is on its way.
Cancel(t, r, u) ==
    /\ pc[t] = "idle"
    /\ r.op = "cancel"
    /\ buffered' = [buffered EXCEPT ![t] = u]
    /\ call' = [call EXCEPT ![t] = [NoCall EXCEPT !.op = "cancel"]]
    /\ result' = [result EXCEPT ![t] = NoResult]
    /\ Goto(t, "cancelLoad")
    /\ UNCHANGED <<channelVars, cancelled, late, gateVars, deadline, pos>>

-----------------------------------------------------------------------------
(* send: ChannelState::send_inner *)

SendAccept(t) ==
    /\ pc[t] \in {"send", "sendTicked"}
    /\ ~closed[Chan(t)] /\ ~Full(queue, Chan(t))
    /\ queue' = [queue EXCEPT ![Chan(t)] = Append(@, call[t].msg)]
    /\ result' = [result EXCEPT ![t] = Outcome("sent", Chan(t), NoMsg)]
    /\ Goto(t, "notifyReceiver")
    /\ UNCHANGED <<closed, cancelVars, gateVars, callVars>>

SendRefuse(t) ==
    /\ pc[t] \in {"send", "sendTicked"}
    /\ closed[Chan(t)]
    /\ Finish(t, Outcome("closed", Chan(t), NoMsg))
    /\ UNCHANGED <<channelVars, cancelVars, gateVars, callVars>>

SendPark(t) ==
    /\ pc[t] = "send"
    /\ ~Room(Chan(t))
    /\ Goto(t, "sendWait")
    /\ UNCHANGED <<channelVars, cancelVars, gateVars, callVars, result>>

\* The deadline had passed when this pass began, so its tick was zero.
SendExpire(t) ==
    /\ pc[t] = "send" /\ deadline[t] = "timeout"
    /\ ~Room(Chan(t))
    /\ Finish(t, Outcome("timedOut", NoChan, NoMsg))
    /\ UNCHANGED <<channelVars, cancelVars, gateVars, callVars>>

SendMiss(t) ==
    /\ pc[t] = "sendTicked"
    /\ ~Room(Chan(t))
    /\ Goto(t, "check")
    /\ UNCHANGED <<channelVars, cancelVars, gateVars, callVars, result>>

-----------------------------------------------------------------------------
(* recv and try_recv: ChannelState::recv_inner, ChannelState::try_recv *)

Take(t, c) ==
    /\ queue[c] # <<>>
    /\ queue' = [queue EXCEPT ![c] = Tail(@)]
    /\ result' = [result EXCEPT ![t] = Outcome("value", c, Head(queue[c]))]
    /\ Goto(t, "notifySender")
    /\ UNCHANGED <<closed, cancelVars, gateVars, callVars>>

RecvTake(t) ==
    /\ pc[t] \in {"recv", "recvTicked", "try"}
    /\ Take(t, Chan(t))

\* Seeded bug: closed is tested before the queue is.
RecvClosedFirst(t) ==
    /\ pc[t] \in {"recv", "recvTicked", "try"}
    /\ closed[Chan(t)]
    /\ Finish(t, Outcome("closed", Chan(t), NoMsg))
    /\ UNCHANGED <<channelVars, cancelVars, gateVars, callVars>>

RecvDrained(t) ==
    /\ pc[t] \in {"recv", "recvTicked", "try"}
    /\ queue[Chan(t)] = <<>> /\ closed[Chan(t)]
    /\ Finish(t, Outcome("closed", Chan(t), NoMsg))
    /\ UNCHANGED <<channelVars, cancelVars, gateVars, callVars>>

RecvPark(t) ==
    /\ pc[t] = "recv"
    /\ ~Available(Chan(t))
    /\ Goto(t, "recvWait")
    /\ UNCHANGED <<channelVars, cancelVars, gateVars, callVars, result>>

RecvMiss(t) ==
    /\ pc[t] = "recvTicked"
    /\ ~Available(Chan(t))
    /\ Goto(t, "check")
    /\ UNCHANGED <<channelVars, cancelVars, gateVars, callVars, result>>

\* A zero tick.  The idle wait of an endless recv() is followed by another.
RecvExpire(t) ==
    /\ pc[t] = "recv"
    /\ ~Available(Chan(t))
    /\ \/ /\ deadline[t] = "timeout"
          /\ Finish(t, Outcome("timedOut", NoChan, NoMsg))
          /\ UNCHANGED deadline
       \/ /\ deadline[t] = "idle"
          /\ deadline' = [deadline EXCEPT ![t] = "none"]
          /\ UNCHANGED <<pc, result>>
    /\ UNCHANGED <<channelVars, cancelVars, gateVars, call, pos>>

TryEmpty(t) ==
    /\ pc[t] = "try"
    /\ ~Available(Chan(t))
    /\ Finish(t, Outcome("empty", NoChan, NoMsg))
    /\ UNCHANGED <<channelVars, cancelVars, gateVars, callVars>>

-----------------------------------------------------------------------------
(* Ticks, cancellation, notifications *)

\* The tick of a polling wait runs out (wait_timeout_while gives up).
Tick(t) ==
    /\ pc[t] \in {"sendWait", "recvWait"}
    /\ Polls(t)
    /\ Goto(t, IF pc[t] = "sendWait" THEN "sendTicked" ELSE "recvTicked")
    /\ UNCHANGED <<channelVars, cancelVars, gateVars, callVars, result>>

\* After a tick with nothing to show: is_current_cancelled().
Check(t) ==
    /\ pc[t] = "check"
    /\ IF t \in Isolates /\ cancelled[t]
       THEN Finish(t, Outcome("cancelled", NoChan, NoMsg))
       ELSE Goto(t, call[t].op) /\ UNCHANGED result
    /\ UNCHANGED <<channelVars, cancelVars, gateVars, callVars>>

WokenPlace(t) ==
    CASE pc[t] = "sendWait" -> "send"
      [] pc[t] = "recvWait" -> "recv"
      [] OTHER -> "selectLock"

\* A condition variable may wake a thread that nobody notified.
Spurious(t) ==
    /\ pc[t] \in Blocked
    /\ Goto(t, WokenPlace(t))
    /\ UNCHANGED <<channelVars, cancelVars, gateVars, callVars, result>>

\* pc after t goes to p and the threads of woken leave their wait set.
Waking(woken, t, p) ==
    [u \in Threads |-> IF u = t THEN p
                       ELSE IF u \in woken THEN WokenPlace(u) ELSE pc[u]]

\* Seeded bug: the notification is forgotten.
NotifyNobody(t, waiters, p) == Goto(t, p)

NotifyOne(t, waiters, p) ==
    IF waiters = {} THEN Goto(t, p)
    ELSE \E u \in waiters : pc' = Waking({u}, t, p)

NotifyReceiver(t) ==
    /\ pc[t] = "notifyReceiver"
    /\ NotifyOne(t, At({"recvWait"}, Chan(t)), "gateLock")
    /\ UNCHANGED <<channelVars, cancelVars, gateVars, callVars, result>>

NotifySender(t) ==
    /\ pc[t] = "notifySender"
    /\ NotifyOne(t, At({"sendWait"}, Chan(t)),
                 IF gateOwner = t THEN "selectLeave" ELSE "idle")
    /\ UNCHANGED <<channelVars, cancelVars, gateVars, callVars, result>>

CloseReceivers(t) ==
    /\ pc[t] = "closeReceivers"
    /\ pc' = Waking(At({"recvWait"}, Chan(t)), t, "closeSenders")
    /\ UNCHANGED <<channelVars, cancelVars, gateVars, callVars, result>>

\* Seeded bug: close() forgets the senders.
CloseForgetsSenders(t) ==
    /\ pc[t] = "closeSenders"
    /\ Goto(t, "gateLock")
    /\ UNCHANGED <<channelVars, cancelVars, gateVars, callVars, result>>

CloseSenders(t) ==
    /\ pc[t] = "closeSenders"
    /\ pc' = Waking(At({"sendWait"}, Chan(t)), t, "gateLock")
    /\ UNCHANGED <<channelVars, cancelVars, gateVars, callVars, result>>

\* Seeded bug: cancel() only sets its flag.
CancelSilent(t) ==
    /\ pc[t] = "cancelLoad"
    /\ Goto(t, "idle")
    /\ UNCHANGED <<channelVars, cancelVars, gateVars, callVars, result>>

\* The processor writes the store back.
Flush(t) ==
    /\ buffered[t] # NoThread
    /\ cancelled' = [cancelled EXCEPT ![buffered[t]] = TRUE]
    /\ buffered' = [buffered EXCEPT ![t] = NoThread]
    /\ late' = IF pc[t] = "idle" /\ pc[buffered[t]] = "selectWait" /\ ~cancelled[buffered[t]]
               THEN late \cup {buffered[t]} ELSE late
    /\ UNCHANGED <<channelVars, gateVars, callVars, pc, result>>

\* It may pass the store.
CancelLoad(t) ==
    /\ pc[t] = "cancelLoad"
    /\ Goto(t, IF listeners > 0 THEN "gateLock" ELSE "idle")
    /\ UNCHANGED <<channelVars, cancelVars, gateVars, callVars, result>>

\* Seeded bug: wake_all_waiters does not pass through the gate's mutex.
GateUnlocked(t) ==
    /\ pc[t] = "gateLock"
    /\ Goto(t, "gateNotify")
    /\ UNCHANGED <<channelVars, cancelVars, gateVars, callVars, result>>

\* wake_all_waiters: pass through the gate's mutex, then notify everyone.
\* Acquiring a mutex is a locked instruction: the buffer is empty after it.
GateLock(t) ==
    /\ pc[t] = "gateLock"
    /\ gateOwner = NoThread
    /\ buffered[t] = NoThread
    /\ Goto(t, "gateNotify")
    /\ UNCHANGED <<channelVars, cancelVars, gateVars, callVars, result>>

GateNotify(t) ==
    /\ pc[t] = "gateNotify"
    /\ pc' = Waking({u \in Threads : pc[u] = "selectWait"}, t, "idle")
    /\ UNCHANGED <<channelVars, cancelVars, gateVars, callVars, result>>

-----------------------------------------------------------------------------
(* select: select_channels, under wait_quietly *)

SelectTake(t) ==
    /\ pc[t] \in Scanning
    /\ Take(t, Chan(t))

SelectDrained(t) ==
    /\ pc[t] \in Scanning
    /\ queue[Chan(t)] = <<>> /\ closed[Chan(t)]
    /\ Finish(t, Outcome("closed", Chan(t), NoMsg))
    /\ UNCHANGED <<channelVars, cancelVars, gateVars, callVars>>

\* Nothing on this channel: on to the next one.
SelectSkip(t) ==
    /\ pc[t] \in Scanning
    /\ ~Available(Chan(t))
    /\ pos[t] < Len(call[t].chans)
    /\ pos' = [pos EXCEPT ![t] = @ + 1]
    /\ UNCHANGED <<channelVars, cancelVars, gateVars, call, deadline, pc, result>>

\* Nothing on the last one: what comes after this scan.
SelectMiss(t) ==
    /\ pc[t] \in {"select", "selectScan"}
    /\ ~Available(Chan(t))
    /\ pos[t] = Len(call[t].chans)
    /\ Goto(t, IF pc[t] = "select" THEN "selectEnter" ELSE "selectDecide")
    /\ UNCHANGED <<channelVars, cancelVars, gateVars, callVars, result>>

\* A deadline passed: give up, or start the endless wait.
GiveUp(t) ==
    \/ /\ deadline[t] = "timeout"
       /\ result' = [result EXCEPT ![t] = Outcome("timedOut", NoChan, NoMsg)]
       /\ UNCHANGED deadline
    \/ /\ deadline[t] = "idle"
       /\ deadline' = [deadline EXCEPT ![t] = "none"]
       /\ UNCHANGED result

SelectExpire(t) ==
    /\ \/ /\ pc[t] = "selectLast"
          /\ ~Available(Chan(t))
          /\ pos[t] = Len(call[t].chans)
       \/ /\ pc[t] = "selectDecide"
          /\ ~(t \in Isolates /\ cancelled[t])
    /\ GiveUp(t)
    /\ Goto(t, "selectLeave")
    /\ UNCHANGED <<channelVars, cancelVars, gateVars, call, pos>>

\* Seeded bug: the listener is not counted in.
SelectEnterUncounted(t) ==
    /\ pc[t] = "selectEnter"
    /\ Goto(t, "selectLock")
    /\ UNCHANGED <<channelVars, cancelVars, gateVars, callVars, result>>

\* WakeListenerGuard::new
SelectEnter(t) ==
    /\ pc[t] = "selectEnter"
    /\ listeners' = listeners + 1
    /\ Goto(t, "selectLock")
    /\ UNCHANGED <<channelVars, cancelVars, gateOwner, callVars, result>>

SelectLock(t) ==
    /\ pc[t] \in {"selectLock", "selectRelock"}
    /\ gateOwner = NoThread
    /\ gateOwner' = t
    /\ pos' = [pos EXCEPT ![t] = 1]
    /\ Goto(t, IF pc[t] = "selectLock" THEN "selectScan" ELSE "selectLast")
    /\ UNCHANGED <<channelVars, cancelVars, listeners, call, deadline, result>>

SelectCancelled(t) ==
    /\ pc[t] = "selectDecide"
    /\ t \in Isolates /\ cancelled[t]
    /\ Finish(t, Outcome("cancelled", NoChan, NoMsg))
    /\ UNCHANGED <<channelVars, cancelVars, gateVars, callVars>>

SelectPark(t) ==
    /\ pc[t] = "selectDecide"
    /\ ~(t \in Isolates /\ cancelled[t])
    /\ gateOwner' = NoThread
    /\ Goto(t, "selectWait")
    /\ UNCHANGED <<channelVars, cancelVars, listeners, callVars, result>>

SelectTimer(t) ==
    /\ pc[t] = "selectWait"
    /\ deadline[t] # "none"
    /\ Goto(t, "selectRelock")
    /\ UNCHANGED <<channelVars, cancelVars, gateVars, callVars, result>>

\* The gate's guard, then the WakeListenerGuard, go out of scope.
SelectLeave(t) ==
    /\ pc[t] = "selectLeave"
    /\ gateOwner' = NoThread
    /\ listeners' = listeners - 1
    /\ pos' = [pos EXCEPT ![t] = 1]
    /\ Goto(t, IF result[t] = NoResult THEN "select" ELSE "idle")
    /\ UNCHANGED <<channelVars, cancelVars, call, deadline, result>>

-----------------------------------------------------------------------------
\* A call begins with the buffer empty: most begin with a mutex.
Start(t) ==
    /\ buffered[t] = NoThread
    /\ \E r \in Calls[t] :
          Begin(t, r) \/ Close(t, r) \/ \E u \in Isolates : Cancel(t, r, u)

Send(t) ==
    SendAccept(t) \/ SendRefuse(t) \/ SendPark(t) \/ SendExpire(t) \/ SendMiss(t)

Recv(t) ==
    \/ RecvTake(t) \/ RecvDrained(t) \/ RecvPark(t) \/ RecvMiss(t)
    \/ RecvExpire(t) \/ TryEmpty(t)

Notify(t) ==
    \/ NotifyReceiver(t) \/ NotifySender(t) \/ CloseReceivers(t)
    \/ CloseSenders(t) \/ CancelLoad(t) \/ GateNotify(t)

Select(t) ==
    \/ SelectTake(t) \/ SelectDrained(t) \/ SelectSkip(t) \/ SelectMiss(t)
    \/ SelectExpire(t) \/ SelectEnter(t) \/ SelectCancelled(t) \/ SelectPark(t)
    \/ SelectLeave(t)

Run(t) == Send(t) \/ Recv(t) \/ Check(t) \/ Notify(t) \/ Select(t)

Lock(t) == GateLock(t) \/ SelectLock(t)

Timer(t) == Tick(t) \/ SelectTimer(t)

Next == \E t \in Threads :
    Start(t) \/ Run(t) \/ Lock(t) \/ Timer(t) \/ Spurious(t) \/ Flush(t)

Spec == Init /\ [][Next]_vars

\* Threads are scheduled, stores reach memory, a mutex that is free over and over is acquired, and a
\* tick runs out however often the wait is interrupted (wait_timeout_while
\* counts from its start): a thread that can do one or the other again and again
\* does. Nobody has to make a call or to be woken for no reason.
FairSpec ==
    /\ Spec
    /\ \A t \in Threads :
          WF_vars(Run(t)) /\ WF_vars(Flush(t)) /\ SF_vars(Lock(t) \/ Timer(t))

-----------------------------------------------------------------------------
(* Properties *)

\* No receiver sleeps beside a message (ChannelState::send_inner notifies one
\* receiver after it unlocked, close() all of them): while a receiver is in
\* the wait set, every message in the queue is matched by a receiver that is
\* up and will look, or by a sender that still has to notify; and if the
\* channel is closed, the closer still has to.
ReceiverWakeup ==
    \A c \in Chans : At({"recvWait"}, c) # {} =>
        /\ Len(queue[c]) <= Cardinality(At({"recv", "recvTicked"}, c))
                            + Cardinality(At({"notifyReceiver"}, c))
        /\ closed[c] => At({"closeReceivers"}, c) # {}

\* No sender sleeps beside free room (recv_inner and try_recv notify one
\* sender after they unlocked, whoever took the message), nor on a closed
\* channel, whose closer wakes them all.  In a closed channel the free places
\* are not matched one by one: a sender woken for one is refused, and leaves it.
SenderWakeup ==
    \A c \in Chans : At({"sendWait"}, c) # {} =>
        /\ closed[c] \/ Capacity[c] - Len(queue[c])
                          <= Cardinality(At({"send", "sendTicked"}, c))
                             + Cardinality(At({"notifySender"}, c))
        /\ closed[c] => At({"closeReceivers", "closeSenders"}, c) # {}

\* No select() sleeps beside a channel that has something for it: whoever
\* caused that is still on its way through wake_all_waiters.  Nor beside its
\* own cancellation, with one exception, late: cancel()'s load may pass its
\* store, find nobody registered and let it return before the store can be
\* seen.  The select that fell asleep in between sleeps on (pool.rs:851-852;
\* CancelRace shows the same of wait_any).
SelectWakeup ==
    \A t \in Threads :
        /\ pc[t] = "selectWait"
        /\ \/ \E i \in DOMAIN call[t].chans : Available(call[t].chans[i])
           \/ cancelled[t] /\ t \notin late
        => \E u \in Threads : pc[u] \in { "notifyReceiver", "closeReceivers", "closeSenders",
                                          "cancelLoad", "gateLock", "gateNotify" }

\* Nobody sleeps on a channel, or on several, beside what it waits for: the
\* notifications of send_inner, recv_inner, try_recv, close and
\* wake_all_waiters, all sent after the lock was let go, reach their sleepers.
NoLostWakeup == ReceiverWakeup /\ SenderWakeup /\ SelectWakeup

\* The channels are linearizable: every call has the effect and the outcome
\* that AbstractChannel gives it at one instant between its start and its end.
Pending(t) ==
    call[t].op \in {"send", "recv", "try", "select"} /\ result[t] = NoResult

Abs == INSTANCE AbstractChannel WITH pending <- [t \in Threads |-> Pending(t)]

Linearizable == Abs!Spec

InCall(t, op) == Pending(t) /\ call[t].op = op

\* A receiver with a message to take does not wait for ever while the message
\* stays: it, or somebody else, takes it.
MessagesAreTaken ==
    \A c \in Chans : \A t \in Threads :
        InCall(t, "recv") /\ Chan(t) = c /\ queue[c] # <<>>
            ~> (queue[c] = <<>> \/ ~InCall(t, "recv"))

\* close() lets everybody go: no send, recv or select on a closed channel
\* stays blocked.
CloseReleases ==
    \A t \in Threads :
        (Pending(t) /\ \E i \in DOMAIN call[t].chans : closed[call[t].chans[i]])
            ~> ~Pending(t)

\* The select that cancel()'s relaxed load left asleep.
Overslept(t) == t \in late /\ pc[t] = "selectWait" /\ deadline[t] = "none"

\* cancel() ends whatever blocking call the isolate is in, unless that is a
\* select which its store came too late for.
CancelInterrupts ==
    \A t \in Isolates : cancelled[t] /\ Pending(t) ~> ~Pending(t) \/ Overslept(t)

\* A call that close() released, or cancel() but for Overslept, is over some
\* time, whatever the other senders, receivers and selects do meanwhile.
BlockedCallsEnd == CloseReleases /\ CancelInterrupts

\* Nobody stays blocked who has a message to take or has been released, the
\* select that is Overslept excepted.
EverybodyIsServed == MessagesAreTaken /\ BlockedCallsEnd
=============================================================================
