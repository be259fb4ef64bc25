--------------------------- MODULE AbstractChannel ---------------------------
(***************************************************************************)
(* What zuri's channels promise their callers, with every operation taking *)
(* effect at one instant between its call and its return: bounded FIFO     *)
(* queues that can be closed, are drained before they report it, and whose *)
(* blocking calls may end early only by a deadline the caller gave or by   *)
(* the cancellation of the calling isolate.  A cancellation alone may take *)
(* effect after cancel() has returned.  IsolateChannel, the model of the   *)
(* locks, condition variables and wake gate of pool.rs, implements it.     *)
(***************************************************************************)
EXTENDS ChannelCalls

VARIABLES
    queue,      \* [Chans -> Seq(Msgs)]
    closed,     \* [Chans -> BOOLEAN]
    cancelled,  \* [Threads -> BOOLEAN]
    pending,    \* [Threads -> BOOLEAN]: called, has not taken effect yet
    call,       \* [Threads -> Call]: the last call of each thread
    result      \* [Threads -> Result]: what it returns

vars == <<queue, closed, cancelled, pending, call, result>>

Init ==
    /\ queue = [c \in Chans |-> <<>>]
    /\ closed = [c \in Chans |-> FALSE]
    /\ cancelled = [t \in Threads |-> FALSE]
    /\ pending = [t \in Threads |-> FALSE]
    /\ call = [t \in Threads |-> NoCall]
    /\ result = [t \in Threads |-> NoResult]

Invoke(t) ==
    /\ ~pending[t]
    /\ call'[t] \in Call
    /\ call'[t].op \in {"send", "recv", "try", "select"}
    /\ call' = [call EXCEPT ![t] = call'[t]]
    /\ pending' = [pending EXCEPT ![t] = TRUE]
    /\ result' = [result EXCEPT ![t] = NoResult]
    /\ UNCHANGED <<queue, closed, cancelled>>

Respond(t, r) ==
    /\ pending[t]
    /\ pending' = [pending EXCEPT ![t] = FALSE]
    /\ result' = [result EXCEPT ![t] = r]
    /\ UNCHANGED <<call, cancelled>>

\* Sends: appended to an open channel with room, or refused by a closed one.
Accept(t, c) ==
    /\ call[t].op = "send" /\ c = call[t].chans[1]
    /\ ~closed[c] /\ ~Full(queue, c)
    /\ queue' = [queue EXCEPT ![c] = Append(@, call[t].msg)]
    /\ Respond(t, Outcome("sent", c, NoMsg))
    /\ UNCHANGED closed

Refuse(t, c) ==
    /\ call[t].op = "send" /\ c = call[t].chans[1]
    /\ closed[c]
    /\ Respond(t, Outcome("closed", c, NoMsg))
    /\ UNCHANGED <<queue, closed>>

\* Receives: the oldest message, of a closed channel too; closed only once
\* the channel is drained.
Listens(t, c) ==
    /\ call[t].op \in {"recv", "try", "select"}
    /\ \E i \in DOMAIN call[t].chans : call[t].chans[i] = c

Deliver(t, c) ==
    /\ Listens(t, c)
    /\ queue[c] # <<>>
    /\ queue' = [queue EXCEPT ![c] = Tail(@)]
    /\ Respond(t, Outcome("value", c, Head(queue[c])))
    /\ UNCHANGED closed

Drained(t, c) ==
    /\ Listens(t, c)
    /\ queue[c] = <<>> /\ closed[c]
    /\ Respond(t, Outcome("closed", c, NoMsg))
    /\ UNCHANGED <<queue, closed>>

Empty(t, c) ==
    /\ call[t].op = "try" /\ Listens(t, c)
    /\ queue[c] = <<>> /\ ~closed[c]
    /\ Respond(t, Outcome("empty", NoChan, NoMsg))
    /\ UNCHANGED <<queue, closed>>

\* A deadline ends a call only when the channel has nothing for it at that
\* instant (select looks at its channels one after the other, so for select
\* there need be no such instant for all of them together).
TimeOut(t) ==
    /\ call[t].timed
    /\ \/ call[t].op = "send" /\ Full(queue, call[t].chans[1])
          /\ ~closed[call[t].chans[1]]
       \/ call[t].op = "recv" /\ queue[call[t].chans[1]] = <<>>
          /\ ~closed[call[t].chans[1]]
       \/ call[t].op = "select"
    /\ Respond(t, Outcome("timedOut", NoChan, NoMsg))
    /\ UNCHANGED <<queue, closed>>

Interrupt(t) ==
    /\ t \in Isolates /\ cancelled[t]
    /\ call[t].op \in {"send", "recv", "select"}
    /\ Respond(t, Outcome("cancelled", NoChan, NoMsg))
    /\ UNCHANGED <<queue, closed>>

Close(t, c) ==
    /\ ~pending[t]
    /\ closed' = [closed EXCEPT ![c] = TRUE]
    /\ call' = [call EXCEPT ![t] = [NoCall EXCEPT !.op = "close", !.chans = <<c>>]]
    /\ result' = [result EXCEPT ![t] = NoResult]
    /\ UNCHANGED <<queue, cancelled, pending>>

Cancel(t) ==
    /\ ~pending[t]
    /\ call' = [call EXCEPT ![t] = [NoCall EXCEPT !.op = "cancel"]]
    /\ result' = [result EXCEPT ![t] = NoResult]
    /\ UNCHANGED <<queue, closed, cancelled, pending>>

\* A cancellation is seen, before the thread that asked for it calls again.
Mark(t, u) ==
    /\ call[t].op = "cancel"
    /\ cancelled' = [cancelled EXCEPT ![u] = TRUE]
    /\ UNCHANGED <<queue, closed, pending, call, result>>

Step(t) ==
    \/ Invoke(t) \/ TimeOut(t) \/ Interrupt(t) \/ Cancel(t)
    \/ \E c \in Chans : \/ Accept(t, c) \/ Refuse(t, c) \/ Deliver(t, c)
                        \/ Drained(t, c) \/ Empty(t, c) \/ Close(t, c)
    \/ \E u \in Isolates : Mark(t, u)

Next == \E t \in Threads : Step(t)

Spec == Init /\ [][Next]_vars
=============================================================================
