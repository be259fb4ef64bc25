-------------------------- MODULE MCIsolateChannel --------------------------
(* Small instances of IsolateChannel for TLC. *)
EXTENDS IsolateChannel, TLC

CONSTANTS t1, t2, t3, c1, c2, m1, m2

On(op, cs, m, timed) == [op |-> op, chans |-> cs, msg |-> m, timed |-> timed]

Sends(c) == {On("send", <<c>>, m, FALSE) : m \in Msgs}
Recvs(c) == {On("recv", <<c>>, NoMsg, FALSE)}
RecvsTimed(c) == {On("recv", <<c>>, NoMsg, TRUE)}
Tries(c) == {On("try", <<c>>, NoMsg, FALSE)}
Closes(c) == {On("close", <<c>>, NoMsg, FALSE)}
Cancels == {On("cancel", <<>>, NoMsg, FALSE)}
Selects(cs, timed) == {On("select", cs, NoMsg, timed)}

\* Two producers and two consumers of a bounded channel, one of whom may also
\* close it and cancel the other, and a timed select over it and an unbounded one.
SafetyCapacity == c1 :> 2 @@ c2 :> 0

SafetyCalls ==
    t1 :> {On("send", <<c1>>, m2, FALSE), On("send", <<c2>>, m1, FALSE)}
    @@ t2 :> ({On("send", <<c1>>, m1, TRUE)} \cup Recvs(c1) \cup Closes(c1) \cup Cancels)
    @@ t3 :> (RecvsTimed(c1) \cup Selects(<<c1, c2>>, TRUE))

\* For liveness: blocking calls of every kind against close and cancel.
LiveCapacity == c1 :> 1

LiveCalls ==
    t1 :> Sends(c1)
    @@ t2 :> (Tries(c1) \cup Recvs(c1) \cup Closes(c1) \cup Cancels)
    @@ t3 :> (Recvs(c1) \cup Selects(<<c1>>, FALSE))
=============================================================================
