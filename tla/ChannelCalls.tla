---------------------------- MODULE ChannelCalls ----------------------------
(***************************************************************************)
(* The calls that zuri threads make on channels and the outcomes they get, *)
(* shared by AbstractChannel (what a channel promises) and IsolateChannel  *)
(* (what pool.rs does).                                                    *)
(***************************************************************************)
EXTENDS Naturals, Sequences

CONSTANTS
    Threads,    \* OS threads that use the channels
    Isolates,   \* those that run an isolate, and so can be cancelled
    Chans,      \* channels
    Msgs,       \* messages, already captured into transfer graphs
    Capacity,   \* [Chans -> Nat], 0 for an unbounded channel
    NoMsg,      \* stands for "no message"
    NoChan      \* stands for "no channel"

Full(q, c) == Capacity[c] # 0 /\ Len(q[c]) >= Capacity[c]

\* What a call asks for.  chans has one element except for select.
Call == [op : {"none", "send", "recv", "try", "select", "close", "cancel"},
         chans : Seq(Chans), msg : Msgs \cup {NoMsg}, timed : BOOLEAN]

Kinds == {"none", "sent", "value", "closed", "empty", "timedOut", "cancelled"}

Result == [kind : Kinds, chan : Chans \cup {NoChan}, msg : Msgs \cup {NoMsg}]

NoCall == [op |-> "none", chans |-> <<>>, msg |-> NoMsg, timed |-> FALSE]

Outcome(k, c, m) == [kind |-> k, chan |-> c, msg |-> m]

NoResult == Outcome("none", NoChan, NoMsg)
=============================================================================
