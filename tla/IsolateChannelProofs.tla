------------------------ MODULE IsolateChannelProofs ------------------------
(***************************************************************************)
(* Proofs about IsolateChannel, for any number of threads and channels and *)
(* any calls they make: the types, that no notification is lost, and that  *)
(* the locks and condition variables implement AbstractChannel.            *)
(***************************************************************************)
EXTENDS IsolateChannel, FiniteSetTheorems, SequenceTheorems, TLAPS

SendPlaces == {"send", "sendTicked", "sendWait"}
RecvPlaces == {"recv", "recvTicked", "recvWait"}

\* Where select() has the gate, and where it is counted as a listener.
Inside == {"selectScan", "selectLast", "selectDecide", "selectLeave"}
Listening == Inside \cup {"selectLock", "selectRelock", "selectWait"}

\* Where a call has not taken effect yet.
Waiting == SendPlaces \cup RecvPlaces
           \cup {"check", "try", "select", "selectEnter"} \cup (Listening \ {"selectLeave"})

Operations == {"send", "recv", "try", "select"}

\* A thread is at a place of the operation it called.
CallFit(t) ==
    /\ pc[t] \in SendPlaces \cup {"notifyReceiver"} => call[t].op = "send"
    /\ pc[t] \in RecvPlaces => call[t].op = "recv"
    /\ pc[t] = "check" => call[t].op \in {"send", "recv"}
    /\ pc[t] = "try" => call[t].op = "try"
    /\ pc[t] \in Listening \cup {"select", "selectEnter"} => call[t].op = "select"
    /\ pc[t] = "notifySender" => call[t].op \in {"recv", "try", "select"}
    /\ pc[t] \in {"closeReceivers", "closeSenders"} => call[t].op = "close"
    /\ pc[t] = "cancelLoad" => call[t].op = "cancel"
    /\ call[t].op = "send" => call[t].msg \in Msgs
    /\ call[t].op \notin {"none", "cancel"} => pos[t] \in DOMAIN call[t].chans
    /\ call[t].op \in {"send", "recv", "try"} => pos[t] = 1
    /\ call[t].op \in Operations /\ deadline[t] = "timeout" => call[t].timed

\* A call has its outcome from the instant at which it takes effect.
ResultFit(t) ==
    /\ pc[t] \in Waiting => result[t] = NoResult
    /\ call[t].op \in Operations /\ pc[t] \notin Waiting \cup {"selectLeave"} =>
         result[t] # NoResult

\* The gate's mutex belongs to the select() that is scanning, or to the one
\* that took a message and notifies its sender.
GateFit(t) ==
    /\ pc[t] \in Inside => gateOwner = t
    /\ gateOwner = t => pc[t] \in Inside \cup {"notifySender"} /\ call[t].op = "select"

Fits == \A t \in Threads : CallFit(t) /\ ResultFit(t) /\ GateFit(t)

Listeners == {t \in Threads : pc[t] \in Listening \/ gateOwner = t}

ListenersCounted == listeners = Cardinality(Listeners)

\* Only a cancel() leaves a store behind, and no later call of its thread
\* finds it there.
BufferFit(t) ==
    buffered[t] # NoThread => /\ pc[t] \in {"idle", "cancelLoad", "gateLock"}
                              /\ call[t].op = "cancel"

Buffers == \A t \in Threads : BufferFit(t)

ChannelInv == TypeOK /\ Fits /\ Buffers /\ ListenersCounted

\* Who has made something available, or cancelled, and has not been through the
\* gate since.
BeforeGate == {"notifyReceiver", "closeReceivers", "closeSenders", "cancelLoad", "gateLock"}

SomebodyIn(places) == \E u \in Threads : pc[u] \in places

\* select() goes to sleep only on channels it found empty while it held the
\* gate: who fills one behind its back has the gate still to pass.
SelectInv ==
    \A t \in Threads :
        /\ pc[t] = "selectScan" =>
             \A i \in 1 .. (pos[t] - 1) : Available(call[t].chans[i]) => SomebodyIn(BeforeGate)
        /\ pc[t] = "selectDecide" =>
             \A i \in DOMAIN call[t].chans : Available(call[t].chans[i]) => SomebodyIn(BeforeGate)
        /\ pc[t] = "selectWait" =>
             /\ \A i \in DOMAIN call[t].chans :
                  Available(call[t].chans[i]) => SomebodyIn(BeforeGate \cup {"gateNotify"})
             /\ cancelled[t] /\ t \notin late => SomebodyIn(BeforeGate \cup {"gateNotify"})
        /\ cancelled[t] => t \in Isolates

WakeInv == ChannelInv /\ ReceiverWakeup /\ SenderWakeup /\ SelectInv
-----------------------------------------------------------------------------
(* Sequences and sets *)

\* What Append, Head and Tail do to a queue.
LEMMA Queues ==
    ASSUME NEW S, NEW s \in Seq(S)
    PROVE  /\ Len(s) \in Nat /\ DOMAIN s = 1 .. Len(s)
           /\ s = <<>> <=> Len(s) = 0
           /\ \A e \in S : /\ Append(s, e) \in Seq(S) /\ Len(Append(s, e)) = Len(s) + 1
           /\ s # <<>> => Head(s) \in S /\ Tail(s) \in Seq(S) /\ Len(Tail(s)) = Len(s) - 1
<1>1. \A e \in S : Append(s, e) \in Seq(S) /\ Len(Append(s, e)) = Len(s) + 1
  BY AppendProperties
<1>2. s # <<>> => Head(s) \in S /\ Tail(s) \in Seq(S) /\ Len(Tail(s)) = Len(s) - 1
  BY HeadTailProperties
<1>3. Len(s) \in Nat /\ DOMAIN s = 1 .. Len(s) /\ (s = <<>> <=> Len(s) = 0)
  BY LenProperties, EmptySeq
<1> QED  BY <1>1, <1>2, <1>3

\* Subsets of the threads can be counted.
LEMMA ThreadSets ==
    ASSUME NEW S \in SUBSET Threads
    PROVE  /\ IsFiniteSet(S) /\ Cardinality(S) \in Nat
           /\ S # {} => Cardinality(S) # 0
           /\ \A t \in Threads \ S : Cardinality(S \cup {t}) = Cardinality(S) + 1
           /\ \A t \in S : Cardinality(S \ {t}) = Cardinality(S) - 1
           /\ \A T \in SUBSET S : Cardinality(T) <= Cardinality(S)
<1>1. IsFiniteSet(S) /\ Cardinality(S) \in Nat
  BY ThreadsAssumption, FS_Subset, FS_CardinalityType
<1>2. \A t \in Threads \ S : Cardinality(S \cup {t}) = Cardinality(S) + 1
  BY <1>1, FS_AddElement
<1>3. \A t \in S : Cardinality(S \ {t}) = Cardinality(S) - 1
  BY <1>1, FS_RemoveElement
<1>4. S # {} => Cardinality(S) # 0
  BY <1>1, FS_EmptySet
<1>5. \A T \in SUBSET S : Cardinality(T) <= Cardinality(S)
  BY <1>1, FS_Subset
<1> QED  BY <1>1, <1>2, <1>3, <1>4, <1>5

\* The outcomes are results, and none of them is "no result yet".
LEMMA Outcomes ==
    /\ NoResult \in Result
    /\ \A c \in Chans \cup {NoChan}, m \in Msgs \cup {NoMsg}, k \in Kinds :
         Outcome(k, c, m) \in Result /\ (k # "none" => Outcome(k, c, m) # NoResult)
  BY DEF NoResult, Outcome, Result, Kinds
-----------------------------------------------------------------------------
(* Types and structure *)

Acts(t) == Start(t) \/ Run(t) \/ Lock(t) \/ Timer(t) \/ Spurious(t)

\* A thread that is not at a move keeps what is its own, and at most leaves its
\* wait set.
LEMMA Others ==
    ASSUME TypeOK, NEW t \in Threads, Acts(t), NEW u \in Threads, u # t
    PROVE  /\ call'[u] = call[u] /\ pos'[u] = pos[u] /\ deadline'[u] = deadline[u]
           /\ result'[u] = result[u]
           /\ pc'[u] = pc[u] \/ (pc[u] \in Blocked /\ pc'[u] = WokenPlace(u))
<1> USE DEF TypeOK
<1>1. CASE Start(t)
  BY <1>1 DEF Start, Begin, Close, Cancel, Goto
<1>2. CASE Send(t) \/ Recv(t)
  BY <1>2 DEF Send, SendAccept, SendRefuse, SendPark, SendExpire, SendMiss, Recv, RecvTake, Take,
     RecvDrained, RecvPark, RecvMiss, RecvExpire, TryEmpty, Goto, Finish, callVars
<1>3. CASE Check(t) \/ Lock(t) \/ Timer(t) \/ Spurious(t)
  BY <1>3 DEF Check, Lock, GateLock, SelectLock, Timer, Tick, SelectTimer, Spurious, Goto, Finish,
     callVars
<1>4. CASE Select(t)
  BY <1>4 DEF Select, SelectTake, SelectDrained, SelectSkip, SelectMiss, SelectExpire, GiveUp,
     SelectEnter, SelectCancelled, SelectPark, SelectLeave, Take, Goto, Finish, callVars
<1>5. CASE Notify(t)
  <2>1. UNCHANGED <<call, pos, deadline, result>>
    BY <1>5 DEF Notify, NotifyReceiver, NotifySender, CloseReceivers, CloseSenders, CancelLoad,
       GateNotify, callVars
  <2>2. ASSUME NEW waiters \in SUBSET Threads, NEW p,
               \A w \in waiters : pc[w] \in Blocked,
               pc' = Waking(waiters, t, p)
        PROVE  pc'[u] = pc[u] \/ (pc[u] \in Blocked /\ pc'[u] = WokenPlace(u))
    BY <2>2 DEF Waking
  <2>3. \A P \in SUBSET Blocked : \A c : /\ At(P, c) \in SUBSET Threads
                                          /\ \A w \in At(P, c) : pc[w] \in Blocked
    BY DEF At
  <2>4. ASSUME NEW P \in SUBSET Blocked, NEW c, NEW p, NotifyOne(t, At(P, c), p)
        PROVE  pc'[u] = pc[u] \/ (pc[u] \in Blocked /\ pc'[u] = WokenPlace(u))
    <3>1. CASE pc' = [pc EXCEPT ![t] = p]
      BY <3>1
    <3>2. ASSUME NEW w \in At(P, c), pc' = Waking({w}, t, p)
          PROVE  pc'[u] = pc[u] \/ (pc[u] \in Blocked /\ pc'[u] = WokenPlace(u))
      <4>1. {w} \in SUBSET Threads /\ \A x \in {w} : pc[x] \in Blocked
        BY <2>3
      <4> QED  BY <2>2, <3>2, <4>1
    <3> QED  BY <2>4, <3>1, <3>2 DEF NotifyOne, Goto
  <2>5. CASE NotifyReceiver(t)
    BY <2>1, <2>4, <2>5 DEF NotifyReceiver, Blocked
  <2>6. CASE NotifySender(t)
    BY <2>1, <2>4, <2>6 DEF NotifySender, Blocked
  <2>7. CASE CloseReceivers(t) \/ CloseSenders(t)
    <3>1. ASSUME NEW q \in Blocked, NEW p, pc' = Waking(At({q}, Chan(t)), t, p)
          PROVE  pc'[u] = pc[u] \/ (pc[u] \in Blocked /\ pc'[u] = WokenPlace(u))
      <4>1. At({q}, Chan(t)) \in SUBSET Threads /\ \A w \in At({q}, Chan(t)) : pc[w] \in Blocked
        BY <2>3
      <4> QED  BY <2>2, <3>1, <4>1
    <3>2. "recvWait" \in Blocked /\ "sendWait" \in Blocked
      BY DEF Blocked
    <3> QED  BY <2>1, <2>7, <3>1, <3>2 DEF CloseReceivers, CloseSenders
  <2>8. CASE CancelLoad(t)
    BY <2>1, <2>8 DEF CancelLoad, Goto
  <2>9. CASE GateNotify(t)
    <3>1. \A w \in {x \in Threads : pc[x] = "selectWait"} : pc[w] \in Blocked
      BY DEF Blocked
    <3> QED  BY <2>1, <2>2, <2>9, <3>1 DEF GateNotify
  <2> QED  BY <1>5, <2>5, <2>6, <2>7, <2>8, <2>9 DEF Notify
<1> QED  BY <1>1, <1>2, <1>3, <1>4, <1>5 DEF Acts, Run
\* The gate's mutex changes hands between "nobody" and the thread that moves.
LEMMA GateMoves ==
    ASSUME ChannelInv, NEW t \in Threads, Acts(t)
    PROVE  \/ gateOwner' = gateOwner
           \/ gateOwner = NoThread /\ gateOwner' = t
           \/ gateOwner = t /\ gateOwner' = NoThread
<1>1. CASE Start(t)
  BY <1>1 DEF Start, Begin, Close, Cancel, gateVars
<1>2. CASE Send(t) \/ Recv(t)
  BY <1>2 DEF Send, SendAccept, SendRefuse, SendPark, SendExpire, SendMiss, Recv, RecvTake, Take,
     RecvDrained, RecvPark, RecvMiss, RecvExpire, TryEmpty, gateVars
<1>3. CASE Check(t) \/ Lock(t) \/ Timer(t) \/ Spurious(t)
  BY <1>3 DEF Check, Lock, GateLock, SelectLock, Timer, Tick, SelectTimer, Spurious, gateVars
<1>4. CASE Select(t)
  <2>1. pc[t] \in Inside => gateOwner = t
    BY DEF ChannelInv, Fits, GateFit
  <2> QED  BY <1>4, <2>1 DEF Select, SelectTake, SelectDrained, SelectSkip, SelectMiss, SelectExpire,
     SelectEnter, SelectCancelled, SelectPark, SelectLeave, Take, gateVars, Inside
<1>5. CASE Notify(t)
  BY <1>5 DEF Notify, NotifyReceiver, NotifySender, CloseReceivers, CloseSenders, CancelLoad,
       GateNotify, gateVars
<1> QED  BY <1>1, <1>2, <1>3, <1>4, <1>5 DEF Acts, Run

\* A thread that is woken is at a place of its operation, and one that is left
\* alone stays at one.
LEMMA OthersFit ==
    ASSUME ChannelInv, NEW t \in Threads, Acts(t), NEW u \in Threads, u # t
    PROVE  (CallFit(u) /\ ResultFit(u) /\ GateFit(u))'
<1>0. CallFit(u) /\ ResultFit(u) /\ GateFit(u) /\ TypeOK /\ NoThread \notin Threads
  BY ThreadsAssumption DEF ChannelInv, Fits
<1>1. /\ call'[u] = call[u] /\ pos'[u] = pos[u] /\ deadline'[u] = deadline[u]
      /\ result'[u] = result[u]
      /\ pc'[u] = pc[u] \/ (pc[u] \in Blocked /\ pc'[u] = WokenPlace(u))
  BY <1>0, Others
<1>2. gateOwner' = u <=> gateOwner = u
  BY <1>0, GateMoves
<1>3. CASE pc'[u] = pc[u]
  BY <1>0, <1>1, <1>2, <1>3 DEF CallFit, ResultFit, GateFit
<1>4. CASE /\ gateOwner # u
           /\ \/ pc[u] = "sendWait" /\ pc'[u] = "send"
              \/ pc[u] = "recvWait" /\ pc'[u] = "recv"
              \/ pc[u] = "selectWait" /\ pc'[u] = "selectLock"
  BY <1>0, <1>1, <1>2, <1>4 DEF CallFit, ResultFit, GateFit, SendPlaces, RecvPlaces, Listening, Inside,
     Waiting
<1>5. pc[u] \in Blocked => gateOwner # u
  BY <1>0 DEF GateFit, Blocked, Inside
<1> QED  BY <1>1, <1>3, <1>4, <1>5 DEF Blocked, WokenPlace

\* A call that begins is one the thread may make.
LEMMA CallsAre ==
    ASSUME NEW t \in Threads, NEW r \in Calls[t]
    PROVE  /\ r \in Call /\ r.op # "none"
           /\ r.op # "cancel" => r.chans # <<>> /\ r.chans[1] \in Chans /\ 1 \in DOMAIN r.chans
           /\ r.op = "send" => r.msg \in Msgs
<1>1. /\ r \in Call /\ r.op # "none" /\ (r.op # "cancel" => r.chans # <<>>)
      /\ (r.op = "send" => r.msg \in Msgs)
  BY CallsAssumption
<1>2. r.chans \in Seq(Chans)
  BY <1>1 DEF Call
<1>3. r.chans # <<>> => 1 \in DOMAIN r.chans /\ r.chans[1] \in Chans
  <2>1. r.chans # <<>> => Len(r.chans) \in Nat \ {0} /\ DOMAIN r.chans = 1 .. Len(r.chans)
    BY <1>2, Queues
  <2> QED  BY <1>2, <2>1, ElementOfSeq
<1> QED  BY <1>1, <1>3

\* The thread that moves goes to a place of its operation, with an outcome
\* exactly when its call takes effect, and with the gate where it is to have it.
LEMMA OwnFits ==
    ASSUME ChannelInv, NEW t \in Threads, Acts(t)
    PROVE  (CallFit(t) /\ ResultFit(t) /\ GateFit(t))'
<1> USE DEF CallFit, ResultFit, GateFit, SendPlaces, RecvPlaces, Inside, Listening, Waiting,
            Operations, TypeOK, Goto
<1>0. CallFit(t) /\ ResultFit(t) /\ GateFit(t) /\ TypeOK /\ NoThread \notin Threads
  BY ThreadsAssumption DEF ChannelInv, Fits
<1>1. \A k, c, m : k # "none" => Outcome(k, c, m) # NoResult
  BY DEF Outcome, NoResult
\* What an action that gives the call its outcome leaves behind.
<1>8. ASSUME UNCHANGED <<call, pos, deadline, gateOwner>>, pc[t] \in Waiting, result'[t] # NoResult,
             \/ pc'[t] = IF gateOwner = t THEN "selectLeave" ELSE "idle"
             \/ pc'[t] = "notifyReceiver" /\ call[t].op = "send"
             \/ pc'[t] = "notifySender" /\ call[t].op \in {"recv", "try", "select"}
      PROVE  (CallFit(t) /\ ResultFit(t) /\ GateFit(t))'
  BY <1>0, <1>8
<1>9. call[t].op \notin {"none", "cancel"} => 1 \in DOMAIN call[t].chans
  <2>1. call[t].chans \in Seq(Chans)
    BY <1>0 DEF Call
  <2>2. Len(call[t].chans) \in Nat /\ DOMAIN call[t].chans = 1 .. Len(call[t].chans)
    BY <2>1, Queues
  <2> QED  BY <1>0, <2>2
<1>2. CASE Start(t)
  <2>1. ASSUME NEW r \in Calls[t], Begin(t, r) PROVE (CallFit(t) /\ ResultFit(t) /\ GateFit(t))'
    <3>1. /\ r.op \in Operations /\ 1 \in DOMAIN r.chans /\ (r.op = "send" => r.msg \in Msgs)
          /\ call'[t] = r /\ deadline'[t] = FirstDeadline(r) /\ pos'[t] = 1
          /\ result'[t] = NoResult /\ pc'[t] = r.op /\ gateOwner' = gateOwner /\ pc[t] = "idle"
      BY <1>0, <2>1, CallsAre DEF Begin, gateVars
    <3>2. FirstDeadline(r) = "timeout" => r.timed
      BY DEF FirstDeadline
    <3> QED  BY <1>0, <3>1, <3>2
  <2>2. ASSUME NEW r \in Calls[t], Close(t, r) PROVE (CallFit(t) /\ ResultFit(t) /\ GateFit(t))'
    <3>1. /\ call'[t] = [NoCall EXCEPT !.op = "close", !.chans = <<r.chans[1]>>] /\ pos'[t] = 1
          /\ pc'[t] = "closeReceivers" /\ gateOwner' = gateOwner /\ pc[t] = "idle"
      BY <1>0, <2>2 DEF Close, gateVars
    <3>2. call'[t].op = "close" /\ 1 \in DOMAIN call'[t].chans
      BY <3>1 DEF NoCall
    <3> QED  BY <1>0, <3>1, <3>2
  <2>3. ASSUME NEW r \in Calls[t], NEW u \in Isolates, Cancel(t, r, u)
        PROVE  (CallFit(t) /\ ResultFit(t) /\ GateFit(t))'
    <3>1. /\ call'[t] = [NoCall EXCEPT !.op = "cancel"]
          /\ pc'[t] = "cancelLoad" /\ gateOwner' = gateOwner /\ pc[t] = "idle"
      BY <1>0, <2>3 DEF Cancel, gateVars
    <3>2. call'[t].op = "cancel"
      BY <3>1 DEF NoCall
    <3> QED  BY <1>0, <3>1, <3>2
  <2> QED  BY <1>2, <2>1, <2>2, <2>3 DEF Start
<1>3. CASE Send(t)
  <2>1. CASE SendAccept(t)
    <3>1. UNCHANGED <<call, pos, deadline, gateOwner>> /\ pc[t] \in Waiting
      BY <1>0, <2>1 DEF SendAccept, callVars, gateVars
    <3>2. result'[t] # NoResult
      BY <1>0, <1>1, <2>1 DEF SendAccept, Finish
    <3>3. pc'[t] = "notifyReceiver" /\ call[t].op = "send"
      BY <1>0, <2>1 DEF SendAccept, Finish
    <3> QED  BY <1>0, <1>8, <3>1, <3>2, <3>3
  <2>2. CASE SendRefuse(t)
    <3>1. UNCHANGED <<call, pos, deadline, gateOwner>> /\ pc[t] \in Waiting
      BY <1>0, <2>2 DEF SendRefuse, callVars, gateVars
    <3>2. result'[t] # NoResult
      BY <1>0, <1>1, <2>2 DEF SendRefuse, Finish
    <3>3. pc'[t] = IF gateOwner = t THEN "selectLeave" ELSE "idle"
      BY <1>0, <2>2 DEF SendRefuse, Finish
    <3> QED  BY <1>0, <1>8, <3>1, <3>2, <3>3
  <2>3. CASE SendPark(t)
    BY <1>0, <1>1, <2>3 DEF SendPark, Finish, callVars, gateVars, Kinds
  <2>4. CASE SendExpire(t)
    BY <1>0, <1>1, <2>4 DEF SendExpire, Finish, callVars, gateVars, Kinds
  <2>5. CASE SendMiss(t)
    BY <1>0, <1>1, <2>5 DEF SendMiss, Finish, callVars, gateVars, Kinds
  <2> QED  BY <1>3, <2>1, <2>2, <2>3, <2>4, <2>5 DEF Send
<1>4. CASE Recv(t)
  <2>1. CASE RecvTake(t)
    <3>1. UNCHANGED <<call, pos, deadline, gateOwner>> /\ pc[t] \in Waiting
      BY <1>0, <2>1 DEF RecvTake, Take, callVars, gateVars
    <3>2. result'[t] # NoResult
      BY <1>0, <1>1, <2>1 DEF RecvTake, Take, Finish
    <3>3. pc'[t] = "notifySender" /\ call[t].op \in {"recv", "try", "select"}
      BY <1>0, <2>1 DEF RecvTake, Take, Finish
    <3> QED  BY <1>0, <1>8, <3>1, <3>2, <3>3
  <2>2. CASE RecvDrained(t)
    <3>1. UNCHANGED <<call, pos, deadline, gateOwner>> /\ pc[t] \in Waiting
      BY <1>0, <2>2 DEF RecvDrained, callVars, gateVars
    <3>2. result'[t] # NoResult
      BY <1>0, <1>1, <2>2 DEF RecvDrained, Finish
    <3>3. pc'[t] = IF gateOwner = t THEN "selectLeave" ELSE "idle"
      BY <1>0, <2>2 DEF RecvDrained, Finish
    <3> QED  BY <1>0, <1>8, <3>1, <3>2, <3>3
  <2>3. CASE RecvPark(t)
    BY <1>0, <1>1, <2>3 DEF RecvPark, Finish, callVars, gateVars, Kinds
  <2>4. CASE RecvMiss(t)
    BY <1>0, <1>1, <2>4 DEF RecvMiss, Finish, callVars, gateVars, Kinds
  <2>5. CASE RecvExpire(t)
    BY <1>0, <1>1, <2>5 DEF RecvExpire, Finish, callVars, gateVars, Kinds
  <2>6. CASE TryEmpty(t)
    BY <1>0, <1>1, <2>6 DEF TryEmpty, Finish, callVars, gateVars, Kinds
  <2> QED  BY <1>4, <2>1, <2>2, <2>3, <2>4, <2>5, <2>6 DEF Recv
<1>5. CASE Check(t) \/ Lock(t) \/ Timer(t) \/ Spurious(t)
  <2>1. CASE Check(t)
    BY <1>0, <1>1, <2>1 DEF Check, Finish, callVars, gateVars, Kinds
  <2>2. CASE GateLock(t)
    BY <1>0, <1>1, <2>2 DEF GateLock, Finish, callVars, gateVars, Kinds
  <2>3. CASE SelectLock(t)
    <3>1. call[t].op = "select" /\ pc'[t] \in {"selectScan", "selectLast"} /\ pos'[t] = 1
      BY <1>0, <2>3 DEF SelectLock
    <3>2. 1 \in DOMAIN call[t].chans
      BY <1>0, <1>9, <3>1
    <3>3. UNCHANGED <<call, deadline, result>> /\ gateOwner' = t
      BY <2>3 DEF SelectLock
    <3> QED  BY <1>0, <3>1, <3>2, <3>3, <2>3 DEF SelectLock
  <2>4. CASE Tick(t)
    BY <1>0, <1>1, <2>4 DEF Tick, Finish, callVars, gateVars, Kinds
  <2>5. CASE SelectTimer(t)
    BY <1>0, <1>1, <2>5 DEF SelectTimer, Finish, callVars, gateVars, Kinds
  <2>6. CASE Spurious(t)
    BY <1>0, <1>1, <2>6 DEF Spurious, WokenPlace, Blocked, callVars, gateVars
  <2> QED  BY <1>5, <2>1, <2>2, <2>3, <2>4, <2>5, <2>6 DEF Lock, Timer
<1>6. CASE Notify(t)
  BY <1>0, <1>6 DEF Notify, NotifyReceiver, NotifySender, CloseReceivers, CloseSenders, CancelLoad,
     GateNotify, callVars, gateVars, NotifyOne, Waking
<1>7. CASE Select(t)
  <2>1. CASE SelectTake(t)
    <3>1. UNCHANGED <<call, pos, deadline, gateOwner>> /\ pc[t] \in Waiting
      BY <1>0, <2>1 DEF SelectTake, Take, Scanning, callVars, gateVars
    <3>2. result'[t] # NoResult
      BY <1>0, <1>1, <2>1 DEF SelectTake, Take, Scanning, Finish
    <3>3. pc'[t] = "notifySender" /\ call[t].op \in {"recv", "try", "select"}
      BY <1>0, <2>1 DEF SelectTake, Take, Scanning, Finish
    <3> QED  BY <1>0, <1>8, <3>1, <3>2, <3>3
  <2>2. CASE SelectDrained(t)
    <3>1. UNCHANGED <<call, pos, deadline, gateOwner>> /\ pc[t] \in Waiting
      BY <1>0, <2>2 DEF SelectDrained, Scanning, callVars, gateVars
    <3>2. result'[t] # NoResult
      BY <1>0, <1>1, <2>2 DEF SelectDrained, Scanning, Finish
    <3>3. pc'[t] = IF gateOwner = t THEN "selectLeave" ELSE "idle"
      BY <1>0, <2>2 DEF SelectDrained, Scanning, Finish
    <3> QED  BY <1>0, <1>8, <3>1, <3>2, <3>3
  <2>3. CASE SelectSkip(t)
    BY <1>0, <1>1, <2>3 DEF SelectSkip, Scanning, callVars, gateVars, Kinds
  <2>4. CASE SelectMiss(t)
    BY <1>0, <1>1, <2>4 DEF SelectMiss, Scanning, callVars, gateVars, Kinds
  <2>5. CASE SelectExpire(t)
    BY <1>0, <1>1, <2>5 DEF SelectExpire, GiveUp, Scanning, callVars, gateVars, Kinds
  <2>6. CASE SelectEnter(t)
    BY <1>0, <1>1, <2>6 DEF SelectEnter, Finish, callVars, gateVars, Kinds
  <2>7. CASE SelectCancelled(t)
    BY <1>0, <1>1, <2>7 DEF SelectCancelled, Finish, callVars, gateVars, Kinds
  <2>8. CASE SelectPark(t)
    BY <1>0, <1>1, <2>8 DEF SelectPark, Finish, callVars, gateVars, Kinds
  <2>9. CASE SelectLeave(t)
    <3>1. call[t].op = "select" /\ pos'[t] = 1
      BY <1>0, <2>9 DEF SelectLeave
    <3>2. 1 \in DOMAIN call[t].chans
      BY <1>0, <1>9, <3>1
    <3>3. UNCHANGED <<call, deadline, result>> /\ gateOwner' = NoThread
      BY <2>9 DEF SelectLeave
    <3>4. pc'[t] = IF result[t] = NoResult THEN "select" ELSE "idle"
      BY <1>0, <2>9 DEF SelectLeave
    <3> QED  BY <1>0, <3>1, <3>2, <3>3, <3>4
  <2> QED  BY <1>7, <2>1, <2>2, <2>3, <2>4, <2>5, <2>6, <2>7, <2>8, <2>9 DEF Select
<1> QED  BY <1>2, <1>3, <1>4, <1>5, <1>6, <1>7 DEF Acts, Run
\* The channel a thread is at exists.
LEMMA AtAChannel ==
    ASSUME ChannelInv, NEW t \in Threads, call[t].op \notin {"none", "cancel"}
    PROVE  /\ Chan(t) \in Chans /\ pos[t] \in 1 .. Len(call[t].chans)
           /\ Len(call[t].chans) \in Nat /\ DOMAIN call[t].chans = 1 .. Len(call[t].chans)
           /\ \A i \in DOMAIN call[t].chans : call[t].chans[i] \in Chans
<1>1. call[t].chans \in Seq(Chans)
  BY DEF ChannelInv, TypeOK, Call
<1>2. pos[t] \in DOMAIN call[t].chans
  BY DEF ChannelInv, Fits, CallFit
<1>3. Len(call[t].chans) \in Nat /\ DOMAIN call[t].chans = 1 .. Len(call[t].chans)
  BY <1>1, Queues
<1> QED  BY <1>1, <1>2, <1>3, ElementOfSeq DEF Chan

\* Who is counted as a listener of the gate.
Counted(t) == pc[t] \in Listening \/ gateOwner = t

\* Only SelectEnter and SelectLeave change whether a thread is a listener.
LEMMA OnlyEnterAndLeave ==
    ASSUME ChannelInv, NEW t \in Threads, Acts(t), ~SelectEnter(t), ~SelectLeave(t)
    PROVE  listeners' = listeners /\ (Counted(t)' <=> Counted(t))
<1> USE DEF Counted, Listening, Inside, Goto
<1>0. TypeOK /\ CallFit(t) /\ GateFit(t) /\ NoThread \notin Threads
  BY ThreadsAssumption DEF ChannelInv, Fits
<1>1. CASE Start(t)
  BY <1>0, <1>1 DEF Start, Begin, Close, Cancel, gateVars, GateFit, TypeOK
<1>2. CASE Send(t) \/ Recv(t) \/ Check(t)
  BY <1>0, <1>2 DEF Send, SendAccept, SendRefuse, SendPark, SendExpire, SendMiss, Recv, RecvTake,
     Take, RecvDrained, RecvPark, RecvMiss, RecvExpire, TryEmpty, Check, gateVars, GateFit, TypeOK,
     Finish, CallFit, SendPlaces, RecvPlaces
<1>3. CASE Lock(t) \/ Timer(t) \/ Spurious(t)
  BY <1>0, <1>3 DEF Lock, GateLock, SelectLock, Timer, Tick, SelectTimer, Spurious, WokenPlace,
     Blocked, gateVars, GateFit, TypeOK
<1>4. CASE Notify(t)
  BY <1>0, <1>4 DEF Notify, NotifyReceiver, NotifySender, CloseReceivers, CloseSenders, CancelLoad,
     GateNotify, NotifyOne, Waking, gateVars, GateFit, TypeOK
<1>5. CASE Select(t)
  BY <1>0, <1>5 DEF Select, SelectTake, SelectDrained, SelectSkip, SelectMiss, SelectExpire,
     SelectCancelled, SelectPark, Take, Finish, Scanning, gateVars, GateFit, TypeOK
<1> QED  BY <1>1, <1>2, <1>3, <1>4, <1>5 DEF Acts, Run

\* The listeners stay counted.
LEMMA ListenersNext ==
    ASSUME ChannelInv, NEW t \in Threads, Acts(t)
    PROVE  ListenersCounted' /\ listeners' \in Nat
<1>0. /\ TypeOK /\ CallFit(t) /\ GateFit(t) /\ NoThread \notin Threads
      /\ listeners = Cardinality(Listeners) /\ listeners \in Nat
  BY ThreadsAssumption DEF ChannelInv, Fits, ListenersCounted, TypeOK
<1>1. Listeners \in SUBSET Threads
  BY DEF Listeners
<1>2. \A u \in Threads \ {t} : Counted(u)' <=> Counted(u)
  BY <1>0, Others, GateMoves DEF Counted, Blocked, WokenPlace, Listening, Inside
<1>3. /\ Listeners = {u \in Threads : Counted(u)}
      /\ Listeners' = {u \in Threads : Counted(u)'}
  BY DEF Listeners, Counted
<1>4. CASE SelectEnter(t)
  <2>1. /\ t \notin Listeners /\ Counted(t)' /\ listeners' = listeners + 1
    BY <1>0, <1>4 DEF SelectEnter, Goto, TypeOK, Listeners, Counted, Listening, Inside, GateFit
  <2>2. Listeners' = Listeners \cup {t}
    BY <1>2, <1>3, <2>1
  <2> QED  BY <1>0, <1>1, <2>1, <2>2, ThreadSets DEF ListenersCounted
<1>5. CASE SelectLeave(t)
  <2>1. /\ t \in Listeners /\ ~Counted(t)' /\ listeners' = listeners - 1
    BY <1>0, <1>5 DEF SelectLeave, Goto, TypeOK, Listeners, Counted, Listening, Inside, GateFit
  <2>2. Listeners' = Listeners \ {t}
    BY <1>2, <1>3, <2>1
  <2>3. Cardinality(Listeners') = listeners - 1 /\ listeners # 0
    BY <1>0, <1>1, <2>1, <2>2, ThreadSets
  <2> QED  BY <1>0, <2>1, <2>3 DEF ListenersCounted
<1>6. CASE ~SelectEnter(t) /\ ~SelectLeave(t)
  <2>1. Listeners' = Listeners /\ listeners' = listeners
    BY <1>2, <1>3, <1>6, OnlyEnterAndLeave
  <2> QED  BY <1>0, <2>1 DEF ListenersCounted
<1> QED  BY <1>4, <1>5, <1>6

\* What a thread may do where it is, and how it goes to sleep.
LEMMA WhereItIs ==
    ASSUME ChannelInv, NEW t \in Threads, Acts(t)
    PROVE  /\ pc[t] \in {"recv", "recvTicked"} => Recv(t)
           /\ pc[t] \in {"send", "sendTicked"} => Send(t)
           /\ pc[t] = "notifyReceiver" => NotifyReceiver(t)
           /\ pc[t] = "notifySender" => NotifySender(t)
           /\ pc[t] = "closeReceivers" => CloseReceivers(t)
           /\ pc[t] = "closeSenders" => CloseSenders(t)
           /\ pc[t] = "cancelLoad" => CancelLoad(t)
           /\ pc[t] = "gateLock" => GateLock(t)
           /\ pc[t] = "gateNotify" => GateNotify(t)
           /\ pc'[t] = "recvWait" => RecvPark(t)
           /\ pc'[t] = "sendWait" => SendPark(t)
           /\ pc'[t] = "selectWait" => SelectPark(t)
           /\ pc'[t] = "selectScan" => SelectLock(t) \/ (pc[t] = "selectScan" /\ SelectSkip(t))
           /\ pc'[t] = "selectDecide" => pc[t] = "selectScan" /\ SelectMiss(t)
<1> USE DEF Goto, TypeOK
<1>0. TypeOK /\ CallFit(t)
  BY DEF ChannelInv, Fits
<1>1. CASE Start(t)
  BY <1>0, <1>1 DEF Start, Begin, Close, Cancel
<1>2. CASE Send(t)
  BY <1>0, <1>2 DEF Send, SendAccept, SendRefuse, SendPark, SendExpire, SendMiss, Finish
<1>3. CASE Recv(t)
  BY <1>0, <1>3 DEF Recv, RecvTake, Take, RecvDrained, RecvPark, RecvMiss, RecvExpire, TryEmpty, Finish
<1>4. CASE Check(t)
  BY <1>0, <1>4 DEF Check, Finish, CallFit
<1>5. CASE Lock(t) \/ Timer(t) \/ Spurious(t)
  BY <1>0, <1>5 DEF Lock, GateLock, SelectLock, Timer, Tick, SelectTimer, Spurious, WokenPlace, Blocked
<1>6. CASE Notify(t)
  BY <1>0, <1>6 DEF Notify, NotifyReceiver, NotifySender, CloseReceivers, CloseSenders, CancelLoad,
     GateNotify, NotifyOne, Waking
<1>7. CASE Select(t)
  <2>1. CASE SelectTake(t) \/ SelectDrained(t) \/ SelectSkip(t) \/ SelectMiss(t)
    BY <1>0, <2>1 DEF SelectTake, SelectDrained, SelectSkip, SelectMiss, Take, Finish, Scanning
  <2>2. CASE \/ SelectExpire(t) \/ SelectEnter(t) \/ SelectCancelled(t) \/ SelectPark(t)
             \/ SelectLeave(t)
    BY <1>0, <2>2 DEF SelectExpire, SelectEnter, SelectCancelled, SelectPark, SelectLeave, Finish
  <2> QED  BY <1>7, <2>1, <2>2 DEF Select
<1> QED  BY <1>1, <1>2, <1>3, <1>4, <1>5, <1>6, <1>7 DEF Acts, Run

\* The cancellations change only by a store that reaches memory, and a store
\* gets into the buffer only by cancel().
LEMMA CancelsKept ==
    ASSUME NEW t \in Threads, Acts(t)
    PROVE  /\ UNCHANGED <<cancelled, late>>
           /\ \/ UNCHANGED buffered
              \/ /\ \E u \in Isolates : buffered' = [buffered EXCEPT ![t] = u]
                 /\ buffered[t] = NoThread /\ pc' = [pc EXCEPT ![t] = "cancelLoad"]
                 /\ call' = [call EXCEPT ![t] = [NoCall EXCEPT !.op = "cancel"]]
<1> USE DEF cancelVars
<1>1. CASE Start(t)
  <2>1. ASSUME NEW r \in Calls[t], NEW u \in Isolates, Cancel(t, r, u)
        PROVE  /\ UNCHANGED <<cancelled, late>>
               /\ buffered' = [buffered EXCEPT ![t] = u]
               /\ buffered[t] = NoThread /\ pc' = [pc EXCEPT ![t] = "cancelLoad"]
               /\ call' = [call EXCEPT ![t] = [NoCall EXCEPT !.op = "cancel"]]
    BY <1>1, <2>1 DEF Start, Cancel, Goto
  <2>2. ASSUME NEW r \in Calls[t], Begin(t, r) \/ Close(t, r) PROVE UNCHANGED cancelVars
    BY <2>2 DEF Begin, Close
  <2> QED  BY <1>1, <2>1, <2>2 DEF Start
<1>2. CASE ~Start(t)
  BY <1>2 DEF Acts, Run, Send, SendAccept, SendRefuse, SendPark, SendExpire, SendMiss, Recv, RecvTake,
     Take, RecvDrained, RecvPark, RecvMiss, RecvExpire, TryEmpty, Check, Notify, NotifyReceiver,
     NotifySender, CloseReceivers, CloseSenders, CancelLoad, GateNotify, Lock, GateLock, SelectLock,
     Timer, Tick, SelectTimer, Spurious, Select, SelectTake, SelectDrained, SelectSkip, SelectMiss,
     SelectExpire, SelectEnter, SelectCancelled, SelectPark, SelectLeave
<1> QED  BY <1>1, <1>2

\* A store that is not visible yet is the last thing its thread called for.
LEMMA BuffersNext ==
    ASSUME ChannelInv, NEW t \in Threads, Acts(t)
    PROVE  Buffers'
<1> SUFFICES ASSUME NEW u \in Threads PROVE BufferFit(u)'
  BY DEF Buffers
<1>0. TypeOK /\ BufferFit(u) /\ NoThread \notin Threads
  BY ThreadsAssumption DEF ChannelInv, Buffers
<1>1. CASE u # t
  <2>1. buffered'[u] = buffered[u] /\ call'[u] = call[u]
    BY <1>0, <1>1, CancelsKept, Others DEF TypeOK
  <2>2. pc'[u] = pc[u] \/ pc[u] \in Blocked
    BY <1>0, <1>1, Others
  <2> QED  BY <1>0, <2>1, <2>2 DEF BufferFit, Blocked
<1>2. CASE u = t /\ UNCHANGED buffered
  <2>1. CASE buffered[t] = NoThread
    BY <1>2, <2>1 DEF BufferFit
  <2>2. CASE buffered[t] # NoThread
    <3>1. ~Start(t) /\ ~GateLock(t)
      BY <2>2 DEF Start, GateLock
    <3>2. pc[t] # "idle"
      BY <3>1 DEF Acts, Run, Send, SendAccept, SendRefuse, SendPark, SendExpire, SendMiss, Recv, RecvTake,
         Take, RecvDrained, RecvPark, RecvMiss, RecvExpire, TryEmpty, Check, Notify, NotifyReceiver,
         NotifySender, CloseReceivers, CloseSenders, CancelLoad, GateNotify, Lock, SelectLock,
         Timer, Tick, SelectTimer, Spurious, Blocked, Select, SelectTake, SelectDrained, SelectSkip,
         SelectMiss, SelectExpire, SelectEnter, SelectCancelled, SelectPark, SelectLeave, Scanning
    <3>3. CancelLoad(t)
      BY <1>0, <1>2, <2>2, <3>1, <3>2, WhereItIs DEF BufferFit
    <3> QED  BY <1>0, <1>2, <2>2, <3>3 DEF BufferFit, CancelLoad, Goto, callVars, TypeOK
  <2> QED  BY <2>1, <2>2
<1>3. CASE u = t /\ ~UNCHANGED buffered
  <2>1. pc'[t] = "cancelLoad" /\ call'[t] = [NoCall EXCEPT !.op = "cancel"]
    BY <1>0, <1>3, CancelsKept DEF TypeOK
  <2> QED  BY <1>3, <2>1 DEF BufferFit, NoCall
<1> QED  BY <1>1, <1>2, <1>3

\* The types of what an action changes.
LEMMA TypesNext ==
    ASSUME ChannelInv, NEW t \in Threads, Acts(t)
    PROVE  TypeOK'
<1> USE DEF Goto
<1>0. TypeOK /\ CallFit(t) /\ NoThread \notin Threads /\ Isolates \subseteq Threads
  BY ThreadsAssumption DEF ChannelInv, Fits
<1>1. listeners' \in Nat /\ gateOwner' \in Threads \cup {NoThread}
  BY <1>0, ListenersNext, GateMoves DEF TypeOK
<1>2. pc' \in [Threads -> Places]
  <2>1. pc' = [u \in Threads |-> pc'[u]] /\ pc'[t] \in Places
    <3>1. CASE Start(t)
      BY <1>0, <3>1 DEF TypeOK, Start, Begin, Close, Cancel, Places
    <3>2. CASE Send(t) \/ Recv(t)
      BY <1>0, <3>2 DEF TypeOK, Send, SendAccept, SendRefuse, SendPark, SendExpire, SendMiss, Recv,
         RecvTake, Take, RecvDrained, RecvPark, RecvMiss, RecvExpire, TryEmpty, Finish, Places, Blocked
    <3>3. CASE Check(t) \/ Lock(t) \/ Timer(t) \/ Spurious(t)
      BY <1>0, <3>3 DEF TypeOK, Check, CallFit, Lock, GateLock, SelectLock, Timer, Tick, SelectTimer,
         Spurious, WokenPlace, Finish, Places, Blocked
    <3>4. CASE Notify(t)
      BY <1>0, <3>4 DEF TypeOK, Notify, NotifyReceiver, NotifySender, CloseReceivers, CloseSenders,
         CancelLoad, GateNotify, NotifyOne, Waking, Places, Blocked
    <3>5. CASE Select(t)
      BY <1>0, <3>5 DEF TypeOK, Select, SelectTake, SelectDrained, SelectSkip, SelectMiss, SelectExpire,
         SelectEnter, SelectCancelled, SelectPark, SelectLeave, Take, Finish, Places, Blocked
    <3> QED  BY <3>1, <3>2, <3>3, <3>4, <3>5 DEF Acts, Run
  <2>2. \A u \in Threads \ {t} : pc'[u] \in Places
    BY <1>0, Others DEF TypeOK, WokenPlace, Places
  <2> QED  BY <2>1, <2>2
<1>3. result' \in [Threads -> Result]
  <2>1. \/ result' = result
        \/ result' = [result EXCEPT ![t] = NoResult]
        \/ \E c \in Chans \cup {NoChan}, m \in Msgs \cup {NoMsg}, k \in Kinds :
             result' = [result EXCEPT ![t] = Outcome(k, c, m)]
    <3>1. CASE Start(t)
      BY <3>1 DEF Start, Begin, Close, Cancel
    <3>2. CASE Send(t) \/ Recv(t) \/ Check(t) \/ Select(t)
      <4>1. \A c \in Chans : queue[c] # <<>> => Head(queue[c]) \in Msgs
        BY <1>0, Queues DEF TypeOK
      <4>2. (pc[t] \in SendPlaces \cup RecvPlaces \cup {"try"} \cup Scanning) => Chan(t) \in Chans
        BY <1>0, AtAChannel DEF CallFit, SendPlaces, RecvPlaces, Scanning, Listening, Inside
      <4>3. ASSUME NEW c \in Chans, Take(t, c)
            PROVE  \E m \in Msgs : result' = [result EXCEPT ![t] = Outcome("value", c, m)]
        BY <4>1, <4>3 DEF Take
      <4> QED  BY <3>2, <4>2, <4>3 DEF Send, SendAccept, SendRefuse, SendPark, SendExpire, SendMiss, Recv,
               RecvTake, RecvDrained, RecvPark, RecvMiss, RecvExpire, TryEmpty, Check, Select, SelectTake,
               SelectDrained, SelectSkip, SelectMiss, SelectExpire, GiveUp, SelectEnter, SelectCancelled,
               SelectPark, SelectLeave, Finish, SendPlaces, RecvPlaces, Scanning, Kinds
    <3>3. CASE Lock(t) \/ Timer(t) \/ Spurious(t) \/ Notify(t)
      BY <3>3 DEF Lock, GateLock, SelectLock, Timer, Tick, SelectTimer, Spurious,
         Notify, NotifyReceiver, NotifySender, CloseReceivers, CloseSenders, CancelLoad, GateNotify
    <3> QED  BY <3>1, <3>2, <3>3 DEF Acts, Run
  <2>2. \A r \in Result : [result EXCEPT ![t] = r] \in [Threads -> Result]
    BY <1>0 DEF TypeOK
  <2>3. result \in [Threads -> Result]
    BY <1>0 DEF TypeOK
  <2> QED  BY <2>1, <2>2, <2>3, Outcomes
<1>4. /\ call' \in [Threads -> Call] /\ closed' \in [Chans -> BOOLEAN]
      /\ pos' \in [Threads -> Nat] /\ deadline' \in [Threads -> Deadlines]
  <2>1. CASE Start(t)
    <3>1. ASSUME NEW r \in Calls[t], Begin(t, r)
          PROVE  /\ call' \in [Threads -> Call] /\ deadline' \in [Threads -> Deadlines]
                 /\ pos' \in [Threads -> Nat] /\ closed' = closed
      <4>1. r \in Call /\ FirstDeadline(r) \in Deadlines
        BY CallsAre DEF FirstDeadline, Deadlines
      <4> QED  BY <1>0, <3>1, <4>1 DEF Begin, TypeOK, channelVars
    <3>2. ASSUME NEW r \in Calls[t], Close(t, r)
          PROVE  /\ call' \in [Threads -> Call] /\ deadline' = deadline
                 /\ pos' \in [Threads -> Nat] /\ closed' \in [Chans -> BOOLEAN]
      <4>1. r.chans[1] \in Chans
        BY <3>2, CallsAre DEF Close
      <4>2. [NoCall EXCEPT !.op = "close", !.chans = <<r.chans[1]>>] \in Call
        <5>1. NoCall \in Call
          BY DEF NoCall, Call
        <5>2. <<r.chans[1]>> \in Seq(Chans)
          BY <4>1
        <5> QED  BY <5>1, <5>2 DEF Call
      <4> QED  BY <1>0, <3>2, <4>2 DEF Close, TypeOK
    <3>3. ASSUME NEW r \in Calls[t], NEW u \in Isolates, Cancel(t, r, u)
          PROVE  /\ call' \in [Threads -> Call] /\ deadline' = deadline
                 /\ pos' = pos /\ closed' = closed
      <4>1. [NoCall EXCEPT !.op = "cancel"] \in Call
        <5>1. NoCall \in Call
          BY DEF NoCall, Call
        <5> QED  BY <5>1 DEF Call
      <4> QED  BY <1>0, <3>3, <4>1 DEF Cancel, TypeOK, channelVars
    <3> QED  BY <1>0, <2>1, <3>1, <3>2, <3>3 DEF Start, TypeOK
  <2>2. CASE ~Start(t)
    <3>1. UNCHANGED <<call, closed>>
      BY <2>2 DEF Acts, Run, Send, SendAccept, SendRefuse, SendPark, SendExpire, SendMiss, Recv, RecvTake,
         Take, RecvDrained, RecvPark, RecvMiss, RecvExpire, TryEmpty, Check, Notify, NotifyReceiver,
         NotifySender, CloseReceivers, CloseSenders, CancelLoad, GateNotify, Lock, GateLock, SelectLock,
         Timer, Tick, SelectTimer, Spurious, Select, SelectTake, SelectDrained, SelectSkip, SelectMiss,
         SelectExpire, SelectEnter, SelectCancelled, SelectPark, SelectLeave, callVars, channelVars
    <3>2. \/ UNCHANGED <<pos, deadline>>
          \/ deadline' = [deadline EXCEPT ![t] = "none"] /\ pos' = pos
          \/ pos' = [pos EXCEPT ![t] = @ + 1] /\ deadline' = deadline
          \/ pos' = [pos EXCEPT ![t] = 1] /\ deadline' = deadline
      BY <2>2 DEF Acts, Run, Send, SendAccept, SendRefuse, SendPark, SendExpire, SendMiss, Recv, RecvTake,
         Take, RecvDrained, RecvPark, RecvMiss, RecvExpire, TryEmpty, Check, Notify, NotifyReceiver,
         NotifySender, CloseReceivers, CloseSenders, CancelLoad, GateNotify, Lock, GateLock, SelectLock,
         Timer, Tick, SelectTimer, Spurious, Select, SelectTake, SelectDrained, SelectSkip, SelectMiss,
         SelectExpire, GiveUp, SelectEnter, SelectCancelled, SelectPark, SelectLeave, callVars
    <3>3. pos' \in [Threads -> Nat]
      <4>1. pos \in [Threads -> Nat] /\ pos[t] + 1 \in Nat
        BY <1>0 DEF TypeOK
      <4>2. CASE pos' = pos
        BY <4>1, <4>2
      <4>3. CASE pos' = [pos EXCEPT ![t] = pos[t] + 1]
        BY <4>1, <4>3
      <4>4. CASE pos' = [pos EXCEPT ![t] = 1]
        BY <4>1, <4>4
      <4> QED  BY <3>2, <4>2, <4>3, <4>4
    <3>4. deadline' \in [Threads -> Deadlines]
      BY <1>0, <3>2 DEF TypeOK, Deadlines
    <3> QED  BY <1>0, <3>1, <3>3, <3>4 DEF TypeOK
  <2> QED  BY <2>1, <2>2
<1>5. queue' \in [Chans -> Seq(Msgs)]
  <2>1. CASE SendAccept(t)
    <3>1. call[t].op = "send" /\ call[t].msg \in Msgs /\ Chan(t) \in Chans
      BY <1>0, <2>1, AtAChannel DEF SendAccept, CallFit, SendPlaces
    <3>2. queue[Chan(t)] \in Seq(Msgs)
      BY <1>0, <3>1 DEF TypeOK
    <3>3. Append(queue[Chan(t)], call[t].msg) \in Seq(Msgs)
      BY <3>1, <3>2, Queues
    <3> QED  BY <1>0, <2>1, <3>3 DEF SendAccept, TypeOK
  <2>2. ASSUME NEW c \in Chans, Take(t, c) PROVE queue' \in [Chans -> Seq(Msgs)]
    <3>1. Tail(queue[c]) \in Seq(Msgs)
      BY <1>0, <2>2, Queues DEF Take, TypeOK
    <3> QED  BY <1>0, <2>2, <3>1 DEF Take, TypeOK
  <2>3. CASE RecvTake(t) \/ SelectTake(t)
    <3>1. Chan(t) \in Chans
      BY <1>0, <2>3, AtAChannel DEF RecvTake, SelectTake, CallFit, RecvPlaces, Scanning, Listening, Inside
    <3> QED  BY <2>2, <2>3, <3>1 DEF RecvTake, SelectTake
  <2>4. CASE ~SendAccept(t) /\ ~RecvTake(t) /\ ~SelectTake(t)
    <3>1. queue' = queue
      BY <2>4 DEF Acts, Start, Begin, Close, Cancel, Run, Send, SendRefuse, SendPark, SendExpire, SendMiss,
         Recv, RecvDrained, RecvPark, RecvMiss, RecvExpire, TryEmpty, Check, Notify, NotifyReceiver,
         NotifySender, CloseReceivers, CloseSenders, CancelLoad, GateNotify, Lock, GateLock, SelectLock,
         Timer, Tick, SelectTimer, Spurious, Select, SelectDrained, SelectSkip, SelectMiss,
         SelectExpire, SelectEnter, SelectCancelled, SelectPark, SelectLeave, channelVars
    <3> QED  BY <1>0, <3>1 DEF TypeOK
  <2> QED  BY <2>1, <2>3, <2>4
<1>6. cancelled' \in [Threads -> BOOLEAN] /\ late' \subseteq Isolates
      /\ buffered' \in [Threads -> Isolates \cup {NoThread}]
  <2>1. /\ cancelled \in [Threads -> BOOLEAN] /\ late \subseteq Isolates
        /\ buffered \in [Threads -> Isolates \cup {NoThread}]
    BY <1>0 DEF TypeOK
  <2>2. CASE UNCHANGED buffered
    BY <2>1, <2>2, CancelsKept
  <2>3. CASE \E u \in Isolates : buffered' = [buffered EXCEPT ![t] = u]
    BY <2>1, <2>3, CancelsKept
  <2> QED  BY <2>2, <2>3, CancelsKept
<1> QED  BY <1>1, <1>2, <1>3, <1>4, <1>5, <1>6 DEF TypeOK

\* A store that reaches memory changes nothing but who is cancelled.
LEMMA FlushNext ==
    ASSUME ChannelInv, NEW t \in Threads, Flush(t)
    PROVE  /\ ChannelInv'
           /\ UNCHANGED <<queue, closed, gateOwner, listeners, call, deadline, pos, pc, result>>
           /\ call[t].op = "cancel"
           /\ \E u \in Isolates : /\ cancelled' = [cancelled EXCEPT ![u] = TRUE]
                                  /\ pc[t] \in {"cancelLoad", "gateLock"} \/ pc[u] # "selectWait"
                                     \/ cancelled[u] \/ u \in late'
                                  /\ late \subseteq late'
<1>0. TypeOK /\ Fits /\ BufferFit(t) /\ Buffers /\ ListenersCounted
  BY DEF ChannelInv, Buffers
<1>1. UNCHANGED <<queue, closed, gateOwner, listeners, call, deadline, pos, pc, result>>
  BY DEF Flush, channelVars, gateVars, callVars
<1>2. PICK u \in Isolates : u = buffered[t]
  BY <1>0 DEF Flush, TypeOK
<1>3. /\ cancelled' = [cancelled EXCEPT ![u] = TRUE]
      /\ buffered' = [buffered EXCEPT ![t] = NoThread]
      /\ late' = IF pc[t] = "idle" /\ pc[u] = "selectWait" /\ ~cancelled[u] THEN late \cup {u} ELSE late
  BY <1>2 DEF Flush
<1>4. call[t].op = "cancel" /\ pc[t] \in {"idle", "cancelLoad", "gateLock"}
  BY <1>0 DEF Flush, BufferFit
<1>5. TypeOK'
  BY <1>0, <1>1, <1>2, <1>3 DEF TypeOK
<1>6. Fits' /\ ListenersCounted'
  BY <1>0, <1>1 DEF Fits, CallFit, ResultFit, GateFit, ListenersCounted, Listeners
<1>7. Buffers'
  BY <1>0, <1>1, <1>3 DEF Buffers, BufferFit, TypeOK
<1> QED  BY <1>1, <1>2, <1>3, <1>4, <1>5, <1>6, <1>7 DEF ChannelInv

\* Where every execution starts.
LEMMA ChannelInvInit == Init => ChannelInv
<1> SUFFICES ASSUME Init PROVE ChannelInv
  OBVIOUS
<1>1. TypeOK
  <2>1. NoCall \in Call
    BY DEF NoCall, Call
  <2> QED  BY <2>1, Outcomes DEF Init, TypeOK, Places, Deadlines
<1>2. Fits
  BY ThreadsAssumption DEF Init, Fits, CallFit, ResultFit, GateFit, SendPlaces, RecvPlaces, Waiting,
     Listening, Inside, NoCall, Operations
<1>3. ListenersCounted
  <2>1. Listeners = {}
    BY ThreadsAssumption DEF Init, Listeners, Listening, Inside
  <2> QED  BY <2>1, FS_EmptySet DEF Init, ListenersCounted
<1>4. Buffers
  BY DEF Init, Buffers, BufferFit
<1> QED  BY <1>1, <1>2, <1>3, <1>4 DEF ChannelInv

\* Every step keeps it.
LEMMA ChannelInvNext == ChannelInv /\ [Next]_vars => ChannelInv'
<1> SUFFICES ASSUME ChannelInv, [Next]_vars PROVE ChannelInv'
  OBVIOUS
<1>1. CASE UNCHANGED vars
  BY <1>1 DEF ChannelInv, TypeOK, Fits, CallFit, ResultFit, GateFit, ListenersCounted, Listeners, Buffers,
     BufferFit, vars, channelVars, cancelVars, gateVars, callVars
<1>2. ASSUME NEW t \in Threads, Acts(t) PROVE ChannelInv'
  <2>1. Fits'
    BY <1>2, OthersFit, OwnFits DEF Fits
  <2> QED  BY <1>2, <2>1, TypesNext, ListenersNext, BuffersNext DEF ChannelInv
<1>3. ASSUME NEW t \in Threads, Flush(t) PROVE ChannelInv'
  BY <1>3, FlushNext
<1> QED  BY <1>1, <1>2, <1>3 DEF Next, Acts
\* A channel's queue grows by a send and shrinks by whoever takes a message;
\* only close() closes it.
LEMMA ChannelMoves ==
    ASSUME ChannelInv, NEW t \in Threads, Acts(t), NEW c \in Chans
    PROVE  /\ Len(queue[c]) \in Nat /\ Len(queue'[c]) \in Nat
           /\ \/ SendAccept(t) /\ Chan(t) = c /\ Len(queue'[c]) = Len(queue[c]) + 1
              \/ /\ RecvTake(t) \/ SelectTake(t)
                 /\ Chan(t) = c /\ queue[c] # <<>> /\ Len(queue'[c]) = Len(queue[c]) - 1
              \/ queue'[c] = queue[c]
           /\ \/ closed'[c] = closed[c]
              \/ closed'[c] /\ pc[t] = "idle" /\ pc'[t] = "closeReceivers" /\ Chan(t)' = c
<1>0. TypeOK /\ CallFit(t) /\ TypeOK'
  BY TypesNext DEF ChannelInv, Fits
<1>1. queue[c] \in Seq(Msgs) /\ queue'[c] \in Seq(Msgs)
  BY <1>0 DEF TypeOK
<1>2. Len(queue[c]) \in Nat /\ Len(queue'[c]) \in Nat
  BY <1>1, Queues
<1>3. \/ SendAccept(t) /\ Chan(t) = c /\ Len(queue'[c]) = Len(queue[c]) + 1
      \/ /\ RecvTake(t) \/ SelectTake(t)
         /\ Chan(t) = c /\ queue[c] # <<>> /\ Len(queue'[c]) = Len(queue[c]) - 1
      \/ queue'[c] = queue[c]
  <2>1. CASE SendAccept(t)
    <3>1. call[t].msg \in Msgs
      BY <1>0, <2>1 DEF SendAccept, CallFit, SendPlaces
    <3>2. Len(Append(queue[c], call[t].msg)) = Len(queue[c]) + 1
      BY <1>1, <3>1, Queues
    <3>3. queue'[c] = IF c = Chan(t) THEN Append(queue[c], call[t].msg) ELSE queue[c]
      BY <1>0, <2>1 DEF SendAccept, TypeOK
    <3> QED  BY <2>1, <3>2, <3>3
  <2>2. CASE RecvTake(t) \/ SelectTake(t)
    <3>1. Take(t, Chan(t))
      BY <2>2 DEF RecvTake, SelectTake
    <3>2. queue'[c] = IF c = Chan(t) THEN Tail(queue[c]) ELSE queue[c]
      BY <1>0, <3>1 DEF Take, TypeOK
    <3>3. queue[c] # <<>> => Len(Tail(queue[c])) = Len(queue[c]) - 1
      BY <1>1, Queues
    <3> QED  BY <2>2, <3>1, <3>2, <3>3 DEF Take
  <2>3. CASE ~SendAccept(t) /\ ~RecvTake(t) /\ ~SelectTake(t)
    BY <2>3 DEF Acts, Start, Begin, Close, Cancel, Run, Send, SendRefuse, SendPark, SendExpire, SendMiss,
       Recv, RecvDrained, RecvPark, RecvMiss, RecvExpire, TryEmpty, Check, Notify, NotifyReceiver,
       NotifySender, CloseReceivers, CloseSenders, CancelLoad, GateNotify, Lock, GateLock, SelectLock,
       Timer, Tick, SelectTimer, Spurious, Select, SelectDrained, SelectSkip, SelectMiss,
       SelectExpire, SelectEnter, SelectCancelled, SelectPark, SelectLeave, channelVars
  <2> QED  BY <2>1, <2>2, <2>3
<1>4. \/ closed'[c] = closed[c]
      \/ closed'[c] /\ pc[t] = "idle" /\ pc'[t] = "closeReceivers" /\ Chan(t)' = c
  <2>1. ASSUME NEW r \in Calls[t], Close(t, r)
        PROVE  \/ closed'[c] = closed[c]
               \/ closed'[c] /\ pc[t] = "idle" /\ pc'[t] = "closeReceivers" /\ Chan(t)' = c
    <3>1. closed'[c] = IF c = r.chans[1] THEN TRUE ELSE closed[c]
      BY <1>0, <2>1 DEF Close, TypeOK
    <3>2. pc[t] = "idle" /\ pc'[t] = "closeReceivers" /\ pos'[t] = 1
          /\ call'[t] = [NoCall EXCEPT !.op = "close", !.chans = <<r.chans[1]>>]
      BY <1>0, <2>1 DEF Close, TypeOK, Goto
    <3>3. call'[t].chans = <<r.chans[1]>>
      BY <3>2 DEF NoCall
    <3>4. Chan(t)' = r.chans[1]
      BY <3>2, <3>3 DEF Chan
    <3> QED  BY <3>1, <3>2, <3>4
  <2>2. CASE ~(\E r \in Calls[t] : Close(t, r))
    BY <2>2 DEF Acts, Start, Begin, Cancel, Run, Send, SendAccept, SendRefuse, SendPark, SendExpire,
       SendMiss, Recv, RecvTake, Take, RecvDrained, RecvPark, RecvMiss, RecvExpire, TryEmpty, Check,
       Notify, NotifyReceiver, NotifySender, CloseReceivers, CloseSenders, CancelLoad, GateNotify, Lock,
       GateLock, SelectLock, Timer, Tick, SelectTimer, Spurious, Select, SelectTake, SelectDrained,
       SelectSkip, SelectMiss, SelectExpire, SelectEnter, SelectCancelled, SelectPark, SelectLeave,
       channelVars
  <2> QED  BY <2>1, <2>2
<1> QED  BY <1>2, <1>3, <1>4

\* The threads that are not at a move stay where they are, and nobody else goes
\* to sleep.
LEMMA OthersAt ==
    ASSUME TypeOK, NEW t \in Threads, Acts(t), NEW c
    PROVE  /\ \A P : P \cap Blocked = {} => At(P, c) \ {t} \subseteq At(P, c)'
           /\ \A q \in Blocked : At({q}, c)' \ {t} \subseteq At({q}, c)
<1>1. \A u \in Threads \ {t} :
         /\ call'[u] = call[u] /\ pos'[u] = pos[u]
         /\ pc'[u] = pc[u] \/ (pc[u] \in Blocked /\ pc'[u] = WokenPlace(u))
  BY Others
<1>2. \A u : WokenPlace(u) \notin Blocked
  BY DEF WokenPlace, Blocked
<1> QED  BY <1>1, <1>2 DEF At, Chan

\* How the threads at a place are counted: one more, one less, or some more.
LEMMA Counting ==
    ASSUME NEW S \in SUBSET Threads, NEW T \in SUBSET Threads, NEW t \in Threads
    PROVE  /\ Cardinality(S) \in Nat /\ Cardinality(T) \in Nat
           /\ S \subseteq T => Cardinality(S) <= Cardinality(T)
           /\ S \ {t} \subseteq T => Cardinality(S) <= Cardinality(T) + 1
           /\ S \subseteq T /\ t \in T \ S => Cardinality(S) + 1 <= Cardinality(T)
<1>1. Cardinality(S) \in Nat /\ Cardinality(T) \in Nat /\ (S \subseteq T => Cardinality(S) <= Cardinality(T))
  BY ThreadSets
<1>2. ASSUME S \ {t} \subseteq T PROVE Cardinality(S) <= Cardinality(T) + 1
  <2>1. CASE t \in S
    <3>1. Cardinality(S \ {t}) = Cardinality(S) - 1
      BY <2>1, ThreadSets
    <3>2. Cardinality(S \ {t}) <= Cardinality(T)
      BY <1>2, ThreadSets
    <3> QED  BY <1>1, <3>1, <3>2
  <2>2. CASE t \notin S
    BY <1>1, <1>2, <2>2
  <2> QED  BY <2>1, <2>2
<1>3. ASSUME S \subseteq T, t \in T \ S PROVE Cardinality(S) + 1 <= Cardinality(T)
  <2>1. Cardinality(S \cup {t}) = Cardinality(S) + 1
    BY <1>3, ThreadSets
  <2>2. S \cup {t} \in SUBSET T
    BY <1>3
  <2>3. Cardinality(S \cup {t}) <= Cardinality(T)
    BY <2>2, ThreadSets
  <2> QED  BY <2>1, <2>3
<1> QED  BY <1>1, <1>2, <1>3
\* The notification of one thread takes one out of the wait set, unless it is
\* empty.
LEMMA NotifiesOne ==
    ASSUME TypeOK, NEW t \in Threads, NEW q \in {"recvWait", "sendWait"}, NEW c \in Chans,
           NEW p \in Places \ Blocked, NotifyOne(t, At({q}, c), p), UNCHANGED <<call, pos>>
    PROVE  \/ At({q}, c)' = {}
           \/ \E w \in Threads \ {t} : pc[w] = q /\ pc'[w] = WokenPlace(w) /\ Chan(w) = c /\ Chan(w)' = c
           \/ pc[t] = q
<1>1. CASE At({q}, c) = {}
  BY <1>1 DEF NotifyOne, Goto, At, Chan, TypeOK, Blocked
<1>2. ASSUME NEW w \in At({q}, c), pc' = Waking({w}, t, p), pc[t] # q
      PROVE  \E x \in Threads \ {t} : pc[x] = q /\ pc'[x] = WokenPlace(x) /\ Chan(x) = c /\ Chan(x)' = c
  BY <1>2 DEF At, Chan, Waking
<1> QED  BY <1>1, <1>2 DEF NotifyOne

\* No receiver goes to sleep, or stays asleep, beside a message.
LEMMA ReceiverNext ==
    ASSUME ChannelInv, ReceiverWakeup, NEW t \in Threads, Acts(t)
    PROVE  ReceiverWakeup'
<1> SUFFICES ASSUME NEW c \in Chans, At({"recvWait"}, c)' # {}
             PROVE  /\ Len(queue'[c]) <= Cardinality(At({"recv", "recvTicked"}, c)')
                                         + Cardinality(At({"notifyReceiver"}, c)')
                    /\ closed'[c] => At({"closeReceivers"}, c)' # {}
  BY DEF ReceiverWakeup
<1> DEFINE R == At({"recvWait"}, c)
           U == At({"recv", "recvTicked"}, c)
           N == At({"notifyReceiver"}, c)
           K == At({"closeReceivers"}, c)
<1> SUFFICES /\ Len(queue'[c]) <= Cardinality(U') + Cardinality(N')
             /\ closed'[c] => K' # {}
  OBVIOUS
<1>0. TypeOK /\ CallFit(t)
  BY DEF ChannelInv, Fits
<1>1. /\ U \in SUBSET Threads /\ N \in SUBSET Threads /\ U' \in SUBSET Threads /\ N' \in SUBSET Threads
  BY DEF At
<1>2. /\ U \ {t} \subseteq U' /\ N \ {t} \subseteq N' /\ K \ {t} \subseteq K' /\ R' \ {t} \subseteq R
  BY <1>0, OthersAt DEF Blocked
<1>3. R # {} => /\ Len(queue[c]) <= Cardinality(U) + Cardinality(N)
                /\ closed[c] => K # {}
  BY DEF ReceiverWakeup
<1>4. /\ Len(queue[c]) \in Nat /\ Len(queue'[c]) \in Nat
      /\ \/ SendAccept(t) /\ Chan(t) = c /\ Len(queue'[c]) = Len(queue[c]) + 1
         \/ /\ RecvTake(t) \/ SelectTake(t)
            /\ Chan(t) = c /\ queue[c] # <<>> /\ Len(queue'[c]) = Len(queue[c]) - 1
         \/ queue'[c] = queue[c]
      /\ \/ closed'[c] = closed[c]
         \/ closed'[c] /\ pc[t] = "idle" /\ pc'[t] = "closeReceivers" /\ Chan(t)' = c
  BY ChannelMoves
<1>5. /\ Cardinality(U) \in Nat /\ Cardinality(U') \in Nat
      /\ Cardinality(N) \in Nat /\ Cardinality(N') \in Nat
      /\ U \subseteq U' => Cardinality(U) <= Cardinality(U')
      /\ N \subseteq N' => Cardinality(N) <= Cardinality(N')
      /\ Cardinality(U) <= Cardinality(U') + 1 /\ Cardinality(N) <= Cardinality(N') + 1
      /\ \A w \in U' \ U : U \subseteq U' => Cardinality(U) + 1 <= Cardinality(U')
      /\ \A w \in N' \ N : N \subseteq N' => Cardinality(N) + 1 <= Cardinality(N')
  <2>1. \A w \in U' \ U : w \in Threads
    BY <1>1
  <2>2. \A w \in N' \ N : w \in Threads
    BY <1>1
  <2> HIDE DEF U, N
  <2> QED  BY <1>1, <1>2, <2>1, <2>2, Counting
<1>6. /\ t \in U <=> pc[t] \in {"recv", "recvTicked"} /\ Chan(t) = c
      /\ t \in N <=> pc[t] = "notifyReceiver" /\ Chan(t) = c
      /\ t \in K <=> pc[t] = "closeReceivers" /\ Chan(t) = c
      /\ t \in R <=> pc[t] = "recvWait" /\ Chan(t) = c
      /\ t \in N' <=> pc'[t] = "notifyReceiver" /\ Chan(t)' = c
      /\ t \in K' <=> pc'[t] = "closeReceivers" /\ Chan(t)' = c
      /\ t \in R' <=> pc'[t] = "recvWait" /\ Chan(t)' = c
      /\ R' # {}
  BY DEF At
<1>7. CASE t \in U
  <2>1. Recv(t) /\ pc[t] \in {"recv", "recvTicked"} /\ Chan(t) = c
    BY <1>6, <1>7, WhereItIs
  <2>2. N \subseteq N' /\ K \subseteq K' /\ closed'[c] = closed[c]
    BY <1>2, <1>4, <1>6, <2>1
  <2>3. CASE RecvTake(t)
    <3>1. t \notin R' /\ ~SendAccept(t) /\ queue[c] # <<>> /\ queue'[c] = Tail(queue[c])
      BY <1>0, <1>6, <2>1, <2>3 DEF RecvTake, Take, SendAccept, Goto, TypeOK
    <3>2. Len(queue'[c]) = Len(queue[c]) - 1
      <4>1. queue[c] \in Seq(Msgs)
        BY <1>0 DEF TypeOK
      <4> QED  BY <3>1, <4>1, Queues
    <3>3. R # {}
      BY <1>2, <1>6, <3>1
    <3> HIDE DEF U, N, K, R
    <3> QED  BY <1>3, <1>4, <1>5, <2>2, <3>2, <3>3
  <2>4. CASE ~RecvTake(t)
    <3>1. queue[c] = <<>> /\ queue' = queue /\ (pc'[t] = "recvWait" => ~closed[c])
      BY <1>0, <2>1, <2>4 DEF Recv, RecvDrained, RecvPark, RecvMiss, RecvExpire, TryEmpty, Available,
         Finish, Goto, TypeOK, channelVars
    <3>2. Len(queue'[c]) = 0
      BY <3>1
    <3>3. R # {} \/ ~closed[c]
      BY <1>2, <1>6, <3>1
    <3> HIDE DEF U, N, K, R
    <3> QED  BY <1>3, <1>5, <2>2, <3>2, <3>3
  <2> QED  BY <2>3, <2>4
<1>8. CASE t \in N
  <2>1. NotifyReceiver(t) /\ pc[t] = "notifyReceiver" /\ Chan(t) = c
    BY <1>6, <1>8, WhereItIs
  <2>2. U \subseteq U' /\ K \subseteq K' /\ UNCHANGED <<call, pos, queue, closed>> /\ pc[t] # "recvWait"
    BY <1>2, <1>6, <2>1 DEF NotifyReceiver, channelVars, callVars
  <2>3. \E w \in Threads \ {t} : /\ pc[w] = "recvWait" /\ pc'[w] = WokenPlace(w)
                                 /\ Chan(w) = c /\ Chan(w)' = c
    <3>1. "gateLock" \in Places \ Blocked /\ NotifyOne(t, At({"recvWait"}, c), "gateLock")
      BY <2>1 DEF NotifyReceiver, Places, Blocked
    <3> QED  BY <1>0, <2>2, <3>1, NotifiesOne, <1>6
  <2>4. PICK w \in Threads \ {t} : /\ pc[w] = "recvWait" /\ pc'[w] = WokenPlace(w)
                                   /\ Chan(w) = c /\ Chan(w)' = c
    BY <2>3
  <2>5. w \in R /\ w \in U' \ U
    BY <2>4 DEF At, WokenPlace
  <2> HIDE DEF U, N, K, R
  <2> QED  BY <1>3, <1>4, <1>5, <2>2, <2>5
<1>9. CASE t \in K
  <2>1. CloseReceivers(t) /\ Chan(t) = c
    BY <1>6, <1>9, WhereItIs
  <2>2. R' = {}
    BY <2>1 DEF CloseReceivers, Waking, WokenPlace, callVars, At, Chan
  <2> QED  BY <1>6, <2>2
<1>10. CASE t \notin U /\ t \notin N /\ t \notin K
  <2>1. U \subseteq U' /\ N \subseteq N' /\ K \subseteq K'
    BY <1>2, <1>10
  <2>2. R # {}
    <3>1. t \notin R'
      <4>1. ASSUME RecvPark(t) PROVE pc[t] = "recv" /\ Chan(t)' = Chan(t)
        BY <4>1 DEF RecvPark, callVars, Chan
      <4> QED  BY <1>6, <1>10, <4>1, WhereItIs
    <3> QED  BY <1>2, <1>6, <3>1
  <2>3. CASE SendAccept(t) /\ Chan(t) = c
    <3>1. t \in N' /\ t \notin N /\ closed'[c] = closed[c]
      BY <1>0, <1>6, <1>10, <2>3 DEF SendAccept, Goto, TypeOK, callVars, Chan
    <3>2. Len(queue'[c]) <= Len(queue[c]) + 1
      BY <1>4
    <3> HIDE DEF U, N, K, R
    <3> QED  BY <1>3, <1>4, <1>5, <2>1, <2>2, <3>1, <3>2
  <2>4. CASE ~(SendAccept(t) /\ Chan(t) = c)
    <3>1. Len(queue'[c]) <= Len(queue[c])
      BY <1>4, <2>4
    <3>2. closed'[c] => closed[c] \/ t \in K'
      BY <1>4, <1>6
    <3> HIDE DEF U, N, K, R
    <3> QED  BY <1>3, <1>4, <1>5, <2>1, <2>2, <3>1, <3>2
  <2> QED  BY <2>3, <2>4
<1> QED  BY <1>7, <1>8, <1>9, <1>10
\* No sender goes to sleep, or stays asleep, beside free room or in a channel
\* whose closer has gone.
LEMMA SenderNext ==
    ASSUME ChannelInv, SenderWakeup, NEW t \in Threads, Acts(t)
    PROVE  SenderWakeup'
<1> SUFFICES ASSUME NEW c \in Chans, At({"sendWait"}, c)' # {}
             PROVE  /\ closed'[c] \/ Capacity[c] - Len(queue'[c])
                                       <= Cardinality(At({"send", "sendTicked"}, c)')
                                          + Cardinality(At({"notifySender"}, c)')
                    /\ closed'[c] => At({"closeReceivers", "closeSenders"}, c)' # {}
  BY DEF SenderWakeup
<1> DEFINE R == At({"sendWait"}, c)
           U == At({"send", "sendTicked"}, c)
           N == At({"notifySender"}, c)
           K == At({"closeReceivers", "closeSenders"}, c)
<1> SUFFICES /\ closed'[c] \/ Capacity[c] - Len(queue'[c]) <= Cardinality(U') + Cardinality(N')
             /\ closed'[c] => K' # {}
  OBVIOUS
<1>0. TypeOK /\ CallFit(t)
  BY DEF ChannelInv, Fits
<1>1. /\ U \in SUBSET Threads /\ N \in SUBSET Threads /\ U' \in SUBSET Threads /\ N' \in SUBSET Threads
  BY DEF At
<1>2. /\ U \ {t} \subseteq U' /\ N \ {t} \subseteq N' /\ K \ {t} \subseteq K' /\ R' \ {t} \subseteq R
  BY <1>0, OthersAt DEF Blocked
<1>3. R # {} => /\ closed[c] \/ Capacity[c] - Len(queue[c]) <= Cardinality(U) + Cardinality(N)
                /\ closed[c] => K # {}
  BY DEF SenderWakeup
<1>4. /\ Len(queue[c]) \in Nat /\ Len(queue'[c]) \in Nat /\ Capacity[c] \in Nat
      /\ \/ SendAccept(t) /\ Chan(t) = c /\ Len(queue'[c]) = Len(queue[c]) + 1
         \/ /\ RecvTake(t) \/ SelectTake(t)
            /\ Chan(t) = c /\ queue[c] # <<>> /\ Len(queue'[c]) = Len(queue[c]) - 1
         \/ queue'[c] = queue[c]
      /\ \/ closed'[c] = closed[c]
         \/ closed'[c] /\ pc[t] = "idle" /\ pc'[t] = "closeReceivers" /\ Chan(t)' = c
  BY ChannelMoves, CallsAssumption
<1>5. /\ Cardinality(U) \in Nat /\ Cardinality(U') \in Nat
      /\ Cardinality(N) \in Nat /\ Cardinality(N') \in Nat
      /\ U \subseteq U' => Cardinality(U) <= Cardinality(U')
      /\ N \subseteq N' => Cardinality(N) <= Cardinality(N')
      /\ Cardinality(U) <= Cardinality(U') + 1 /\ Cardinality(N) <= Cardinality(N') + 1
      /\ \A w \in U' \ U : U \subseteq U' => Cardinality(U) + 1 <= Cardinality(U')
      /\ \A w \in N' \ N : N \subseteq N' => Cardinality(N) + 1 <= Cardinality(N')
  <2>1. \A w \in U' \ U : w \in Threads
    BY <1>1
  <2>2. \A w \in N' \ N : w \in Threads
    BY <1>1
  <2> HIDE DEF U, N
  <2> QED  BY <1>1, <1>2, <2>1, <2>2, Counting
<1>6. /\ t \in U <=> pc[t] \in {"send", "sendTicked"} /\ Chan(t) = c
      /\ t \in N <=> pc[t] = "notifySender" /\ Chan(t) = c
      /\ t \in K <=> pc[t] \in {"closeReceivers", "closeSenders"} /\ Chan(t) = c
      /\ t \in R <=> pc[t] = "sendWait" /\ Chan(t) = c
      /\ t \in N' <=> pc'[t] = "notifySender" /\ Chan(t)' = c
      /\ t \in K' <=> pc'[t] \in {"closeReceivers", "closeSenders"} /\ Chan(t)' = c
      /\ t \in R' <=> pc'[t] = "sendWait" /\ Chan(t)' = c
      /\ R' # {}
  BY DEF At
<1>7. CASE t \in U
  <2>1. Send(t) /\ pc[t] \in {"send", "sendTicked"} /\ Chan(t) = c
    BY <1>6, <1>7, WhereItIs
  <2>2. N \subseteq N' /\ K \subseteq K' /\ closed'[c] = closed[c]
    BY <1>2, <1>4, <1>6, <2>1
  <2>3. CASE SendAccept(t)
    <3>1. t \notin R' /\ ~RecvTake(t) /\ ~SelectTake(t) /\ ~closed[c]
      BY <1>0, <1>6, <2>1, <2>3 DEF RecvTake, SelectTake, Scanning, SendAccept, Goto, TypeOK
    <3>2. Len(queue'[c]) = Len(queue[c]) + 1
      <4>1. queue[c] \in Seq(Msgs) /\ call[t].msg \in Msgs
        BY <1>0, <2>1, <2>3 DEF TypeOK, CallFit, SendPlaces
      <4>2. queue'[c] = Append(queue[c], call[t].msg)
        BY <1>0, <2>1, <2>3 DEF SendAccept, TypeOK
      <4> QED  BY <4>1, <4>2, Queues
    <3>3. R # {}
      BY <1>2, <1>6, <3>1
    <3> HIDE DEF U, N, K, R
    <3> QED  BY <1>3, <1>4, <1>5, <2>2, <3>1, <3>2, <3>3
  <2>4. CASE SendRefuse(t)
    <3>1. closed[c] /\ t \notin R' /\ t \notin K
      BY <1>0, <1>6, <2>1, <2>4 DEF SendRefuse, Finish, Goto, TypeOK
    <3>2. R # {}
      BY <1>2, <1>6, <3>1
    <3> HIDE DEF U, N, K, R
    <3> QED  BY <1>3, <2>2, <3>1, <3>2
  <2>5. CASE SendPark(t) \/ SendExpire(t) \/ SendMiss(t)
    <3>1. ~closed[c] /\ Full(queue, c) /\ queue' = queue
      BY <2>1, <2>5 DEF SendPark, SendExpire, SendMiss, Room, channelVars
    <3>2. Capacity[c] <= Len(queue'[c])
      BY <1>4, <3>1 DEF Full
    <3> HIDE DEF U, N, K, R
    <3> QED  BY <1>4, <1>5, <2>2, <3>1, <3>2
  <2> QED  BY <2>1, <2>3, <2>4, <2>5 DEF Send
<1>8. CASE t \in N
  <2>1. NotifySender(t) /\ pc[t] = "notifySender" /\ Chan(t) = c
    BY <1>6, <1>8, WhereItIs
  <2>2. U \subseteq U' /\ K \subseteq K' /\ UNCHANGED <<call, pos, queue, closed>> /\ pc[t] # "sendWait"
    BY <1>2, <1>6, <2>1 DEF NotifySender, channelVars, callVars
  <2>3. \E w \in Threads \ {t} : /\ pc[w] = "sendWait" /\ pc'[w] = WokenPlace(w)
                                 /\ Chan(w) = c /\ Chan(w)' = c
    <3>1. PICK p \in Places \ Blocked : NotifyOne(t, At({"sendWait"}, c), p)
      BY <2>1 DEF NotifySender, Places, Blocked
    <3> QED  BY <1>0, <2>2, <3>1, NotifiesOne, <1>6
  <2>4. PICK w \in Threads \ {t} : /\ pc[w] = "sendWait" /\ pc'[w] = WokenPlace(w)
                                   /\ Chan(w) = c /\ Chan(w)' = c
    BY <2>3
  <2>5. w \in R /\ w \in U' \ U
    BY <2>4 DEF At, WokenPlace
  <2> HIDE DEF U, N, K, R
  <2> QED  BY <1>3, <1>4, <1>5, <2>2, <2>5
<1>9. CASE t \in K
  <2>1. CASE CloseSenders(t) /\ Chan(t) = c
    <3>1. R' = {}
      BY <2>1 DEF CloseSenders, Waking, WokenPlace, callVars, At, Chan
    <3> QED  BY <1>6, <3>1
  <2>2. CASE CloseReceivers(t) /\ Chan(t) = c
    <3>1. /\ U \subseteq U' /\ N \subseteq N' /\ t \in K' /\ t \notin R'
          /\ closed' = closed /\ queue' = queue
      BY <1>0, <1>2, <1>6, <2>2 DEF CloseReceivers, Waking, callVars, channelVars, Chan
    <3>2. R # {}
      BY <1>2, <1>6, <3>1
    <3> HIDE DEF U, N, K, R
    <3> QED  BY <1>3, <1>4, <1>5, <3>1, <3>2
  <2> QED  BY <1>6, <1>9, <2>1, <2>2, WhereItIs
<1>10. CASE t \notin U /\ t \notin N /\ t \notin K
  <2>1. U \subseteq U' /\ N \subseteq N' /\ K \subseteq K'
    BY <1>2, <1>10
  <2>2. R # {}
    <3>1. t \notin R'
      <4>1. ASSUME SendPark(t) PROVE pc[t] = "send" /\ Chan(t)' = Chan(t)
        BY <4>1 DEF SendPark, callVars, Chan
      <4> QED  BY <1>6, <1>10, <4>1, WhereItIs
    <3> QED  BY <1>2, <1>6, <3>1
  <2>3. ~(SendAccept(t) /\ Chan(t) = c)
    BY <1>6, <1>10 DEF SendAccept
  <2>4. CASE (RecvTake(t) \/ SelectTake(t)) /\ Chan(t) = c
    <3>1. t \in N' /\ t \notin N
      BY <1>0, <1>6, <1>10, <2>4 DEF RecvTake, SelectTake, Take, Goto, TypeOK, callVars, Chan
    <3>2. Len(queue'[c]) >= Len(queue[c]) - 1
      BY <1>4
    <3>3. (closed'[c] => closed[c] \/ t \in K') /\ (closed[c] => closed'[c])
      BY <1>4, <1>6
    <3> HIDE DEF U, N, K, R
    <3>4. Cardinality(U) <= Cardinality(U') /\ Cardinality(N) + 1 <= Cardinality(N')
      BY <1>5, <2>1, <3>1
    <3>5. closed[c] \/ Capacity[c] - Len(queue'[c]) <= Cardinality(U') + Cardinality(N')
      <4>1. ASSUME NEW n \in Nat, NEW m \in Nat, NEW k \in Nat, NEW a \in Nat, NEW b \in Nat,
                   NEW a1 \in Nat, NEW b1 \in Nat,
                   n - m <= a + b, k >= m - 1, a <= a1, b + 1 <= b1
            PROVE  n - k <= a1 + b1
        BY <4>1
      <4>2. /\ Len(queue[c]) \in Nat /\ Len(queue'[c]) \in Nat /\ Capacity[c] \in Nat
            /\ Cardinality(U) \in Nat /\ Cardinality(U') \in Nat
            /\ Cardinality(N) \in Nat /\ Cardinality(N') \in Nat
        BY <1>4, <1>5
      <4>3. closed[c] \/ Capacity[c] - Len(queue[c]) <= Cardinality(U) + Cardinality(N)
        BY <1>3, <2>2
      <4> QED  BY <3>2, <3>4, <4>1, <4>2, <4>3
    <3> QED  BY <1>3, <2>1, <2>2, <3>3, <3>5
  <2>5. CASE ~((RecvTake(t) \/ SelectTake(t)) /\ Chan(t) = c)
    <3>1. queue'[c] = queue[c]
      BY <1>4, <2>3, <2>5
    <3>2. closed'[c] => closed[c] \/ t \in K'
      BY <1>4, <1>6
    <3>3. closed[c] => closed'[c]
      BY <1>4
    <3> HIDE DEF U, N, K, R
    <3> QED  BY <1>3, <1>4, <1>5, <2>1, <2>2, <3>1, <3>2, <3>3
  <2> QED  BY <2>4, <2>5
<1> QED  BY <1>7, <1>8, <1>9, <1>10

\* A channel becomes available by a thread that has the gate to pass after that.
LEMMA StirredBy ==
    ASSUME ChannelInv, NEW t \in Threads, Acts(t)
    PROVE  \A c \in Chans : Available(c)' => Available(c) \/ pc'[t] \in BeforeGate
<1>0. TypeOK
  BY DEF ChannelInv
<1> SUFFICES ASSUME NEW c \in Chans, Available(c)' PROVE Available(c) \/ pc'[t] \in BeforeGate
  OBVIOUS
<1>1. SendAccept(t) => pc'[t] = "notifyReceiver"
  BY <1>0 DEF SendAccept, Goto, TypeOK
<1>2. \/ SendAccept(t) \/ queue[c] # <<>> \/ queue'[c] = queue[c]
  BY ChannelMoves
<1>3. \/ closed'[c] = closed[c] \/ pc'[t] = "closeReceivers"
  BY ChannelMoves
<1> QED  BY <1>1, <1>2, <1>3 DEF Available, BeforeGate

\* Who has the gate to pass still has, while somebody holds it; and while there
\* is a listener, leaves only by notifying everybody.
LEMMA StirringLasts ==
    ASSUME ChannelInv, NEW t \in Threads, Acts(t), NEW s \in Listeners
    PROVE  /\ gateOwner # NoThread /\ SomebodyIn(BeforeGate) => SomebodyIn(BeforeGate)'
           /\ ~GateNotify(t) /\ SomebodyIn(BeforeGate \cup {"gateNotify"}) =>
                SomebodyIn(BeforeGate \cup {"gateNotify"})'
<1>0. TypeOK
  BY DEF ChannelInv
<1>1. listeners > 0
  <2>1. Listeners \in SUBSET Threads /\ Listeners # {}
    BY DEF Listeners
  <2> QED  BY <1>0, <2>1, ThreadSets DEF ChannelInv, ListenersCounted, TypeOK
<1>2. \A u \in Threads \ {t} : pc[u] \in BeforeGate \cup {"gateNotify"} => pc'[u] = pc[u]
  BY <1>0, Others DEF BeforeGate, Blocked
<1>3. pc[t] \in BeforeGate => pc'[t] \in BeforeGate \/ (GateLock(t) /\ pc'[t] = "gateNotify")
  <2>1. CASE NotifyReceiver(t)
    BY <1>0, <2>1 DEF NotifyReceiver, NotifyOne, Waking, Goto, BeforeGate, TypeOK
  <2>2. CASE CloseReceivers(t) \/ CloseSenders(t)
    BY <1>0, <2>2 DEF CloseReceivers, CloseSenders, Waking, BeforeGate, TypeOK
  <2>3. CASE CancelLoad(t)
    BY <1>0, <1>1, <2>3 DEF CancelLoad, Goto, BeforeGate, TypeOK
  <2>4. CASE GateLock(t)
    BY <1>0, <2>4 DEF GateLock, Goto, TypeOK
  <2> QED  BY <2>1, <2>2, <2>3, <2>4, WhereItIs DEF BeforeGate
<1>4. pc[t] = "gateNotify" => GateNotify(t)
  BY WhereItIs
<1> QED  BY <1>2, <1>3, <1>4 DEF SomebodyIn, GateLock

\* select() goes to sleep only beside somebody who will pass the gate.
LEMMA SelectNext ==
    ASSUME ChannelInv, SelectInv, NEW t \in Threads, Acts(t)
    PROVE  SelectInv'
<1> SUFFICES ASSUME NEW s \in Threads
    PROVE  /\ pc'[s] = "selectScan" =>
                \A i \in 1 .. (pos'[s] - 1) : Available(call[s].chans[i])' => SomebodyIn(BeforeGate)'
           /\ pc'[s] = "selectDecide" =>
                \A i \in DOMAIN call'[s].chans :
                    Available(call[s].chans[i])' => SomebodyIn(BeforeGate)'
           /\ pc'[s] = "selectWait" =>
                /\ \A i \in DOMAIN call'[s].chans :
                     Available(call[s].chans[i])' => SomebodyIn(BeforeGate \cup {"gateNotify"})'
                /\ cancelled'[s] /\ s \notin late' => SomebodyIn(BeforeGate \cup {"gateNotify"})'
           /\ cancelled'[s] => s \in Isolates
  BY DEF SelectInv
<1>0. /\ TypeOK /\ CallFit(s) /\ GateFit(s) /\ CallFit(t) /\ GateFit(t)
      /\ NoThread \notin Threads /\ pos[s] \in Nat
  BY ThreadsAssumption DEF ChannelInv, Fits, TypeOK
<1>1. /\ pc[s] = "selectScan" =>
           \A i \in 1 .. (pos[s] - 1) : Available(call[s].chans[i]) => SomebodyIn(BeforeGate)
      /\ pc[s] = "selectDecide" =>
           \A i \in DOMAIN call[s].chans : Available(call[s].chans[i]) => SomebodyIn(BeforeGate)
      /\ pc[s] = "selectWait" =>
           /\ \A i \in DOMAIN call[s].chans :
                Available(call[s].chans[i]) => SomebodyIn(BeforeGate \cup {"gateNotify"})
           /\ cancelled[s] /\ s \notin late => SomebodyIn(BeforeGate \cup {"gateNotify"})
  BY DEF SelectInv
<1>2. UNCHANGED <<cancelled, late>> /\ (cancelled'[s] => s \in Isolates)
  BY CancelsKept DEF SelectInv
<1>3. pc'[t] \in BeforeGate => SomebodyIn(BeforeGate)' /\ SomebodyIn(BeforeGate \cup {"gateNotify"})'
  BY DEF SomebodyIn
<1>4. pc[s] \in {"selectScan", "selectDecide", "selectWait"} =>
        /\ call[s].op = "select" /\ s \in Listeners
        /\ pos[s] \in 1 .. Len(call[s].chans) /\ Len(call[s].chans) \in Nat
        /\ DOMAIN call[s].chans = 1 .. Len(call[s].chans)
        /\ \A i \in DOMAIN call[s].chans : call[s].chans[i] \in Chans
  <2>1. pc[s] \in {"selectScan", "selectDecide", "selectWait"} =>
          call[s].op = "select" /\ s \in Listeners
    BY <1>0 DEF CallFit, Listening, Inside, Listeners
  <2> QED  BY <2>1, AtAChannel
<1>5. CASE s # t
  <2>1. /\ call'[s] = call[s] /\ pos'[s] = pos[s]
        /\ pc'[s] \in {"selectScan", "selectDecide", "selectWait"} => pc[s] = pc'[s]
    BY <1>0, <1>5, Others DEF WokenPlace
  <2>2. pc[s] \in {"selectScan", "selectDecide"} => gateOwner # NoThread
    BY <1>0 DEF GateFit, Inside
  <2>3. pc'[s] = "selectWait" => ~GateNotify(t)
    BY <1>0, <1>5 DEF GateNotify, Waking, WokenPlace
  <2>4. ASSUME pc'[s] = "selectScan", NEW i \in 1 .. (pos'[s] - 1), Available(call[s].chans[i])'
        PROVE  SomebodyIn(BeforeGate)'
    <3>1. PICK c \in Chans : c = call[s].chans[i]
      BY <1>4, <2>1, <2>4
    <3>2. Available(c)'
      BY <2>1, <2>4, <3>1 DEF Available
    <3>3. Available(call[s].chans[i]) \/ pc'[t] \in BeforeGate
      BY <3>1, <3>2, StirredBy
    <3> QED  BY <1>1, <1>3, <1>4, <2>1, <2>2, <2>4, <3>3, StirringLasts
  <2>5. ASSUME pc'[s] \in {"selectDecide", "selectWait"}, NEW i \in DOMAIN call'[s].chans,
               Available(call[s].chans[i])'
        PROVE  Available(call[s].chans[i]) \/ pc'[t] \in BeforeGate
    <3>1. PICK c \in Chans : c = call[s].chans[i]
      BY <1>4, <2>1, <2>5
    <3>2. Available(c)'
      BY <2>1, <2>5, <3>1 DEF Available
    <3> QED  BY <3>1, <3>2, StirredBy
  <2>6. ASSUME pc'[s] = "selectDecide", NEW i \in DOMAIN call'[s].chans, Available(call[s].chans[i])'
        PROVE  SomebodyIn(BeforeGate)'
    BY <1>1, <1>3, <1>4, <2>1, <2>2, <2>5, <2>6, StirringLasts
  <2>7. ASSUME pc'[s] = "selectWait", NEW i \in DOMAIN call'[s].chans, Available(call[s].chans[i])'
        PROVE  SomebodyIn(BeforeGate \cup {"gateNotify"})'
    BY <1>1, <1>3, <1>4, <2>1, <2>3, <2>5, <2>7, StirringLasts
  <2>8. ASSUME pc'[s] = "selectWait", cancelled'[s], s \notin late'
        PROVE  SomebodyIn(BeforeGate \cup {"gateNotify"})'
    BY <1>1, <1>2, <1>4, <2>1, <2>3, <2>8, StirringLasts
  <2> QED  BY <1>2, <2>4, <2>6, <2>7, <2>8
<1>6. CASE s = t
  <2>1. ASSUME pc'[t] = "selectScan", NEW i \in 1 .. (pos'[t] - 1), Available(call[t].chans[i])'
        PROVE  SomebodyIn(BeforeGate)'
    <3>1. CASE SelectLock(t)
      BY <1>0, <2>1, <3>1 DEF SelectLock, TypeOK
    <3>2. CASE pc[t] = "selectScan" /\ SelectSkip(t)
      <4>1. /\ pos'[t] = pos[t] + 1 /\ UNCHANGED <<queue, closed, call, pc>> /\ ~Available(Chan(t))
        BY <1>0, <3>2 DEF SelectSkip, channelVars, TypeOK
      <4>2. Available(call[t].chans[i])
        BY <2>1, <4>1 DEF Available
      <4>3. i # pos[t]
        BY <4>1, <4>2 DEF Chan
      <4>4. i \in 1 .. (pos[t] - 1)
        BY <1>0, <1>6, <2>1, <4>1, <4>3
      <4>5. SomebodyIn(BeforeGate)
        BY <1>1, <1>6, <3>2, <4>2, <4>4
      <4> QED  BY <4>1, <4>5 DEF SomebodyIn
    <3> QED  BY <2>1, <3>1, <3>2, WhereItIs
  <2>2. ASSUME pc'[t] = "selectDecide", NEW i \in DOMAIN call'[t].chans, Available(call[t].chans[i])'
        PROVE  SomebodyIn(BeforeGate)'
    <3>1. pc[t] = "selectScan" /\ SelectMiss(t)
      BY <2>2, WhereItIs
    <3>2. UNCHANGED <<queue, closed, call, gateOwner>> /\ ~Available(Chan(t))
          /\ pos[t] = Len(call[t].chans)
      BY <3>1 DEF SelectMiss, channelVars, callVars, gateVars
    <3>3. Available(call[t].chans[i])
      BY <2>2, <3>2 DEF Available
    <3>4. i # pos[t]
      BY <3>2, <3>3 DEF Chan
    <3>5. i \in 1 .. Len(call[t].chans)
      BY <1>4, <1>6, <2>2, <3>1, <3>2
    <3>6. i \in 1 .. (pos[t] - 1)
      BY <1>0, <1>6, <3>2, <3>4, <3>5
    <3>7. SomebodyIn(BeforeGate) /\ gateOwner # NoThread /\ t \in Listeners
      BY <1>0, <1>1, <1>4, <1>6, <3>1, <3>3, <3>6 DEF GateFit, Inside
    <3> QED  BY <3>7, StirringLasts
  <2>3. ASSUME pc'[t] = "selectWait"
        PROVE  /\ \A i \in DOMAIN call'[t].chans :
                    Available(call[t].chans[i])' => SomebodyIn(BeforeGate \cup {"gateNotify"})'
               /\ ~cancelled'[t]
    <3>1. SelectPark(t) /\ pc[t] = "selectDecide"
      BY <2>3, WhereItIs DEF SelectPark
    <3>2. UNCHANGED <<queue, closed, call>> /\ ~cancelled'[t]
      BY <1>2, <1>6, <3>1 DEF SelectPark, channelVars, callVars
    <3>3. ASSUME NEW i \in DOMAIN call'[t].chans, Available(call[t].chans[i])'
          PROVE  SomebodyIn(BeforeGate \cup {"gateNotify"})'
      <4>1. Available(call[t].chans[i]) /\ i \in DOMAIN call[t].chans
        BY <3>2, <3>3 DEF Available
      <4>2. SomebodyIn(BeforeGate) /\ gateOwner # NoThread /\ t \in Listeners
        BY <1>0, <1>1, <1>4, <1>6, <3>1, <4>1 DEF GateFit, Inside
      <4>3. SomebodyIn(BeforeGate)'
        BY <4>2, StirringLasts
      <4> QED  BY <4>3 DEF SomebodyIn
    <3> QED  BY <3>2, <3>3
  <2> QED  BY <1>2, <1>6, <2>1, <2>2, <2>3
<1> QED  BY <1>5, <1>6

\* A cancellation that is seen at last has its cancel() still under way, or
\* finds the select awake, or comes late.
LEMMA FlushKeepsWakeups ==
    ASSUME WakeInv, NEW t \in Threads, Flush(t)
    PROVE  WakeInv'
<1>0. ChannelInv /\ TypeOK /\ ReceiverWakeup /\ SenderWakeup /\ SelectInv
  BY DEF WakeInv, ChannelInv
<1>1. /\ ChannelInv'
      /\ UNCHANGED <<queue, closed, gateOwner, listeners, call, deadline, pos, pc, result>>
  BY <1>0, FlushNext
<1>2. PICK u \in Isolates : /\ cancelled' = [cancelled EXCEPT ![u] = TRUE]
                            /\ pc[t] \in {"cancelLoad", "gateLock"} \/ pc[u] # "selectWait"
                               \/ cancelled[u] \/ u \in late'
                            /\ late \subseteq late'
  BY <1>0, FlushNext
<1>3. ReceiverWakeup' /\ SenderWakeup'
  BY <1>0, <1>1 DEF ReceiverWakeup, SenderWakeup, At, Chan
<1>4. SelectInv'
  <2> SUFFICES ASSUME NEW s \in Threads
               PROVE  /\ pc[s] = "selectScan" =>
                           \A i \in 1 .. (pos[s] - 1) :
                               Available(call[s].chans[i]) => SomebodyIn(BeforeGate)
                      /\ pc[s] = "selectDecide" =>
                           \A i \in DOMAIN call[s].chans :
                               Available(call[s].chans[i]) => SomebodyIn(BeforeGate)
                      /\ pc[s] = "selectWait" =>
                           /\ \A i \in DOMAIN call[s].chans :
                                Available(call[s].chans[i]) => SomebodyIn(BeforeGate \cup {"gateNotify"})
                           /\ cancelled'[s] /\ s \notin late' => SomebodyIn(BeforeGate \cup {"gateNotify"})
                      /\ cancelled'[s] => s \in Isolates
    BY <1>1 DEF SelectInv, Available, SomebodyIn
  <2>1. cancelled'[s] => cancelled[s] \/ s = u
    BY <1>0, <1>2 DEF TypeOK
  <2>2. ASSUME pc[s] = "selectWait", cancelled'[s], s \notin late'
        PROVE  SomebodyIn(BeforeGate \cup {"gateNotify"})
    <3>1. CASE cancelled[s]
      BY <1>0, <1>2, <2>2, <3>1 DEF SelectInv
    <3>2. CASE ~cancelled[s]
      <4>1. pc[t] \in BeforeGate
        BY <1>2, <2>1, <2>2, <3>2 DEF BeforeGate
      <4> QED  BY <4>1 DEF SomebodyIn
    <3> QED  BY <3>1, <3>2
  <2> QED  BY <1>0, <2>1, <2>2 DEF SelectInv
<1> QED  BY <1>1, <1>3, <1>4 DEF WakeInv

\* Everything above, and a strengthening of NoLostWakeup, holds from the start
\* and through every step.
LEMMA WakeInvAlways == Spec => []WakeInv
<1>1. Init => WakeInv
  <2> SUFFICES ASSUME Init PROVE WakeInv
    OBVIOUS
  <2>1. ReceiverWakeup /\ SenderWakeup
    BY DEF Init, ReceiverWakeup, SenderWakeup, At
  <2>2. SelectInv
    BY DEF Init, SelectInv
  <2> QED  BY <2>1, <2>2, ChannelInvInit DEF WakeInv
<1>2. WakeInv /\ [Next]_vars => WakeInv'
  <2> SUFFICES ASSUME WakeInv, [Next]_vars PROVE WakeInv'
    OBVIOUS
  <2>1. ChannelInv'
    BY ChannelInvNext DEF WakeInv
  <2>2. CASE UNCHANGED vars
    <3>1. ReceiverWakeup' /\ SenderWakeup'
      BY <2>2 DEF WakeInv, ReceiverWakeup, SenderWakeup, At, Chan, vars, channelVars, callVars
    <3>2. SelectInv'
      BY <2>2 DEF WakeInv, SelectInv, SomebodyIn, Available, vars, channelVars, callVars, cancelVars
    <3> QED  BY <2>1, <3>1, <3>2 DEF WakeInv
  <2>3. ASSUME NEW t \in Threads, Acts(t) PROVE WakeInv'
    BY <2>1, <2>3, ReceiverNext, SenderNext, SelectNext DEF WakeInv
  <2>4. ASSUME NEW t \in Threads, Flush(t) PROVE WakeInv'
    BY <2>4, FlushKeepsWakeups
  <2> QED  BY <2>2, <2>3, <2>4 DEF Next, Acts
<1> QED  BY <1>1, <1>2, PTL DEF Spec

\* The types of the channels' state are kept by every operation on them, for
\* any number of threads, channels and messages.
THEOREM ChannelTypes == Spec => []TypeOK
<1>1. WakeInv => TypeOK
  BY DEF WakeInv, ChannelInv
<1> QED  BY <1>1, WakeInvAlways, PTL

\* No notification of send_inner, recv_inner, try_recv, close or
\* wake_all_waiters is lost: nobody sleeps on a channel, or in a select over
\* several, beside what it waits for; nor beside its own cancellation, but for
\* the select that cancel()'s relaxed load left asleep before its store was
\* seen (late).
THEOREM Wakeups == Spec => []NoLostWakeup
<1>1. WakeInv => NoLostWakeup
  <2> SUFFICES ASSUME WakeInv PROVE SelectWakeup
    BY DEF WakeInv, NoLostWakeup
  <2> QED  BY DEF WakeInv, SelectInv, SelectWakeup, SomebodyIn, BeforeGate
<1> QED  BY <1>1, WakeInvAlways, PTL
-----------------------------------------------------------------------------
(* The locks, condition variables and wake gate implement AbstractChannel *)

IsPending == [t \in Threads |-> Pending(t)]

\* A step in which a call takes effect, as AbstractChannel sees it.
LEMMA Responds ==
    ASSUME ChannelInv, NEW t \in Threads, call[t].op \in Operations, pc[t] \in Waiting,
           NEW r, r # NoResult, result' = [result EXCEPT ![t] = r], UNCHANGED <<call, cancelled>>
    PROVE  Abs!Respond(t, r)
<1>1. result[t] = NoResult /\ result \in [Threads -> Result]
  BY DEF ChannelInv, Fits, ResultFit, TypeOK
<1>2. Pending(t) /\ ~Pending(t)' /\ \A u \in Threads \ {t} : Pending(u)' = Pending(u)
  BY <1>1 DEF Pending, Operations
<1>3. IsPending[t] /\ IsPending' = [IsPending EXCEPT ![t] = FALSE]
  BY <1>2 DEF IsPending, Pending
<1> QED  BY <1>3 DEF Abs!Respond, IsPending

\* A step that AbstractChannel does not see.
LEMMA Stutters ==
    ASSUME UNCHANGED <<queue, closed, cancelled, call, result>>
    PROVE  UNCHANGED Abs!vars
<1>1. IsPending' = IsPending
  BY DEF IsPending, Pending
<1> QED  BY <1>1 DEF Abs!vars, IsPending

\* A call that begins, close(), which takes effect as it begins, and cancel().
LEMMA StartRefines ==
    ASSUME ChannelInv, NEW t \in Threads, Start(t)
    PROVE  Abs!Step(t)
<1>0. /\ TypeOK /\ result \in [Threads -> Result] /\ call \in [Threads -> Call]
      /\ pc[t] = "idle" => ~Pending(t)
  BY DEF ChannelInv, Fits, ResultFit, TypeOK, Pending, Operations, Waiting, SendPlaces, RecvPlaces,
     Listening, Inside
<1>1. ASSUME NEW r \in Calls[t], Begin(t, r) PROVE Abs!Step(t)
  <2>1. /\ pc[t] = "idle" /\ r.op \in {"send", "recv", "try", "select"} /\ r \in Call
        /\ call' = [call EXCEPT ![t] = r] /\ result' = [result EXCEPT ![t] = NoResult]
        /\ UNCHANGED <<queue, closed, cancelled>>
    BY <1>1, CallsAre DEF Begin, channelVars, cancelVars
  <2>2. call'[t] = r /\ result'[t] = NoResult
        /\ \A u \in Threads \ {t} : call'[u] = call[u] /\ result'[u] = result[u]
    BY <1>0, <2>1
  <2>3. ~Pending(t) /\ Pending(t)' /\ \A u \in Threads \ {t} : Pending(u)' = Pending(u)
    BY <1>0, <2>1, <2>2 DEF Pending
  <2>4. ~IsPending[t] /\ IsPending' = [IsPending EXCEPT ![t] = TRUE]
    BY <2>3 DEF IsPending
  <2>5. Abs!Invoke(t)
    BY <2>1, <2>2, <2>4 DEF Abs!Invoke, Abs!Call, Call, Abs!NoResult, NoResult, Abs!Outcome,
       Outcome, IsPending
  <2> QED  BY <2>5 DEF Abs!Step
<1>2. ASSUME NEW r \in Calls[t], Close(t, r) PROVE Abs!Step(t)
  <2>1. /\ pc[t] = "idle" /\ r.chans[1] \in Chans
        /\ closed' = [closed EXCEPT ![r.chans[1]] = TRUE]
        /\ call' = [call EXCEPT ![t] = [NoCall EXCEPT !.op = "close", !.chans = <<r.chans[1]>>]]
        /\ result' = [result EXCEPT ![t] = NoResult]
        /\ UNCHANGED <<queue, cancelled>>
    BY <1>2, CallsAre DEF Close, cancelVars
  <2>2. /\ call'[t].op = "close"
        /\ \A u \in Threads \ {t} : call'[u] = call[u] /\ result'[u] = result[u]
    BY <1>0, <2>1 DEF NoCall
  <2>3. ~Pending(t) /\ ~Pending(t)' /\ \A u \in Threads \ {t} : Pending(u)' = Pending(u)
    BY <1>0, <2>1, <2>2 DEF Pending
  <2>4. ~IsPending[t] /\ IsPending' = IsPending
    BY <2>3 DEF IsPending, Pending
  <2>5. Abs!Close(t, r.chans[1])
    BY <2>1, <2>4 DEF Abs!Close, Abs!NoCall, NoCall, Abs!NoResult, NoResult, Abs!Outcome, Outcome, IsPending
  <2> QED  BY <2>1, <2>5 DEF Abs!Step
<1>3. ASSUME NEW r \in Calls[t], NEW u \in Isolates, Cancel(t, r, u) PROVE Abs!Step(t)
  <2>1. /\ pc[t] = "idle"
        /\ call' = [call EXCEPT ![t] = [NoCall EXCEPT !.op = "cancel"]]
        /\ result' = [result EXCEPT ![t] = NoResult]
        /\ UNCHANGED <<queue, closed, cancelled>>
    BY <1>3 DEF Cancel, channelVars
  <2>2. /\ call'[t].op = "cancel"
        /\ \A v \in Threads \ {t} : call'[v] = call[v] /\ result'[v] = result[v]
    BY <1>0, <2>1 DEF NoCall
  <2>3. ~Pending(t) /\ ~Pending(t)' /\ \A v \in Threads \ {t} : Pending(v)' = Pending(v)
    BY <1>0, <2>1, <2>2 DEF Pending
  <2>4. ~IsPending[t] /\ IsPending' = IsPending
    BY <2>3 DEF IsPending, Pending
  <2>5. Abs!Cancel(t)
    BY <2>1, <2>4 DEF Abs!Cancel, Abs!NoCall, NoCall, Abs!NoResult, NoResult, Abs!Outcome, Outcome, IsPending
  <2> QED  BY <1>3, <2>5 DEF Abs!Step
<1> QED  BY <1>1, <1>2, <1>3 DEF Start
\* Where the calls are in whose midst an action finds them.
LEMMA InTheCall ==
    ASSUME ChannelInv, NEW t \in Threads
    PROVE  /\ pc[t] \in SendPlaces => call[t].op = "send"
           /\ pc[t] \in RecvPlaces => call[t].op = "recv"
           /\ pc[t] = "try" => call[t].op = "try"
           /\ pc[t] = "check" => call[t].op \in {"send", "recv"}
           /\ pc[t] \in Scanning \cup {"selectDecide"} => call[t].op = "select"
           /\ pc[t] \in SendPlaces \cup RecvPlaces \cup Scanning \cup {"try", "check", "selectDecide"} =>
                /\ call[t].op \in Operations /\ pc[t] \in Waiting /\ Chan(t) \in Chans
                /\ \E i \in DOMAIN call[t].chans : call[t].chans[i] = Chan(t)
           /\ call[t].op \in {"send", "recv", "try"} => Chan(t) = call[t].chans[1]
           /\ call[t].op \in Operations /\ deadline[t] = "timeout" => call[t].timed
<1>1. CallFit(t)
  BY DEF ChannelInv, Fits
<1>2. call[t].op \notin {"none", "cancel"} =>
        Chan(t) \in Chans /\ \E i \in DOMAIN call[t].chans : call[t].chans[i] = Chan(t)
  BY AtAChannel, <1>1 DEF CallFit, Chan
<1> QED  BY <1>1, <1>2 DEF CallFit, SendPlaces, RecvPlaces, Scanning, Waiting, Operations, Listening,
             Inside, Chan

\* The outcomes of the calls are outcomes.
LEMMA RealOutcomes ==
    ASSUME NEW k \in Kinds \ {"none"}, NEW c, NEW m
    PROVE  Outcome(k, c, m) # NoResult
  BY DEF Outcome, NoResult

\* send, step by step.
LEMMA SendRefines ==
    ASSUME ChannelInv, NEW t \in Threads, Send(t)
    PROVE  Abs!Step(t) \/ UNCHANGED Abs!vars
<1> USE DEF SendPlaces, callVars, channelVars, cancelVars, Finish
<1>1. CASE SendAccept(t)
  <2>1. call[t].op = "send" /\ call[t].op \in Operations /\ pc[t] \in Waiting /\ Chan(t) \in Chans
        /\ Chan(t) = call[t].chans[1]
    BY <1>1, InTheCall DEF SendAccept
  <2>2. Outcome("sent", Chan(t), NoMsg) # NoResult
    BY RealOutcomes DEF Kinds
  <2>3. result' = [result EXCEPT ![t] = Outcome("sent", Chan(t), NoMsg)] /\ UNCHANGED <<call, cancelled>>
    BY <1>1 DEF SendAccept
  <2>4. Abs!Respond(t, Outcome("sent", Chan(t), NoMsg))
    BY <2>1, <2>2, <2>3, Responds
  <2>5. Abs!Accept(t, Chan(t))
    BY <1>1, <2>1, <2>4 DEF SendAccept, Abs!Accept, Abs!Full, Full, Abs!Outcome, Outcome
  <2> QED  BY <2>1, <2>5 DEF Abs!Step
<1>2. CASE SendRefuse(t)
  <2>1. call[t].op = "send" /\ call[t].op \in Operations /\ pc[t] \in Waiting /\ Chan(t) \in Chans
        /\ Chan(t) = call[t].chans[1]
    BY <1>2, InTheCall DEF SendRefuse
  <2>2. Outcome("closed", Chan(t), NoMsg) # NoResult
    BY RealOutcomes DEF Kinds
  <2>3. result' = [result EXCEPT ![t] = Outcome("closed", Chan(t), NoMsg)] /\ UNCHANGED <<call, cancelled>>
    BY <1>2 DEF SendRefuse
  <2>4. Abs!Respond(t, Outcome("closed", Chan(t), NoMsg))
    BY <2>1, <2>2, <2>3, Responds
  <2>5. Abs!Refuse(t, Chan(t))
    BY <1>2, <2>1, <2>4 DEF SendRefuse, Abs!Refuse, Abs!Outcome, Outcome
  <2> QED  BY <2>1, <2>5 DEF Abs!Step
<1>3. CASE SendExpire(t)
  <2>1. call[t].op = "send" /\ call[t].op \in Operations /\ pc[t] \in Waiting /\ Chan(t) \in Chans
        /\ Chan(t) = call[t].chans[1] /\ call[t].timed
    BY <1>3, InTheCall DEF SendExpire
  <2>2. Outcome("timedOut", NoChan, NoMsg) # NoResult
    BY RealOutcomes DEF Kinds
  <2>3. result' = [result EXCEPT ![t] = Outcome("timedOut", NoChan, NoMsg)] /\ UNCHANGED <<call, cancelled>>
    BY <1>3 DEF SendExpire
  <2>4. Abs!Respond(t, Outcome("timedOut", NoChan, NoMsg))
    BY <2>1, <2>2, <2>3, Responds
  <2>5. Abs!TimeOut(t)
    BY <1>3, <2>1, <2>4 DEF SendExpire, Room, Abs!TimeOut, Abs!Full, Full, Abs!Outcome, Outcome
  <2> QED  BY <2>5 DEF Abs!Step
<1>4. CASE SendPark(t) \/ SendMiss(t)
  BY <1>4, Stutters DEF SendPark, SendMiss
<1> QED  BY <1>1, <1>2, <1>3, <1>4 DEF Send

\* Taking a message, and finding the channel closed and drained: recv, try_recv
\* and select do the same.
LEMMA TakeRefines ==
    ASSUME ChannelInv, NEW t \in Threads, Take(t, Chan(t)),
           pc[t] \in RecvPlaces \cup Scanning \cup {"try"}
    PROVE  Abs!Step(t)
<1>1. /\ call[t].op \in {"recv", "try", "select"} /\ call[t].op \in Operations /\ pc[t] \in Waiting
      /\ Chan(t) \in Chans /\ \E i \in DOMAIN call[t].chans : call[t].chans[i] = Chan(t)
  BY InTheCall
<1>2. Outcome("value", Chan(t), Head(queue[Chan(t)])) # NoResult
  BY RealOutcomes DEF Kinds
<1>3. /\ result' = [result EXCEPT ![t] = Outcome("value", Chan(t), Head(queue[Chan(t)]))]
      /\ UNCHANGED <<call, cancelled>>
  BY DEF Take, callVars, cancelVars
<1>4. Abs!Respond(t, Outcome("value", Chan(t), Head(queue[Chan(t)])))
  BY <1>1, <1>2, <1>3, Responds
<1>5. Abs!Deliver(t, Chan(t))
  BY <1>1, <1>4 DEF Take, Abs!Deliver, Abs!Listens, Abs!Outcome, Outcome
<1> QED  BY <1>1, <1>5 DEF Abs!Step

LEMMA DrainedRefines ==
    ASSUME ChannelInv, NEW t \in Threads, RecvDrained(t) \/ SelectDrained(t)
    PROVE  Abs!Step(t)
<1>1. /\ call[t].op \in {"recv", "try", "select"} /\ call[t].op \in Operations /\ pc[t] \in Waiting
      /\ Chan(t) \in Chans /\ \E i \in DOMAIN call[t].chans : call[t].chans[i] = Chan(t)
  BY InTheCall DEF RecvDrained, SelectDrained, RecvPlaces
<1>2. Outcome("closed", Chan(t), NoMsg) # NoResult
  BY RealOutcomes DEF Kinds
<1>3. /\ result' = [result EXCEPT ![t] = Outcome("closed", Chan(t), NoMsg)]
      /\ UNCHANGED <<call, cancelled, queue, closed>> /\ queue[Chan(t)] = <<>> /\ closed[Chan(t)]
  BY DEF RecvDrained, SelectDrained, Finish, callVars, channelVars, cancelVars
<1>4. Abs!Respond(t, Outcome("closed", Chan(t), NoMsg))
  BY <1>1, <1>2, <1>3, Responds
<1>5. Abs!Drained(t, Chan(t))
  BY <1>1, <1>3, <1>4 DEF Abs!Drained, Abs!Listens, Abs!Outcome, Outcome
<1> QED  BY <1>1, <1>5 DEF Abs!Step

\* A call that times out: recv on an empty channel, select on whatever it saw.
LEMMA TimeOutRefines ==
    ASSUME ChannelInv, NEW t \in Threads, deadline[t] = "timeout",
           result' = [result EXCEPT ![t] = Outcome("timedOut", NoChan, NoMsg)],
           UNCHANGED <<call, cancelled, queue, closed>>,
           \/ pc[t] = "recv" /\ ~Available(Chan(t))
           \/ pc[t] \in {"selectLast", "selectDecide"}
    PROVE  Abs!Step(t)
<1>1. /\ call[t].op \in Operations /\ pc[t] \in Waiting /\ call[t].timed
      /\ \/ call[t].op = "recv" /\ Chan(t) = call[t].chans[1] /\ ~Available(Chan(t))
         \/ call[t].op = "select"
  BY InTheCall DEF RecvPlaces, Scanning
<1>2. Outcome("timedOut", NoChan, NoMsg) # NoResult
  BY RealOutcomes DEF Kinds
<1>3. Abs!Respond(t, Outcome("timedOut", NoChan, NoMsg))
  BY <1>1, <1>2, Responds
<1>4. Abs!TimeOut(t)
  BY <1>1, <1>3 DEF Available, Abs!TimeOut, Abs!Outcome, Outcome
<1> QED  BY <1>4 DEF Abs!Step

\* A call that ends because its isolate is cancelled.
LEMMA InterruptRefines ==
    ASSUME ChannelInv, NEW t \in Threads, t \in Isolates, cancelled[t],
           result' = [result EXCEPT ![t] = Outcome("cancelled", NoChan, NoMsg)],
           UNCHANGED <<call, cancelled, queue, closed>>,
           pc[t] \in {"check", "selectDecide"}
    PROVE  Abs!Step(t)
<1>1. /\ call[t].op \in Operations /\ pc[t] \in Waiting /\ call[t].op \in {"send", "recv", "select"}
  BY InTheCall
<1>2. Outcome("cancelled", NoChan, NoMsg) # NoResult
  BY RealOutcomes DEF Kinds
<1>3. Abs!Respond(t, Outcome("cancelled", NoChan, NoMsg))
  BY <1>1, <1>2, Responds
<1>4. Abs!Interrupt(t)
  BY <1>1, <1>3 DEF Abs!Interrupt, Abs!Outcome, Outcome
<1> QED  BY <1>4 DEF Abs!Step

\* recv and try_recv, step by step.
LEMMA RecvRefines ==
    ASSUME ChannelInv, NEW t \in Threads, Recv(t)
    PROVE  Abs!Step(t) \/ UNCHANGED Abs!vars
<1> USE DEF callVars, channelVars, cancelVars, Finish
<1>1. CASE RecvTake(t)
  BY <1>1, TakeRefines DEF RecvTake, RecvPlaces
<1>2. CASE RecvDrained(t)
  BY <1>2, DrainedRefines
<1>3. CASE RecvExpire(t)
  <2>1. CASE deadline[t] = "timeout"
    BY <1>3, <2>1, TimeOutRefines DEF RecvExpire
  <2>2. CASE deadline[t] # "timeout"
    BY <1>3, <2>2, Stutters DEF RecvExpire
  <2> QED  BY <2>1, <2>2
<1>4. CASE TryEmpty(t)
  <2>1. /\ call[t].op = "try" /\ call[t].op \in Operations /\ pc[t] \in Waiting
        /\ Chan(t) \in Chans /\ \E i \in DOMAIN call[t].chans : call[t].chans[i] = Chan(t)
    BY <1>4, InTheCall DEF TryEmpty
  <2>2. Outcome("empty", NoChan, NoMsg) # NoResult
    BY RealOutcomes DEF Kinds
  <2>3. /\ result' = [result EXCEPT ![t] = Outcome("empty", NoChan, NoMsg)]
        /\ UNCHANGED <<call, cancelled, queue, closed>> /\ ~Available(Chan(t))
    BY <1>4 DEF TryEmpty
  <2>4. Abs!Respond(t, Outcome("empty", NoChan, NoMsg))
    BY <2>1, <2>2, <2>3, Responds
  <2>5. Abs!Empty(t, Chan(t))
    BY <2>1, <2>3, <2>4 DEF Available, Abs!Empty, Abs!Listens, Abs!Outcome, Outcome
  <2> QED  BY <2>1, <2>5 DEF Abs!Step
<1>5. CASE RecvPark(t) \/ RecvMiss(t)
  BY <1>5, Stutters DEF RecvPark, RecvMiss
<1> QED  BY <1>1, <1>2, <1>3, <1>4, <1>5 DEF Recv

\* select, step by step.
LEMMA SelectRefines ==
    ASSUME ChannelInv, NEW t \in Threads, Select(t)
    PROVE  Abs!Step(t) \/ UNCHANGED Abs!vars
<1> USE DEF callVars, channelVars, cancelVars
<1>1. CASE SelectTake(t)
  BY <1>1, TakeRefines DEF SelectTake
<1>2. CASE SelectDrained(t)
  BY <1>2, DrainedRefines
<1>3. CASE SelectExpire(t)
  <2>1. CASE deadline[t] = "timeout"
    BY <1>3, <2>1, TimeOutRefines DEF SelectExpire, GiveUp
  <2>2. CASE deadline[t] # "timeout"
    BY <1>3, <2>2, Stutters DEF SelectExpire, GiveUp
  <2> QED  BY <2>1, <2>2
<1>4. CASE SelectCancelled(t)
  BY <1>4, InterruptRefines DEF SelectCancelled, Finish
<1>5. CASE SelectSkip(t) \/ SelectMiss(t) \/ SelectEnter(t) \/ SelectPark(t) \/ SelectLeave(t)
  BY <1>5, Stutters DEF SelectSkip, SelectMiss, SelectEnter, SelectPark, SelectLeave
<1> QED  BY <1>1, <1>2, <1>3, <1>4, <1>5 DEF Select

\* Looking at the cancellation, notifying, locking and waking.
LEMMA RestRefines ==
    ASSUME ChannelInv, NEW t \in Threads, Check(t) \/ Notify(t) \/ Lock(t) \/ Timer(t) \/ Spurious(t)
    PROVE  Abs!Step(t) \/ UNCHANGED Abs!vars
<1> USE DEF callVars, channelVars, cancelVars
<1>1. CASE Check(t)
  <2>1. CASE t \in Isolates /\ cancelled[t]
    BY <1>1, <2>1, InterruptRefines DEF Check, Finish
  <2>2. CASE ~(t \in Isolates /\ cancelled[t])
    BY <1>1, <2>2, Stutters DEF Check
  <2> QED  BY <2>1, <2>2
<1>2. CASE Notify(t) \/ Lock(t) \/ Timer(t) \/ Spurious(t)
  BY <1>2, Stutters DEF Notify, NotifyReceiver, NotifySender, CloseReceivers, CloseSenders, CancelLoad,
     GateNotify, Lock, GateLock, SelectLock, Timer, Tick, SelectTimer, Spurious
<1> QED  BY <1>1, <1>2

\* A cancellation that is seen.
LEMMA FlushRefines ==
    ASSUME ChannelInv, NEW t \in Threads, Flush(t)
    PROVE  Abs!Step(t)
<1>1. UNCHANGED <<queue, closed, call, result>> /\ call[t].op = "cancel"
  BY FlushNext
<1>2. PICK u \in Isolates : cancelled' = [cancelled EXCEPT ![u] = TRUE]
  BY FlushNext
<1>3. IsPending' = IsPending
  BY <1>1 DEF IsPending, Pending
<1>4. Abs!Mark(t, u)
  BY <1>1, <1>2, <1>3 DEF Abs!Mark, IsPending
<1> QED  BY <1>4 DEF Abs!Step

\* The channels of pool.rs, with their locks, condition variables and wake
\* gate, implement AbstractChannel: every call has the effect and the outcome
\* it would have if it took place at one instant.
THEOREM ChannelsLinearize == Spec => Linearizable
<1>1. Init => Abs!Init
  <2> SUFFICES ASSUME Init PROVE Abs!Init
    OBVIOUS
  <2>1. \A t \in Threads : Pending(t) = FALSE
    BY DEF Init, Pending, NoCall
  <2>2. IsPending = [t \in Threads |-> FALSE]
    BY <2>1 DEF IsPending
  <2> QED  BY <2>2 DEF Init, Abs!Init, IsPending, NoCall, Abs!NoCall, NoResult, Abs!NoResult, Outcome,
                       Abs!Outcome
<1>2. ChannelInv /\ [Next]_vars => [Abs!Next]_(Abs!vars)
  <2> SUFFICES ASSUME ChannelInv, [Next]_vars PROVE Abs!Next \/ UNCHANGED Abs!vars
    OBVIOUS
  <2>1. CASE UNCHANGED vars
    BY <2>1, Stutters DEF vars, channelVars, cancelVars, callVars
  <2>2. ASSUME NEW t \in Threads, Acts(t) PROVE Abs!Step(t) \/ UNCHANGED Abs!vars
    BY <2>2, StartRefines, SendRefines, RecvRefines, SelectRefines, RestRefines DEF Acts, Run
  <2>3. ASSUME NEW t \in Threads, Flush(t) PROVE Abs!Step(t)
    BY <2>3, FlushRefines
  <2> QED  BY <2>1, <2>2, <2>3 DEF Next, Acts, Abs!Next
<1>3. WakeInv => ChannelInv
  BY DEF WakeInv
<1> QED  BY <1>1, <1>2, <1>3, WakeInvAlways, PTL DEF Spec, Linearizable, Abs!Spec
=============================================================================
