------------------------------ MODULE IsolateScope ------------------------------
(***************************************************************************)
(* Structured concurrency, `isolate.scope(body)` of libs/isolate/index.zu: *)
(* a tree of isolates each of which runs a body that spawns, joins and     *)
(* cancels children, waits on channels, and then sweeps and collects what  *)
(* it spawned.  An isolate whose body spawns nothing is an ordinary task.  *)
(* The isolates share the pool's threads (IsolatePool): an isolate holds   *)
(* one from its first step to its last, blocked or not, and one that finds *)
(* none free is queued.  The program's own isolate has a thread apart.     *)
(***************************************************************************)
EXTENDS Naturals, Sequences, FiniteSets

CONSTANTS Isolates,  \* every isolate of the tree, the program's own included
          Main,      \* the isolate nobody holds a handle to
          Cancelling,\* isolates whose body may call cancel() on a child itself
          MaxCalls,  \* bound: blocking and cancel calls one body makes
          Sizes,     \* how many threads the pool may be configured to have
          None

ASSUME ScopeAssumption ==
    /\ IsFiniteSet(Isolates)
    /\ Main \in Isolates
    /\ Cancelling \subseteq Isolates
    /\ MaxCalls \in Nat
    /\ Sizes \subseteq Nat \ {0}
    /\ None \notin Isolates

VARIABLES pc,        \* where each isolate is in scope()
          kids,      \* Scope._children, in spawn order
          calls,     \* calls the body has made, up to MaxCalls
          target,    \* whom the body's join() waits for
          at,        \* position of the for loop over children()
          cancelled, \* IsolateState.cancelled
          outcome,   \* IsolateState.slot, by the kind of its message
          bodyError, \* `body_error`
          firstFailure, \* `first_failure`
          size       \* IsolatePool.size, fixed when the pool starts

vars == <<pc, kids, calls, target, at, cancelled, outcome, bodyError, firstFailure, size>>

Pcs == {"unborn", "queued", "body", "joining", "waiting", "sweep", "collect", "done"}

(* What an error says, as far as scope() can tell: a failure of the program,  *)
(* an IsolateCancelledError raised right here, or an IsolateError whose text  *)
(* is somebody else's IsolateCancelledError.                                  *)
Errors == {"failure", "interrupt", "cascade"}

(* The text an uncaught error leaves in the slot: describe_error() puts the   *)
(* class in front, so only an interrupt is stored as 'IsolateCancelledError:' *)
Outcomes == {"pending", "ok"} \cup Errors

ScopeInit ==
    /\ pc = [i \in Isolates |-> IF i = Main THEN "body" ELSE "unborn"]
    /\ kids = [i \in Isolates |-> <<>>]
    /\ calls = [i \in Isolates |-> 0]
    /\ target = [i \in Isolates |-> None]
    /\ at = [i \in Isolates |-> 1]
    /\ cancelled = [i \in Isolates |-> FALSE]
    /\ outcome = [i \in Isolates |-> "pending"]
    /\ bodyError = [i \in Isolates |-> "none"]
    /\ firstFailure = [i \in Isolates |-> "none"]
    /\ size \in Sizes

Kids(i) == {kids[i][n] : n \in DOMAIN kids[i]}

(* The handles a body can hold: its own children's, and those of the elder    *)
(* siblings, passed to it as spawn arguments.                                 *)
Handles(i) ==
    Kids(i) \cup {k \in Isolates : \E p \in Isolates : \E b \in DOMAIN kids[p] :
                                     kids[p][b] = i /\ \E a \in 1..(b - 1) : kids[p][a] = k}

(* Isolate.join(): the slot is looked at before the caller's own flag, and a  *)
(* stored failure comes back wrapped in a fresh IsolateError.                 *)
Joined(k) == outcome[k] # "pending"
JoinRaises(k) == CASE outcome[k] = "interrupt" -> "cascade"
                   [] OTHER -> outcome[k]

(* Scope.spawn(): the child joins the pool's queue, and is tracked. *)
Spawn(i, k) ==
    /\ pc[i] = "body" /\ pc[k] = "unborn"
    /\ pc' = [pc EXCEPT ![k] = "queued"]
    /\ kids' = [kids EXCEPT ![i] = Append(@, k)]
    /\ UNCHANGED <<calls, target, at, cancelled, outcome, bodyError, firstFailure>>

(* The isolates that hold a thread of the pool. *)
Held == {k \in Isolates \ {Main} : pc[k] \notin {"unborn", "queued", "done"}}

(* A free thread takes a queued isolate, cancelled meanwhile or not.  Which   *)
(* one is left open: other tasks of the program share the queue.              *)
Begin(k) ==
    /\ pc[k] = "queued"
    /\ Cardinality(Held) < size
    /\ pc' = [pc EXCEPT ![k] = "body"]
    /\ UNCHANGED <<kids, calls, target, at, cancelled, outcome, bodyError, firstFailure, size>>

(* The body leaves, by return ("none") or by an error nobody caught. *)
LeaveBody(i, error) ==
    /\ bodyError' = [bodyError EXCEPT ![i] = error]
    /\ pc' = [pc EXCEPT ![i] = "sweep"]

CallFrom(i) == /\ pc[i] = "body"
               /\ calls[i] < MaxCalls
               /\ calls' = [calls EXCEPT ![i] = @ + 1]

BodyJoin(i, k) ==
    /\ CallFrom(i)
    /\ k \in Handles(i)
    /\ pc' = [pc EXCEPT ![i] = "joining"]
    /\ target' = [target EXCEPT ![i] = k]
    /\ UNCHANGED <<kids, at, cancelled, outcome, bodyError, firstFailure>>

BodyWait(i) ==
    /\ CallFrom(i)
    /\ pc' = [pc EXCEPT ![i] = "waiting"]
    /\ UNCHANGED <<kids, target, at, cancelled, outcome, bodyError, firstFailure>>

BodyCancel(i, k) ==
    /\ CallFrom(i)
    /\ i \in Cancelling /\ k \in Kids(i)
    /\ cancelled' = [cancelled EXCEPT ![k] = TRUE]
    /\ UNCHANGED <<pc, kids, target, at, outcome, bodyError, firstFailure>>

(* A call of the body raises: the body catches it and goes on, or does not. *)
Raised(i, error) ==
    \/ pc' = [pc EXCEPT ![i] = "body"] /\ UNCHANGED bodyError
    \/ LeaveBody(i, error)

JoinAnswered(i) ==
    /\ pc[i] = "joining" /\ Joined(target[i])
    /\ IF outcome[target[i]] = "ok"
         THEN pc' = [pc EXCEPT ![i] = "body"] /\ UNCHANGED bodyError
         ELSE Raised(i, JoinRaises(target[i]))
    /\ target' = [target EXCEPT ![i] = None]
    /\ UNCHANGED <<kids, calls, at, cancelled, outcome, firstFailure>>

(* Seeded bug: join() polls the flag of the isolate it waits for.             *)
JoinWatchesTarget(i) ==
    /\ pc[i] = "joining" /\ ~Joined(target[i]) /\ cancelled[target[i]]
    /\ Raised(i, "interrupt")
    /\ target' = [target EXCEPT ![i] = None]
    /\ UNCHANGED <<kids, calls, at, cancelled, outcome, firstFailure>>

JoinInterrupted(i) ==
    /\ pc[i] = "joining" /\ ~Joined(target[i]) /\ cancelled[i]
    /\ Raised(i, "interrupt")
    /\ target' = [target EXCEPT ![i] = None]
    /\ UNCHANGED <<kids, calls, at, cancelled, outcome, firstFailure>>

(* A message came: nothing says that one ever does. *)
WaitAnswered(i) ==
    /\ pc[i] = "waiting"
    /\ pc' = [pc EXCEPT ![i] = "body"]
    /\ UNCHANGED <<kids, calls, target, at, cancelled, outcome, bodyError, firstFailure>>

WaitInterrupted(i) ==
    /\ pc[i] = "waiting" /\ cancelled[i]
    /\ Raised(i, "interrupt")
    /\ UNCHANGED <<kids, calls, target, at, cancelled, outcome, firstFailure>>

BodyReturns(i) ==
    /\ pc[i] = "body"
    /\ LeaveBody(i, "none")
    /\ UNCHANGED <<kids, calls, target, at, cancelled, outcome, firstFailure>>

BodyFails(i) ==
    /\ pc[i] = "body"
    /\ LeaveBody(i, "failure")
    /\ UNCHANGED <<kids, calls, target, at, cancelled, outcome, firstFailure>>

(* Seeded bug: the sweep stops one child short.                               *)
SweepAllButLast(i) ==
    /\ pc[i] = "sweep" /\ at[i] \in DOMAIN kids[i]
    /\ cancelled' = IF at[i] < Len(kids[i])
                      THEN [cancelled EXCEPT ![kids[i][at[i]]] = TRUE] ELSE cancelled
    /\ at' = [at EXCEPT ![i] = @ + 1]
    /\ UNCHANGED <<pc, kids, calls, target, outcome, bodyError, firstFailure>>

(* `for c in s.children() { c.cancel() }`, whatever the body did. *)
SweepOne(i) ==
    /\ pc[i] = "sweep" /\ at[i] \in DOMAIN kids[i]
    /\ cancelled' = [cancelled EXCEPT ![kids[i][at[i]]] = TRUE]
    /\ at' = [at EXCEPT ![i] = @ + 1]
    /\ UNCHANGED <<pc, kids, calls, target, outcome, bodyError, firstFailure>>

SweepEnds(i) ==
    /\ pc[i] = "sweep" /\ at[i] \notin DOMAIN kids[i]
    /\ pc' = [pc EXCEPT ![i] = "collect"]
    /\ at' = [at EXCEPT ![i] = 1]
    /\ UNCHANGED <<kids, calls, target, cancelled, outcome, bodyError, firstFailure>>

(* `!e.message.starts_with('IsolateCancelledError:')`: true of everything but *)
(* the message of a child that was itself interrupted.                        *)
Collected(i, error) ==
    /\ firstFailure' = IF firstFailure[i] = "none"
                         THEN [firstFailure EXCEPT ![i] = error] ELSE firstFailure
    /\ at' = [at EXCEPT ![i] = @ + 1]
    /\ UNCHANGED <<pc, kids, calls, target, cancelled, outcome, bodyError>>

(* Seeded bugs: a child is only polled, and the filter on messages is gone.   *)
CollectPolled(i) ==
    /\ pc[i] = "collect" /\ at[i] \in DOMAIN kids[i]
    /\ Collected(i, IF outcome[kids[i][at[i]]] = "failure" THEN "failure" ELSE "none")

CollectUnfiltered(i) ==
    /\ pc[i] = "collect" /\ at[i] \in DOMAIN kids[i]
    /\ LET k == kids[i][at[i]] IN
         /\ Joined(k)
         /\ Collected(i, IF outcome[k] = "ok" THEN "none" ELSE JoinRaises(k))

CollectOne(i) ==
    /\ pc[i] = "collect" /\ at[i] \in DOMAIN kids[i]
    /\ LET k == kids[i][at[i]] IN
         /\ Joined(k)
         /\ Collected(i, IF outcome[k] \in {"ok", "interrupt"} THEN "none" ELSE JoinRaises(k))

(* The scope's own isolate is cancelled: join() raises at once, with the text *)
(* 'join() was interrupted', and the loop records it and goes on.             *)
CollectInterrupted(i) ==
    /\ pc[i] = "collect" /\ at[i] \in DOMAIN kids[i]
    /\ ~Joined(kids[i][at[i]]) /\ cancelled[i]
    /\ Collected(i, "interrupt")

(* Seeded bugs: a child's failure is dropped, and an unset one is stored.     *)
ScopeEndsQuietly(i) ==
    /\ pc[i] = "collect" /\ at[i] \notin DOMAIN kids[i]
    /\ pc' = [pc EXCEPT ![i] = "done"]
    /\ outcome' = [outcome EXCEPT ![i] = IF bodyError[i] # "none" THEN bodyError[i] ELSE "ok"]
    /\ UNCHANGED <<kids, calls, target, at, cancelled, bodyError, firstFailure>>

ScopeEndsUnset(i) ==
    /\ pc[i] = "collect" /\ at[i] \notin DOMAIN kids[i]
    /\ pc' = [pc EXCEPT ![i] = "done"]
    /\ outcome' = [outcome EXCEPT ![i] =
           IF bodyError[i] # "none" THEN bodyError[i] ELSE firstFailure[i]]
    /\ UNCHANGED <<kids, calls, target, at, cancelled, bodyError, firstFailure>>

(* scope() re-raises the body's error, else the first failure, else returns;  *)
(* the isolate ends with that.                                                *)
ScopeEnds(i) ==
    /\ pc[i] = "collect" /\ at[i] \notin DOMAIN kids[i]
    /\ pc' = [pc EXCEPT ![i] = "done"]
    /\ outcome' = [outcome EXCEPT ![i] =
           CASE bodyError[i] # "none" -> bodyError[i]
             [] bodyError[i] = "none" /\ firstFailure[i] # "none" -> firstFailure[i]
             [] OTHER -> "ok"]
    /\ UNCHANGED <<kids, calls, target, at, cancelled, bodyError, firstFailure>>

Run(i) ==
    /\ \/ \E k \in Isolates : Spawn(i, k) \/ BodyJoin(i, k) \/ BodyCancel(i, k)
       \/ BodyWait(i) \/ JoinAnswered(i) \/ JoinInterrupted(i) \/ WaitInterrupted(i)
       \/ BodyReturns(i) \/ BodyFails(i)
       \/ SweepOne(i) \/ SweepEnds(i) \/ CollectOne(i) \/ CollectInterrupted(i) \/ ScopeEnds(i)
    /\ UNCHANGED size

(* The environment of isolate i: the pool's threads, and who sends messages.  *)
Environment(i) == Begin(i) \/ (WaitAnswered(i) /\ UNCHANGED size)

Next == \E i \in Isolates : Run(i) \/ Environment(i)

Spec == ScopeInit /\ [][Next]_vars

(* A thread that has an isolate goes on running it, a cancelled call gives up *)
(* within a poll tick, and a free thread does not leave the queue standing    *)
(* (EverythingEnds of IsolatePool).  Nothing says that a thread gets free.    *)
FairSpec ==
    /\ Spec
    /\ \A i \in Isolates : WF_vars(Run(i))
    /\ WF_vars(\E k \in Isolates : Begin(k))

-------------------------------------------------------------------------------

(* Every variable has its type. *)
TypeOK ==
    /\ pc \in [Isolates -> Pcs]
    /\ kids \in [Isolates -> UNION {[1..n -> Isolates] : n \in 0..Cardinality(Isolates)}]
    /\ calls \in [Isolates -> 0..MaxCalls]
    /\ target \in [Isolates -> Isolates \cup {None}]
    /\ at \in [Isolates -> 1..(Cardinality(Isolates) + 1)]
    /\ cancelled \in [Isolates -> BOOLEAN]
    /\ outcome \in [Isolates -> Outcomes]
    /\ bodyError \in [Isolates -> Errors \cup {"none"}]
    /\ firstFailure \in [Isolates -> Errors \cup {"none"}]
    /\ size \in Sizes
    /\ Cardinality(Held) <= size

(* A scope that returned normally owns no running child and hides no failed   *)
(* one, even when its own isolate was cancelled while it collected them       *)
(* (scope()'s join loop, and the order of its final raises).                  *)
ReturnMeansContained ==
    \A i \in Isolates : outcome[i] = "ok" =>
        \A k \in Kids(i) : pc[k] = "done" /\ outcome[k] \in {"ok", "interrupt"}

(* A scope left in whatever way leaves no child running that has not been     *)
(* told to stop (scope() sweeps before it collects).                          *)
NoRunaway ==
    \A i \in Isolates : pc[i] = "done" =>
        \A k \in Kids(i) : pc[k] = "done" \/ cancelled[k]

(* The scope of the program's own isolate, which nobody can cancel, outlives  *)
(* every child it spawned (scope() joins every child, whatever it raises).    *)
MainOutlivesItsChildren ==
    pc[Main] = "done" => \A k \in Kids(Main) : pc[k] = "done"

(* What a scope() that is over leaves behind: how far its children are         *)
(* contained depends on how the sweep and the joins were left, and by whom.    *)
ChildrenAreContained == ReturnMeansContained /\ NoRunaway /\ MainOutlivesItsChildren

(* A scope whose body raised nothing, and which was let collect its children, *)
(* raises what the first of them in spawn order failed with, and returns when *)
(* none failed; a child that was itself interrupted has not failed (the order *)
(* of the join loop, the starts_with filter and the two raises).  A child     *)
(* that failed because it joined an interrupted one HAS failed here: the      *)
(* filter does not know it, against what scope() says (NoCascadeIsRaised).    *)
FirstFailureIsRaised ==
    \A i \in Isolates :
        (pc[i] = "done" /\ bodyError[i] = "none" /\ ~cancelled[i]) =>
            LET failed == {n \in DOMAIN kids[i] : outcome[kids[i][n]] \notin {"ok", "interrupt"}}
            IN  outcome[i] = IF failed = {} THEN "ok"
                             ELSE outcome[kids[i][CHOOSE n \in failed : \A m \in failed : n <= m]]

(* "the earliest child failure (excluding secondary `IsolateCancelledError`   *)
(* cascades) is re-raised" (index.zu:645-648): a scope never raises for its   *)
(* children the echo of a cancellation.                                       *)
NoCascadeIsRaised ==
    \A i \in Isolates : (pc[i] = "done" /\ bodyError[i] = "none") => outcome[i] # "cascade"

(* An isolate that was asked to stop and has a thread ends, with everything   *)
(* below it swept (cancel(), with every blocking call of the body and of the  *)
(* join loop aware of it).                                                    *)
CancelledIsolateEnds ==
    \A i \in Isolates : (cancelled[i] /\ pc[i] \notin {"unborn", "queued"}) ~> (pc[i] = "done")

(* The program's own scope, once its body is over, is left, however few       *)
(* threads the pool has: its sweep frees the threads its children wait for.   *)
MainTeardownEnds == (pc[Main] \in {"sweep", "collect"}) ~> (pc[Main] = "done")

(* An isolate waits for a thread, and none is free (ch11:1013-1026).          *)
Starved == Cardinality(Held) = size /\ \E k \in Isolates : pc[k] = "queued"

(* Any other scope whose body is over is left too, unless the pool starves:   *)
(* nothing but a child without a thread keeps its sweep and its joins.        *)
OnlyStarvationHangs ==
    \A i \in Isolates : (<>[](pc[i] \in {"sweep", "collect"})) => (<>[]Starved)

(* The tree comes down: an isolate asked to stop ends, and a scope() whose    *)
(* body is over gets through its sweep and its joins.                         *)
TreeComesDown == CancelledIsolateEnds /\ MainTeardownEnds /\ OnlyStarvationHangs
================================================================================
