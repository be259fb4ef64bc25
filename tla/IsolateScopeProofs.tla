-------------------------- MODULE IsolateScopeProofs --------------------------
(***************************************************************************)
(* Proofs about IsolateScope, for any tree of isolates, whatever its       *)
(* bodies do and however many threads the pool has: its types, how far a   *)
(* scope that is over contains its children, and which of their failures   *)
(* it raises.                                                              *)
(***************************************************************************)
EXTENDS IsolateScope, FiniteSetTheorems, TLAPS

-----------------------------------------------------------------------------
(* The inductive invariant *)

\* The types, with the lengths left out.
Shapes ==
    /\ pc \in [Isolates -> Pcs]
    /\ kids \in [Isolates -> Seq(Isolates)]
    /\ calls \in [Isolates -> 0..MaxCalls]
    /\ target \in [Isolates -> Isolates \cup {None}]
    /\ at \in [Isolates -> Nat \ {0}]
    /\ cancelled \in [Isolates -> BOOLEAN]
    /\ outcome \in [Isolates -> Outcomes]
    /\ bodyError \in [Isolates -> Errors \cup {"none"}]
    /\ firstFailure \in [Isolates -> Errors \cup {"none"}]
    /\ size \in Sizes

\* A child is spawned once and runs from then on; nobody has the program's own isolate for
\* a child, so nobody cancels it; and who is through with its scope has an outcome.
Tree ==
    /\ pc[Main] # "unborn" /\ ~cancelled[Main]
    /\ \A i \in Isolates :
         /\ \A n \in DOMAIN kids[i] : pc[kids[i][n]] # "unborn" /\ kids[i][n] # Main
         /\ \A m, n \in DOMAIN kids[i] : kids[i][m] = kids[i][n] => m = n
         /\ outcome[i] # "pending" <=> pc[i] = "done"
         /\ pc[i] = "joining" => target[i] \in Isolates

\* scope() before its sweep, in it, and after it: the sweep has told the children it has
\* passed to stop, and the join loop knows of the children it has passed how they ended, or
\* has noted a failure, or was interrupted.
Before(i) == pc[i] \in {"unborn", "queued", "body", "joining", "waiting"} => at[i] = 1

Swept(i) ==
    /\ pc[i] = "sweep" => \A n \in DOMAIN kids[i] : n < at[i] => cancelled[kids[i][n]]
    /\ pc[i] \in {"collect", "done"} => \A n \in DOMAIN kids[i] : cancelled[kids[i][n]]

CollectedSoFar(i) ==
    pc[i] \in {"collect", "done"} =>
        \A n \in DOMAIN kids[i] : n < at[i] =>
            /\ firstFailure[i] = "none" => outcome[kids[i][n]] \in {"ok", "interrupt"}
            /\ cancelled[i] \/ outcome[kids[i][n]] # "pending"

Blamed(i) ==
    (firstFailure[i] # "none" /\ ~cancelled[i]) =>
        \E n \in DOMAIN kids[i] :
            /\ outcome[kids[i][n]] \in {"failure", "cascade"}
            /\ firstFailure[i] = outcome[kids[i][n]]
            /\ \A m \in DOMAIN kids[i] : m < n => outcome[kids[i][m]] \in {"ok", "interrupt"}

Ended(i) ==
    pc[i] = "done" =>
        /\ at[i] > Len(kids[i])
        /\ bodyError[i] = "none" =>
               outcome[i] = IF firstFailure[i] = "none" THEN "ok" ELSE firstFailure[i]
        /\ outcome[i] = "ok" => bodyError[i] = "none"

Phase(i) ==
    /\ at[i] <= Len(kids[i]) + 1
    /\ Before(i) /\ Swept(i) /\ CollectedSoFar(i) /\ Blamed(i) /\ Ended(i)

ScopeInv == Shapes /\ Tree /\ Cardinality(Held) <= size /\ \A i \in Isolates : Phase(i)

-----------------------------------------------------------------------------
(* Types *)

\* The children of an isolate are isolates, in the order of the positions.
LEMMA KidsAre ==
    ASSUME Shapes, NEW i \in Isolates
    PROVE  /\ kids[i] \in Seq(Isolates) /\ Len(kids[i]) \in Nat
           /\ DOMAIN kids[i] = 1 .. Len(kids[i])
           /\ \A n \in DOMAIN kids[i] : kids[i][n] \in Isolates
           /\ at[i] \in Nat /\ at[i] >= 1
           /\ Kids(i) \subseteq Isolates
  BY DEF Shapes, Kids

\* An answered join raises an error or none.
LEMMA RaisesError ==
    ASSUME Shapes, NEW k \in Isolates, Joined(k), outcome[k] # "ok"
    PROVE  JoinRaises(k) \in Errors
  BY DEF Shapes, Joined, JoinRaises, Outcomes, Errors

\* Every step keeps the types.
LEMMA ShapesNext == Shapes /\ Tree /\ [Next]_vars => Shapes'
<1> SUFFICES ASSUME Shapes, Tree, [Next]_vars PROVE Shapes'
  OBVIOUS
<1>1. ASSUME NEW i \in Isolates, NEW k \in Isolates, Spawn(i, k), UNCHANGED size
      PROVE  Shapes'
  <2>1. Append(kids[i], k) \in Seq(Isolates)
    BY DEF Shapes
  <2> QED  BY <1>1, <2>1 DEF Spawn, Shapes, Pcs
<1>2. ASSUME NEW i \in Isolates, CallFrom(i)
      PROVE  calls' \in [Isolates -> 0..MaxCalls]
  <2>1. calls[i] + 1 \in 0..MaxCalls
    BY <1>2, ScopeAssumption DEF CallFrom, Shapes
  <2> QED  BY <1>2, <2>1 DEF CallFrom, Shapes
<1>3. ASSUME NEW i \in Isolates, NEW k \in Isolates, BodyJoin(i, k) \/ BodyCancel(i, k),
             UNCHANGED size
      PROVE  Shapes'
  <2>1. CASE BodyJoin(i, k)
    BY <1>2, <1>3, <2>1 DEF BodyJoin, Shapes, Pcs
  <2>2. CASE BodyCancel(i, k)
    BY <1>2, <1>3, <2>2 DEF BodyCancel, Shapes
  <2> QED  BY <1>3, <2>1, <2>2
<1>4. ASSUME NEW i \in Isolates, BodyWait(i),
             UNCHANGED size
      PROVE  Shapes'
  BY <1>2, <1>4 DEF BodyWait, Shapes, Pcs
<1>5. ASSUME NEW i \in Isolates, NEW e \in Errors, Raised(i, e)
      PROVE  pc' \in [Isolates -> Pcs] /\ bodyError' \in [Isolates -> Errors \cup {"none"}]
  <2>1. CASE pc' = [pc EXCEPT ![i] = "body"] /\ UNCHANGED bodyError
    BY <2>1 DEF Shapes, Pcs
  <2>2. CASE LeaveBody(i, e)
    BY <2>2 DEF LeaveBody, Shapes, Pcs
  <2> QED  BY <1>5, <2>1, <2>2 DEF Raised
<1>6. ASSUME NEW i \in Isolates, JoinAnswered(i),
             UNCHANGED size
      PROVE  Shapes'
  <2>1. target[i] \in Isolates /\ Joined(target[i])
    BY <1>6 DEF JoinAnswered, Tree
  <2>2. pc' \in [Isolates -> Pcs] /\ bodyError' \in [Isolates -> Errors \cup {"none"}]
    <3>1. CASE outcome[target[i]] = "ok"
      BY <1>6, <3>1 DEF JoinAnswered, Shapes, Pcs
    <3>2. CASE outcome[target[i]] # "ok"
      <4>1. JoinRaises(target[i]) \in Errors
        BY <2>1, <3>2, RaisesError
      <4>2. Raised(i, JoinRaises(target[i]))
        BY <1>6, <3>2 DEF JoinAnswered
      <4> QED  BY <1>5, <4>1, <4>2
    <3> QED  BY <3>1, <3>2
  <2> QED  BY <1>6, <2>2 DEF JoinAnswered, Shapes
<1>7. ASSUME NEW i \in Isolates, JoinInterrupted(i) \/ WaitInterrupted(i),
             UNCHANGED size
      PROVE  Shapes'
  <2>1. "interrupt" \in Errors
    BY DEF Errors
  <2>2. Raised(i, "interrupt")
    BY <1>7 DEF JoinInterrupted, WaitInterrupted
  <2>3. pc' \in [Isolates -> Pcs] /\ bodyError' \in [Isolates -> Errors \cup {"none"}]
    BY <1>5, <2>1, <2>2
  <2> QED  BY <1>7, <2>3 DEF JoinInterrupted, WaitInterrupted, Shapes
<1>8. ASSUME NEW i \in Isolates, BodyReturns(i) \/ BodyFails(i) \/ WaitAnswered(i),
             UNCHANGED size
      PROVE  Shapes'
  BY <1>8 DEF BodyReturns, BodyFails, WaitAnswered, LeaveBody, Shapes, Pcs, Errors
<1>9. ASSUME NEW i \in Isolates, SweepOne(i) \/ SweepEnds(i),
             UNCHANGED size
      PROVE  Shapes'
  <2>1. at[i] + 1 \in Nat \ {0}
    BY DEF Shapes
  <2>2. CASE SweepOne(i)
    BY <1>9, <2>1, <2>2 DEF SweepOne, Shapes
  <2>3. CASE SweepEnds(i)
    BY <1>9, <2>3 DEF SweepEnds, Shapes, Pcs
  <2> QED  BY <1>9, <2>2, <2>3
<1>10. ASSUME NEW i \in Isolates, NEW e \in Errors \cup {"none"}, Collected(i, e),
              UNCHANGED size
       PROVE  Shapes'
  <2>1. at[i] + 1 \in Nat \ {0}
    BY DEF Shapes
  <2> QED  BY <1>10, <2>1 DEF Collected, Shapes
<1>11. ASSUME NEW i \in Isolates, CollectOne(i) \/ CollectInterrupted(i),
              UNCHANGED size
       PROVE  Shapes'
  <2>1. CASE CollectOne(i)
    <3> DEFINE k == kids[i][at[i]]
               e == IF outcome[k] \in {"ok", "interrupt"} THEN "none" ELSE JoinRaises(k)
    <3>1. k \in Isolates /\ Joined(k) /\ Collected(i, e)
      BY <2>1, KidsAre DEF CollectOne
    <3>2. e \in Errors \cup {"none"}
      BY <3>1, RaisesError
    <3> QED  BY <1>10, <1>11, <3>1, <3>2
  <2>2. CASE CollectInterrupted(i)
    BY <1>10, <1>11, <2>2 DEF CollectInterrupted, Errors
  <2> QED  BY <1>11, <2>1, <2>2
<1>12. ASSUME NEW i \in Isolates, ScopeEnds(i),
              UNCHANGED size
       PROVE  Shapes'
  BY <1>12 DEF ScopeEnds, Shapes, Pcs, Outcomes
<1>13. ASSUME NEW k \in Isolates, Begin(k)
       PROVE  Shapes'
  BY <1>13 DEF Begin, Shapes, Pcs
<1>14. CASE UNCHANGED vars
  BY <1>14 DEF vars, Shapes
<1> QED
  BY <1>1, <1>3, <1>4, <1>6, <1>7, <1>8, <1>9, <1>11, <1>12, <1>13, <1>14 DEF Next, Environment, Run
-----------------------------------------------------------------------------
(* The tree *)

\* What a step of an isolate leaves alone: the other isolates, but for the one it spawns
\* and those it tells to stop; nothing is taken back.
LEMMA StepFrame ==
    ASSUME Shapes, Tree, NEW i \in Isolates, Run(i) \/ WaitAnswered(i)
    PROVE  /\ \A j \in Isolates \ {i} :
                  /\ kids'[j] = kids[j] /\ at'[j] = at[j] /\ target'[j] = target[j]
                  /\ bodyError'[j] = bodyError[j] /\ firstFailure'[j] = firstFailure[j]
                  /\ outcome'[j] = outcome[j]
                  /\ pc'[j] = pc[j] \/ (pc[j] = "unborn" /\ pc'[j] = "queued")
           /\ \A j \in Isolates : cancelled[j] => cancelled'[j]
           /\ outcome[i] # "pending" => outcome'[i] = outcome[i]
           /\ pc[i] \notin {"unborn", "queued", "done"} /\ pc'[i] # "unborn"
           /\ kids'[i] = kids[i] \/ \E k \in Isolates : Spawn(i, k)
<1> USE DEF Run, Spawn, BodyJoin, BodyCancel, BodyWait, JoinAnswered, JoinInterrupted,
            WaitInterrupted, BodyReturns, BodyFails, SweepOne, SweepEnds, CollectOne,
            CollectInterrupted, ScopeEnds, WaitAnswered, CallFrom
<1>1. /\ kids' = kids \/ \E k \in Isolates : Spawn(i, k)
      /\ at' = at \/ \E n \in Nat : at' = [at EXCEPT ![i] = n]
  <2>1. kids' = kids \/ \E k \in Isolates : Spawn(i, k)
    BY DEF Collected
  <2>2. at' = at \/ at' = [at EXCEPT ![i] = @ + 1] \/ at' = [at EXCEPT ![i] = 1]
    BY DEF Collected
  <2>3. at[i] + 1 \in Nat /\ 1 \in Nat
    BY DEF Shapes
  <2> QED  BY <2>1, <2>2, <2>3
<1>2. /\ target' = target \/ \E k \in Isolates \cup {None} : target' = [target EXCEPT ![i] = k]
      /\ outcome' = outcome \/ (pc[i] = "collect" /\ \E r : outcome' = [outcome EXCEPT ![i] = r])
  BY DEF Raised, LeaveBody, Collected
<1>3. cancelled' = cancelled \/ \E k : cancelled' = [cancelled EXCEPT ![k] = TRUE]
  <2>1. CASE SweepOne(i) \/ \E k \in Isolates : BodyCancel(i, k)
    BY <2>1
  <2>2. CASE ~SweepOne(i) /\ ~\E k \in Isolates : BodyCancel(i, k)
    <3>1. cancelled' = cancelled
      BY <2>2 DEF Collected
    <3> QED  BY <3>1
  <2> QED  BY <2>1, <2>2
<1>4. /\ bodyError' = bodyError \/ \E e : bodyError' = [bodyError EXCEPT ![i] = e]
      /\ firstFailure' = firstFailure \/ \E e : firstFailure' = [firstFailure EXCEPT ![i] = e]
  BY DEF Raised, LeaveBody, Collected
<1>5. /\ pc[i] \notin {"unborn", "queued", "done"}
      /\ \/ pc' = pc
         \/ \E k \in Isolates : pc[k] = "unborn" /\ pc' = [pc EXCEPT ![k] = "queued"]
         \/ \E p \in Pcs \ {"unborn"} : pc' = [pc EXCEPT ![i] = p]
  BY DEF Raised, LeaveBody, Collected, Pcs
<1>6. ASSUME NEW j \in Isolates, j # i
      PROVE  /\ kids'[j] = kids[j] /\ at'[j] = at[j] /\ target'[j] = target[j]
             /\ bodyError'[j] = bodyError[j] /\ firstFailure'[j] = firstFailure[j]
             /\ outcome'[j] = outcome[j]
             /\ pc'[j] = pc[j] \/ (pc[j] = "unborn" /\ pc'[j] = "queued")
  BY <1>1, <1>2, <1>4, <1>5, <1>6 DEF Shapes
<1>7. \A j \in Isolates : cancelled[j] => cancelled'[j]
  BY <1>3 DEF Shapes
<1>8. outcome[i] # "pending" => outcome'[i] = outcome[i]
  BY <1>2 DEF Tree
<1>9. pc'[i] # "unborn"
  BY <1>5 DEF Shapes, Pcs
<1> QED  BY <1>1, <1>5, <1>6, <1>7, <1>8, <1>9

\* Every step keeps the tree.
LEMMA TreeNext == Shapes /\ Shapes' /\ Tree /\ [Next]_vars => Tree'
<1> SUFFICES ASSUME Shapes, Shapes', Tree, [Next]_vars PROVE Tree'
  OBVIOUS
<1>1. ASSUME NEW i \in Isolates, Run(i) \/ WaitAnswered(i)
      PROVE  Tree'
  <2>1. /\ \A j \in Isolates \ {i} :
             /\ kids'[j] = kids[j] /\ target'[j] = target[j] /\ outcome'[j] = outcome[j]
             /\ pc'[j] = pc[j] \/ (pc[j] = "unborn" /\ pc'[j] = "queued")
        /\ pc[i] # "unborn" /\ pc'[i] # "unborn"
        /\ kids'[i] = kids[i] \/ \E k \in Isolates : Spawn(i, k)
    BY <1>1, StepFrame
  <2>2. \A j \in Isolates : pc[j] # "unborn" => pc'[j] # "unborn"
    BY <2>1
  <2>3. pc'[Main] # "unborn"
    BY <2>2, ScopeAssumption DEF Tree
  <2>4. ~cancelled'[Main]
    <3>1. \A n \in DOMAIN kids[i] : kids[i][n] # Main /\ kids[i][n] \in Isolates
      BY KidsAre DEF Tree
    <3>2. CASE SweepOne(i) \/ \E k \in Isolates : BodyCancel(i, k)
      <4>1. \E n \in DOMAIN kids[i] : cancelled' = [cancelled EXCEPT ![kids[i][n]] = TRUE]
        <5>1. CASE SweepOne(i)
          BY <5>1 DEF SweepOne
        <5>2. CASE \E k \in Isolates : BodyCancel(i, k)
          BY <5>2 DEF BodyCancel, Kids
        <5> QED  BY <3>2, <5>1, <5>2
      <4>2. PICK n \in DOMAIN kids[i] : cancelled' = [cancelled EXCEPT ![kids[i][n]] = TRUE]
        BY <4>1
      <4>3. kids[i][n] # Main
        BY <3>1
      <4> QED  BY <4>2, <4>3, ScopeAssumption DEF Shapes, Tree
    <3>3. CASE ~SweepOne(i) /\ ~\E k \in Isolates : BodyCancel(i, k)
      <4>1. cancelled' = cancelled
        BY <1>1, <3>3
           DEF Run, Spawn, BodyJoin, BodyWait, JoinAnswered, JoinInterrupted, WaitInterrupted,
               BodyReturns, BodyFails, SweepEnds, CollectOne, CollectInterrupted, ScopeEnds,
               WaitAnswered, Collected
      <4> QED  BY <4>1 DEF Tree
    <3> QED  BY <3>2, <3>3
  <2>5. /\ \A n \in DOMAIN kids'[i] : pc'[kids'[i][n]] # "unborn" /\ kids'[i][n] # Main
        /\ \A m, n \in DOMAIN kids'[i] : kids'[i][m] = kids'[i][n] => m = n
    <3>1. CASE kids'[i] = kids[i]
      <4>1. \A n \in DOMAIN kids[i] : kids[i][n] \in Isolates
        BY KidsAre
      <4> QED  BY <2>2, <3>1, <4>1 DEF Tree
    <3>2. ASSUME NEW k \in Isolates, Spawn(i, k)
          PROVE  /\ \A n \in DOMAIN kids'[i] : pc'[kids'[i][n]] # "unborn" /\ kids'[i][n] # Main
                 /\ \A m, n \in DOMAIN kids'[i] : kids'[i][m] = kids'[i][n] => m = n
      <4>1. /\ kids'[i] = Append(kids[i], k) /\ pc[k] = "unborn" /\ pc'[k] = "queued"
            /\ k # Main
        BY <3>2 DEF Spawn, Shapes, Tree
      <4>2. /\ kids[i] \in Seq(Isolates) /\ Len(kids[i]) \in Nat
            /\ DOMAIN kids[i] = 1 .. Len(kids[i])
            /\ \A n \in DOMAIN kids[i] : kids[i][n] \in Isolates
        BY KidsAre
      <4>3. /\ DOMAIN kids'[i] = 1 .. Len(kids[i]) + 1
            /\ \A n \in 1 .. Len(kids[i]) : kids'[i][n] = kids[i][n]
            /\ kids'[i][Len(kids[i]) + 1] = k
        BY <4>1, <4>2
      <4>4. \A n \in 1 .. Len(kids[i]) + 1 : n \in 1 .. Len(kids[i]) \/ n = Len(kids[i]) + 1
        BY <4>2
      <4>5. \A n \in 1 .. Len(kids[i]) : /\ kids'[i][n] # k /\ pc'[kids'[i][n]] # "unborn"
                                         /\ kids'[i][n] # Main
        BY <2>2, <4>1, <4>2, <4>3 DEF Tree
      <4>6. \A m, n \in 1 .. Len(kids[i]) : kids'[i][m] = kids'[i][n] => m = n
        BY <4>2, <4>3 DEF Tree
      <4> HIDE DEF Tree
      <4>7. \A n \in DOMAIN kids'[i] : pc'[kids'[i][n]] # "unborn" /\ kids'[i][n] # Main
        BY <4>1, <4>3, <4>4, <4>5
      <4>8. \A m, n \in DOMAIN kids'[i] : kids'[i][m] = kids'[i][n] => m = n
        BY <4>3, <4>4, <4>5, <4>6
      <4> QED  BY <4>7, <4>8
    <3> QED  BY <2>1, <3>1, <3>2
  <2>6. /\ outcome'[i] # "pending" <=> pc'[i] = "done"
        /\ pc'[i] = "joining" => target'[i] \in Isolates
    <3>1. CASE ScopeEnds(i)
      <4>1. pc'[i] = "done" /\ outcome'[i] # "pending"
        BY <3>1 DEF ScopeEnds, Shapes, Errors
      <4> QED  BY <4>1
    <3>2. CASE ~ScopeEnds(i)
      <4>1. outcome' = outcome
        BY <1>1, <3>2
           DEF Run, Spawn, BodyJoin, BodyCancel, BodyWait, JoinAnswered, JoinInterrupted,
               WaitInterrupted, BodyReturns, BodyFails, SweepOne, SweepEnds, CollectOne,
               CollectInterrupted, WaitAnswered, Collected
      <4>2. pc'[i] # "done" /\ pc[i] # "done"
        BY <1>1, <3>2
           DEF Run, Spawn, BodyJoin, BodyCancel, BodyWait, JoinAnswered, JoinInterrupted,
               WaitInterrupted, BodyReturns, BodyFails, SweepOne, SweepEnds, CollectOne,
               CollectInterrupted, WaitAnswered, Collected, CallFrom, Raised, LeaveBody, Shapes
      <4>3. pc'[i] = "joining" => target'[i] \in Isolates
        <5>1. CASE \E k \in Isolates : BodyJoin(i, k)
          BY <5>1 DEF BodyJoin, Shapes
        <5>2. CASE ~\E k \in Isolates : BodyJoin(i, k)
          BY <1>1, <3>2, <5>2
             DEF Run, Spawn, BodyCancel, BodyWait, JoinAnswered, JoinInterrupted,
                 WaitInterrupted, BodyReturns, BodyFails, SweepOne, SweepEnds, CollectOne,
                 CollectInterrupted, WaitAnswered, Collected, CallFrom, Raised, LeaveBody, Shapes
        <5> QED  BY <5>1, <5>2
      <4> QED  BY <4>1, <4>2, <4>3 DEF Tree
    <3> QED  BY <3>1, <3>2
  <2>7. ASSUME NEW j \in Isolates, j # i
        PROVE  /\ \A n \in DOMAIN kids'[j] : pc'[kids'[j][n]] # "unborn" /\ kids'[j][n] # Main
               /\ \A m, n \in DOMAIN kids'[j] : kids'[j][m] = kids'[j][n] => m = n
               /\ outcome'[j] # "pending" <=> pc'[j] = "done"
               /\ pc'[j] = "joining" => target'[j] \in Isolates
    <3>1. \A n \in DOMAIN kids[j] : kids[j][n] \in Isolates
      BY KidsAre
    <3> QED  BY <2>1, <2>2, <2>7, <3>1 DEF Tree
  <2> QED  BY <2>3, <2>4, <2>5, <2>6, <2>7 DEF Tree
<1>2. ASSUME NEW k \in Isolates, Begin(k)
      PROVE  Tree'
  <2>1. /\ pc[k] = "queued" /\ pc'[k] = "body"
        /\ \A j \in Isolates \ {k} : pc'[j] = pc[j]
        /\ UNCHANGED <<kids, target, cancelled, outcome>>
    BY <1>2 DEF Begin, Shapes
  <2>2. \A j \in Isolates : pc[j] # "unborn" => pc'[j] # "unborn"
    BY <2>1
  <2>3. pc'[Main] # "unborn" /\ ~cancelled'[Main]
    BY <2>1, <2>2, ScopeAssumption DEF Tree
  <2>4. ASSUME NEW j \in Isolates
        PROVE  /\ \A n \in DOMAIN kids'[j] : pc'[kids'[j][n]] # "unborn" /\ kids'[j][n] # Main
               /\ \A m, n \in DOMAIN kids'[j] : kids'[j][m] = kids'[j][n] => m = n
               /\ outcome'[j] # "pending" <=> pc'[j] = "done"
               /\ pc'[j] = "joining" => target'[j] \in Isolates
    <3>1. \A n \in DOMAIN kids[j] : kids[j][n] \in Isolates
      BY KidsAre
    <3> QED  BY <2>1, <2>2, <3>1 DEF Tree
  <2> QED  BY <2>3, <2>4 DEF Tree
<1>3. CASE UNCHANGED vars
  BY <1>3 DEF vars, Tree
<1> QED  BY <1>1, <1>2, <1>3 DEF Next, Environment

\* No step lets more isolates hold a thread than the pool has.
LEMMA HeldNext ==
    Shapes /\ Shapes' /\ Tree /\ Cardinality(Held) <= size /\ [Next]_vars
      => Cardinality(Held') <= size'
<1> SUFFICES ASSUME Shapes, Shapes', Tree, Cardinality(Held) <= size, [Next]_vars
             PROVE  Cardinality(Held') <= size'
  OBVIOUS
<1>1. IsFiniteSet(Held) /\ Cardinality(Held) \in Nat /\ size \in Nat
  <2>1. Held \in SUBSET Isolates
    BY DEF Held
  <2>2. IsFiniteSet(Held)
    BY <2>1, ScopeAssumption, FS_Subset
  <2>3. size \in Nat
    BY ScopeAssumption DEF Shapes
  <2> QED  BY <2>2, <2>3, FS_CardinalityType
<1>2. ASSUME Held' \subseteq Held, size' = size
      PROVE  Cardinality(Held') <= size'
  <2>1. IsFiniteSet(Held') /\ Cardinality(Held') <= Cardinality(Held)
    BY <1>1, <1>2, FS_Subset
  <2>2. Cardinality(Held') \in Nat
    BY <2>1, FS_CardinalityType
  <2> QED  BY <1>1, <1>2, <2>1, <2>2
<1>3. ASSUME NEW i \in Isolates, Run(i) \/ WaitAnswered(i), size' = size
      PROVE  Cardinality(Held') <= size'
  <2>1. /\ \A j \in Isolates \ {i} :
             pc'[j] = pc[j] \/ (pc[j] = "unborn" /\ pc'[j] = "queued")
        /\ pc[i] \notin {"unborn", "queued", "done"}
    BY <1>3, StepFrame
  <2>2. Held' \subseteq Held
    BY <2>1 DEF Held
  <2> QED  BY <1>2, <1>3, <2>2
<1>4. ASSUME NEW k \in Isolates, Begin(k)
      PROVE  Cardinality(Held') <= size'
  <2>1. /\ pc[k] = "queued" /\ pc'[k] = "body" /\ Cardinality(Held) < size /\ size' = size
        /\ \A j \in Isolates \ {k} : pc'[j] = pc[j]
    BY <1>4 DEF Begin, Shapes
  <2>2. Held' \subseteq Held \cup {k}
    BY <2>1 DEF Held
  <2>3. /\ IsFiniteSet(Held \cup {k})
        /\ Cardinality(Held \cup {k}) = IF k \in Held THEN Cardinality(Held)
                                         ELSE Cardinality(Held) + 1
    BY <1>1, FS_AddElement
  <2>4. IsFiniteSet(Held') /\ Cardinality(Held') <= Cardinality(Held \cup {k})
    BY <2>2, <2>3, FS_Subset
  <2>5. Cardinality(Held') \in Nat /\ Cardinality(Held \cup {k}) \in Nat
    BY <2>3, <2>4, FS_CardinalityType
  <2> QED  BY <1>1, <2>1, <2>3, <2>4, <2>5
<1>5. CASE UNCHANGED vars
  BY <1>2, <1>5 DEF vars, Held
<1> QED  BY <1>3, <1>4, <1>5 DEF Next, Environment, Run

-----------------------------------------------------------------------------
(* The phases of scope() *)

\* The failure a scope has noted stays the first of its children's.
LEMMA BlameStays ==
    ASSUME Shapes, NEW j \in Isolates, Blamed(j),
           DOMAIN kids[j] \subseteq DOMAIN kids'[j],
           \A n \in DOMAIN kids[j] : kids[j][n] \in Isolates /\ kids'[j][n] = kids[j][n],
           \A n \in DOMAIN kids[j] : \A m \in DOMAIN kids'[j] : m < n => m \in DOMAIN kids[j],
           firstFailure'[j] = firstFailure[j],
           \A k \in Isolates : cancelled[k] => cancelled'[k],
           \A k \in Isolates : outcome[k] # "pending" => outcome'[k] = outcome[k]
    PROVE  Blamed(j)'
<1> SUFFICES ASSUME firstFailure'[j] # "none", ~cancelled'[j]
             PROVE  \E n \in DOMAIN kids'[j] :
                        /\ outcome'[kids'[j][n]] \in {"failure", "cascade"}
                        /\ firstFailure'[j] = outcome'[kids'[j][n]]
                        /\ \A m \in DOMAIN kids'[j] : m < n =>
                               outcome'[kids'[j][m]] \in {"ok", "interrupt"}
  BY DEF Blamed
<1>1. PICK n \in DOMAIN kids[j] :
          /\ outcome[kids[j][n]] \in {"failure", "cascade"}
          /\ firstFailure[j] = outcome[kids[j][n]]
          /\ \A m \in DOMAIN kids[j] : m < n => outcome[kids[j][m]] \in {"ok", "interrupt"}
  BY DEF Blamed
<1>2. outcome'[kids'[j][n]] = outcome[kids[j][n]] /\ n \in DOMAIN kids'[j]
  BY <1>1
<1>3. ASSUME NEW m \in DOMAIN kids'[j], m < n
      PROVE  outcome'[kids'[j][m]] \in {"ok", "interrupt"}
  <2>1. m \in DOMAIN kids[j]
    BY <1>3
  <2>2. outcome[kids[j][m]] \in {"ok", "interrupt"}
    BY <1>1, <1>3, <2>1
  <2> QED  BY <2>1, <2>2
<1> QED  BY <1>1, <1>2, <1>3

\* What is true of a scope stays true while others move: nobody is revived, no outcome
\* is changed and no cancellation taken back.
LEMMA OthersStay ==
    ASSUME Shapes, NEW j \in Isolates, Phase(j),
           kids'[j] = kids[j], at'[j] = at[j], bodyError'[j] = bodyError[j],
           firstFailure'[j] = firstFailure[j], outcome'[j] = outcome[j],
           \/ pc'[j] = pc[j]
           \/ pc[j] \in {"unborn", "queued"} /\ pc'[j] \in {"queued", "body"},
           \A k \in Isolates : cancelled[k] => cancelled'[k],
           \A k \in Isolates : outcome[k] # "pending" => outcome'[k] = outcome[k]
    PROVE  Phase(j)'
<1>1. \A n \in DOMAIN kids[j] : kids[j][n] \in Isolates
  BY KidsAre
<1>2. at'[j] <= Len(kids'[j]) + 1 /\ Before(j)' /\ Ended(j)'
  BY DEF Phase, Before, Ended
<1>3. Swept(j)'
  BY <1>1 DEF Phase, Swept
<1>4. CollectedSoFar(j)'
  BY <1>1 DEF Phase, CollectedSoFar
<1>5. Blamed(j)'
  BY <1>1, BlameStays DEF Phase
<1> QED  BY <1>2, <1>3, <1>4, <1>5 DEF Phase

\* A step of the body: spawn, a call, its answer, or the end of the body.
LEMMA BodySteps ==
    ASSUME Shapes, NEW i \in Isolates, Phase(i),
           pc[i] \in {"body", "joining", "waiting"},
           pc'[i] \in {"body", "joining", "waiting", "sweep"},
           at'[i] = at[i], firstFailure'[i] = firstFailure[i],
           kids'[i] = kids[i] \/ \E k \in Isolates : kids'[i] = Append(kids[i], k),
           \A k \in Isolates : cancelled[k] => cancelled'[k],
           \A k \in Isolates : outcome[k] # "pending" => outcome'[k] = outcome[k]
    PROVE  Phase(i)'
<1>1. /\ kids[i] \in Seq(Isolates) /\ Len(kids[i]) \in Nat /\ DOMAIN kids[i] = 1 .. Len(kids[i])
      /\ \A n \in DOMAIN kids[i] : kids[i][n] \in Isolates
  BY KidsAre
<1>2. at[i] = 1
  BY DEF Phase, Before
<1>3. /\ Len(kids'[i]) \in Nat /\ DOMAIN kids'[i] = 1 .. Len(kids'[i])
      /\ \A n \in DOMAIN kids[i] : n \in DOMAIN kids'[i] /\ kids'[i][n] = kids[i][n]
  BY <1>1
<1>4. at'[i] <= Len(kids'[i]) + 1 /\ Before(i)'
  BY <1>2, <1>3 DEF Before
<1>5. Swept(i)' /\ CollectedSoFar(i)' /\ Ended(i)'
  BY <1>2, <1>3 DEF Swept, CollectedSoFar, Ended
<1>6. Blamed(i)'
  <2>1. \A n \in DOMAIN kids[i] : \A m \in DOMAIN kids'[i] : m < n => m \in DOMAIN kids[i]
    BY <1>1, <1>3
  <2> QED  BY <1>1, <1>3, <2>1, BlameStays DEF Phase
<1> QED  BY <1>4, <1>5, <1>6 DEF Phase

\* The sweep and the join loop.
LEMMA TeardownSteps ==
    ASSUME Shapes, Tree, NEW i \in Isolates, Phase(i),
           SweepOne(i) \/ SweepEnds(i) \/ CollectOne(i) \/ CollectInterrupted(i) \/ ScopeEnds(i)
    PROVE  Phase(i)'
<1>1. /\ kids[i] \in Seq(Isolates) /\ Len(kids[i]) \in Nat /\ DOMAIN kids[i] = 1 .. Len(kids[i])
      /\ \A n \in DOMAIN kids[i] : kids[i][n] \in Isolates
      /\ at[i] \in Nat /\ at[i] >= 1
  BY KidsAre
<1>2. \A n \in DOMAIN kids[i] : n < at[i] + 1 => n < at[i] \/ n = at[i]
  BY <1>1
<1>3. at[i] \notin DOMAIN kids[i] => /\ at[i] > Len(kids[i])
                                     /\ \A n \in DOMAIN kids[i] : n < at[i]
  BY <1>1
<1>4. at[i] \in DOMAIN kids[i] => at[i] + 1 <= Len(kids[i]) + 1 /\ at[i] + 1 \in Nat
  BY <1>1
<1>5. CASE SweepOne(i)
  <2>1. /\ pc[i] = "sweep" /\ at[i] \in DOMAIN kids[i] /\ at'[i] = at[i] + 1
        /\ pc' = pc /\ kids' = kids /\ outcome' = outcome /\ firstFailure' = firstFailure
        /\ cancelled' = [cancelled EXCEPT ![kids[i][at[i]]] = TRUE]
    BY <1>5 DEF SweepOne, Shapes
  <2>2. \A n \in DOMAIN kids[i] : n < at'[i] => cancelled'[kids[i][n]]
    BY <1>1, <1>2, <2>1 DEF Phase, Swept, Shapes
  <2>3. Swept(i)'
    BY <2>1, <2>2 DEF Swept
  <2>4. cancelled[i] => cancelled'[i]
    BY <2>1 DEF Shapes
  <2>5. Blamed(i)'
    BY <2>1, <2>4 DEF Phase, Blamed
  <2> QED  BY <1>4, <2>1, <2>3, <2>5 DEF Phase, Before, CollectedSoFar, Ended
<1>6. CASE SweepEnds(i)
  <2>1. /\ pc[i] = "sweep" /\ at[i] \notin DOMAIN kids[i] /\ pc'[i] = "collect" /\ at'[i] = 1
        /\ kids' = kids /\ outcome' = outcome /\ firstFailure' = firstFailure
        /\ cancelled' = cancelled
    BY <1>6 DEF SweepEnds, Shapes
  <2>2. Swept(i)'
    BY <1>3, <2>1 DEF Phase, Swept
  <2>3. CollectedSoFar(i)' /\ at'[i] <= Len(kids'[i]) + 1
    BY <1>1, <2>1 DEF CollectedSoFar
  <2>4. Blamed(i)' /\ Before(i)' /\ Ended(i)'
    BY <2>1 DEF Phase, Blamed, Before, Ended
  <2> QED  BY <2>2, <2>3, <2>4 DEF Phase
<1>7. ASSUME NEW e \in Errors \cup {"none"}, Collected(i, e), pc[i] = "collect",
             at[i] \in DOMAIN kids[i],
             e = "none" => outcome[kids[i][at[i]]] \in {"ok", "interrupt"},
             cancelled[i] \/ outcome[kids[i][at[i]]] # "pending",
             e # "none" => \/ /\ outcome[kids[i][at[i]]] \in {"failure", "cascade"}
                              /\ e = outcome[kids[i][at[i]]]
                           \/ cancelled[i]
      PROVE  Phase(i)'
  <2>1. /\ at'[i] = at[i] + 1
        /\ firstFailure'[i] = IF firstFailure[i] = "none" THEN e ELSE firstFailure[i]
        /\ pc' = pc /\ kids' = kids /\ outcome' = outcome /\ cancelled' = cancelled
    BY <1>7 DEF Collected, Shapes
  <2>2. CollectedSoFar(i)'
    <3> SUFFICES ASSUME NEW n \in DOMAIN kids[i], n < at[i] + 1
                 PROVE  /\ firstFailure'[i] = "none" => outcome[kids[i][n]] \in {"ok", "interrupt"}
                        /\ cancelled[i] \/ outcome[kids[i][n]] # "pending"
      BY <2>1 DEF CollectedSoFar
    <3>1. CASE n < at[i]
      BY <1>7, <2>1, <3>1 DEF Phase, CollectedSoFar
    <3>2. CASE n = at[i]
      BY <1>7, <2>1, <3>2
    <3> QED  BY <1>2, <3>1, <3>2
  <2>3. Blamed(i)'
    <3>1. CASE firstFailure[i] = "none"
      <4>1. \A m \in DOMAIN kids[i] : m < at[i] => outcome[kids[i][m]] \in {"ok", "interrupt"}
        BY <1>7, <3>1 DEF Phase, CollectedSoFar
      <4> QED  BY <1>7, <2>1, <3>1, <4>1 DEF Blamed
    <3>2. CASE firstFailure[i] # "none"
      BY <2>1, <3>2 DEF Phase, Blamed
    <3> QED  BY <3>1, <3>2
  <2>4. Swept(i)' /\ Before(i)' /\ Ended(i)'
    BY <1>7, <2>1 DEF Phase, Swept, Before, Ended
  <2> QED  BY <1>4, <1>7, <2>1, <2>2, <2>3, <2>4 DEF Phase
<1>8. CASE CollectOne(i)
  <2> DEFINE k == kids[i][at[i]]
             e == IF outcome[k] \in {"ok", "interrupt"} THEN "none" ELSE JoinRaises(k)
  <2>1. /\ pc[i] = "collect" /\ at[i] \in DOMAIN kids[i] /\ Joined(k) /\ Collected(i, e)
    BY <1>8 DEF CollectOne
  <2>2. k \in Isolates /\ outcome[k] # "pending"
    BY <1>1, <2>1 DEF Joined
  <2>3. e \in Errors \cup {"none"}
    BY <2>1, <2>2, RaisesError
  <2>4. e = "none" => outcome[k] \in {"ok", "interrupt"}
    <3>1. outcome[k] \notin {"ok", "interrupt"} => e \in Errors
      BY <2>1, <2>2, RaisesError
    <3> QED  BY <3>1 DEF Errors
  <2>5. e # "none" => outcome[k] \in {"failure", "cascade"} /\ e = outcome[k]
    BY <2>2 DEF Shapes, Outcomes, Errors, JoinRaises
  <2> QED  BY <1>7, <2>1, <2>2, <2>3, <2>4, <2>5
<1>9. CASE CollectInterrupted(i)
  <2>1. /\ pc[i] = "collect" /\ at[i] \in DOMAIN kids[i] /\ cancelled[i]
        /\ Collected(i, "interrupt")
    BY <1>9 DEF CollectInterrupted
  <2> QED  BY <1>7, <2>1 DEF Errors
<1>10. CASE ScopeEnds(i)
  <2>1. /\ pc[i] = "collect" /\ at[i] \notin DOMAIN kids[i] /\ pc'[i] = "done"
        /\ kids' = kids /\ at' = at /\ cancelled' = cancelled /\ bodyError' = bodyError
        /\ firstFailure' = firstFailure
        /\ outcome' = [outcome EXCEPT ![i] =
             CASE bodyError[i] # "none" -> bodyError[i]
               [] bodyError[i] = "none" /\ firstFailure[i] # "none" -> firstFailure[i]
               [] OTHER -> "ok"]
        /\ outcome[i] = "pending"
    BY <1>10 DEF ScopeEnds, Shapes, Tree
  <2>2. \A n \in DOMAIN kids[i] : outcome[kids[i][n]] # "pending"
                                     => outcome'[kids[i][n]] = outcome[kids[i][n]]
    BY <1>1, <2>1 DEF Shapes
  <2>3. Ended(i)'
    <3>1. bodyError[i] \in Errors \cup {"none"}
      BY DEF Shapes
    <3>2. CASE bodyError[i] # "none"
      <4>1. outcome'[i] = bodyError[i] /\ outcome'[i] # "ok"
        BY <2>1, <3>1, <3>2 DEF Shapes, Errors
      <4> QED  BY <1>3, <2>1, <3>2, <4>1 DEF Ended
    <3>3. CASE bodyError[i] = "none"
      <4>1. outcome'[i] = IF firstFailure[i] = "none" THEN "ok" ELSE firstFailure[i]
        BY <2>1, <3>3 DEF Shapes
      <4> QED  BY <1>3, <2>1, <3>3, <4>1 DEF Ended
    <3> QED  BY <3>2, <3>3
  <2>4. CollectedSoFar(i)'
    <3> SUFFICES ASSUME NEW n \in DOMAIN kids[i], n < at[i]
                 PROVE  /\ firstFailure[i] = "none" => outcome'[kids[i][n]] \in {"ok", "interrupt"}
                        /\ cancelled[i] \/ outcome'[kids[i][n]] # "pending"
      BY <2>1 DEF CollectedSoFar
    <3>1. /\ firstFailure[i] = "none" => outcome[kids[i][n]] \in {"ok", "interrupt"}
          /\ cancelled[i] \/ outcome[kids[i][n]] # "pending"
      BY <2>1 DEF Phase, CollectedSoFar
    <3> QED  BY <2>2, <3>1
  <2>5. Blamed(i)'
    <3>1. \A k \in Isolates : outcome[k] # "pending" => outcome'[k] = outcome[k]
      BY <2>1 DEF Shapes
    <3> QED  BY <1>1, <2>1, <3>1, BlameStays DEF Phase
  <2>6. Swept(i)' /\ Before(i)' /\ at'[i] <= Len(kids'[i]) + 1
    BY <2>1 DEF Phase, Swept, Before
  <2> QED  BY <2>3, <2>4, <2>5, <2>6 DEF Phase
<1> QED  BY <1>5, <1>6, <1>8, <1>9, <1>10

\* Every step keeps every scope in order.
LEMMA PhaseNext ==
    Shapes /\ Tree /\ (\A i \in Isolates : Phase(i)) /\ [Next]_vars
      => \A i \in Isolates : Phase(i)'
<1> SUFFICES ASSUME Shapes, Tree, \A i \in Isolates : Phase(i), [Next]_vars
             PROVE  \A i \in Isolates : Phase(i)'
  OBVIOUS
<1>1. ASSUME NEW i \in Isolates, Run(i) \/ WaitAnswered(i), NEW j \in Isolates
      PROVE  Phase(j)'
  <2>1. /\ \A v \in Isolates \ {i} :
             /\ kids'[v] = kids[v] /\ at'[v] = at[v]
             /\ bodyError'[v] = bodyError[v] /\ firstFailure'[v] = firstFailure[v]
             /\ outcome'[v] = outcome[v]
             /\ pc'[v] = pc[v] \/ (pc[v] = "unborn" /\ pc'[v] = "queued")
        /\ \A k \in Isolates : cancelled[k] => cancelled'[k]
        /\ outcome[i] # "pending" => outcome'[i] = outcome[i]
    BY <1>1, StepFrame
  <2>2. \A k \in Isolates : outcome[k] # "pending" => outcome'[k] = outcome[k]
    BY <2>1
  <2>3. CASE j # i
    BY <2>1, <2>2, <2>3, OthersStay
  <2>4. CASE /\ j = i
             /\ SweepOne(i) \/ SweepEnds(i) \/ CollectOne(i) \/ CollectInterrupted(i)
                  \/ ScopeEnds(i)
    BY <2>4, TeardownSteps
  <2>5. CASE /\ j = i
             /\ \/ \E k \in Isolates : Spawn(i, k) \/ BodyJoin(i, k) \/ BodyCancel(i, k)
                \/ BodyWait(i) \/ JoinAnswered(i) \/ JoinInterrupted(i) \/ WaitInterrupted(i)
                \/ BodyReturns(i) \/ BodyFails(i) \/ WaitAnswered(i)
    <3> USE DEF Spawn, BodyJoin, BodyCancel, BodyWait, JoinAnswered, JoinInterrupted,
                WaitInterrupted, BodyReturns, BodyFails, WaitAnswered, CallFrom
    <3>1. /\ pc[i] \in {"body", "joining", "waiting"}
          /\ at' = at /\ firstFailure' = firstFailure
      BY <2>5
    <3>2. pc'[i] \in {"body", "joining", "waiting", "sweep"}
      BY <2>5 DEF Raised, LeaveBody, Shapes
    <3>3. kids'[i] = kids[i] \/ \E k \in Isolates : kids'[i] = Append(kids[i], k)
      BY <2>5 DEF Shapes
    <3> HIDE DEF Spawn, BodyJoin, BodyCancel, BodyWait, JoinAnswered, JoinInterrupted,
                 WaitInterrupted, BodyReturns, BodyFails, WaitAnswered, CallFrom
    <3> QED  BY <2>1, <2>2, <2>5, <3>1, <3>2, <3>3, BodySteps
  <2> QED  BY <1>1, <2>3, <2>4, <2>5 DEF Run
<1>2. ASSUME NEW k \in Isolates, Begin(k), NEW j \in Isolates
      PROVE  Phase(j)'
  <2>1. /\ pc'[j] = pc[j] \/ (pc[j] = "queued" /\ pc'[j] = "body")
        /\ UNCHANGED <<kids, at, cancelled, outcome, bodyError, firstFailure>>
    BY <1>2 DEF Begin, Shapes
  <2> QED  BY <2>1, OthersStay
<1>3. CASE UNCHANGED vars
  <2> SUFFICES ASSUME NEW j \in Isolates
               PROVE  Phase(j)'
    OBVIOUS
  <2> QED  BY <1>3, OthersStay DEF vars
<1> QED  BY <1>1, <1>2, <1>3 DEF Next, Environment

-----------------------------------------------------------------------------
(* Theorems *)

\* The invariant holds from the program's start.
LEMMA ScopeInvHolds == Spec => []ScopeInv
<1>1. ScopeInit => ScopeInv
  <2> SUFFICES ASSUME ScopeInit PROVE ScopeInv
    OBVIOUS
  <2>1. Shapes
    BY ScopeAssumption DEF ScopeInit, Shapes, Pcs, Outcomes
  <2>2. Tree
    BY ScopeAssumption DEF ScopeInit, Tree
  <2>4. Cardinality(Held) <= size
    <3>1. Held = {}
      BY DEF ScopeInit, Held
    <3> QED  BY <3>1, ScopeAssumption, FS_EmptySet DEF ScopeInit
  <2>3. \A i \in Isolates : Phase(i)
    BY DEF ScopeInit, Phase, Before, Swept, CollectedSoFar, Blamed, Ended
  <2> QED  BY <2>1, <2>2, <2>3, <2>4 DEF ScopeInv
<1>2. ScopeInv /\ [Next]_vars => ScopeInv'
  <2> SUFFICES ASSUME ScopeInv, [Next]_vars PROVE ScopeInv'
    OBVIOUS
  <2>1. Shapes' /\ Tree'
    BY ShapesNext, TreeNext DEF ScopeInv
  <2>2. \A i \in Isolates : Phase(i)'
    BY PhaseNext DEF ScopeInv
  <2>3. Cardinality(Held') <= size'
    BY <2>1, HeldNext DEF ScopeInv
  <2> QED  BY <2>1, <2>2, <2>3 DEF ScopeInv
<1> QED  BY <1>1, <1>2, PTL DEF Spec

\* Every variable keeps its type: no scope tracks a child twice, and the loops over
\* children() stay within them; no more of them run than the pool has threads.
THEOREM ScopeTypes == Spec => []TypeOK
<1>1. ScopeInv => TypeOK
  <2> SUFFICES ASSUME ScopeInv PROVE TypeOK
    OBVIOUS
  <2>0. Shapes /\ IsFiniteSet(Isolates) /\ Cardinality(Isolates) \in Nat
    BY ScopeAssumption, FS_CardinalityType DEF ScopeInv
  <2>1. ASSUME NEW i \in Isolates
        PROVE  /\ kids[i] \in UNION {[1..n -> Isolates] : n \in 0..Cardinality(Isolates)}
               /\ at[i] \in 1..(Cardinality(Isolates) + 1)
    <3>1. /\ kids[i] \in Seq(Isolates) /\ Len(kids[i]) \in Nat
          /\ DOMAIN kids[i] = 1 .. Len(kids[i]) /\ at[i] \in Nat /\ at[i] >= 1
      BY <2>0, KidsAre
    <3>2. kids[i] \in [1 .. Len(kids[i]) -> Isolates]
      BY <3>1
    <3>3. kids[i] \in Injection(1 .. Len(kids[i]), Isolates)
      BY <3>1, <3>2 DEF ScopeInv, Tree, Injection, IsInjective
    <3>4. Cardinality(1 .. Len(kids[i])) <= Cardinality(Isolates)
      BY <2>0, <3>3, FS_Injection
    <3>5. Cardinality(1 .. Len(kids[i])) = IF 1 > Len(kids[i]) THEN 0 ELSE Len(kids[i]) - 1 + 1
      <4>1. 1 \in Int /\ Len(kids[i]) \in Int
        BY <3>1
      <4> QED  BY <4>1, FS_Interval, Zenon
    <3>6. Len(kids[i]) \in 0..Cardinality(Isolates)
      BY <2>0, <3>1, <3>4, <3>5
    <3>7. at[i] <= Len(kids[i]) + 1
      BY DEF ScopeInv, Phase
    <3> QED  BY <2>0, <3>1, <3>2, <3>6, <3>7
  <2> QED  BY <2>0, <2>1 DEF ScopeInv, Shapes, TypeOK
<1> QED  BY <1>1, ScopeInvHolds, PTL

\* A scope that returned owns no running child and hides no failed one; one left in
\* whatever way has told all its children to stop; the program's own outlives them.
THEOREM Contained == Spec => []ChildrenAreContained
<1>1. ScopeInv => ChildrenAreContained
  <2> SUFFICES ASSUME ScopeInv PROVE ChildrenAreContained
    OBVIOUS
  <2>0. Shapes /\ Tree /\ Main \in Isolates
    BY ScopeAssumption DEF ScopeInv
  <2>1. ASSUME NEW i \in Isolates, NEW k \in Kids(i), pc[i] = "done"
        PROVE  /\ k \in Isolates /\ cancelled[k]
               /\ cancelled[i] \/ pc[k] = "done"
               /\ outcome[i] = "ok" => pc[k] = "done" /\ outcome[k] \in {"ok", "interrupt"}
    <3>1. PICK n \in DOMAIN kids[i] : kids[i][n] = k
      BY DEF Kids
    <3>2. k \in Isolates /\ n < at[i]
      <4>1. /\ DOMAIN kids[i] = 1 .. Len(kids[i]) /\ Len(kids[i]) \in Nat /\ at[i] \in Nat
            /\ kids[i][n] \in Isolates
        BY <2>0, KidsAre
      <4>2. at[i] > Len(kids[i])
        BY <2>1 DEF ScopeInv, Phase, Ended
      <4> QED  BY <3>1, <4>1, <4>2
    <3>3. cancelled[k] /\ (cancelled[i] \/ outcome[k] # "pending")
      BY <2>1, <3>1, <3>2 DEF ScopeInv, Phase, Swept, CollectedSoFar
    <3>4. outcome[k] # "pending" <=> pc[k] = "done"
      BY <2>0, <3>2 DEF Tree
    <3>5. ASSUME outcome[i] = "ok"
          PROVE  pc[k] = "done" /\ outcome[k] \in {"ok", "interrupt"}
      <4>1. firstFailure[i] = "none"
        BY <2>0, <2>1, <3>5 DEF ScopeInv, Phase, Ended, Shapes, Errors
      <4>2. outcome[k] \in {"ok", "interrupt"}
        BY <2>1, <3>1, <3>2, <4>1 DEF ScopeInv, Phase, CollectedSoFar
      <4> QED  BY <3>4, <4>2
    <3> QED  BY <3>2, <3>3, <3>4, <3>5
  <2>2. ReturnMeansContained
    <3>1. \A i \in Isolates : outcome[i] = "ok" => pc[i] = "done"
      BY <2>0 DEF Tree
    <3> QED  BY <2>1, <3>1 DEF ReturnMeansContained
  <2>3. NoRunaway
    BY <2>1 DEF NoRunaway
  <2>4. MainOutlivesItsChildren
    BY <2>0, <2>1 DEF MainOutlivesItsChildren, Tree
  <2> QED  BY <2>2, <2>3, <2>4 DEF ChildrenAreContained
<1> QED  BY <1>1, ScopeInvHolds, PTL

\* A scope whose body raised nothing and which was not cancelled itself raises what its
\* first failed child in spawn order failed with, and returns if only interrupted ones
\* stand beside those that returned.  A child that failed by joining an interrupted isolate
\* is among the failed ones: NoCascadeIsRaised does not hold.
THEOREM FirstFailure == Spec => []FirstFailureIsRaised
<1>1. ScopeInv => FirstFailureIsRaised
  <2> SUFFICES ASSUME ScopeInv, NEW i \in Isolates, pc[i] = "done", bodyError[i] = "none",
                      ~cancelled[i]
               PROVE  LET failed == {n \in DOMAIN kids[i] :
                                       outcome[kids[i][n]] \notin {"ok", "interrupt"}}
                      IN  outcome[i] =
                            IF failed = {} THEN "ok"
                            ELSE outcome[kids[i][CHOOSE n \in failed :
                                                   \A m \in failed : n <= m]]
    BY DEF FirstFailureIsRaised
  <2> DEFINE failed == {n \in DOMAIN kids[i] : outcome[kids[i][n]] \notin {"ok", "interrupt"}}
  <2>1. /\ DOMAIN kids[i] = 1 .. Len(kids[i]) /\ Len(kids[i]) \in Nat /\ at[i] \in Nat
        /\ at[i] > Len(kids[i])
    BY KidsAre DEF ScopeInv, Phase, Ended
  <2>2. outcome[i] = IF firstFailure[i] = "none" THEN "ok" ELSE firstFailure[i]
    BY DEF ScopeInv, Phase, Ended
  <2>3. CASE firstFailure[i] = "none"
    <3>1. \A n \in DOMAIN kids[i] : outcome[kids[i][n]] \in {"ok", "interrupt"}
      BY <2>1, <2>3 DEF ScopeInv, Phase, CollectedSoFar
    <3>2. failed = {}
      BY <3>1
    <3> QED  BY <2>2, <2>3, <3>2
  <2>4. CASE firstFailure[i] # "none"
    <3>1. PICK n \in DOMAIN kids[i] :
              /\ outcome[kids[i][n]] \in {"failure", "cascade"}
              /\ firstFailure[i] = outcome[kids[i][n]]
              /\ \A m \in DOMAIN kids[i] : m < n => outcome[kids[i][m]] \in {"ok", "interrupt"}
      BY <2>4 DEF ScopeInv, Phase, Blamed
    <3>2. n \in failed /\ \A m \in failed : n <= m
      BY <2>1, <3>1
    <3>3. \A a \in failed : (\A m \in failed : a <= m) => a = n
      BY <2>1, <3>2
    <3>4. (CHOOSE a \in failed : \A m \in failed : a <= m) = n
      BY <3>2, <3>3
    <3> QED  BY <2>2, <2>4, <3>1, <3>2, <3>4
  <2> QED  BY <2>3, <2>4
<1> QED  BY <1>1, ScopeInvHolds, PTL
=============================================================================
