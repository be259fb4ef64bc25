----------------------- MODULE IsolateCompilerProofs -----------------------
(***************************************************************************)
(* Proofs about IsolateCompiler, for any number of threads, VMs, functions,*)
(* workers and tasks, with panics and with compilers stopped and started   *)
(* at any moment: its types, that a pointer handed to the compiler is safe *)
(* for its round trip, that stopping reaches every worker, and that what   *)
(* was asked of the compiler is answered.                                  *)
(***************************************************************************)
EXTENDS IsolateCompiler, FiniteSetTheorems, SequenceTheorems, TLAPS

Pointers == VMs \X Funcs
Results == Funcs \X {"entry", "ineligible"}

ThreadPlaces == {"open", "idle", "picked", "run", "drain", "panicked", "stop", "signal"}
WorkerPlaces == {"unborn", "top", "recv", "check", "compile", "reply", "flag", "exited"}

\* The types, but for the upper bounds of the counters.
Shapes ==
    /\ spawned \in 0 .. MaxTasks /\ queued \in Nat /\ in_flight \in Nat
    /\ compLock \in Stoppers \cup {None}
    /\ compiler \in Nat /\ started \in Nat
    /\ jobs \in [Gens -> Seq(Messages)]
    /\ shutdown \in [Gens -> BOOLEAN]
    /\ wpc \in [Gens -> [Workers -> WorkerPlaces]]
    /\ wjob \in [Gens -> [Workers -> Messages \cup {None}]]
    /\ dropped \subseteq Pointers
    /\ tpc \in [Stoppers -> ThreadPlaces]
    /\ vm \in [Threads -> VMs] /\ fresh \subseteq VMs
    /\ jobTx \in [VMs -> Nat]
    /\ compiling \in [VMs -> SUBSET Funcs] /\ pinned \in [VMs -> SUBSET Funcs]
    /\ code \in [VMs -> [Funcs -> {"none", "entry", "ineligible"}]]
    /\ invalidations \in [VMs -> [Funcs -> 0 .. (MaxInvalidations + 1)]]
    /\ replies \in [VMs -> Seq(Results)]
    /\ pending \in [VMs -> BOOLEAN]

\* A VM has one thread, or had one, or will have one.
OneVM ==
    /\ \A t, u \in Threads : vm[t] = vm[u] => t = u
    /\ \A t \in Threads : vm[t] \notin fresh

\* A compiler is started by a task that has just been picked, a different one
\* each time.
Picked == {t \in Threads : tpc[t] = "picked"}
Holding == {t \in Threads : tpc[t] \in {"picked", "run", "drain", "panicked"}}

TasksCounted ==
    /\ in_flight = queued + Cardinality(Holding)
    /\ started + queued + Cardinality(Picked) <= spawned
    /\ in_flight <= spawned

\* Generations follow each other, and the ones to come are untouched.
Generations ==
    /\ compiler \in {0, started}
    /\ \A v \in VMs : jobTx[v] <= started
    /\ \A t \in Threads : tpc[t] \in {"run", "drain"} => jobTx[vm[t]] # 0
    /\ \A g \in Gens : g > started =>
         /\ jobs[g] = <<>>
         /\ \A w \in Workers : wpc[g][w] = "unborn"

\* Whoever has raised a compiler's flag holds the lock until it has signalled.
LockHeld ==
    \A t \in Stoppers : tpc[t] = "signal" =>
        compLock = t /\ compiler # 0 /\ shutdown[compiler]

\* What a worker has in hand, from recv() to the end of its turn.
InHand ==
    \A g \in Gens, w \in Workers :
        /\ wpc[g][w] \in {"unborn", "top", "recv", "exited"} => wjob[g][w] = None
        /\ wpc[g][w] = "check" => wjob[g][w] \in Messages
        /\ wpc[g][w] \in {"compile", "reply", "flag"} => wjob[g][w] \in Pointers

\* A wake-up is on its way only after the flag was raised.
SignalsFollowFlag ==
    /\ \A g \in Gens : \A n \in DOMAIN jobs[g] : jobs[g][n] = Signal => shutdown[g]
    /\ \A g \in Gens, w \in Workers : wjob[g][w] = Signal => shutdown[g]

Structure == Shapes /\ OneVM /\ TasksCounted /\ Generations /\ LockHeld /\ InHand
             /\ SignalsFollowFlag

\* A worker that holds a pointer it has not sent back.
Has(g, w) == wjob[g][w] \in Pointers /\ wpc[g][w] # "flag"

Safe(p) == p[2] \in pinned[p[1]] /\ p[2] \in compiling[p[1]]

\* Wherever a pointer is, its function is pinned and marked.
PinnedAway ==
    /\ \A g \in Gens : \A n \in DOMAIN jobs[g] : jobs[g][n] \in Pointers => Safe(jobs[g][n])
    /\ \A g \in Gens, w \in Workers : Has(g, w) => Safe(wjob[g][w])
    /\ \A v \in VMs : \A n \in DOMAIN replies[v] : Safe(<<v, replies[v][n][1]>>)

\* No two places have the same pointer: two in job channels, two workers, two
\* results; a channel and a worker, a channel and a result, a worker and a
\* result.
OnceAway ==
    /\ \A g, h \in Gens : \A m \in DOMAIN jobs[g], n \in DOMAIN jobs[h] :
         jobs[g][m] \in Pointers /\ jobs[g][m] = jobs[h][n] => g = h /\ m = n
    /\ \A g, h \in Gens, w, x \in Workers :
         Has(g, w) /\ Has(h, x) /\ wjob[g][w] = wjob[h][x] => g = h /\ w = x
    /\ \A v \in VMs : \A m, n \in DOMAIN replies[v] :
         replies[v][m][1] = replies[v][n][1] => m = n
    /\ \A g, h \in Gens, w \in Workers : \A n \in DOMAIN jobs[h] :
         Has(g, w) => jobs[h][n] # wjob[g][w]
    /\ \A g \in Gens, v \in VMs : \A m \in DOMAIN jobs[g], n \in DOMAIN replies[v] :
         jobs[g][m] # <<v, replies[v][n][1]>>
    /\ \A g \in Gens, w \in Workers, v \in VMs : \A n \in DOMAIN replies[v] :
         Has(g, w) => wjob[g][w] # <<v, replies[v][n][1]>>

TripInv == Structure /\ PinnedAway /\ OnceAway

\* Where a function marked as being compiled is.
Somewhere(v, f) ==
    \/ \E g \in Gens : \E n \in DOMAIN jobs[g] : jobs[g][n] = <<v, f>>
    \/ \E g \in Gens, w \in Workers : Has(g, w) /\ wjob[g][w] = <<v, f>>
    \/ \E n \in DOMAIN replies[v] : replies[v][n][1] = f
    \/ <<v, f>> \in dropped

MarkedIsSomewhere == \A v \in VMs : \A f \in compiling[v] : Somewhere(v, f)

\* What is left in a channel has somebody to read it.
ChannelsAreRead == \A g \in Gens : jobs[g] # <<>> => Connected(g)

-----------------------------------------------------------------------------
(* Sequences *)

\* An empty sequence has no places.
LEMMA NoPlaces == DOMAIN <<>> = {}
  BY EmptySeq, LenProperties

\* What Append does to the places of a sequence.
LEMMA AppendAt ==
    ASSUME NEW S, NEW s \in Seq(S), NEW e \in S
    PROVE  /\ Append(s, e) \in Seq(S)
           /\ Len(s) \in Nat /\ DOMAIN s = 1 .. Len(s)
           /\ DOMAIN Append(s, e) = 1 .. (Len(s) + 1)
           /\ \A n \in DOMAIN s : Append(s, e)[n] = s[n]
           /\ Append(s, e)[Len(s) + 1] = e
  BY AppendProperties, LenProperties

\* What Head and Tail do to them.
LEMMA TailAt ==
    ASSUME NEW S, NEW s \in Seq(S), s # <<>>
    PROVE  /\ Tail(s) \in Seq(S) /\ Head(s) \in S
           /\ Len(s) \in Nat \ {0} /\ Len(Tail(s)) = Len(s) - 1
           /\ 1 \in DOMAIN s /\ Head(s) = s[1]
           /\ \A n \in DOMAIN Tail(s) : n \in Nat \ {0} /\ n + 1 \in DOMAIN s
                                        /\ Tail(s)[n] = s[n + 1]
<1>1. Len(s) \in Nat \ {0} /\ DOMAIN s = 1 .. Len(s)
  BY EmptySeq, LenProperties
<1>2. Head(s) = s[1] /\ Tail(s) \in Seq(S) /\ Len(Tail(s)) = Len(s) - 1
  BY HeadTailProperties
<1>3. DOMAIN Tail(s) = 1 .. (Len(s) - 1)
  BY <1>2, LenProperties
<1>4. \A n \in 1 .. (Len(s) - 1) : Tail(s)[n] = s[n + 1]
  BY <1>1, HeadTailProperties
<1> QED  BY <1>1, <1>2, <1>3, <1>4, ElementOfSeq

\* The places of two sequences put together.
LEMMA ConcatAt ==
    ASSUME NEW S, NEW s \in Seq(S), NEW r \in Seq(S)
    PROVE  /\ s \o r \in Seq(S)
           /\ Len(s \o r) = Len(s) + Len(r) /\ Len(s) \in Nat /\ Len(r) \in Nat
           /\ \A n \in DOMAIN (s \o r) : \/ n \in DOMAIN s /\ (s \o r)[n] = s[n]
                                         \/ \E m \in DOMAIN r : (s \o r)[n] = r[m]
           /\ \A n \in DOMAIN s : n \in DOMAIN (s \o r) /\ (s \o r)[n] = s[n]
<1>1. /\ s \o r \in Seq(S) /\ Len(s \o r) = Len(s) + Len(r)
      /\ \A i \in 1 .. Len(s) + Len(r) :
           (s \o r)[i] = IF i <= Len(s) THEN s[i] ELSE r[i - Len(s)]
  BY ConcatProperties
<1>2. /\ Len(s) \in Nat /\ DOMAIN s = 1 .. Len(s) /\ Len(r) \in Nat /\ DOMAIN r = 1 .. Len(r)
      /\ DOMAIN (s \o r) = 1 .. (Len(s) + Len(r))
  BY <1>1, LenProperties
<1> QED  BY <1>1, <1>2

\* The wake-ups that stop_compiler sends.
WakeUps == [n \in 1 .. Cardinality(Workers) |-> Signal]

\* They are as many as there are workers, and nothing but wake-ups.
LEMMA WakeUpsAre ==
    /\ WakeUps \in Seq(Messages) /\ Len(WakeUps) = Cardinality(Workers)
    /\ Cardinality(Workers) \in Nat
    /\ \A n \in DOMAIN WakeUps : WakeUps[n] = Signal
<1>1. Cardinality(Workers) \in Nat
  BY CompilerAssumption, FS_CardinalityType
<1> QED  BY <1>1 DEF WakeUps, Messages

\* A wake-up is no pointer, and neither is an empty hand.
LEMMA SignalNoPointer ==
    /\ Signal \notin Pointers /\ None \notin Pointers /\ None # Signal
    /\ Messages = Pointers \cup {Signal}
    /\ Closer \notin Threads /\ Closer # None
  BY CompilerAssumption DEF Pointers, Messages
-----------------------------------------------------------------------------
(* The structure *)

\* Subsets of the threads can be counted.
LEMMA ThreadSets ==
    ASSUME NEW S \in SUBSET Threads
    PROVE  /\ IsFiniteSet(S) /\ Cardinality(S) \in Nat
           /\ \A t \in Threads \ S : Cardinality(S \cup {t}) = Cardinality(S) + 1
           /\ \A t \in S : Cardinality(S \ {t}) = Cardinality(S) - 1 /\ Cardinality(S) # 0
<1>1. IsFiniteSet(S) /\ Cardinality(S) \in Nat
  BY CompilerAssumption, FS_Subset, FS_CardinalityType
<1>2. \A t \in Threads \ S : Cardinality(S \cup {t}) = Cardinality(S) + 1
  BY <1>1, FS_AddElement
<1>3. \A t \in S : Cardinality(S \ {t}) = Cardinality(S) - 1
  BY <1>1, FS_RemoveElement
<1>4. \A t \in S : Cardinality(S) # 0
  BY <1>1, FS_EmptySet
<1> QED  BY <1>1, <1>2, <1>3, <1>4

\* The generations there are, and the one a picked task may still start.
LEMMA GenRange ==
    ASSUME Structure
    PROVE  /\ MaxTasks \in Nat /\ started \in 0 .. MaxTasks
           /\ compiler # 0 => compiler \in Gens
           /\ \A v \in VMs : jobTx[v] # 0 => jobTx[v] \in Gens
           /\ \A t \in Threads : tpc[t] = "picked" => started + 1 \in Gens
           /\ \A t \in Threads : tpc[t] \in {"run", "panicked"} => in_flight # 0
<1>1. Picked \in SUBSET Threads /\ Holding \in SUBSET Threads
  BY DEF Picked, Holding
<1>2. Cardinality(Picked) \in Nat /\ (Picked # {} => Cardinality(Picked) # 0)
  BY <1>1, ThreadSets
<1>3. Cardinality(Holding) \in Nat /\ (Holding # {} => Cardinality(Holding) # 0)
  BY <1>1, ThreadSets
<1>4. /\ MaxTasks \in Nat /\ spawned \in 0 .. MaxTasks /\ queued \in Nat /\ started \in Nat
      /\ jobTx \in [VMs -> Nat] /\ in_flight \in Nat
  BY CompilerAssumption DEF Structure, Shapes
<1>5. started + queued + Cardinality(Picked) <= spawned
  BY DEF Structure, TasksCounted
<1>6. started \in 0 .. MaxTasks
  BY <1>2, <1>4, <1>5
<1>7. compiler # 0 => compiler \in Gens
  BY <1>4, <1>6 DEF Structure, Generations, Gens
<1>8. \A v \in VMs : jobTx[v] # 0 => jobTx[v] \in Gens
  BY <1>4, <1>6 DEF Structure, Generations, Gens
<1>9. \A t \in Threads : tpc[t] = "picked" => started + 1 \in Gens
  BY <1>2, <1>4, <1>5 DEF Picked, Gens
<1>10. \A t \in Threads : tpc[t] \in {"run", "panicked"} => in_flight # 0
  <2>1. in_flight = queued + Cardinality(Holding)
    BY DEF Structure, TasksCounted
  <2> QED  BY <1>3, <1>4, <2>1 DEF Holding
<1> QED  BY <1>4, <1>6, <1>7, <1>8, <1>9, <1>10

\* The pool starts in order.
LEMMA StructureInit == Init => Structure
<1> SUFFICES ASSUME Init PROVE Structure
  OBVIOUS
<1>0. MaxTasks \in Nat /\ MaxInvalidations \in Nat
  BY CompilerAssumption
<1>1. Shapes
  <2>1. jobs \in [Gens -> Seq(Messages)] /\ replies \in [VMs -> Seq(Results)]
    BY EmptySeq DEF Init
  <2>2. tpc \in [Stoppers -> ThreadPlaces] /\ wpc \in [Gens -> [Workers -> WorkerPlaces]]
    BY DEF Init, ThreadPlaces, WorkerPlaces
  <2>3. /\ wjob \in [Gens -> [Workers -> Messages \cup {None}]]
        /\ shutdown \in [Gens -> BOOLEAN]
    BY DEF Init
  <2>4. /\ code \in [VMs -> [Funcs -> {"none", "entry", "ineligible"}]]
        /\ invalidations \in [VMs -> [Funcs -> 0 .. (MaxInvalidations + 1)]]
    BY <1>0 DEF Init
  <2>5. /\ compiling \in [VMs -> SUBSET Funcs] /\ pinned \in [VMs -> SUBSET Funcs]
        /\ pending \in [VMs -> BOOLEAN] /\ jobTx \in [VMs -> Nat]
        /\ vm \in [Threads -> VMs] /\ fresh \subseteq VMs
    BY DEF Init
  <2> QED  BY <1>0, <2>1, <2>2, <2>3, <2>4, <2>5 DEF Init, Shapes
<1>2. OneVM
  BY DEF Init, OneVM
<1>3. TasksCounted
  <2>1. \A t \in Threads : tpc[t] = "idle"
    BY SignalNoPointer DEF Init, Stoppers
  <2>2. Picked = {} /\ Holding = {}
    BY <2>1 DEF Picked, Holding
  <2> QED  BY <2>2, FS_EmptySet DEF Init, TasksCounted
<1>4. Generations
  BY DEF Init, Generations, Stoppers
<1>5. LockHeld
  BY DEF Init, LockHeld
<1>6. InHand
  BY DEF Init, InHand
<1>7. SignalsFollowFlag
  BY SignalNoPointer, EmptySeq DEF Init, SignalsFollowFlag
<1> QED  BY <1>1, <1>2, <1>3, <1>4, <1>5, <1>6, <1>7 DEF Structure
\* The pool's side keeps every variable in its type.
LEMMA PoolShapes ==
    ASSUME Structure,
           \/ SpawnTask \/ Shutdown
           \/ \E t \in Stoppers : Stop(t)
           \/ \E t \in Threads : Advance(t) \/ TaskPanics(t)
    PROVE  Shapes'
<1> USE DEF Shapes, vars, poolVars, compVars, workVars, threadVars, jitVars, replyVars
<1>0. Shapes /\ MaxTasks \in Nat /\ Threads \subseteq Stoppers /\ Closer \in Stoppers
  BY GenRange DEF Structure, Stoppers
<1>1. CASE SpawnTask
  BY <1>0, <1>1 DEF SpawnTask
<1>2. CASE Shutdown
  BY <1>0, <1>2 DEF Shutdown, Goto, ThreadPlaces
<1>3. ASSUME NEW t \in Stoppers, StopTakes(t) PROVE Shapes'
  <2>1. tpc' \in [Stoppers -> ThreadPlaces] /\ UNCHANGED <<vm, fresh>>
    BY <1>0, <1>3 DEF StopTakes, Goto, ThreadPlaces
  <2>2. compLock' \in Stoppers \cup {None} /\ shutdown' \in [Gens -> BOOLEAN]
    BY <1>0, <1>3 DEF StopTakes
  <2> QED  BY <1>0, <1>3, <2>1, <2>2 DEF StopTakes
<1>4. ASSUME NEW t \in Stoppers, StopSignals(t) PROVE Shapes'
  <2>1. tpc' \in [Stoppers -> ThreadPlaces] /\ UNCHANGED <<vm, fresh>>
    BY <1>0, <1>4 DEF StopSignals, Goto, ThreadPlaces
  <2>2. \A g \in Gens : jobs[g] \o WakeUps \in Seq(Messages)
    BY <1>0, WakeUpsAre, ConcatAt
  <2>3. jobs' \in [Gens -> Seq(Messages)]
    BY <1>0, <1>4, <2>2 DEF StopSignals, WakeUps
  <2> QED  BY <1>0, <1>4, <2>1, <2>3 DEF StopSignals
<1>5. ASSUME NEW t \in Threads, TakeTask(t) PROVE Shapes'
  BY <1>0, <1>5 DEF TakeTask, Goto, ThreadPlaces
<1>6. ASSUME NEW t \in Threads, UseCompiler(t) PROVE Shapes'
  <2>1. tpc' \in [Stoppers -> ThreadPlaces] /\ UNCHANGED <<vm, fresh>>
    BY <1>0, <1>6 DEF UseCompiler, Goto, ThreadPlaces
  <2>2. CASE compiler # 0
    <3>1. /\ jobTx' = [jobTx EXCEPT ![vm[t]] = compiler]
          /\ UNCHANGED <<compiler, started, wpc>>
      BY <1>6, <2>2 DEF UseCompiler
    <3>2. jobTx' \in [VMs -> Nat]
      BY <1>0, <3>1
    <3> QED  BY <1>0, <1>6, <2>1, <3>1, <3>2 DEF UseCompiler
  <2>3. CASE compiler = 0
    <3>1. /\ started' = started + 1 /\ compiler' = started + 1
          /\ jobTx' = [jobTx EXCEPT ![vm[t]] = started + 1]
          /\ wpc' = [wpc EXCEPT ![started + 1] = [w \in Workers |-> "top"]]
      BY <1>6, <2>3 DEF UseCompiler
    <3>2. [w \in Workers |-> "top"] \in [Workers -> WorkerPlaces]
      BY DEF WorkerPlaces
    <3>3. wpc' \in [Gens -> [Workers -> WorkerPlaces]]
      BY <1>0, <3>1, <3>2
    <3>4. jobTx' \in [VMs -> Nat] /\ started' \in Nat /\ compiler' \in Nat
      BY <1>0, <3>1
    <3> QED  BY <1>0, <1>6, <2>1, <3>3, <3>4 DEF UseCompiler
  <2> QED  BY <2>2, <2>3
<1>7. ASSUME NEW t \in Threads, TaskCompleted(t) PROVE Shapes'
  <2>1. in_flight' \in Nat
    BY <1>0, <1>7, GenRange DEF TaskCompleted
  <2>2. tpc' \in [Stoppers -> ThreadPlaces] /\ UNCHANGED <<vm, fresh>>
    BY <1>0, <1>7 DEF TaskCompleted, Goto, ThreadPlaces
  <2> QED  BY <1>0, <1>7, <2>1, <2>2 DEF TaskCompleted
<1>8. ASSUME NEW t \in Threads, TaskPanics(t) PROVE Shapes'
  BY <1>0, <1>8 DEF TaskPanics, ThreadPlaces
<1> QED  BY <1>1, <1>2, <1>3, <1>4, <1>5, <1>6, <1>7, <1>8 DEF Stop, Advance

\* The VM's side does, too.
LEMMA VmShapes ==
    ASSUME Structure, NEW v \in VMs,
           Drain(v) \/ \E f \in Funcs : Enqueue(v, f) \/ Invalidate(v, f)
    PROVE  Shapes'
<1> USE DEF Shapes, poolVars, compVars, workVars, threadVars, jitVars, replyVars
<1>0. Shapes /\ Threads \subseteq Stoppers
  BY DEF Structure, Stoppers
<1>1. ASSUME NEW p \in ThreadPlaces, RunnerGoes(v, p)
      PROVE  tpc' \in [Stoppers -> ThreadPlaces] /\ UNCHANGED <<vm, fresh>>
  BY <1>0, <1>1 DEF RunnerGoes, Runner, Goto
<1>2. CASE DrainStarts(v) \/ DrainEnds(v)
  <2>1. tpc' \in [Stoppers -> ThreadPlaces] /\ UNCHANGED <<vm, fresh>>
    BY <1>1, <1>2 DEF DrainStarts, DrainEnds, ThreadPlaces
  <2> QED  BY <1>0, <1>2, <2>1 DEF DrainStarts, DrainEnds
<1>3. CASE DrainInstalls(v)
  <2>1. replies[v] \in Seq(Results) /\ replies[v] # <<>>
    BY <1>0, <1>3 DEF DrainInstalls
  <2>2. Head(replies[v]) \in Results /\ Tail(replies[v]) \in Seq(Results)
    BY <2>1, TailAt
  <2>3. replies' \in [VMs -> Seq(Results)]
    BY <1>0, <1>3, <2>2 DEF DrainInstalls
  <2>4. code' \in [VMs -> [Funcs -> {"none", "entry", "ineligible"}]]
    BY <1>0, <1>3, <2>2 DEF DrainInstalls, Results
  <2> QED  BY <1>0, <1>3, <2>3, <2>4 DEF DrainInstalls
<1>4. ASSUME NEW f \in Funcs, Enqueue(v, f) PROVE Shapes'
  <2>1. <<v, f>> \in Messages
    BY DEF Messages
  <2>2. \A g \in Gens : Append(jobs[g], <<v, f>>) \in Seq(Messages)
    BY <1>0, <2>1, AppendAt
  <2>3. CASE Connected(jobTx[v])
    <3>1. /\ compiling' = [compiling EXCEPT ![v] = @ \cup {f}]
          /\ pinned' = [pinned EXCEPT ![v] = @ \cup {f}]
          /\ jobs' = [jobs EXCEPT ![jobTx[v]] = Append(@, <<v, f>>)]
          /\ UNCHANGED code
      BY <1>4, <2>3 DEF Enqueue
    <3>2. compiling[v] \cup {f} \in SUBSET Funcs /\ pinned[v] \cup {f} \in SUBSET Funcs
      BY <1>0
    <3>3. compiling' \in [VMs -> SUBSET Funcs] /\ pinned' \in [VMs -> SUBSET Funcs]
      BY <1>0, <3>1, <3>2
    <3>4. jobs' \in [Gens -> Seq(Messages)]
      BY <1>0, <2>2, <3>1
    <3> QED  BY <1>0, <1>4, <3>1, <3>3, <3>4 DEF Enqueue
  <2>4. CASE ~Connected(jobTx[v])
    <3>1. /\ code' = [code EXCEPT ![v][f] = "ineligible"]
          /\ UNCHANGED <<compiling, pinned, jobs>>
      BY <1>4, <2>4 DEF Enqueue
    <3>2. code' \in [VMs -> [Funcs -> {"none", "entry", "ineligible"}]]
      BY <1>0, <3>1
    <3> QED  BY <1>0, <1>4, <3>1, <3>2 DEF Enqueue
  <2> QED  BY <2>3, <2>4
<1>5. ASSUME NEW f \in Funcs, Invalidate(v, f) PROVE Shapes'
  <2>1. invalidations[v][f] \in Nat /\ MaxInvalidations \in Nat
    BY <1>0, CompilerAssumption
  <2>2. invalidations[v][f] + 1 \in 0 .. (MaxInvalidations + 1)
    BY <1>5, <2>1 DEF Invalidate
  <2>3. invalidations' \in [VMs -> [Funcs -> 0 .. (MaxInvalidations + 1)]]
    BY <1>0, <1>5, <2>2 DEF Invalidate
  <2>4. code' \in [VMs -> [Funcs -> {"none", "entry", "ineligible"}]]
    BY <1>0, <1>5 DEF Invalidate
  <2> QED  BY <1>0, <1>5, <2>3, <2>4 DEF Invalidate
<1> QED  BY <1>2, <1>3, <1>4, <1>5 DEF Drain

\* The worker's side does, too.
LEMMA WorkerShapes ==
    ASSUME Structure, NEW g \in Gens, NEW w \in Workers, Work(g, w)
    PROVE  Shapes'
<1> USE DEF Shapes, poolVars, compVars, workVars, threadVars, jitVars, replyVars
<1>0. Shapes
  BY DEF Structure
<1>1. ASSUME NEW p \in WorkerPlaces, WGoto(g, w, p)
      PROVE  wpc' \in [Gens -> [Workers -> WorkerPlaces]]
  BY <1>0, <1>1 DEF WGoto
<1>2. Drops(g, w) => wjob' \in [Gens -> [Workers -> Messages \cup {None}]]
  BY <1>0 DEF Drops
<1>3. Leaves(g, w) => jobs' \in [Gens -> Seq(Messages)]
  BY <1>0, EmptySeq DEF Leaves
<1>8. dropped' \subseteq Pointers
  <2>1. CASE Leaves(g, w)
    <3>1. \A m \in Messages \cup {None} : m \notin {None, Signal} => m \in Pointers
      BY DEF Messages, Pointers
    <3>2. wjob[g][w] \in Messages \cup {None}
      BY <1>0
    <3>3. \A n \in DOMAIN jobs[g] : jobs[g][n] \in Messages
      BY <1>0
    <3> QED  BY <1>0, <2>1, <3>1, <3>2, <3>3 DEF Leaves
  <2>2. CASE ~Leaves(g, w)
    <3>1. dropped' = dropped
      BY <2>2 DEF Work, LoopTop, Receive, CheckJob, CompileEnds, Reply, RaiseFlag
    <3> QED  BY <1>0, <3>1
  <2> QED  BY <2>1, <2>2
<1>4. CASE LoopTop(g, w) \/ CheckJob(g, w) \/ CompileEnds(g, w)
  <2>1. jobs' \in [Gens -> Seq(Messages)]
    BY <1>0, <1>3, <1>4 DEF LoopTop, CheckJob, CompileEnds
  <2>2. wjob' \in [Gens -> [Workers -> Messages \cup {None}]]
    BY <1>0, <1>2, <1>4 DEF LoopTop, CheckJob, CompileEnds, Leaves
  <2>3. wpc' \in [Gens -> [Workers -> WorkerPlaces]]
    BY <1>1, <1>4 DEF LoopTop, CheckJob, CompileEnds, Leaves, WorkerPlaces
  <2> QED  BY <1>0, <1>4, <1>8, <2>1, <2>2, <2>3 DEF LoopTop, CheckJob, CompileEnds
<1>5. CASE Receive(g, w)
  <2>1. jobs[g] \in Seq(Messages) /\ jobs[g] # <<>>
    BY <1>0, <1>5 DEF Receive
  <2>2. Head(jobs[g]) \in Messages /\ Tail(jobs[g]) \in Seq(Messages)
    BY <2>1, TailAt
  <2>3. jobs' \in [Gens -> Seq(Messages)]
    BY <1>0, <1>5, <2>2 DEF Receive
  <2>4. wjob' \in [Gens -> [Workers -> Messages \cup {None}]]
    BY <1>0, <1>5, <2>2 DEF Receive
  <2>5. wpc' \in [Gens -> [Workers -> WorkerPlaces]]
    BY <1>1, <1>5 DEF Receive, WorkerPlaces
  <2> QED  BY <1>0, <1>5, <1>8, <2>3, <2>4, <2>5 DEF Receive
<1>6. CASE Reply(g, w)
  <2>1. wjob[g][w] \in Pointers
    BY <1>6 DEF Reply, Structure, InHand
  <2>2. PICK result \in {"entry", "ineligible"} :
          replies' = [replies EXCEPT ![wjob[g][w][1]] = Append(@, <<wjob[g][w][2], result>>)]
    BY <1>6 DEF Reply
  <2>3. wjob[g][w][1] \in VMs /\ <<wjob[g][w][2], result>> \in Results
    BY <2>1 DEF Pointers, Results
  <2>4. \A v \in VMs : Append(replies[v], <<wjob[g][w][2], result>>) \in Seq(Results)
    BY <1>0, <2>3, AppendAt
  <2>5. replies' \in [VMs -> Seq(Results)]
    BY <1>0, <2>2, <2>3, <2>4
  <2>6. wpc' \in [Gens -> [Workers -> WorkerPlaces]]
    BY <1>1, <1>6 DEF Reply, WorkerPlaces
  <2> QED  BY <1>0, <1>6, <1>8, <2>5, <2>6 DEF Reply
<1>7. CASE RaiseFlag(g, w)
  <2>1. wpc' \in [Gens -> [Workers -> WorkerPlaces]]
    BY <1>1, <1>7 DEF RaiseFlag, WorkerPlaces
  <2> QED  BY <1>0, <1>2, <1>7, <1>8, <2>1 DEF RaiseFlag
<1> QED  BY <1>4, <1>5, <1>6, <1>7 DEF Work

\* Every step keeps every variable in its type.
LEMMA ShapesNext == Structure /\ [Next]_vars => Shapes'
<1> SUFFICES ASSUME Structure, [Next]_vars PROVE Shapes'
  OBVIOUS
<1>1. CASE UNCHANGED vars
  BY <1>1 DEF vars, poolVars, compVars, workVars, threadVars, jitVars, replyVars, Structure, Shapes
<1> QED  BY <1>1, PoolShapes, VmShapes, WorkerShapes DEF Next
\* A VM's thread changes only with a panic.
LEMMA OneVMNext == Structure /\ [Next]_vars => OneVM'
<1> SUFFICES ASSUME Structure, [Next]_vars PROVE OneVM'
  OBVIOUS
<1>0. OneVM /\ vm \in [Threads -> VMs] /\ fresh \subseteq VMs
  BY DEF Structure, Shapes
<1>1. CASE \E t \in Threads : TaskPanics(t)
  <2>1. PICK t \in Threads, v \in fresh : vm' = [vm EXCEPT ![t] = v] /\ fresh' = fresh \ {v}
    BY <1>1 DEF TaskPanics
  <2> QED  BY <1>0, <2>1 DEF OneVM
<1>2. CASE UNCHANGED <<vm, fresh>>
  BY <1>0, <1>2 DEF OneVM
<1>3. CASE UNCHANGED vars
  BY <1>2, <1>3 DEF vars, threadVars
<1>4. CASE \/ SpawnTask \/ Shutdown \/ \E t \in Stoppers : Stop(t)
           \/ \E t \in Threads : Advance(t)
  BY <1>2, <1>4 DEF SpawnTask, Shutdown, Stop, StopTakes, StopSignals, Advance, TakeTask,
       UseCompiler, TaskCompleted, Goto, threadVars
<1>5. CASE \E v \in VMs : Drain(v)
  BY <1>2, <1>5 DEF Drain, DrainStarts, DrainInstalls, DrainEnds, RunnerGoes, Goto, threadVars
<1>6. CASE \E v \in VMs, f \in Funcs : Enqueue(v, f) \/ Invalidate(v, f)
  BY <1>2, <1>6 DEF Enqueue, Invalidate, threadVars
<1>7. CASE \E g \in Gens, w \in Workers : Work(g, w)
  BY <1>2, <1>7 DEF Work, LoopTop, Receive, CheckJob, CompileEnds, Reply, RaiseFlag, threadVars
<1> QED  BY <1>1, <1>3, <1>4, <1>5, <1>6, <1>7 DEF Next

\* The thread of v goes to p, and nobody else goes anywhere.
LEMMA RunnerIs ==
    ASSUME Structure, NEW v \in VMs, NEW p, NEW q, RunnerGoes(v, p), At(v, q)
    PROVE  \E t \in Threads : /\ vm[t] = v /\ tpc[t] = q
                              /\ tpc' = [tpc EXCEPT ![t] = p] /\ UNCHANGED <<vm, fresh>>
  BY DEF Structure, OneVM, RunnerGoes, Runner, At, Goto

\* The tasks, the compilers started and the threads that hold a task agree.
LEMMA TasksCountedNext == Structure /\ [Next]_vars => TasksCounted'
<1> SUFFICES ASSUME Structure, [Next]_vars PROVE TasksCounted'
  OBVIOUS
<1>0. /\ spawned \in 0 .. MaxTasks /\ queued \in Nat /\ in_flight \in Nat /\ started \in Nat
      /\ tpc \in [Stoppers -> ThreadPlaces] /\ TasksCounted /\ MaxTasks \in Nat
      /\ Threads \subseteq Stoppers /\ Closer \notin Threads
  BY GenRange, SignalNoPointer DEF Structure, Shapes, Stoppers
<1>1. Picked \in SUBSET Threads /\ Holding \in SUBSET Threads
  BY DEF Picked, Holding
<1>2. Cardinality(Picked) \in Nat /\ Cardinality(Holding) \in Nat
  BY <1>1, ThreadSets
<1>3. ASSUME Picked' = Picked, Holding' = Holding,
             UNCHANGED <<spawned, queued, in_flight, started>>
      PROVE  TasksCounted'
  BY <1>0, <1>3 DEF TasksCounted
<1>4. CASE SpawnTask
  <2>1. Picked' = Picked /\ Holding' = Holding
    BY <1>4 DEF SpawnTask, Picked, Holding, threadVars
  <2> QED  BY <1>0, <1>2, <1>4, <2>1 DEF SpawnTask, TasksCounted, compVars
<1>5. CASE Shutdown
  <2>1. Picked' = Picked /\ Holding' = Holding
    BY <1>0, <1>5 DEF Shutdown, Goto, Picked, Holding
  <2> QED  BY <1>3, <1>5, <2>1 DEF Shutdown, poolVars, compVars
<1>6. CASE \E t \in Stoppers : Stop(t)
  <2>1. PICK t \in Stoppers : Stop(t)
    BY <1>6
  <2>2. Picked' = Picked /\ Holding' = Holding
    BY <1>0, <2>1 DEF Stop, StopTakes, StopSignals, Goto, Picked, Holding
  <2> QED  BY <1>3, <2>1, <2>2 DEF Stop, StopTakes, StopSignals, poolVars, compVars
<1>7. ASSUME NEW t \in Threads, TakeTask(t) PROVE TasksCounted'
  <2>1. t \notin Picked /\ t \notin Holding
    BY <1>7 DEF TakeTask, Picked, Holding
  <2>2. Picked' = Picked \cup {t} /\ Holding' = Holding \cup {t}
    BY <1>0, <1>7 DEF TakeTask, Goto, Picked, Holding
  <2>3. Cardinality(Picked') = Cardinality(Picked) + 1 /\ Cardinality(Holding') = Cardinality(Holding) + 1
    BY <1>1, <2>1, <2>2, ThreadSets
  <2> QED  BY <1>0, <1>2, <1>7, <2>3 DEF TakeTask, TasksCounted, compVars
<1>8. ASSUME NEW t \in Threads, UseCompiler(t) PROVE TasksCounted'
  <2>1. t \in Picked
    BY <1>8 DEF UseCompiler, Picked
  <2>2. Picked' = Picked \ {t} /\ Holding' = Holding
    BY <1>0, <1>8 DEF UseCompiler, Goto, Picked, Holding
  <2>3. Cardinality(Picked') = Cardinality(Picked) - 1 /\ Cardinality(Picked) # 0
    BY <1>1, <2>1, <2>2, ThreadSets
  <2>4. started' \in {started, started + 1} /\ UNCHANGED <<spawned, queued, in_flight>>
    BY <1>8 DEF UseCompiler, poolVars
  <2> QED  BY <1>0, <1>2, <2>2, <2>3, <2>4 DEF TasksCounted
<1>9. ASSUME NEW t \in Threads, TaskCompleted(t) PROVE TasksCounted'
  <2>1. t \in Holding /\ t \notin Picked
    BY <1>9 DEF TaskCompleted, Holding, Picked
  <2>2. Picked' = Picked /\ Holding' = Holding \ {t}
    BY <1>0, <1>9, <2>1 DEF TaskCompleted, Goto, Picked, Holding
  <2>3. Cardinality(Holding') = Cardinality(Holding) - 1 /\ Cardinality(Holding) # 0
    BY <1>1, <2>1, <2>2, ThreadSets
  <2>4. in_flight' = in_flight - 1 /\ UNCHANGED <<spawned, queued, started>>
    BY <1>9 DEF TaskCompleted, compVars
  <2> QED  BY <1>0, <1>2, <2>2, <2>3, <2>4 DEF TasksCounted
<1>10. ASSUME NEW t \in Threads, TaskPanics(t) PROVE TasksCounted'
  <2>1. Picked' = Picked /\ Holding' = Holding
    BY <1>0, <1>10 DEF TaskPanics, Picked, Holding
  <2> QED  BY <1>3, <1>10, <2>1 DEF TaskPanics, poolVars, compVars
<1>11. ASSUME NEW v \in VMs, Drain(v) PROVE TasksCounted'
  <2>1. CASE DrainInstalls(v)
    BY <1>3, <2>1 DEF DrainInstalls, Picked, Holding, threadVars, poolVars, compVars
  <2>2. CASE DrainStarts(v) \/ DrainEnds(v)
    <3>1. PICK t \in Threads, p \in {"run", "drain"} :
            tpc[t] \in {"run", "drain"} /\ tpc' = [tpc EXCEPT ![t] = p]
      BY <2>2, RunnerIs DEF DrainStarts, DrainEnds
    <3>2. Picked' = Picked /\ Holding' = Holding
      BY <1>0, <3>1 DEF Picked, Holding
    <3> QED  BY <1>3, <2>2, <3>2 DEF DrainStarts, DrainEnds, poolVars, compVars
  <2> QED  BY <1>11, <2>1, <2>2 DEF Drain
<1>12. CASE \E v \in VMs, f \in Funcs : Enqueue(v, f) \/ Invalidate(v, f)
  BY <1>3, <1>12 DEF Enqueue, Invalidate, Picked, Holding, threadVars, poolVars, compVars
<1>13. CASE \E g \in Gens, w \in Workers : Work(g, w)
  BY <1>3, <1>13 DEF Work, LoopTop, Receive, CheckJob, CompileEnds, Reply, RaiseFlag,
       Picked, Holding, threadVars, poolVars, compVars
<1>14. CASE UNCHANGED vars
  BY <1>3, <1>14 DEF vars, Picked, Holding, threadVars, poolVars, compVars
<1> QED  BY <1>4, <1>5, <1>6, <1>7, <1>8, <1>9, <1>10, <1>11, <1>12, <1>13, <1>14
         DEF Next, Advance
\* Compilers come one after the other.
LEMMA GenerationsNext == Structure /\ [Next]_vars => Generations'
<1> SUFFICES ASSUME Structure, [Next]_vars PROVE Generations'
  OBVIOUS
<1>0. /\ compiler \in Nat /\ started \in Nat /\ jobTx \in [VMs -> Nat]
      /\ jobs \in [Gens -> Seq(Messages)] /\ wpc \in [Gens -> [Workers -> WorkerPlaces]]
      /\ tpc \in [Stoppers -> ThreadPlaces] /\ vm \in [Threads -> VMs]
      /\ Generations /\ Threads \subseteq Stoppers /\ Gens \subseteq Nat
  BY DEF Structure, Shapes, Stoppers, Gens
<1>1. ASSUME compiler' \in {0, started'}, UNCHANGED <<started, jobTx, vm, wpc>>,
             \A t \in Threads : tpc'[t] \in {"run", "drain"} => tpc[t] \in {"run", "drain"},
             \A g \in Gens : g > started => jobs'[g] = <<>>
      PROVE  Generations'
  BY <1>0, <1>1 DEF Generations
<1>2. CASE \/ SpawnTask \/ Shutdown \/ \E t \in Threads : TakeTask(t) \/ TaskCompleted(t)
  <2>1. UNCHANGED <<compiler, started, jobTx, vm, wpc, jobs>>
    BY <1>2 DEF SpawnTask, Shutdown, TakeTask, TaskCompleted, Goto, compVars, workVars, threadVars
  <2>2. \A t \in Threads : tpc'[t] \in {"run", "drain"} => tpc[t] \in {"run", "drain"}
    BY <1>0, <1>2 DEF SpawnTask, Shutdown, TakeTask, TaskCompleted, Goto, threadVars
  <2> QED  BY <1>0, <1>1, <2>1, <2>2 DEF Generations
<1>3. CASE \E t \in Stoppers : StopTakes(t)
  <2>1. UNCHANGED <<compiler, started, jobTx, vm, wpc, jobs>>
    BY <1>3 DEF StopTakes, Goto, compVars, workVars, threadVars
  <2>2. \A t \in Threads : tpc'[t] \in {"run", "drain"} => tpc[t] \in {"run", "drain"}
    BY <1>0, <1>3 DEF StopTakes, Goto
  <2> QED  BY <1>0, <1>1, <2>1, <2>2 DEF Generations
<1>4. CASE \E t \in Stoppers : StopSignals(t)
  <2>1. compiler' = 0 /\ UNCHANGED <<started, jobTx, vm, wpc>>
    BY <1>4 DEF StopSignals, Goto, workVars
  <2>2. \A t \in Threads : tpc'[t] \in {"run", "drain"} => tpc[t] \in {"run", "drain"}
    BY <1>0, <1>4 DEF StopSignals, Goto
  <2>3. \A g \in Gens : g # compiler => jobs'[g] = jobs[g]
    BY <1>0, <1>4 DEF StopSignals
  <2>4. \A g \in Gens : g > started => jobs'[g] = <<>>
    BY <1>0, <2>3 DEF Generations
  <2> QED  BY <1>1, <2>1, <2>2, <2>4
<1>5. ASSUME NEW t \in Threads, UseCompiler(t) PROVE Generations'
  <2>1. tpc' = [tpc EXCEPT ![t] = "run"] /\ UNCHANGED <<vm, jobs>>
    BY <1>5 DEF UseCompiler, Goto
  <2>2. vm[t] \in VMs
    BY <1>0
  <2>3. CASE compiler # 0
    <3>1. jobTx' = [jobTx EXCEPT ![vm[t]] = compiler] /\ UNCHANGED <<compiler, started, wpc>>
      BY <1>5, <2>3 DEF UseCompiler
    <3>2. \A v \in VMs : jobTx'[v] <= started
      BY <1>0, <3>1 DEF Generations
    <3>3. \A u \in Threads : tpc'[u] \in {"run", "drain"} => jobTx'[vm[u]] # 0
      BY <1>0, <2>1, <2>2, <2>3, <3>1 DEF Generations
    <3> QED  BY <1>0, <2>1, <3>1, <3>2, <3>3 DEF Generations
  <2>4. CASE compiler = 0
    <3>1. /\ started' = started + 1 /\ compiler' = started + 1
          /\ jobTx' = [jobTx EXCEPT ![vm[t]] = started + 1]
          /\ wpc' = [wpc EXCEPT ![started + 1] = [w \in Workers |-> "top"]]
      BY <1>5, <2>4 DEF UseCompiler
    <3>2. \A v \in VMs : jobTx'[v] <= started'
      BY <1>0, <3>1 DEF Generations
    <3>3. \A u \in Threads : tpc'[u] \in {"run", "drain"} => jobTx'[vm[u]] # 0
      BY <1>0, <2>1, <2>2, <3>1 DEF Generations
    <3>4. \A g \in Gens : g > started' => g > started /\ wpc'[g] = wpc[g]
      BY <1>0, <3>1
    <3> QED  BY <1>0, <2>1, <3>1, <3>2, <3>3, <3>4 DEF Generations
  <2> QED  BY <2>3, <2>4
<1>6. ASSUME NEW t \in Threads, TaskPanics(t) PROVE Generations'
  <2>1. PICK v \in fresh : vm' = [vm EXCEPT ![t] = v]
    BY <1>6 DEF TaskPanics
  <2>2. tpc' = [tpc EXCEPT ![t] = "panicked"] /\ UNCHANGED <<compiler, started, jobTx, wpc, jobs>>
    BY <1>6 DEF TaskPanics, compVars, workVars
  <2> QED  BY <1>0, <2>1, <2>2 DEF Generations
<1>7. ASSUME NEW v \in VMs, Drain(v) PROVE Generations'
  <2>1. UNCHANGED <<compiler, started, jobTx, vm, wpc, jobs>>
    BY <1>7 DEF Drain, DrainStarts, DrainInstalls, DrainEnds, RunnerGoes, Goto, compVars,
         workVars, threadVars
  <2>2. CASE DrainInstalls(v)
    BY <1>0, <1>1, <2>1, <2>2 DEF DrainInstalls, threadVars, Generations
  <2>3. CASE DrainStarts(v) \/ DrainEnds(v)
    <3>1. PICK t \in Threads, p \in {"run", "drain"} :
            tpc[t] \in {"run", "drain"} /\ tpc' = [tpc EXCEPT ![t] = p]
      BY <2>3, RunnerIs DEF DrainStarts, DrainEnds
    <3>2. \A u \in Threads : tpc'[u] \in {"run", "drain"} => tpc[u] \in {"run", "drain"}
      BY <1>0, <3>1
    <3> QED  BY <1>0, <1>1, <2>1, <3>2 DEF Generations
  <2> QED  BY <1>7, <2>2, <2>3 DEF Drain
<1>8. ASSUME NEW v \in VMs, NEW f \in Funcs, Enqueue(v, f) \/ Invalidate(v, f) PROVE Generations'
  <2>1. UNCHANGED <<compiler, started, jobTx, vm, wpc, tpc>>
    BY <1>8 DEF Enqueue, Invalidate, compVars, workVars, threadVars
  <2>2. \A g \in Gens : g # jobTx[v] => jobs'[g] = jobs[g]
    BY <1>0, <1>8 DEF Enqueue, Invalidate
  <2>3. \A g \in Gens : g > started => jobs'[g] = <<>>
    BY <1>0, <2>2 DEF Generations
  <2> QED  BY <1>0, <1>1, <2>1, <2>3 DEF Generations
<1>9. ASSUME NEW g \in Gens, NEW w \in Workers, Work(g, w) PROVE Generations'
  <2>1. UNCHANGED <<compiler, started, jobTx, vm, tpc>>
    BY <1>9 DEF Work, LoopTop, Receive, CheckJob, CompileEnds, Reply, RaiseFlag, compVars, threadVars
  <2>2. wpc[g][w] # "unborn"
    BY <1>9 DEF Work, LoopTop, Receive, CheckJob, CompileEnds, Reply, RaiseFlag
  <2>3. ~(g > started)
    BY <1>0, <2>2 DEF Generations
  <2>4. \A h \in Gens : h # g => wpc'[h] = wpc[h] /\ jobs'[h] = jobs[h]
    BY <1>0, <1>9 DEF Work, LoopTop, Receive, CheckJob, CompileEnds, Reply, RaiseFlag, Leaves, WGoto
  <2> QED  BY <1>0, <2>1, <2>3, <2>4 DEF Generations
<1>10. CASE UNCHANGED vars
  BY <1>0, <1>1, <1>10 DEF vars, compVars, workVars, threadVars, Generations
<1> QED  BY <1>2, <1>3, <1>4, <1>5, <1>6, <1>7, <1>8, <1>9, <1>10 DEF Next, Stop, Advance

\* Raising the flag and sending the wake-ups happen under one lock.
LEMMA LockHeldNext == Structure /\ [Next]_vars => LockHeld'
<1> SUFFICES ASSUME Structure, [Next]_vars PROVE LockHeld'
  OBVIOUS
<1>0. /\ LockHeld /\ tpc \in [Stoppers -> ThreadPlaces] /\ shutdown \in [Gens -> BOOLEAN]
      /\ Threads \subseteq Stoppers /\ Closer \in Stoppers /\ None \notin Stoppers
      /\ compiler # 0 => compiler \in Gens
  <2>1. None \notin Stoppers
    BY CompilerAssumption DEF Stoppers
  <2> QED  BY <2>1, GenRange DEF Structure, Shapes, Stoppers
<1>1. ASSUME \A t \in Stoppers : tpc'[t] = "signal" => tpc[t] = "signal",
             UNCHANGED <<compLock, compiler, shutdown>>
      PROVE  LockHeld'
  BY <1>0, <1>1 DEF LockHeld
<1>2. CASE \/ SpawnTask \/ Shutdown
           \/ \E t \in Threads : TakeTask(t) \/ TaskCompleted(t) \/ TaskPanics(t)
  <2>1. \A t \in Stoppers : tpc'[t] = "signal" => tpc[t] = "signal"
    BY <1>0, <1>2 DEF SpawnTask, Shutdown, TakeTask, TaskCompleted, TaskPanics, Goto, threadVars
  <2> QED  BY <1>1, <1>2, <2>1 DEF SpawnTask, Shutdown, TakeTask, TaskCompleted, TaskPanics, compVars
<1>3. ASSUME NEW t \in Threads, UseCompiler(t) PROVE LockHeld'
  <2>1. \A u \in Stoppers : tpc[u] # "signal"
    BY <1>0, <1>3 DEF UseCompiler, LockHeld
  <2> QED  BY <1>0, <1>3, <2>1 DEF UseCompiler, Goto, LockHeld
<1>4. ASSUME NEW t \in Stoppers, StopTakes(t) PROVE LockHeld'
  <2>1. \A u \in Stoppers : tpc[u] # "signal"
    BY <1>0, <1>4 DEF StopTakes, LockHeld
  <2> QED  BY <1>0, <1>4, <2>1 DEF StopTakes, Goto, LockHeld
<1>5. ASSUME NEW t \in Stoppers, StopSignals(t) PROVE LockHeld'
  <2>1. \A u \in Stoppers : tpc[u] = "signal" => u = t
    BY <1>5 , <1>0 DEF StopSignals, LockHeld
  <2> QED  BY <1>0, <1>5, <2>1 DEF StopSignals, Goto, LockHeld
<1>6. ASSUME NEW v \in VMs, Drain(v) PROVE LockHeld'
  <2>1. \A t \in Stoppers : tpc'[t] = "signal" => tpc[t] = "signal"
    BY <1>0, <1>6 DEF Drain, DrainStarts, DrainInstalls, DrainEnds, RunnerGoes, Goto, threadVars
  <2> QED  BY <1>1, <1>6, <2>1 DEF Drain, DrainStarts, DrainInstalls, DrainEnds, compVars
<1>7. CASE \E v \in VMs, f \in Funcs : Enqueue(v, f) \/ Invalidate(v, f)
  BY <1>1, <1>7 DEF Enqueue, Invalidate, compVars, threadVars
<1>8. CASE \E g \in Gens, w \in Workers : Work(g, w)
  BY <1>1, <1>8 DEF Work, LoopTop, Receive, CheckJob, CompileEnds, Reply, RaiseFlag, compVars, threadVars
<1>9. CASE UNCHANGED vars
  BY <1>1, <1>9 DEF vars, compVars, threadVars
<1> QED  BY <1>2, <1>3, <1>4, <1>5, <1>6, <1>7, <1>8, <1>9 DEF Next, Stop, Advance
\* recv() gives what it gives; the flag is looked at before a message is taken
\* for a job.
LEMMA InHandNext == Structure /\ [Next]_vars => (InHand /\ SignalsFollowFlag)'
<1> SUFFICES ASSUME Structure, [Next]_vars PROVE InHand' /\ SignalsFollowFlag'
  OBVIOUS
<1>0. /\ jobs \in [Gens -> Seq(Messages)] /\ shutdown \in [Gens -> BOOLEAN]
      /\ wpc \in [Gens -> [Workers -> WorkerPlaces]]
      /\ wjob \in [Gens -> [Workers -> Messages \cup {None}]]
      /\ InHand /\ SignalsFollowFlag
  BY DEF Structure, Shapes
<1>1. ASSUME UNCHANGED <<wpc, wjob>>, \A g \in Gens : shutdown[g] => shutdown'[g],
             \A g \in Gens : \A n \in DOMAIN jobs'[g] : jobs'[g][n] = Signal =>
               shutdown[g] \/ \E m \in DOMAIN jobs[g] : jobs[g][m] = Signal
      PROVE  InHand' /\ SignalsFollowFlag'
  BY <1>0, <1>1 DEF InHand, SignalsFollowFlag
<1>2. CASE \/ SpawnTask \/ Shutdown
           \/ \E t \in Threads : TakeTask(t) \/ TaskCompleted(t) \/ TaskPanics(t)
           \/ \E v \in VMs : Drain(v)
           \/ \E v \in VMs, f \in Funcs : Invalidate(v, f)
           \/ UNCHANGED vars
  <2>1. UNCHANGED <<wpc, wjob, shutdown, jobs>>
    BY <1>2 DEF SpawnTask, Shutdown, TakeTask, TaskCompleted, TaskPanics, Drain, DrainStarts,
         DrainInstalls, DrainEnds, Invalidate, workVars, vars
  <2> QED  BY <2>1, <1>1
<1>3. CASE \E t \in Stoppers : StopTakes(t)
  <2>1. UNCHANGED <<wpc, wjob, jobs>> /\ \A g \in Gens : shutdown[g] => shutdown'[g]
    BY <1>0, <1>3 DEF StopTakes, workVars
  <2> QED  BY <2>1, <1>1
<1>4. ASSUME NEW t \in Stoppers, StopSignals(t) PROVE InHand' /\ SignalsFollowFlag'
  <2>1. UNCHANGED <<wpc, wjob, shutdown>> /\ compiler \in Gens /\ shutdown[compiler]
    BY <1>4, GenRange DEF StopSignals, workVars, Structure, LockHeld
  <2>2. \A g \in Gens : g # compiler => jobs'[g] = jobs[g]
    BY <1>0, <1>4 DEF StopSignals
  <2> QED  BY <2>1, <2>2, <1>1
<1>5. ASSUME NEW t \in Threads, UseCompiler(t) PROVE InHand' /\ SignalsFollowFlag'
  <2>1. UNCHANGED <<wjob, shutdown, jobs>>
    BY <1>5 DEF UseCompiler
  <2>2. CASE compiler # 0
    BY <1>1, <1>5, <2>1, <2>2 DEF UseCompiler
  <2>3. CASE compiler = 0
    <3>1. started + 1 \in Gens /\ started \in Nat
      BY <1>5, GenRange DEF UseCompiler
    <3>2. wpc' = [wpc EXCEPT ![started + 1] = [w \in Workers |-> "top"]]
      BY <1>5, <2>3 DEF UseCompiler
    <3>3. \A w \in Workers : wpc[started + 1][w] = "unborn"
      BY <3>1 DEF Structure, Generations
    <3>4. InHand'
      BY <1>0, <2>1, <3>1, <3>2, <3>3 DEF InHand
    <3>5. SignalsFollowFlag'
      BY <1>0, <2>1 DEF SignalsFollowFlag
    <3> QED  BY <3>4, <3>5
  <2> QED  BY <2>2, <2>3
<1>6. ASSUME NEW v \in VMs, NEW f \in Funcs, Enqueue(v, f) PROVE InHand' /\ SignalsFollowFlag'
  <2>1. UNCHANGED <<wpc, wjob, shutdown>>
    BY <1>6 DEF Enqueue, workVars
  <2>2. CASE UNCHANGED jobs
    BY <1>1, <2>1, <2>2
  <2>3. CASE jobs' = [jobs EXCEPT ![jobTx[v]] = Append(@, <<v, f>>)]
    <3>1. <<v, f>> \in Messages /\ <<v, f>> # Signal
      BY SignalNoPointer DEF Pointers
    <3>2. \A g \in Gens : \A n \in DOMAIN Append(jobs[g], <<v, f>>) :
            Append(jobs[g], <<v, f>>)[n] = Signal => \E m \in DOMAIN jobs[g] : jobs[g][m] = Signal
      <4> SUFFICES ASSUME NEW g \in Gens, NEW n \in DOMAIN Append(jobs[g], <<v, f>>),
                          Append(jobs[g], <<v, f>>)[n] = Signal
                   PROVE  \E m \in DOMAIN jobs[g] : jobs[g][m] = Signal
        OBVIOUS
      <4>1. jobs[g] \in Seq(Messages)
        BY <1>0
      <4>2. n \in 1 .. (Len(jobs[g]) + 1) /\ DOMAIN jobs[g] = 1 .. Len(jobs[g]) /\ Len(jobs[g]) \in Nat
        BY <4>1, <3>1, AppendAt
      <4>3. n # Len(jobs[g]) + 1
        BY <4>1, <3>1, AppendAt
      <4>4. n \in DOMAIN jobs[g]
        BY <4>2, <4>3
      <4> QED  BY <4>1, <4>4, <3>1, AppendAt
    <3>3. \A g \in Gens : jobs'[g] \in {jobs[g], Append(jobs[g], <<v, f>>)}
      BY <1>0, <2>3
    <3> QED  BY <1>1, <2>1, <3>2, <3>3
  <2> QED  BY <1>6, <2>2, <2>3 DEF Enqueue
<1>7. ASSUME NEW g \in Gens, NEW w \in Workers, Work(g, w) PROVE InHand' /\ SignalsFollowFlag'
  <2>0. UNCHANGED shutdown
    BY <1>7 DEF Work, LoopTop, Receive, CheckJob, CompileEnds, Reply, RaiseFlag
  <2>1. CASE Receive(g, w)
    <3>1. jobs[g] \in Seq(Messages) /\ jobs[g] # <<>>
      BY <1>0, <2>1 DEF Receive
    <3>2. Head(jobs[g]) \in Messages /\ (Head(jobs[g]) = Signal => shutdown[g])
      BY <1>0, <3>1, TailAt DEF SignalsFollowFlag
    <3>3. \A n \in DOMAIN Tail(jobs[g]) : Tail(jobs[g])[n] = Signal => shutdown[g]
      BY <1>0, <3>1, TailAt DEF SignalsFollowFlag
    <3>4. /\ wjob' = [wjob EXCEPT ![g][w] = Head(jobs[g])]
          /\ jobs' = [jobs EXCEPT ![g] = Tail(@)]
          /\ wpc' = [wpc EXCEPT ![g][w] = "check"]
      BY <2>1 DEF Receive, WGoto
    <3>5. InHand'
      BY <1>0, <3>2, <3>4 DEF InHand
    <3>6. SignalsFollowFlag'
      BY <1>0, <2>0, <3>2, <3>3, <3>4 DEF SignalsFollowFlag
    <3> QED  BY <3>5, <3>6
  <2>2. CASE ~Receive(g, w)
    <3>1. /\ \A h \in Gens, x \in Workers : h # g \/ x # w =>
               wpc'[h][x] = wpc[h][x] /\ wjob'[h][x] = wjob[h][x]
          /\ \A h \in Gens : jobs'[h] \in {jobs[h], <<>>}
          /\ wjob'[g][w] \in {wjob[g][w], None}
      <4>1. /\ wjob' \in {wjob, [wjob EXCEPT ![g][w] = None]}
            /\ jobs' \in {jobs, [jobs EXCEPT ![g] = <<>>]}
            /\ \E p \in WorkerPlaces : wpc' = [wpc EXCEPT ![g][w] = p]
        BY <1>7, <2>2 DEF Work, LoopTop, CheckJob, CompileEnds, Reply, RaiseFlag, Leaves, Drops,
             WGoto, WorkerPlaces
      <4>2. \A h \in Gens, x \in Workers : h # g \/ x # w => wpc'[h][x] = wpc[h][x]
        BY <1>0, <4>1
      <4>3. /\ \A h \in Gens, x \in Workers : h # g \/ x # w => wjob'[h][x] = wjob[h][x]
            /\ wjob'[g][w] \in {wjob[g][w], None}
        BY <1>0, <4>1
      <4>4. \A h \in Gens : jobs'[h] \in {jobs[h], <<>>}
        BY <1>0, <4>1
      <4> QED  BY <4>2, <4>3, <4>4
    <3>2. SignalsFollowFlag'
      <4>1. \A h \in Gens : \A n \in DOMAIN jobs'[h] : jobs'[h][n] = Signal => shutdown'[h]
        BY <1>0, <2>0, <3>1, NoPlaces DEF SignalsFollowFlag
      <4>2. \A h \in Gens, x \in Workers : wjob'[h][x] \in {wjob[h][x], None}
        BY <3>1
      <4>3. \A h \in Gens, x \in Workers : wjob'[h][x] = Signal => shutdown'[h]
        BY <1>0, <2>0, <4>2, SignalNoPointer DEF SignalsFollowFlag
      <4> QED  BY <4>1, <4>3 DEF SignalsFollowFlag
    <3>3. wjob[g][w] \in Messages /\ wjob[g][w] # Signal => wjob[g][w] \in Pointers
      BY SignalNoPointer
    <3>4. \/ wpc'[g][w] \in {"top", "recv", "exited"} /\ wjob'[g][w] = None
          \/ wpc'[g][w] \in {"compile", "reply", "flag"} /\ wjob'[g][w] \in Pointers
      <4>1. CASE LoopTop(g, w)
        BY <1>0, <4>1 DEF LoopTop, Leaves, WGoto, Drops, InHand
      <4>2. CASE CheckJob(g, w)
        <5>1. wjob[g][w] \in Messages /\ (wjob[g][w] = Signal => shutdown[g])
          BY <1>0, <4>2 DEF CheckJob, InHand, SignalsFollowFlag
        <5> QED  BY <1>0, <3>3, <4>2, <5>1 DEF CheckJob, Leaves, WGoto, Drops
      <4>3. CASE CompileEnds(g, w)
        BY <1>0, <4>3 DEF CompileEnds, Leaves, WGoto, Drops, InHand
      <4>4. CASE Reply(g, w)
        BY <1>0, <4>4 DEF Reply, WGoto, InHand
      <4>5. CASE RaiseFlag(g, w)
        BY <1>0, <4>5 DEF RaiseFlag, WGoto, Drops
      <4> QED  BY <1>7, <2>2, <4>1, <4>2, <4>3, <4>4, <4>5 DEF Work
    <3>5. ASSUME NEW h \in Gens, NEW x \in Workers
          PROVE  /\ wpc'[h][x] \in {"unborn", "top", "recv", "exited"} => wjob'[h][x] = None
                 /\ wpc'[h][x] = "check" => wjob'[h][x] \in Messages
                 /\ wpc'[h][x] \in {"compile", "reply", "flag"} => wjob'[h][x] \in Pointers
      <4>1. CASE h = g /\ x = w
        BY <3>4, <4>1
      <4>2. CASE h # g \/ x # w
        BY <1>0, <3>1, <4>2 DEF InHand
      <4> QED  BY <4>1, <4>2
    <3>6. InHand'
      BY <3>5 DEF InHand
    <3> QED  BY <3>2, <3>6
  <2> QED  BY <2>1, <2>2
<1> QED  BY <1>2, <1>3, <1>4, <1>5, <1>6, <1>7 DEF Next, Stop, Advance

\* The structure is kept by every step.
LEMMA StructureNext == Structure /\ [Next]_vars => Structure'
  BY ShapesNext, OneVMNext, TasksCountedNext, GenerationsNext, LockHeldNext, InHandNext DEF Structure
-----------------------------------------------------------------------------
(* The round trip of a pointer *)

\* A step that takes pointers out of some places and puts none anywhere keeps
\* the others safe.
LEMMA FewerAway ==
    ASSUME PinnedAway, OnceAway,
           \A g \in Gens : \A n \in DOMAIN jobs'[g] : jobs'[g][n] \in Pointers =>
             n \in DOMAIN jobs[g] /\ jobs'[g][n] = jobs[g][n],
           \A g \in Gens, w \in Workers : Has(g, w)' => Has(g, w) /\ wjob'[g][w] = wjob[g][w],
           UNCHANGED replies,
           \A v \in VMs, f \in Funcs : Safe(<<v, f>>) => Safe(<<v, f>>)',
           replies \in [VMs -> Seq(Results)]
    PROVE  PinnedAway' /\ OnceAway'
<1>1. \A p \in Pointers : Safe(p) => Safe(p)'
  BY DEF Pointers
<1>2. \A v \in VMs : \A n \in DOMAIN replies[v] : <<v, replies[v][n][1]>> \in Pointers
  <2>1. \A v \in VMs : \A n \in DOMAIN replies[v] : replies[v][n] \in Results
    BY ElementOfSeq, LenProperties
  <2> QED  BY <2>1 DEF Results, Pointers
<1>3. \A g \in Gens, w \in Workers : Has(g, w) => wjob[g][w] \in Pointers
  BY DEF Has
<1>4. PinnedAway'
  BY <1>1, <1>2, <1>3 DEF PinnedAway
<1>5. \A g \in Gens, w \in Workers : Has(g, w)' => wjob'[g][w] \in Pointers
  BY DEF Has
<1>6. OnceAway'
  <2>1. \A g, h \in Gens : \A m \in DOMAIN jobs'[g], n \in DOMAIN jobs'[h] :
          jobs'[g][m] \in Pointers /\ jobs'[g][m] = jobs'[h][n] => g = h /\ m = n
    BY DEF OnceAway
  <2>2. \A g, h \in Gens, w, x \in Workers :
          Has(g, w)' /\ Has(h, x)' /\ wjob'[g][w] = wjob'[h][x] => g = h /\ w = x
    BY DEF OnceAway
  <2>3. \A v \in VMs : \A m, n \in DOMAIN replies'[v] :
          replies'[v][m][1] = replies'[v][n][1] => m = n
    BY DEF OnceAway
  <2>4. \A g, h \in Gens, w \in Workers : \A n \in DOMAIN jobs'[h] :
          Has(g, w)' => jobs'[h][n] # wjob'[g][w]
    BY <1>5 DEF OnceAway
  <2>5. \A g \in Gens, v \in VMs : \A m \in DOMAIN jobs'[g], n \in DOMAIN replies'[v] :
          jobs'[g][m] # <<v, replies'[v][n][1]>>
    <3> SUFFICES ASSUME NEW g \in Gens, NEW v \in VMs, NEW m \in DOMAIN jobs'[g],
                        NEW n \in DOMAIN replies[v], jobs'[g][m] = <<v, replies[v][n][1]>>
                 PROVE  FALSE
      OBVIOUS
    <3>1. jobs'[g][m] \in Pointers
      BY <1>2
    <3>2. m \in DOMAIN jobs[g] /\ jobs[g][m] = <<v, replies[v][n][1]>>
      BY <3>1
    <3> QED  BY <3>2 DEF OnceAway
  <2>6. \A g \in Gens, w \in Workers, v \in VMs : \A n \in DOMAIN replies'[v] :
          Has(g, w)' => wjob'[g][w] # <<v, replies'[v][n][1]>>
    BY DEF OnceAway
  <2> QED  BY <2>1, <2>2, <2>3, <2>4, <2>5, <2>6 DEF OnceAway
<1> QED  BY <1>4, <1>6

\* A worker that receives nothing holds on to what it has, or lets go of it,
\* or exits and takes the channel along.
LEMMA WorkerFrame ==
    ASSUME Structure, NEW g \in Gens, NEW w \in Workers, Work(g, w), ~Receive(g, w)
    PROVE  /\ \A h \in Gens, x \in Workers : h # g \/ x # w =>
                wpc'[h][x] = wpc[h][x] /\ wjob'[h][x] = wjob[h][x]
           /\ \A h \in Gens : jobs'[h] \in {jobs[h], <<>>}
           /\ wjob'[g][w] \in {wjob[g][w], None}
           /\ wjob'[g][w] = wjob[g][w] => wjob[g][w] = None \/ wpc'[g][w] = wpc[g][w]
                \/ <<wpc[g][w], wpc'[g][w]>> \in
                     {<<"check", "compile">>, <<"compile", "reply">>, <<"reply", "flag">>}
           /\ UNCHANGED <<pinned, compiling, jobTx, code>>
<1>0. /\ jobs \in [Gens -> Seq(Messages)]
      /\ wpc \in [Gens -> [Workers -> WorkerPlaces]]
      /\ wjob \in [Gens -> [Workers -> Messages \cup {None}]]
  BY DEF Structure, Shapes
<1>1. /\ wjob' \in {wjob, [wjob EXCEPT ![g][w] = None]}
      /\ jobs' \in {jobs, [jobs EXCEPT ![g] = <<>>]}
      /\ \E p \in WorkerPlaces : wpc' = [wpc EXCEPT ![g][w] = p]
  BY DEF Work, LoopTop, CheckJob, CompileEnds, Reply, RaiseFlag, Leaves, Drops,
     WGoto, WorkerPlaces
<1>2. \A h \in Gens, x \in Workers : h # g \/ x # w => wpc'[h][x] = wpc[h][x]
  BY <1>0, <1>1
<1>3. /\ \A h \in Gens, x \in Workers : h # g \/ x # w => wjob'[h][x] = wjob[h][x]
      /\ wjob'[g][w] \in {wjob[g][w], None}
  BY <1>0, <1>1
<1>4. \A h \in Gens : jobs'[h] \in {jobs[h], <<>>}
  BY <1>0, <1>1
<1>5. wjob'[g][w] = wjob[g][w] => wjob[g][w] = None \/ wpc'[g][w] = wpc[g][w]
        \/ <<wpc[g][w], wpc'[g][w]>> \in
             {<<"check", "compile">>, <<"compile", "reply">>, <<"reply", "flag">>}
  <2>1. CASE LoopTop(g, w)
    BY <1>0, <2>1 DEF LoopTop, Structure, InHand
  <2>2. CASE CheckJob(g, w) \/ CompileEnds(g, w)
    BY <1>0, <2>2 DEF CheckJob, CompileEnds, Leaves, Drops, WGoto
  <2>3. CASE Reply(g, w)
    BY <1>0, <2>3 DEF Reply, WGoto
  <2>4. CASE RaiseFlag(g, w)
    BY <1>0, <2>4 DEF RaiseFlag, Drops
  <2> QED  BY <2>1, <2>2, <2>3, <2>4 DEF Work
<1>6. UNCHANGED <<pinned, compiling, jobTx, code>>
  BY DEF Work, LoopTop, CheckJob, CompileEnds, Reply, RaiseFlag, jitVars
<1> QED  BY <1>2, <1>3, <1>4, <1>5, <1>6

\* Dropping a job, leaving, and being done with one put no pointer anywhere.
LEMMA WorkerKeepsAway ==
    ASSUME Structure, PinnedAway, OnceAway, NEW g \in Gens, NEW w \in Workers,
           Work(g, w), ~Receive(g, w), ~Reply(g, w)
    PROVE  PinnedAway' /\ OnceAway'
<1>1. UNCHANGED replies /\ replies \in [VMs -> Seq(Results)]
  BY DEF Work, LoopTop, CheckJob, CompileEnds, RaiseFlag, replyVars, Structure, Shapes
<1>2. \A h \in Gens, x \in Workers : Has(h, x)' => Has(h, x) /\ wjob'[h][x] = wjob[h][x]
  BY WorkerFrame, SignalNoPointer DEF Has
<1>3. \A h \in Gens : \A n \in DOMAIN jobs'[h] : n \in DOMAIN jobs[h] /\ jobs'[h][n] = jobs[h][n]
  BY WorkerFrame, NoPlaces
<1>4. \A v \in VMs, f \in Funcs : Safe(<<v, f>>) => Safe(<<v, f>>)'
  BY WorkerFrame DEF Safe
<1> QED  BY <1>1, <1>2, <1>3, <1>4, FewerAway
\* recv() moves a pointer from the head of a channel into a worker's hand.
LEMMA ReceiveKeepsAway ==
    ASSUME Structure, PinnedAway, OnceAway, NEW g \in Gens, NEW w \in Workers, Receive(g, w)
    PROVE  PinnedAway' /\ OnceAway'
<1> DEFINE was(h, n) == IF h = g THEN n + 1 ELSE n
<1>0. /\ jobs \in [Gens -> Seq(Messages)]
      /\ wpc \in [Gens -> [Workers -> WorkerPlaces]]
      /\ wjob \in [Gens -> [Workers -> Messages \cup {None}]]
      /\ jobs[g] # <<>> /\ wpc[g][w] = "recv" /\ wjob[g][w] = None
      /\ UNCHANGED <<replies, pinned, compiling>>
      /\ wjob' = [wjob EXCEPT ![g][w] = Head(jobs[g])]
      /\ jobs' = [jobs EXCEPT ![g] = Tail(@)]
      /\ wpc' = [wpc EXCEPT ![g][w] = "check"]
  BY DEF Structure, Shapes, InHand, Receive, WGoto, jitVars, replyVars
<1>1. \A h \in Gens : \A n \in DOMAIN jobs'[h] :
        /\ was(h, n) \in DOMAIN jobs[h] /\ jobs'[h][n] = jobs[h][was(h, n)]
        /\ h = g => was(h, n) # 1
        /\ \A m \in DOMAIN jobs'[h] : was(h, n) = was(h, m) => n = m
  <2>1. \A n \in DOMAIN jobs'[g] : n \in Nat \ {0} /\ n + 1 \in DOMAIN jobs[g]
                                   /\ jobs'[g][n] = jobs[g][n + 1]
    BY <1>0, TailAt
  <2>2. \A h \in Gens : h # g => jobs'[h] = jobs[h]
    BY <1>0
  <2> QED  BY <2>1, <2>2
<1>2. 1 \in DOMAIN jobs[g] /\ Head(jobs[g]) = jobs[g][1]
  BY <1>0, TailAt
<1>3. /\ wjob'[g][w] = jobs[g][1]
      /\ \A h \in Gens, x \in Workers : Has(h, x)' =>
           \/ h = g /\ x = w
           \/ (h # g \/ x # w) /\ Has(h, x) /\ wjob'[h][x] = wjob[h][x]
  <2>1. wjob'[g][w] = jobs[g][1]
    BY <1>0, <1>2
  <2>2. \A h \in Gens, x \in Workers : h # g \/ x # w =>
          wjob'[h][x] = wjob[h][x] /\ wpc'[h][x] = wpc[h][x]
    BY <1>0
  <2> QED  BY <2>1, <2>2 DEF Has
<1>4. \A h \in Gens, x \in Workers : Has(h, x)' => wjob'[h][x] \in Pointers
  BY DEF Has
<1> HIDE DEF was
<1>5. PinnedAway'
  <2>1. \A p : Safe(p)' <=> Safe(p)
    BY <1>0 DEF Safe
  <2>2. \A h \in Gens : \A n \in DOMAIN jobs'[h] : jobs'[h][n] \in Pointers => Safe(jobs[h][n])'
    BY <1>1, <2>1 DEF PinnedAway
  <2>3. \A h \in Gens, x \in Workers : Has(h, x)' => Safe(wjob[h][x])'
    BY <1>2, <1>3, <1>4, <2>1 DEF PinnedAway
  <2>4. \A v \in VMs : \A n \in DOMAIN replies'[v] : Safe(<<v, replies[v][n][1]>>)'
    BY <1>0, <2>1 DEF PinnedAway
  <2> QED  BY <2>2, <2>3, <2>4 DEF PinnedAway
<1>6. OnceAway'
  <2>0. replies' = replies
    BY <1>0
  <2>1. \A a, b \in Gens : \A m \in DOMAIN jobs'[a], n \in DOMAIN jobs'[b] :
          jobs'[a][m] \in Pointers /\ jobs'[a][m] = jobs'[b][n] => a = b /\ m = n
    BY <1>1 DEF OnceAway
  <2>2. \A a, b \in Gens, x, y \in Workers :
          Has(a, x)' /\ Has(b, y)' /\ wjob'[a][x] = wjob'[b][y] => a = b /\ x = y
    BY <1>2, <1>3, <1>4 DEF OnceAway
  <2>3. \A v \in VMs : \A m, n \in DOMAIN replies'[v] :
          replies'[v][m][1] = replies'[v][n][1] => m = n
    BY <1>0 DEF OnceAway
  <2>4. \A a, b \in Gens, x \in Workers : \A n \in DOMAIN jobs'[b] :
          Has(a, x)' => jobs'[b][n] # wjob'[a][x]
    BY <1>1, <1>2, <1>3, <1>4 DEF OnceAway
  <2>5. \A a \in Gens, v \in VMs : \A m \in DOMAIN jobs'[a], n \in DOMAIN replies'[v] :
          jobs'[a][m] # <<v, replies'[v][n][1]>>
    <3> SUFFICES ASSUME NEW a \in Gens, NEW v \in VMs, NEW m \in DOMAIN jobs'[a],
                        NEW n \in DOMAIN replies[v]
                 PROVE  jobs'[a][m] # <<v, replies[v][n][1]>>
      BY <2>0
    <3>1. was(a, m) \in DOMAIN jobs[a] /\ jobs'[a][m] = jobs[a][was(a, m)]
      BY <1>1
    <3>2. jobs[a][was(a, m)] # <<v, replies[v][n][1]>>
      BY <3>1 DEF OnceAway
    <3> QED  BY <3>1, <3>2
  <2>6. \A a \in Gens, x \in Workers, v \in VMs : \A n \in DOMAIN replies'[v] :
          Has(a, x)' => wjob'[a][x] # <<v, replies'[v][n][1]>>
    <3> SUFFICES ASSUME NEW a \in Gens, NEW x \in Workers, NEW v \in VMs,
                        NEW n \in DOMAIN replies[v], Has(a, x)'
                 PROVE  wjob'[a][x] # <<v, replies[v][n][1]>>
      BY <2>0
    <3>1. CASE a = g /\ x = w
      <4>1. jobs[g][1] # <<v, replies[v][n][1]>>
        BY <1>2 DEF OnceAway
      <4> QED  BY <1>3, <3>1, <4>1
    <3>2. CASE Has(a, x) /\ wjob'[a][x] = wjob[a][x]
      <4>1. wjob[a][x] # <<v, replies[v][n][1]>>
        BY <3>2 DEF OnceAway
      <4> QED  BY <3>2, <4>1
    <3> QED  BY <1>3, <3>1, <3>2
  <2> QED  BY <2>1, <2>2, <2>3, <2>4, <2>5, <2>6 DEF OnceAway
<1> QED  BY <1>5, <1>6

\* A worker's answer moves the pointer from its hand into the VM's results.
LEMMA ReplyKeepsAway ==
    ASSUME Structure, PinnedAway, OnceAway, NEW g \in Gens, NEW w \in Workers, Reply(g, w)
    PROVE  PinnedAway' /\ OnceAway'
<1> DEFINE u == wjob[g][w][1]
           f == wjob[g][w][2]
           last == Len(replies[u]) + 1
<1>0. /\ wpc \in [Gens -> [Workers -> WorkerPlaces]] /\ wjob \in [Gens -> [Workers -> Messages \cup {None}]]
      /\ replies \in [VMs -> Seq(Results)]
      /\ wpc[g][w] = "reply" /\ wjob[g][w] \in Pointers
      /\ UNCHANGED <<jobs, wjob, pinned, compiling>>
      /\ wpc' = [wpc EXCEPT ![g][w] = "flag"]
  BY DEF Structure, Shapes, InHand, Reply, WGoto, jitVars
<1>1. PICK result \in {"entry", "ineligible"} :
        replies' = [replies EXCEPT ![u] = Append(@, <<f, result>>)]
  BY DEF Reply
<1>2. u \in VMs /\ f \in Funcs /\ wjob[g][w] = <<u, f>> /\ <<f, result>> \in Results
  BY <1>0 DEF Pointers, Results
<1>3. Has(g, w)
  BY <1>0 DEF Has
<1>4. \A h \in Gens, x \in Workers : Has(h, x)' =>
        Has(h, x) /\ wjob'[h][x] = wjob[h][x] /\ (h # g \/ x # w)
  <2>1. wpc'[g][w] = "flag" /\ \A h \in Gens, x \in Workers : h # g \/ x # w => wpc'[h][x] = wpc[h][x]
    BY <1>0
  <2> QED  BY <1>0, <2>1 DEF Has
<1>5. \A v \in VMs : \A n \in DOMAIN replies'[v] :
        \/ n \in DOMAIN replies[v] /\ replies'[v][n] = replies[v][n]
        \/ v = u /\ n = last /\ replies'[v][n][1] = f
  <2>1. \A v \in VMs : v # u => replies'[v] = replies[v]
    BY <1>0, <1>1
  <2>2. replies'[u] = Append(replies[u], <<f, result>>) /\ replies[u] \in Seq(Results)
    BY <1>0, <1>1, <1>2
  <2>3. \A n \in DOMAIN replies'[u] :
          \/ n \in DOMAIN replies[u] /\ replies'[u][n] = replies[u][n]
          \/ n = last /\ replies'[u][n] = <<f, result>>
    <3> HIDE DEF u, f
    <3>0. /\ Len(replies[u]) \in Nat /\ DOMAIN replies[u] = 1 .. Len(replies[u])
          /\ DOMAIN Append(replies[u], <<f, result>>) = 1 .. (Len(replies[u]) + 1)
          /\ \A n \in DOMAIN replies[u] : Append(replies[u], <<f, result>>)[n] = replies[u][n]
          /\ Append(replies[u], <<f, result>>)[Len(replies[u]) + 1] = <<f, result>>
      BY <1>2, <2>2, AppendAt
    <3>1. Len(replies[u]) \in Nat /\ DOMAIN replies[u] = 1 .. Len(replies[u])
          /\ DOMAIN replies'[u] = 1 .. last
      BY <2>2, <3>0
    <3>2. replies'[u][last] = <<f, result>>
      BY <2>2, <3>0
    <3>3. \A n \in DOMAIN replies[u] : replies'[u][n] = replies[u][n]
      BY <2>2, <3>0
    <3>4. \A n \in DOMAIN replies'[u] : n \in DOMAIN replies[u] \/ n = last
      BY <3>1
    <3> QED  BY <3>2, <3>3, <3>4
  <2> QED  BY <2>1, <2>3
<1>6. \A h \in Gens : \A n \in DOMAIN jobs[h] : jobs[h][n] # <<u, f>>
  BY <1>2, <1>3 DEF OnceAway
<1>7. \A n \in DOMAIN replies[u] : replies[u][n][1] # f
  BY <1>2, <1>3 DEF OnceAway
<1>8. \A h \in Gens, x \in Workers : Has(h, x)' => wjob'[h][x] # <<u, f>>
  BY <1>2, <1>3, <1>4 DEF OnceAway
<1> HIDE DEF u, f, last
<1>9. PinnedAway'
  <2>1. \A p : Safe(p)' <=> Safe(p)
    BY <1>0 DEF Safe
  <2>2. Safe(<<u, f>>)
    BY <1>2, <1>3 DEF PinnedAway
  <2>3. \A v \in VMs : \A n \in DOMAIN replies'[v] : Safe(<<v, replies[v][n][1]>>)'
    BY <1>5, <2>1, <2>2 DEF PinnedAway
  <2> QED  BY <1>0, <1>4, <2>1, <2>3 DEF PinnedAway
<1>10. OnceAway'
  <2>1. \A a, b \in Gens : \A m \in DOMAIN jobs'[a], n \in DOMAIN jobs'[b] :
          jobs'[a][m] \in Pointers /\ jobs'[a][m] = jobs'[b][n] => a = b /\ m = n
    BY <1>0 DEF OnceAway
  <2>2. \A a, b \in Gens, x, y \in Workers :
          Has(a, x)' /\ Has(b, y)' /\ wjob'[a][x] = wjob'[b][y] => a = b /\ x = y
    BY <1>4 DEF OnceAway
  <2>3. \A v \in VMs : \A m, n \in DOMAIN replies'[v] :
          replies'[v][m][1] = replies'[v][n][1] => m = n
    BY <1>5, <1>7 DEF OnceAway
  <2>4. \A a, b \in Gens, x \in Workers : \A n \in DOMAIN jobs'[b] :
          Has(a, x)' => jobs'[b][n] # wjob'[a][x]
    BY <1>0, <1>4 DEF OnceAway
  <2>5. \A a \in Gens, v \in VMs : \A m \in DOMAIN jobs'[a], n \in DOMAIN replies'[v] :
          jobs'[a][m] # <<v, replies'[v][n][1]>>
    <3> SUFFICES ASSUME NEW a \in Gens, NEW v \in VMs, NEW m \in DOMAIN jobs[a],
                        NEW n \in DOMAIN replies'[v]
                 PROVE  jobs[a][m] # <<v, replies'[v][n][1]>>
      BY <1>0
    <3>1. CASE n \in DOMAIN replies[v] /\ replies'[v][n] = replies[v][n]
      <4>1. jobs[a][m] # <<v, replies[v][n][1]>>
        BY <3>1 DEF OnceAway
      <4> QED  BY <3>1, <4>1
    <3>2. CASE v = u /\ replies'[v][n][1] = f
      BY <1>6, <3>2
    <3> QED  BY <1>5, <3>1, <3>2
  <2>6. \A a \in Gens, x \in Workers, v \in VMs : \A n \in DOMAIN replies'[v] :
          Has(a, x)' => wjob'[a][x] # <<v, replies'[v][n][1]>>
    BY <1>4, <1>5, <1>8 DEF OnceAway
  <2> QED  BY <2>1, <2>2, <2>3, <2>4, <2>5, <2>6 DEF OnceAway
<1> QED  BY <1>9, <1>10
\* drain_jit_results takes the oldest result, and with it the only pointer to
\* its function that is away.
LEMMA InstallKeepsAway ==
    ASSUME Structure, PinnedAway, OnceAway, NEW v \in VMs, DrainInstalls(v)
    PROVE  PinnedAway' /\ OnceAway'
<1> DEFINE was(u, n) == IF u = v THEN n + 1 ELSE n
           f == replies[v][1][1]
<1>0. /\ replies \in [VMs -> Seq(Results)] /\ replies[v] # <<>>
      /\ UNCHANGED <<jobs, wjob, wpc>>
      /\ replies' = [replies EXCEPT ![v] = Tail(@)]
      /\ compiling \in [VMs -> SUBSET Funcs] /\ pinned \in [VMs -> SUBSET Funcs]
  BY DEF Structure, Shapes, DrainInstalls, workVars
<1>1. 1 \in DOMAIN replies[v] /\ Head(replies[v]) = replies[v][1]
  BY <1>0, TailAt
<1>2. /\ compiling' = [compiling EXCEPT ![v] = @ \ {f}]
      /\ pinned' = [pinned EXCEPT ![v] = @ \ {f}]
  BY <1>1 DEF DrainInstalls
<1>3. \A u \in VMs : \A n \in DOMAIN replies'[u] :
        /\ was(u, n) \in DOMAIN replies[u] /\ replies'[u][n] = replies[u][was(u, n)]
        /\ u = v => was(u, n) # 1
        /\ \A m \in DOMAIN replies'[u] : was(u, n) = was(u, m) => n = m
  <2>1. \A n \in DOMAIN replies'[v] : n \in Nat \ {0} /\ n + 1 \in DOMAIN replies[v]
                                      /\ replies'[v][n] = replies[v][n + 1]
    BY <1>0, TailAt
  <2>2. \A u \in VMs : u # v => replies'[u] = replies[u]
    BY <1>0
  <2> QED  BY <2>1, <2>2
<1>4. \A h \in Gens, x \in Workers : Has(h, x)' <=> Has(h, x)
  BY <1>0 DEF Has
<1> HIDE DEF was, f
<1>5. \A u \in VMs : \A n \in DOMAIN replies'[u] : <<u, replies'[u][n][1]>> # <<v, f>>
  BY <1>1, <1>3 DEF OnceAway, f
<1>6. \A u \in VMs, e \in Funcs : <<u, e>> # <<v, f>> /\ Safe(<<u, e>>) => Safe(<<u, e>>)'
  BY <1>0, <1>2 DEF Safe
<1>7. \A p \in Pointers : p # <<v, f>> /\ Safe(p) => Safe(p)'
  BY <1>6 DEF Pointers
<1>8. PinnedAway'
  <2>1. \A g \in Gens : \A n \in DOMAIN jobs[g] : jobs[g][n] # <<v, f>>
    BY <1>1 DEF OnceAway, f
  <2>2. \A g \in Gens, w \in Workers : Has(g, w) => wjob[g][w] # <<v, f>> /\ wjob[g][w] \in Pointers
    BY <1>1 DEF OnceAway, Has, f
  <2>3. \A u \in VMs : \A n \in DOMAIN replies[u] : replies[u][n][1] \in Funcs
    <3>1. \A u \in VMs : \A n \in DOMAIN replies[u] : replies[u][n] \in Results
      BY <1>0, ElementOfSeq, LenProperties
    <3> QED  BY <3>1 DEF Results
  <2>4. \A u \in VMs : \A n \in DOMAIN replies'[u] : Safe(<<u, replies[u][n][1]>>)'
    <3> SUFFICES ASSUME NEW u \in VMs, NEW n \in DOMAIN replies'[u]
                 PROVE  Safe(<<u, replies[u][n][1]>>)'
      OBVIOUS
    <3>1. replies'[u][n][1] \in Funcs /\ Safe(<<u, replies'[u][n][1]>>)
      BY <1>3, <2>3 DEF PinnedAway
    <3> QED  BY <1>5, <1>6, <3>1
  <2>5. \A g \in Gens : \A n \in DOMAIN jobs'[g] : jobs'[g][n] \in Pointers => Safe(jobs[g][n])'
    BY <1>0, <1>7, <2>1 DEF PinnedAway
  <2>6. \A g \in Gens, w \in Workers : Has(g, w)' => Safe(wjob[g][w])'
    BY <1>0, <1>4, <1>7, <2>2 DEF PinnedAway
  <2> QED  BY <2>4, <2>5, <2>6 DEF PinnedAway
<1>9. OnceAway'
  <2>0. jobs' = jobs /\ wjob' = wjob
    BY <1>0
  <2>1. \A a, b \in Gens : \A m \in DOMAIN jobs'[a], n \in DOMAIN jobs'[b] :
          jobs'[a][m] \in Pointers /\ jobs'[a][m] = jobs'[b][n] => a = b /\ m = n
    BY <1>0 DEF OnceAway
  <2>2. \A a, b \in Gens, x, y \in Workers :
          Has(a, x)' /\ Has(b, y)' /\ wjob'[a][x] = wjob'[b][y] => a = b /\ x = y
    BY <1>0, <1>4 DEF OnceAway
  <2>3. \A u \in VMs : \A m, n \in DOMAIN replies'[u] :
          replies'[u][m][1] = replies'[u][n][1] => m = n
    BY <1>3 DEF OnceAway
  <2>4. \A a, b \in Gens, x \in Workers : \A n \in DOMAIN jobs'[b] :
          Has(a, x)' => jobs'[b][n] # wjob'[a][x]
    BY <1>0, <1>4 DEF OnceAway
  <2>5. \A a \in Gens, u \in VMs : \A m \in DOMAIN jobs'[a], n \in DOMAIN replies'[u] :
          jobs'[a][m] # <<u, replies'[u][n][1]>>
    <3> SUFFICES ASSUME NEW a \in Gens, NEW u \in VMs, NEW m \in DOMAIN jobs[a],
                        NEW n \in DOMAIN replies'[u]
                 PROVE  jobs[a][m] # <<u, replies'[u][n][1]>>
      BY <2>0
    <3>1. was(u, n) \in DOMAIN replies[u] /\ replies'[u][n] = replies[u][was(u, n)]
      BY <1>3
    <3>2. jobs[a][m] # <<u, replies[u][was(u, n)][1]>>
      BY <3>1 DEF OnceAway
    <3> QED  BY <3>1, <3>2
  <2>6. \A a \in Gens, x \in Workers, u \in VMs : \A n \in DOMAIN replies'[u] :
          Has(a, x)' => wjob'[a][x] # <<u, replies'[u][n][1]>>
    <3> SUFFICES ASSUME NEW a \in Gens, NEW x \in Workers, NEW u \in VMs,
                        NEW n \in DOMAIN replies'[u], Has(a, x)
                 PROVE  wjob[a][x] # <<u, replies'[u][n][1]>>
      BY <1>4, <2>0
    <3>1. was(u, n) \in DOMAIN replies[u] /\ replies'[u][n] = replies[u][was(u, n)]
      BY <1>3
    <3>2. wjob[a][x] # <<u, replies[u][was(u, n)][1]>>
      BY <3>1 DEF OnceAway
    <3> QED  BY <3>1, <3>2
  <2> QED  BY <2>1, <2>2, <2>3, <2>4, <2>5, <2>6 DEF OnceAway
<1> QED  BY <1>8, <1>9

\* enqueue_compile sends a pointer only of a function that is not marked, so
\* that no other pointer to it is away.
LEMMA EnqueueKeepsAway ==
    ASSUME Structure, PinnedAway, OnceAway, NEW v \in VMs, NEW f \in Funcs, Enqueue(v, f)
    PROVE  PinnedAway' /\ OnceAway'
<1> DEFINE k == jobTx[v]
           new(g, n) == g = k /\ n = Len(jobs[k]) + 1
<1>0. /\ jobs \in [Gens -> Seq(Messages)] /\ replies \in [VMs -> Seq(Results)]
      /\ compiling \in [VMs -> SUBSET Funcs] /\ pinned \in [VMs -> SUBSET Funcs]
      /\ UNCHANGED <<wjob, wpc, replies>> /\ f \notin compiling[v]
      /\ <<v, f>> \in Pointers /\ <<v, f>> \in Messages
  BY DEF Structure, Shapes, Enqueue, workVars, replyVars, Pointers, Messages
<1>1. \A h \in Gens, x \in Workers : Has(h, x)' <=> Has(h, x)
  BY <1>0 DEF Has
<1>2. CASE UNCHANGED <<compiling, pinned, jobs>>
  <2>1. \A u \in VMs, e \in Funcs : Safe(<<u, e>>) => Safe(<<u, e>>)'
    BY <1>2 DEF Safe
  <2> QED  BY <1>0, <1>1, <1>2, <2>1, FewerAway
<1>3. CASE /\ compiling' = [compiling EXCEPT ![v] = @ \cup {f}]
           /\ pinned' = [pinned EXCEPT ![v] = @ \cup {f}]
           /\ jobs' = [jobs EXCEPT ![k] = Append(@, <<v, f>>)]
  <2>1. ~Safe(<<v, f>>)
    BY <1>0 DEF Safe
  <2>2. \A g \in Gens : \A n \in DOMAIN jobs[g] : jobs[g][n] # <<v, f>>
    BY <1>0, <2>1 DEF PinnedAway
  <2>3. \A g \in Gens, w \in Workers : Has(g, w) => wjob[g][w] # <<v, f>>
    BY <1>0, <2>1 DEF PinnedAway
  <2>4. \A u \in VMs : \A n \in DOMAIN replies[u] : <<u, replies[u][n][1]>> # <<v, f>>
    BY <1>0, <2>1 DEF PinnedAway
  <2>5. \A g \in Gens : \A n \in DOMAIN jobs'[g] :
          \/ n \in DOMAIN jobs[g] /\ jobs'[g][n] = jobs[g][n]
          \/ new(g, n) /\ jobs'[g][n] = <<v, f>>
    <3>1. \A g \in Gens : g # k => jobs'[g] = jobs[g]
      BY <1>0, <1>3
    <3>2. ASSUME k \in Gens
          PROVE  \A n \in DOMAIN jobs'[k] :
                   \/ n \in DOMAIN jobs[k] /\ jobs'[k][n] = jobs[k][n]
                   \/ n = Len(jobs[k]) + 1 /\ jobs'[k][n] = <<v, f>>
      <4>1. jobs'[k] = Append(jobs[k], <<v, f>>) /\ jobs[k] \in Seq(Messages)
        BY <1>0, <1>3, <3>2
      <4>2. /\ Len(jobs[k]) \in Nat /\ DOMAIN jobs[k] = 1 .. Len(jobs[k])
            /\ DOMAIN Append(jobs[k], <<v, f>>) = 1 .. (Len(jobs[k]) + 1)
            /\ \A n \in DOMAIN jobs[k] : Append(jobs[k], <<v, f>>)[n] = jobs[k][n]
            /\ Append(jobs[k], <<v, f>>)[Len(jobs[k]) + 1] = <<v, f>>
        BY <1>0, <4>1, AppendAt
      <4>3. \A n \in DOMAIN jobs'[k] : n \in DOMAIN jobs[k] \/ n = Len(jobs[k]) + 1
        BY <4>1, <4>2
      <4> QED  BY <4>1, <4>2, <4>3
    <3> QED  BY <3>1, <3>2
  <2>6. \A u \in VMs, e \in Funcs : Safe(<<u, e>>) => Safe(<<u, e>>)'
    BY <1>0, <1>3 DEF Safe
  <2>7. Safe(<<v, f>>)'
    BY <1>0, <1>3 DEF Safe
  <2>8. \A p \in Pointers : Safe(p) => Safe(p)'
    BY <2>6 DEF Pointers
  <2> HIDE DEF k, new
  <2>9. PinnedAway'
    <3>1. \A g \in Gens : \A n \in DOMAIN jobs'[g] : jobs'[g][n] \in Pointers => Safe(jobs[g][n])'
      BY <2>5, <2>7, <2>8 DEF PinnedAway
    <3>2. \A g \in Gens, w \in Workers : Has(g, w)' => Safe(wjob[g][w])'
      BY <1>0, <1>1, <2>8 DEF PinnedAway, Has
    <3>3. \A u \in VMs : \A n \in DOMAIN replies[u] : <<u, replies[u][n][1]>> \in Pointers
      <4>1. \A u \in VMs : \A n \in DOMAIN replies[u] : replies[u][n] \in Results
        BY <1>0, ElementOfSeq, LenProperties
      <4> QED  BY <4>1 DEF Results, Pointers
    <3>4. \A u \in VMs : \A n \in DOMAIN replies'[u] : Safe(<<u, replies[u][n][1]>>)'
      BY <1>0, <2>8, <3>3 DEF PinnedAway
    <3> QED  BY <3>1, <3>2, <3>4 DEF PinnedAway
  <2>10. OnceAway'
    <3>0. replies' = replies /\ wjob' = wjob
      BY <1>0
    <3>1. \A a, b \in Gens : \A m \in DOMAIN jobs'[a], n \in DOMAIN jobs'[b] :
            jobs'[a][m] \in Pointers /\ jobs'[a][m] = jobs'[b][n] => a = b /\ m = n
      BY <2>2, <2>5 DEF OnceAway, new
    <3>2. \A a, b \in Gens, x, y \in Workers :
            Has(a, x)' /\ Has(b, y)' /\ wjob'[a][x] = wjob'[b][y] => a = b /\ x = y
      BY <1>0, <1>1 DEF OnceAway
    <3>3. \A u \in VMs : \A m, n \in DOMAIN replies'[u] :
            replies'[u][m][1] = replies'[u][n][1] => m = n
      BY <1>0 DEF OnceAway
    <3>4. \A a, b \in Gens, x \in Workers : \A n \in DOMAIN jobs'[b] :
            Has(a, x)' => jobs'[b][n] # wjob'[a][x]
      <4> SUFFICES ASSUME NEW a \in Gens, NEW b \in Gens, NEW x \in Workers,
                          NEW n \in DOMAIN jobs'[b], Has(a, x)
                   PROVE  jobs'[b][n] # wjob[a][x]
        BY <1>1, <3>0
      <4>1. CASE n \in DOMAIN jobs[b] /\ jobs'[b][n] = jobs[b][n]
        BY <4>1 DEF OnceAway
      <4>2. CASE jobs'[b][n] = <<v, f>>
        BY <2>3, <4>2
      <4> QED  BY <2>5, <4>1, <4>2
    <3>5. \A a \in Gens, u \in VMs : \A m \in DOMAIN jobs'[a], n \in DOMAIN replies'[u] :
            jobs'[a][m] # <<u, replies'[u][n][1]>>
      <4> SUFFICES ASSUME NEW a \in Gens, NEW u \in VMs, NEW m \in DOMAIN jobs'[a],
                          NEW n \in DOMAIN replies[u]
                   PROVE  jobs'[a][m] # <<u, replies[u][n][1]>>
        BY <3>0
      <4>1. CASE m \in DOMAIN jobs[a] /\ jobs'[a][m] = jobs[a][m]
        <5>1. jobs[a][m] # <<u, replies[u][n][1]>>
          BY <4>1 DEF OnceAway
        <5> QED  BY <4>1, <5>1
      <4>2. CASE jobs'[a][m] = <<v, f>>
        BY <2>4, <4>2
      <4> QED  BY <2>5, <4>1, <4>2
    <3>6. \A a \in Gens, x \in Workers, u \in VMs : \A n \in DOMAIN replies'[u] :
            Has(a, x)' => wjob'[a][x] # <<u, replies'[u][n][1]>>
      BY <1>1, <3>0 DEF OnceAway
    <3> QED  BY <3>1, <3>2, <3>3, <3>4, <3>5, <3>6 DEF OnceAway
  <2> QED  BY <2>9, <2>10
<1> QED  BY <1>2, <1>3 DEF Enqueue

\* Starting to take results, and having taken them all, moves the VM's thread
\* and no pointer; neither does giving up compiled code.
LEMMA VmKeepsAway ==
    ASSUME Structure, PinnedAway, OnceAway, NEW v \in VMs,
           Drain(v) \/ \E f \in Funcs : Enqueue(v, f) \/ Invalidate(v, f)
    PROVE  PinnedAway' /\ OnceAway'
<1>0. replies \in [VMs -> Seq(Results)]
  BY DEF Structure, Shapes
<1>1. ASSUME NEW f \in Funcs, DrainStarts(v) \/ DrainEnds(v) \/ Invalidate(v, f)
      PROVE  PinnedAway' /\ OnceAway'
  <2>1. jobs' = jobs /\ wjob' = wjob /\ wpc' = wpc /\ replies' = replies
        /\ pinned' = pinned /\ compiling' = compiling
    BY <1>1 DEF DrainStarts, DrainEnds, Invalidate, workVars, jitVars, replyVars
  <2>2. \A g \in Gens, w \in Workers : Has(g, w)' => Has(g, w) /\ wjob'[g][w] = wjob[g][w]
    BY <2>1 DEF Has
  <2>3. \A u \in VMs, e \in Funcs : Safe(<<u, e>>) => Safe(<<u, e>>)'
    BY <2>1 DEF Safe
  <2> QED  BY <1>0, <2>1, <2>2, <2>3, FewerAway
<1>2. CASE DrainStarts(v) \/ DrainEnds(v)
  <2>1. jobs' = jobs /\ wjob' = wjob /\ wpc' = wpc /\ replies' = replies
        /\ pinned' = pinned /\ compiling' = compiling
    BY <1>2 DEF DrainStarts, DrainEnds, workVars, jitVars, replyVars
  <2>2. \A g \in Gens, w \in Workers : Has(g, w)' => Has(g, w) /\ wjob'[g][w] = wjob[g][w]
    BY <2>1 DEF Has
  <2>3. \A u \in VMs, e \in Funcs : Safe(<<u, e>>) => Safe(<<u, e>>)'
    BY <2>1 DEF Safe
  <2> QED  BY <1>0, <2>1, <2>2, <2>3, FewerAway
<1> QED  BY <1>1, <1>2, InstallKeepsAway, EnqueueKeepsAway DEF Drain

\* The pool moves no pointer: it starts workers with empty hands, and puts
\* nothing but wake-ups into a channel.
LEMMA PoolKeepsAway ==
    ASSUME Structure, PinnedAway, OnceAway,
           \/ SpawnTask \/ Shutdown
           \/ \E t \in Stoppers : Stop(t)
           \/ \E t \in Threads : Advance(t) \/ TaskPanics(t)
    PROVE  PinnedAway' /\ OnceAway'
<1>0. /\ replies \in [VMs -> Seq(Results)] /\ jobs \in [Gens -> Seq(Messages)]
      /\ wpc \in [Gens -> [Workers -> WorkerPlaces]]
  BY DEF Structure, Shapes
<1>1. replies' = replies /\ wjob' = wjob /\ pinned' = pinned /\ compiling' = compiling
  BY DEF SpawnTask, Shutdown, Stop, StopTakes, StopSignals, Advance, TakeTask, UseCompiler,
         TaskCompleted, TaskPanics, workVars, jitVars, replyVars
<1>2. \A u \in VMs, e \in Funcs : Safe(<<u, e>>) => Safe(<<u, e>>)'
  BY <1>1 DEF Safe
<1>3. \A g \in Gens, w \in Workers : Has(g, w)' => Has(g, w) /\ wjob'[g][w] = wjob[g][w]
  <2>1. CASE wpc' = wpc
    BY <1>1, <2>1 DEF Has
  <2>2. ASSUME NEW t \in Threads, UseCompiler(t), wpc' # wpc
        PROVE  \A g \in Gens, w \in Workers : Has(g, w)' => Has(g, w)
    <3>1. wpc' = [wpc EXCEPT ![started + 1] = [w \in Workers |-> "top"]]
      BY <2>2 DEF UseCompiler
    <3>2. \A g \in Gens, w \in Workers : g > started => wjob[g][w] = None
      BY DEF Structure, Generations, InHand
    <3>3. \A g \in Gens, w \in Workers : g # started + 1 => wpc'[g][w] = wpc[g][w]
      BY <1>0, <3>1
    <3>4. started \in Nat
      BY GenRange
    <3> QED  BY <1>1, <3>2, <3>3, <3>4, SignalNoPointer DEF Has
  <2>3. wpc' = wpc \/ \E t \in Threads : UseCompiler(t)
    BY DEF SpawnTask, Shutdown, Stop, StopTakes, StopSignals, Advance, TakeTask,
           TaskCompleted, TaskPanics, workVars
  <2> QED  BY <1>1, <2>1, <2>2, <2>3
<1>4. \A g \in Gens : \A n \in DOMAIN jobs'[g] : jobs'[g][n] \in Pointers =>
        n \in DOMAIN jobs[g] /\ jobs'[g][n] = jobs[g][n]
  <2>1. CASE jobs' = jobs
    BY <2>1
  <2>2. ASSUME NEW t \in Stoppers, StopSignals(t), jobs' # jobs
        PROVE  \A g \in Gens : \A n \in DOMAIN jobs'[g] : jobs'[g][n] \in Pointers =>
                 n \in DOMAIN jobs[g] /\ jobs'[g][n] = jobs[g][n]
    <3>1. jobs' = [jobs EXCEPT ![compiler] = @ \o WakeUps]
      BY <1>0, <2>2 DEF StopSignals, WakeUps
    <3>2. \A g \in Gens : jobs'[g] \in {jobs[g], jobs[g] \o WakeUps}
      BY <1>0, <3>1
    <3>3. \A g \in Gens : \A n \in DOMAIN (jobs[g] \o WakeUps) :
            \/ n \in DOMAIN jobs[g] /\ (jobs[g] \o WakeUps)[n] = jobs[g][n]
            \/ (jobs[g] \o WakeUps)[n] = Signal
      BY <1>0, WakeUpsAre, ConcatAt
    <3> QED  BY <3>2, <3>3, SignalNoPointer
  <2>3. jobs' = jobs \/ \E t \in Stoppers : StopSignals(t)
    BY DEF SpawnTask, Shutdown, Stop, StopTakes, Advance, TakeTask, UseCompiler,
           TaskCompleted, TaskPanics
  <2> QED  BY <2>1, <2>2, <2>3
<1> QED  BY <1>0, <1>1, <1>2, <1>3, <1>4, FewerAway
\* No pointer is away when the pool starts.
LEMMA TripInvInit == Init => TripInv
<1> SUFFICES ASSUME Init PROVE PinnedAway /\ OnceAway
  BY StructureInit DEF TripInv
<1>1. /\ \A g \in Gens : DOMAIN jobs[g] = {}
      /\ \A v \in VMs : DOMAIN replies[v] = {}
      /\ \A g \in Gens, w \in Workers : wjob[g][w] = None
  BY NoPlaces DEF Init
<1>2. \A g \in Gens, w \in Workers : ~Has(g, w)
  BY <1>1, SignalNoPointer DEF Has
<1> QED  BY <1>1, <1>2 DEF PinnedAway, OnceAway

\* Every step keeps the pointers that are away safe.
LEMMA TripInvNext == TripInv /\ [Next]_vars => TripInv'
<1> SUFFICES ASSUME TripInv, [Next]_vars PROVE PinnedAway' /\ OnceAway'
  BY StructureNext DEF TripInv
<1>0. Structure /\ PinnedAway /\ OnceAway
  BY DEF TripInv
<1>1. CASE \/ SpawnTask \/ Shutdown
           \/ \E t \in Stoppers : Stop(t)
           \/ \E t \in Threads : Advance(t) \/ TaskPanics(t)
  BY <1>0, <1>1, PoolKeepsAway
<1>2. CASE \/ \E v \in VMs : Drain(v)
           \/ \E v \in VMs, f \in Funcs : Enqueue(v, f) \/ Invalidate(v, f)
  BY <1>0, <1>2, VmKeepsAway
<1>3. CASE \E g \in Gens, w \in Workers : Work(g, w)
  BY <1>0, <1>3, WorkerKeepsAway, ReceiveKeepsAway, ReplyKeepsAway
<1>4. CASE UNCHANGED vars
  <2>1. /\ jobs' = jobs /\ wjob' = wjob /\ wpc' = wpc /\ replies' = replies
        /\ pinned' = pinned /\ compiling' = compiling
    BY <1>4 DEF vars, workVars, jitVars, replyVars
  <2>2. \A g \in Gens, w \in Workers : Has(g, w)' => Has(g, w) /\ wjob'[g][w] = wjob[g][w]
    BY <2>1 DEF Has
  <2>3. \A u \in VMs, e \in Funcs : Safe(<<u, e>>) => Safe(<<u, e>>)'
    BY <2>1 DEF Safe
  <2>4. replies \in [VMs -> Seq(Results)]
    BY <1>0 DEF Structure, Shapes
  <2> QED  BY <1>0, <2>1, <2>2, <2>3, <2>4, FewerAway
<1> QED  BY <1>1, <1>2, <1>3, <1>4 DEF Next

\* What Away is made of.
LEMMA AwayIs ==
    ASSUME Structure, NEW a \in Away
    PROVE  \/ \E g \in Gens : \E n \in DOMAIN jobs[g] :
                a = <<"job", g, n, jobs[g][n]>> /\ jobs[g][n] \in Pointers
           \/ \E g \in Gens, w \in Workers : a = <<"worker", g, w, wjob[g][w]>> /\ Has(g, w)
           \/ \E v \in VMs : \E n \in DOMAIN replies[v] :
                a = <<"reply", v, n, <<v, replies[v][n][1]>>>>
<1>1. /\ jobs \in [Gens -> Seq(Messages)]
      /\ wjob \in [Gens -> [Workers -> Messages \cup {None}]]
  BY DEF Structure, Shapes
<1>2. \A g \in Gens : \A n \in DOMAIN jobs[g] : jobs[g][n] # Signal => jobs[g][n] \in Pointers
  <2>1. \A g \in Gens : \A n \in DOMAIN jobs[g] : jobs[g][n] \in Messages
    BY <1>1, ElementOfSeq, LenProperties
  <2> QED  BY <2>1, SignalNoPointer
<1>3. CASE a \in InChannel
  <2>1. \E g \in Gens : \E n \in DOMAIN jobs[g] :
          jobs[g][n] # Signal /\ a = <<"job", g, n, jobs[g][n]>>
    BY <1>3 DEF InChannel
  <2> QED  BY <1>2, <2>1
<1>4. CASE a \in AtWorker
  <2>1. PICK g \in Gens, w \in Workers :
          /\ wjob[g][w] \notin {None, Signal} /\ wpc[g][w] # "flag"
          /\ a = <<"worker", g, w, wjob[g][w]>>
    BY <1>4 DEF AtWorker
  <2>2. Has(g, w)
    BY <1>1, <2>1, SignalNoPointer DEF Has
  <2> QED  BY <2>1, <2>2
<1>5. CASE a \in InReply
  BY <1>5 DEF InReply
<1> QED  BY <1>3, <1>4, <1>5 DEF Away

\* A pointer that is away is in one place, and its function pinned and marked.
LEMMA AwayIsSafe == TripInv => RoundTripIsSafe
<1> SUFFICES ASSUME TripInv PROVE RoundTripIsSafe
  OBVIOUS
<1>0. Structure /\ PinnedAway /\ OnceAway
  BY DEF TripInv
<1>1. PinnedForTheRoundTrip
  <2> SUFFICES ASSUME NEW a \in Away PROVE Safe(a[4])
    BY DEF PinnedForTheRoundTrip, Safe
  <2> QED  BY <1>0, AwayIs DEF PinnedAway
<1>2. CompiledOnceAtATime
  <2> SUFFICES ASSUME NEW a \in Away, NEW b \in Away, a[4] = b[4] PROVE a = b
    BY DEF CompiledOnceAtATime
  <2> DEFINE job(c, g, n) == c = <<"job", g, n, jobs[g][n]>> /\ jobs[g][n] \in Pointers
             hand(c, g, w) == c = <<"worker", g, w, wjob[g][w]>> /\ Has(g, w)
             result(c, v, n) == c = <<"reply", v, n, <<v, replies[v][n][1]>>>>
  <2>1. \A c \in {a, b} : \/ \E g \in Gens : \E n \in DOMAIN jobs[g] : job(c, g, n)
                          \/ \E g \in Gens, w \in Workers : hand(c, g, w)
                          \/ \E v \in VMs : \E n \in DOMAIN replies[v] : result(c, v, n)
    BY <1>0, AwayIs
  <2>2. ASSUME NEW c \in {a, b}, NEW d \in {a, b}, c[4] = d[4],
               NEW g \in Gens, NEW n \in DOMAIN jobs[g], job(c, g, n)
        PROVE  \E h \in Gens : \E m \in DOMAIN jobs[h] : job(d, h, m) /\ c = d
    <3>1. ASSUME NEW h \in Gens, NEW m \in DOMAIN jobs[h], job(d, h, m) PROVE c = d
      <4>1. jobs[g][n] = jobs[h][m]
        BY <2>2, <3>1
      <4>2. g = h /\ n = m
        BY <1>0, <2>2, <4>1 DEF OnceAway
      <4> QED  BY <2>2, <3>1, <4>2
    <3>2. ASSUME NEW h \in Gens, NEW w \in Workers, hand(d, h, w) PROVE FALSE
      <4>1. jobs[g][n] = wjob[h][w] /\ Has(h, w)
        BY <2>2, <3>2
      <4> QED  BY <1>0, <4>1 DEF OnceAway
    <3>3. ASSUME NEW v \in VMs, NEW m \in DOMAIN replies[v], result(d, v, m) PROVE FALSE
      <4>1. jobs[g][n] = <<v, replies[v][m][1]>>
        BY <2>2, <3>3
      <4> QED  BY <1>0, <4>1 DEF OnceAway
    <3> QED  BY <2>1, <3>1, <3>2, <3>3
  <2>3. ASSUME NEW c \in {a, b}, NEW d \in {a, b}, c[4] = d[4],
               NEW v \in VMs, NEW n \in DOMAIN replies[v], result(c, v, n)
        PROVE  \E u \in VMs : \E m \in DOMAIN replies[u] : result(d, u, m) /\ c = d
    <3>1. ASSUME NEW h \in Gens, NEW m \in DOMAIN jobs[h], job(d, h, m) PROVE FALSE
      <4>1. jobs[h][m] = <<v, replies[v][n][1]>>
        BY <2>3, <3>1
      <4> QED  BY <1>0, <4>1 DEF OnceAway
    <3>2. ASSUME NEW h \in Gens, NEW w \in Workers, hand(d, h, w) PROVE FALSE
      <4>1. wjob[h][w] = <<v, replies[v][n][1]>> /\ Has(h, w)
        BY <2>3, <3>2
      <4> QED  BY <1>0, <4>1 DEF OnceAway
    <3>3. ASSUME NEW u \in VMs, NEW m \in DOMAIN replies[u], result(d, u, m) PROVE c = d
      <4>1. <<u, replies[u][m][1]>> = <<v, replies[v][n][1]>>
        BY <2>3, <3>3
      <4>2. u = v /\ replies[v][m][1] = replies[v][n][1]
        BY <4>1
      <4>3. m = n
        BY <1>0, <3>3, <4>2 DEF OnceAway
      <4> QED  BY <2>3, <3>3, <4>2, <4>3
    <3> QED  BY <2>1, <3>1, <3>2, <3>3
  <2>4. ASSUME NEW g \in Gens, NEW w \in Workers, hand(a, g, w),
               NEW h \in Gens, NEW x \in Workers, hand(b, h, x)
        PROVE  a = b
    <3>1. wjob[g][w] = wjob[h][x] /\ Has(g, w) /\ Has(h, x)
      BY <2>4
    <3>2. g = h /\ w = x
      BY <1>0, <3>1 DEF OnceAway
    <3> QED  BY <2>4, <3>2
  <2> HIDE DEF job, hand, result
  <2> QED  BY <2>1, <2>2, <2>3, <2>4
<1> QED  BY <1>1, <1>2 DEF RoundTripIsSafe

\* The structure bounds the counters.
LEMMA StructureTypes == Structure => TypeOK
<1> SUFFICES ASSUME Structure PROVE TypeOK
  OBVIOUS
<1>0. /\ Shapes /\ MaxTasks \in Nat /\ started \in 0 .. MaxTasks
  BY GenRange DEF Structure
<1>1. in_flight = queued + Cardinality(Holding) /\ in_flight <= spawned
  BY DEF Structure, TasksCounted
<1>2. Cardinality(Holding) \in Nat
  BY ThreadSets DEF Holding
<1>3. spawned \in 0 .. MaxTasks /\ queued \in 0 .. MaxTasks /\ in_flight \in 0 .. MaxTasks
  BY <1>0, <1>1, <1>2 DEF Shapes
<1>4. compiler \in 0 .. MaxTasks
  BY <1>0 DEF Structure, Generations
<1>5. jobTx \in [VMs -> 0 .. MaxTasks]
  <2>1. jobTx \in [VMs -> Nat] /\ \A v \in VMs : jobTx[v] <= started
    BY <1>0 DEF Shapes, Structure, Generations
  <2> QED  BY <1>0, <2>1
<1> QED  BY <1>0, <1>3, <1>4, <1>5 DEF Shapes, TypeOK, Pointers, ThreadPlaces, WorkerPlaces, Results

\* Every variable of the pool, the VMs and the workers has its type; tasks and
\* compilers stay within their bound because every compiler is started by a
\* task that is in flight.
THEOREM CompilerTypes == Spec => []TypeOK
<1>1. Init => Structure
  BY StructureInit
<1>2. Structure /\ [Next]_vars => Structure'
  BY StructureNext
<1>3. Structure => TypeOK
  BY StructureTypes
<1> QED  BY <1>1, <1>2, <1>3, PTL DEF Spec

\* The raw pointer to a function that enqueue_compile sends away is, until
\* drain_jit_results takes it back, in one place only, and its function a root
\* of its VM: through panics that abandon the VM, and compilers stopped and
\* replaced while their workers still hold jobs.
THEOREM RoundTrip == Spec => []RoundTripIsSafe
<1>1. Init => TripInv
  BY TripInvInit
<1>2. TripInv /\ [Next]_vars => TripInv'
  BY TripInvNext
<1>3. TripInv => RoundTripIsSafe
  BY AwayIsSafe
<1> QED  BY <1>1, <1>2, <1>3, PTL DEF Spec
-----------------------------------------------------------------------------
(* Stopping *)

Waiting(g) == {w \in Workers : wpc[g][w] = "recv"}

\* Subsets of the workers can be counted.
LEMMA WorkerSets ==
    ASSUME NEW S \in SUBSET Workers
    PROVE  /\ IsFiniteSet(S) /\ Cardinality(S) \in Nat /\ Cardinality(S) <= Cardinality(Workers)
           /\ S = {} => Cardinality(S) = 0
           /\ \A w \in S : Cardinality(S \ {w}) = Cardinality(S) - 1
  BY CompilerAssumption, FS_Subset, FS_CardinalityType, FS_EmptySet, FS_RemoveElement

\* While nothing else happens to a stopped compiler its workers keep their
\* wake-ups.
LEMMA WakeFrame ==
    ASSUME StoppedWorkersWake, NEW g \in Gens,
           wpc'[g] = wpc[g] \/ Waiting(g)' = Waiting(g),
           Len(jobs[g]) \in Nat, Len(jobs'[g]) \in Nat, Len(jobs'[g]) >= Len(jobs[g]),
           shutdown'[g] /\ compiler' # g => shutdown[g] /\ compiler # g
    PROVE  shutdown'[g] /\ compiler' # g => Cardinality(Waiting(g)') <= Len(jobs'[g])
<1>1. Waiting(g)' = Waiting(g)
  BY DEF Waiting
<1>2. Cardinality(Waiting(g)) \in Nat
  BY WorkerSets DEF Waiting
<1>3. shutdown[g] /\ compiler # g => Cardinality(Waiting(g)) <= Len(jobs[g])
  BY DEF StoppedWorkersWake, Waiting
<1> QED  BY <1>1, <1>2, <1>3

\* The workers of a stopped compiler wake up: the flag is raised before the
\* wake-ups are sent, and nobody goes back to recv() once it is up.
LEMMA StoppedWorkersWakeNext ==
    Structure /\ StoppedWorkersWake /\ [Next]_vars => StoppedWorkersWake'
<1> SUFFICES ASSUME Structure, StoppedWorkersWake, [Next]_vars, NEW g \in Gens
             PROVE  shutdown'[g] /\ compiler' # g => Cardinality(Waiting(g)') <= Len(jobs'[g])
  BY DEF StoppedWorkersWake, Waiting
<1>0. /\ jobs \in [Gens -> Seq(Messages)] /\ shutdown \in [Gens -> BOOLEAN]
      /\ wpc \in [Gens -> [Workers -> WorkerPlaces]] /\ started \in Nat /\ Gens \subseteq Nat
  BY DEF Structure, Shapes, Gens
<1>1. Len(jobs[g]) \in Nat /\ Len(<<>>) = 0
  BY <1>0, LenProperties, EmptySeq
<1>2. Cardinality(Waiting(g)) \in Nat /\ Cardinality({}) = 0
  BY WorkerSets, FS_EmptySet DEF Waiting
<1>3. CASE \/ SpawnTask \/ Shutdown
           \/ \E t \in Threads : TakeTask(t) \/ TaskCompleted(t) \/ TaskPanics(t)
           \/ \E v \in VMs : Drain(v)
           \/ \E v \in VMs, f \in Funcs : Invalidate(v, f)
           \/ UNCHANGED vars
  <2>1. UNCHANGED <<wpc, shutdown, jobs, compiler>>
    BY <1>3 DEF SpawnTask, Shutdown, TakeTask, TaskCompleted, TaskPanics, Drain, DrainStarts,
         DrainInstalls, DrainEnds, Invalidate, workVars, compVars, vars
  <2> QED  BY <1>1, <2>1, WakeFrame
<1>4. ASSUME NEW t \in Stoppers, StopTakes(t)
      PROVE  shutdown'[g] /\ compiler' # g => Cardinality(Waiting(g)') <= Len(jobs'[g])
  <2>1. UNCHANGED <<wpc, jobs, compiler>>
    BY <1>4 DEF StopTakes, workVars
  <2>2. shutdown'[g] /\ compiler' # g => shutdown[g] /\ compiler # g
    BY <1>0, <1>4 DEF StopTakes
  <2> QED  BY <1>1, <2>1, <2>2, WakeFrame
<1>5. ASSUME NEW t \in Stoppers, StopSignals(t)
      PROVE  shutdown'[g] /\ compiler' # g => Cardinality(Waiting(g)') <= Len(jobs'[g])
  <2>1. UNCHANGED <<wpc, shutdown>>
    BY <1>5 DEF StopSignals, workVars
  <2>2. CASE g # compiler
    <3>1. jobs'[g] = jobs[g]
      BY <1>0, <1>5, <2>2 DEF StopSignals
    <3> QED  BY <1>1, <2>1, <2>2, <3>1, WakeFrame
  <2>3. CASE g = compiler /\ Connected(g)
    <3>1. jobs'[g] = jobs[g] \o WakeUps
      BY <1>0, <1>5, <2>3 DEF StopSignals, WakeUps
    <3>2. Len(jobs'[g]) = Len(jobs[g]) + Cardinality(Workers) /\ Cardinality(Workers) \in Nat
      <4>1. jobs[g] \in Seq(Messages)
        BY <1>0
      <4>2. Len(jobs[g] \o WakeUps) = Len(jobs[g]) + Len(WakeUps)
        BY <4>1, WakeUpsAre, ConcatAt
      <4> QED  BY <3>1, <4>2, WakeUpsAre
    <3>3. Cardinality(Waiting(g)) <= Cardinality(Workers)
      BY WorkerSets DEF Waiting
    <3>4. Waiting(g)' = Waiting(g)
      BY <2>1 DEF Waiting
    <3> QED  BY <1>1, <1>2, <3>2, <3>3, <3>4
  <2>4. CASE g = compiler /\ ~Connected(g)
    <3>1. jobs'[g] = jobs[g]
      BY <1>0, <1>5, <2>4 DEF StopSignals
    <3>2. Waiting(g)' = {}
      BY <2>1, <2>4 DEF Connected, Waiting
    <3> QED  BY <1>1, <1>2, <3>1, <3>2
  <2> QED  BY <2>2, <2>3, <2>4
<1>6. ASSUME NEW t \in Threads, UseCompiler(t)
      PROVE  shutdown'[g] /\ compiler' # g => Cardinality(Waiting(g)') <= Len(jobs'[g])
  <2>1. UNCHANGED <<shutdown, jobs>>
    BY <1>6 DEF UseCompiler
  <2>2. CASE compiler # 0
    BY <1>1, <1>6, <2>1, <2>2, WakeFrame DEF UseCompiler
  <2>3. CASE compiler = 0
    <3>1. /\ compiler' = started + 1
          /\ wpc' = [wpc EXCEPT ![started + 1] = [w \in Workers |-> "top"]]
      BY <1>6, <2>3 DEF UseCompiler
    <3>2. g # started + 1 => wpc'[g] = wpc[g] /\ compiler # g
      BY <1>0, <2>3, <3>1 DEF Gens
    <3> QED  BY <1>1, <2>1, <3>1, <3>2, WakeFrame
  <2> QED  BY <2>2, <2>3
<1>7. ASSUME NEW v \in VMs, NEW f \in Funcs, Enqueue(v, f)
      PROVE  shutdown'[g] /\ compiler' # g => Cardinality(Waiting(g)') <= Len(jobs'[g])
  <2>1. UNCHANGED <<wpc, shutdown, compiler>>
    BY <1>7 DEF Enqueue, workVars, compVars
  <2>2. <<v, f>> \in Messages
    BY DEF Messages
  <2>3. Len(Append(jobs[g], <<v, f>>)) = Len(jobs[g]) + 1
    BY <1>0, <2>2, AppendProperties
  <2>4. jobs'[g] \in {jobs[g], Append(jobs[g], <<v, f>>)}
    BY <1>0, <1>7 DEF Enqueue
  <2>5. Len(jobs'[g]) \in Nat /\ Len(jobs'[g]) >= Len(jobs[g])
    BY <1>1, <2>3, <2>4
  <2> QED  BY <1>1, <2>1, <2>5, WakeFrame
<1>8. ASSUME NEW h \in Gens, NEW w \in Workers, Work(h, w)
      PROVE  shutdown'[g] /\ compiler' # g => Cardinality(Waiting(g)') <= Len(jobs'[g])
  <2>1. UNCHANGED <<shutdown, compiler>>
    BY <1>8 DEF Work, LoopTop, Receive, CheckJob, CompileEnds, Reply, RaiseFlag, compVars
  <2>2. CASE g # h
    <3>1. wpc'[g] = wpc[g] /\ jobs'[g] = jobs[g]
      BY <1>0, <1>8, <2>2 DEF Work, LoopTop, Receive, CheckJob, CompileEnds, Reply, RaiseFlag,
         Leaves, WGoto
    <3> QED  BY <1>1, <2>1, <3>1, WakeFrame
  <2>3. CASE g = h /\ Receive(h, w)
    <3>1. wpc' = [wpc EXCEPT ![g][w] = "check"] /\ wpc[g][w] = "recv" /\ jobs[g] # <<>>
          /\ jobs' = [jobs EXCEPT ![g] = Tail(@)]
      BY <2>3 DEF Receive, WGoto
    <3>2. Waiting(g)' = Waiting(g) \ {w} /\ w \in Waiting(g)
      BY <1>0, <3>1 DEF Waiting
    <3>3. Cardinality(Waiting(g)') = Cardinality(Waiting(g)) - 1
      BY <3>2, WorkerSets DEF Waiting
    <3>4. Len(jobs'[g]) = Len(jobs[g]) - 1
      BY <1>0, <3>1, TailAt
    <3> QED  BY <1>1, <1>2, <2>1, <3>3, <3>4 DEF StoppedWorkersWake, Waiting
  <2>4. CASE g = h /\ ~Receive(h, w) /\ shutdown[g]
    <3>1. wpc[g][w] # "recv" /\ \E p \in WorkerPlaces : p # "recv" /\ wpc' = [wpc EXCEPT ![g][w] = p]
      BY <1>8, <2>4 DEF Work, LoopTop, CheckJob, CompileEnds, Reply, RaiseFlag, Leaves, WGoto,
         WorkerPlaces
    <3>2. Waiting(g)' = Waiting(g)
      BY <1>0, <3>1 DEF Waiting
    <3>3. jobs'[g] = jobs[g] \/ \A x \in Workers \ {w} : wpc[g][x] = "exited"
      BY <1>0, <1>8, <2>4 DEF Work, LoopTop, CheckJob, CompileEnds, Reply, RaiseFlag, Leaves
    <3>4. CASE jobs'[g] = jobs[g]
      BY <1>1, <2>1, <3>2, <3>4, WakeFrame
    <3>5. CASE \A x \in Workers \ {w} : wpc[g][x] = "exited"
      <4>1. Waiting(g)' = {}
        BY <3>1, <3>2, <3>5 DEF Waiting
      <4>2. Len(jobs'[g]) \in Nat
        <5>1. jobs' \in [Gens -> Seq(Messages)]
          BY ShapesNext DEF Shapes
        <5> QED  BY <5>1, LenProperties
      <4> QED  BY <1>2, <4>1, <4>2
    <3> QED  BY <3>3, <3>4, <3>5
  <2>5. CASE ~shutdown[g]
    BY <2>1, <2>5
  <2> QED  BY <2>2, <2>3, <2>4, <2>5
<1> QED  BY <1>3, <1>4, <1>5, <1>6, <1>7, <1>8 DEF Next, Stop, Advance

\* Stopping the compiler reaches every worker, however many VMs still hold
\* senders that keep its channel open, and no worker takes a wake-up for a job:
\* the null pointer of the wake-up is never compiled.
THEOREM StopReaches == Spec => []StopReachesWorkers
<1>1. Init => Structure /\ StoppedWorkersWake
  BY StructureInit DEF Init, StoppedWorkersWake
<1>2. Structure /\ [Next]_vars => Structure'
  BY StructureNext
<1>3. Structure /\ StoppedWorkersWake /\ [Next]_vars => StoppedWorkersWake'
  BY StoppedWorkersWakeNext
<1>4. Structure /\ StoppedWorkersWake => StopReachesWorkers
  BY DEF StopReachesWorkers, WakeUpIsNeverCompiled, Structure, InHand, Pointers
<1> QED  BY <1>1, <1>2, <1>3, <1>4, PTL DEF Spec
-----------------------------------------------------------------------------
(* Answers *)

\* Where a sequence's places are in its tail.
LEMMA TailFrom ==
    ASSUME NEW S, NEW s \in Seq(S), s # <<>>, NEW n \in DOMAIN s, n # 1
    PROVE  n - 1 \in DOMAIN Tail(s) /\ Tail(s)[n - 1] = s[n]
<1>1. Len(s) \in Nat \ {0} /\ DOMAIN s = 1 .. Len(s)
  BY EmptySeq, LenProperties
<1>2. Tail(s) \in Seq(S) /\ Len(Tail(s)) = Len(s) - 1
  BY HeadTailProperties
<1>3. DOMAIN Tail(s) = 1 .. (Len(s) - 1)
  BY <1>2, LenProperties
<1>4. \A m \in 1 .. (Len(s) - 1) : Tail(s)[m] = s[m + 1]
  BY <1>1, HeadTailProperties
<1>5. n - 1 \in 1 .. (Len(s) - 1) /\ (n - 1) + 1 = n
  BY <1>1
<1> QED  BY <1>3, <1>4, <1>5

\* A job left unanswered stays so.
LEMMA DroppedGrows ==
    ASSUME [Next]_vars
    PROVE  dropped \subseteq dropped'
<1>1. CASE UNCHANGED vars
  BY <1>1 DEF vars, workVars
<1>2. CASE SpawnTask \/ Shutdown \/ \E t \in Stoppers : Stop(t)
  BY <1>2 DEF SpawnTask, Shutdown, Stop, StopTakes, StopSignals, workVars
<1>3. ASSUME NEW t \in Threads, Advance(t) \/ TaskPanics(t)
      PROVE  dropped \subseteq dropped'
  BY <1>3 DEF Advance, TakeTask, UseCompiler, TaskCompleted, TaskPanics, workVars
<1>4. ASSUME NEW v \in VMs, Drain(v)
      PROVE  dropped \subseteq dropped'
  BY <1>4 DEF Drain, DrainStarts, DrainInstalls, DrainEnds, workVars
<1>5. ASSUME NEW v \in VMs, NEW f \in Funcs, Enqueue(v, f) \/ Invalidate(v, f)
      PROVE  dropped \subseteq dropped'
  BY <1>5 DEF Enqueue, Invalidate, workVars
<1>6. ASSUME NEW g \in Gens, NEW w \in Workers, Work(g, w)
      PROVE  dropped \subseteq dropped'
  BY <1>6 DEF Work, LoopTop, Receive, CheckJob, CompileEnds, Reply, RaiseFlag, Leaves
<1> QED  BY <1>1, <1>2, <1>3, <1>4, <1>5, <1>6 DEF Next

\* Whoever takes results goes on taking them while other threads move, and a
\* worker goes on to its flag.
LEMMA AnnounceFrame ==
    ASSUME ResultsAreAnnounced, NEW v \in VMs, replies'[v] # <<>> => replies[v] # <<>>,
           pending[v] => pending'[v], At(v, "drain") => At(v, "drain")',
           \A g \in Gens, w \in Workers :
             wpc[g][w] = "flag" => wpc'[g][w] = "flag" /\ wjob'[g][w] = wjob[g][w]
    PROVE  replies'[v] # <<>> =>
             \/ pending'[v]
             \/ At(v, "drain")'
             \/ \E g \in Gens, w \in Workers : wpc'[g][w] = "flag" /\ wjob'[g][w][1] = v
  BY DEF ResultsAreAnnounced

\* A result is announced: the worker raises the flag after it has sent it, and
\* drain_jit_results takes the flag down before it takes results.
LEMMA AnnouncedNext == Structure /\ ResultsAreAnnounced /\ [Next]_vars => ResultsAreAnnounced'
<1> DEFINE Announced(v) == \/ pending'[v]
                           \/ At(v, "drain")'
                           \/ \E g \in Gens, w \in Workers : wpc'[g][w] = "flag" /\ wjob'[g][w][1] = v
<1> SUFFICES ASSUME Structure, ResultsAreAnnounced, [Next]_vars, NEW v \in VMs, replies'[v] # <<>>
             PROVE  Announced(v)
  BY DEF ResultsAreAnnounced
<1> HIDE DEF Announced
<1>0. /\ replies \in [VMs -> Seq(Results)] /\ pending \in [VMs -> BOOLEAN]
      /\ wpc \in [Gens -> [Workers -> WorkerPlaces]]
      /\ wjob \in [Gens -> [Workers -> Messages \cup {None}]]
      /\ tpc \in [Stoppers -> ThreadPlaces] /\ vm \in [Threads -> VMs]
      /\ Threads \subseteq Stoppers /\ started \in Nat /\ OneVM
  BY DEF Structure, Shapes, Stoppers
<1>1. ASSUME replies'[v] # <<>> => replies[v] # <<>>,
             pending[v] => pending'[v], At(v, "drain") => At(v, "drain")',
             \A g \in Gens, w \in Workers :
               wpc[g][w] = "flag" => wpc'[g][w] = "flag" /\ wjob'[g][w] = wjob[g][w]
      PROVE  Announced(v)
  BY <1>1, AnnounceFrame DEF Announced
<1>2. CASE \/ SpawnTask \/ Shutdown \/ \E t \in Stoppers : Stop(t)
           \/ \E t \in Threads : Advance(t) \/ TaskPanics(t)
           \/ \E u \in VMs, f \in Funcs : Enqueue(u, f) \/ Invalidate(u, f)
           \/ UNCHANGED vars
  <2>1. replies' = replies /\ pending' = pending /\ wjob' = wjob
    BY <1>2 DEF SpawnTask, Shutdown, Stop, StopTakes, StopSignals, Advance, TakeTask, UseCompiler,
           TaskCompleted, TaskPanics, Enqueue, Invalidate, workVars, replyVars, vars
  <2>2. At(v, "drain") => At(v, "drain")'
    <3>1. CASE tpc' = tpc /\ vm' = vm
      BY <3>1 DEF At, Runner
    <3>2. ASSUME NEW t \in Stoppers, NEW p \in ThreadPlaces, tpc[t] # "drain",
                 tpc' = [tpc EXCEPT ![t] = p],
                 \A s \in Threads : s # t => vm'[s] = vm[s]
          PROVE  At(v, "drain") => At(v, "drain")'
      <4>1. \A s \in Threads : tpc[s] = "drain" => tpc'[s] = "drain" /\ vm'[s] = vm[s]
        BY <1>0, <3>2
      <4> QED  BY <4>1 DEF At, Runner
    <3>3. CASE Shutdown
      BY <3>2, <3>3 DEF Shutdown, Goto, Stoppers, ThreadPlaces
    <3>4. ASSUME NEW t \in Stoppers, Stop(t) PROVE At(v, "drain") => At(v, "drain")'
      BY <3>2, <3>4 DEF Stop, StopTakes, StopSignals, Goto, ThreadPlaces
    <3>5. ASSUME NEW t \in Threads, TakeTask(t) \/ UseCompiler(t)
          PROVE  At(v, "drain") => At(v, "drain")'
      BY <1>0, <3>2, <3>5 DEF TakeTask, UseCompiler, Goto, ThreadPlaces
    <3>6. ASSUME NEW t \in Threads, TaskCompleted(t) PROVE At(v, "drain") => At(v, "drain")'
      BY <1>0, <3>2, <3>6 DEF TaskCompleted, Goto, ThreadPlaces
    <3>7. ASSUME NEW t \in Threads, TaskPanics(t) PROVE At(v, "drain") => At(v, "drain")'
      <4>1. tpc[t] # "drain" /\ tpc' = [tpc EXCEPT ![t] = "panicked"]
            /\ \A s \in Threads : s # t => vm'[s] = vm[s]
        BY <1>0, <3>7 DEF TaskPanics
      <4> QED  BY <1>0, <3>2, <4>1 DEF ThreadPlaces
    <3>8. CASE SpawnTask \/ (\E u \in VMs, f \in Funcs : Enqueue(u, f) \/ Invalidate(u, f))
               \/ UNCHANGED vars
      BY <3>1, <3>8 DEF SpawnTask, Enqueue, Invalidate, threadVars, vars
    <3> QED  BY <1>2, <3>3, <3>4, <3>5, <3>6, <3>7, <3>8 DEF Advance
  <2>3. \A g \in Gens, w \in Workers : wpc[g][w] = "flag" => wpc'[g][w] = "flag"
    <3>1. CASE wpc' = wpc
      BY <3>1
    <3>2. ASSUME NEW t \in Threads, UseCompiler(t), wpc' # wpc
          PROVE  \A g \in Gens, w \in Workers : wpc[g][w] = "flag" => wpc'[g][w] = "flag"
      <4>1. wpc' = [wpc EXCEPT ![started + 1] = [w \in Workers |-> "top"]]
        BY <3>2 DEF UseCompiler
      <4>2. \A g \in Gens : g > started => \A w \in Workers : wpc[g][w] = "unborn"
        BY DEF Structure, Generations
      <4>3. \A g \in Gens : g # started + 1 => wpc'[g] = wpc[g]
        BY <1>0, <4>1
      <4>4. \A g \in Gens : g = started + 1 => g > started
        BY <1>0
      <4> QED  BY <4>2, <4>3, <4>4
    <3>3. wpc' = wpc \/ \E t \in Threads : UseCompiler(t)
      BY <1>2 DEF SpawnTask, Shutdown, Stop, StopTakes, StopSignals, Advance, TakeTask,
             TaskCompleted, TaskPanics, Enqueue, Invalidate, workVars, vars
    <3> QED  BY <3>1, <3>2, <3>3
  <2> QED  BY <1>1, <2>1, <2>2, <2>3
<1>3. ASSUME NEW u \in VMs, Drain(u) PROVE Announced(v)
  <2>1. wpc' = wpc /\ wjob' = wjob /\ vm' = vm
    BY <1>3 DEF Drain, DrainStarts, DrainInstalls, DrainEnds, RunnerGoes, Goto, workVars, threadVars
  <2>2. CASE DrainInstalls(u)
    <3>1. tpc' = tpc /\ pending' = pending /\ replies' = [replies EXCEPT ![u] = Tail(@)]
          /\ replies[u] # <<>>
      BY <2>2 DEF DrainInstalls, threadVars
    <3>2. replies[v] # <<>>
      BY <1>0, <3>1
    <3> QED  BY <1>1, <2>1, <3>1, <3>2 DEF At, Runner
  <2>3. CASE DrainStarts(u) \/ DrainEnds(u)
    <3>1. PICK t \in Threads, p \in {"run", "drain"} :
            /\ vm[t] = u /\ tpc' = [tpc EXCEPT ![t] = p]
            /\ DrainStarts(u) => p = "drain"
      BY <2>3 DEF DrainStarts, DrainEnds, RunnerGoes, Runner, Goto
    <3>2. CASE u = v /\ DrainStarts(u)
      <4>1. At(v, "drain")'
        BY <1>0, <2>1, <3>1, <3>2 DEF At, Runner
      <4> QED  BY <4>1 DEF Announced
    <3>3. CASE u = v /\ DrainEnds(u)
      <4>1. replies'[v] = <<>>
        BY <3>3 DEF DrainEnds, replyVars
      <4> QED  BY <4>1
    <3>4. CASE u # v
      <4>1. At(v, "drain") => At(v, "drain")'
        BY <1>0, <2>1, <3>1, <3>4 DEF At, Runner
      <4>2. pending'[v] = pending[v] /\ replies' = replies
        BY <1>0, <2>3, <3>4 DEF DrainStarts, DrainEnds, replyVars
      <4> QED  BY <1>1, <2>1, <4>1, <4>2
    <3> QED  BY <2>3, <3>2, <3>3, <3>4
  <2> QED  BY <1>3, <2>2, <2>3 DEF Drain
<1>4. ASSUME NEW g \in Gens, NEW w \in Workers, Work(g, w) PROVE Announced(v)
  <2>1. tpc' = tpc /\ vm' = vm
    BY <1>4 DEF Work, LoopTop, Receive, CheckJob, CompileEnds, Reply, RaiseFlag, threadVars
  <2>2. At(v, "drain") => At(v, "drain")'
    BY <2>1 DEF At, Runner
  <2>3. \A h \in Gens, x \in Workers : h # g \/ x # w =>
          wpc'[h][x] = wpc[h][x] /\ wjob'[h][x] = wjob[h][x]
    <3>1. CASE Receive(g, w)
      <4>1. wpc' = [wpc EXCEPT ![g][w] = "check"] /\ wjob' = [wjob EXCEPT ![g][w] = Head(jobs[g])]
        BY <3>1 DEF Receive, WGoto
      <4> QED  BY <1>0, <4>1
    <3> QED  BY <1>4, <3>1, WorkerFrame
  <2>4. CASE LoopTop(g, w) \/ Receive(g, w) \/ CheckJob(g, w) \/ CompileEnds(g, w)
    <3>1. wpc[g][w] # "flag" /\ replies' = replies /\ pending' = pending
      BY <2>4 DEF LoopTop, Receive, CheckJob, CompileEnds, replyVars
    <3>2. \A h \in Gens, x \in Workers :
            wpc[h][x] = "flag" => wpc'[h][x] = "flag" /\ wjob'[h][x] = wjob[h][x]
      BY <2>3, <3>1
    <3> QED  BY <1>1, <2>2, <3>1, <3>2
  <2>5. CASE Reply(g, w)
    <3>1. wpc[g][w] = "reply" /\ wpc'[g][w] = "flag" /\ wjob' = wjob /\ pending' = pending
      BY <1>0, <2>5 DEF Reply, WGoto
    <3>2. CASE wjob[g][w][1] = v
      BY <3>1, <3>2 DEF Announced
    <3>3. CASE wjob[g][w][1] # v
      <4>1. replies'[v] = replies[v]
        BY <1>0, <2>5, <3>3 DEF Reply
      <4>2. \A h \in Gens, x \in Workers :
              wpc[h][x] = "flag" => wpc'[h][x] = "flag" /\ wjob'[h][x] = wjob[h][x]
        BY <2>3, <3>1
      <4> QED  BY <1>1, <2>2, <3>1, <4>1, <4>2
    <3> QED  BY <3>2, <3>3
  <2>6. CASE RaiseFlag(g, w)
    <3>1. /\ replies' = replies /\ pending' = [pending EXCEPT ![wjob[g][w][1]] = TRUE]
      BY <2>6 DEF RaiseFlag
    <3>2. CASE wjob[g][w][1] = v
      BY <1>0, <3>1, <3>2 DEF Announced
    <3>3. CASE wjob[g][w][1] # v
      <4>1. pending'[v] = pending[v]
        BY <1>0, <3>1, <3>3
      <4>2. \A h \in Gens, x \in Workers :
              wpc[h][x] = "flag" /\ wjob[h][x][1] = v =>
                wpc'[h][x] = "flag" /\ wjob'[h][x][1] = v
        BY <2>3, <3>3
      <4> QED  BY <2>2, <3>1, <4>1, <4>2 DEF ResultsAreAnnounced, Announced
    <3> QED  BY <3>2, <3>3
  <2> QED  BY <1>4, <2>4, <2>5, <2>6 DEF Work
<1> QED  BY <1>2, <1>3, <1>4 DEF Next
\* A channel keeps its places while nobody reads it.
LEMMA PlacesKept ==
    ASSUME NEW S, NEW s \in Seq(S), NEW r \in Seq(S)
    PROVE  \A n \in DOMAIN s : n \in DOMAIN (s \o r) /\ (s \o r)[n] = s[n]
  BY ConcatAt

\* What a step of the pool or of a VM does to the job channels: it appends.
LEMMA JobsAppended ==
    ASSUME Structure,
           \/ SpawnTask \/ Shutdown \/ \E t \in Stoppers : Stop(t)
           \/ \E t \in Threads : Advance(t) \/ TaskPanics(t)
           \/ \E v \in VMs : Drain(v)
           \/ \E v \in VMs, f \in Funcs : Enqueue(v, f) \/ Invalidate(v, f)
           \/ UNCHANGED vars
    PROVE  /\ wjob' = wjob
           /\ \A g \in Gens : jobs'[g] # <<>> => jobs[g] # <<>> \/ Connected(g)
           /\ \A g \in Gens : \A n \in DOMAIN jobs[g] : n \in DOMAIN jobs'[g] /\ jobs'[g][n] = jobs[g][n]
           /\ \A g \in Gens : \A n \in DOMAIN jobs'[g] :
                \/ n \in DOMAIN jobs[g] /\ jobs'[g][n] = jobs[g][n]
                \/ jobs'[g][n] = Signal
                \/ \E v \in VMs : jobs'[g][n][1] = v /\ g = jobTx[v] /\ UNCHANGED jobTx
<1>0. jobs \in [Gens -> Seq(Messages)]
  BY DEF Structure, Shapes
<1>1. wjob' = wjob
  BY DEF SpawnTask, Shutdown, Stop, StopTakes, StopSignals, Advance, TakeTask, UseCompiler,
         TaskCompleted, TaskPanics, Drain, DrainStarts, DrainInstalls, DrainEnds, Enqueue,
         Invalidate, workVars, vars
<1>2. CASE jobs' = jobs
  BY <1>1, <1>2
<1>3. ASSUME NEW t \in Stoppers, StopSignals(t), jobs' # jobs
      PROVE  /\ \A g \in Gens : jobs'[g] # <<>> => jobs[g] # <<>> \/ Connected(g)
             /\ \A g \in Gens : \A n \in DOMAIN jobs[g] : n \in DOMAIN jobs'[g] /\ jobs'[g][n] = jobs[g][n]
             /\ \A g \in Gens : \A n \in DOMAIN jobs'[g] :
                  \/ n \in DOMAIN jobs[g] /\ jobs'[g][n] = jobs[g][n]
                  \/ jobs'[g][n] = Signal
  <2>1. jobs' = [jobs EXCEPT ![compiler] = @ \o WakeUps] /\ Connected(compiler)
    BY <1>0, <1>3 DEF StopSignals, WakeUps
  <2>2. \A g \in Gens : \/ jobs'[g] = jobs[g]
                        \/ jobs'[g] = jobs[g] \o WakeUps /\ Connected(g)
    BY <1>0, <2>1
  <2>3. \A g \in Gens : \A n \in DOMAIN (jobs[g] \o WakeUps) :
          \/ n \in DOMAIN jobs[g] /\ (jobs[g] \o WakeUps)[n] = jobs[g][n]
          \/ (jobs[g] \o WakeUps)[n] = Signal
    BY <1>0, WakeUpsAre, ConcatAt
  <2>4. \A g \in Gens : \A n \in DOMAIN jobs[g] :
          n \in DOMAIN (jobs[g] \o WakeUps) /\ (jobs[g] \o WakeUps)[n] = jobs[g][n]
    BY <1>0, WakeUpsAre, PlacesKept
  <2> QED  BY <2>2, <2>3, <2>4
<1>4. ASSUME NEW v \in VMs, NEW f \in Funcs, Enqueue(v, f), jobs' # jobs
      PROVE  /\ \A g \in Gens : jobs'[g] # <<>> => jobs[g] # <<>> \/ Connected(g)
             /\ \A g \in Gens : \A n \in DOMAIN jobs[g] : n \in DOMAIN jobs'[g] /\ jobs'[g][n] = jobs[g][n]
             /\ \A g \in Gens : \A n \in DOMAIN jobs'[g] :
                  \/ n \in DOMAIN jobs[g] /\ jobs'[g][n] = jobs[g][n]
                  \/ jobs'[g][n] = <<v, f>> /\ g = jobTx[v] /\ UNCHANGED jobTx
  <2>1. /\ jobs' = [jobs EXCEPT ![jobTx[v]] = Append(@, <<v, f>>)] /\ Connected(jobTx[v])
        /\ UNCHANGED jobTx
    BY <1>0, <1>4 DEF Enqueue
  <2>2. \A g \in Gens : \/ jobs'[g] = jobs[g]
                        \/ jobs'[g] = Append(jobs[g], <<v, f>>) /\ Connected(g) /\ g = jobTx[v]
    <3> SUFFICES ASSUME NEW g \in Gens, g = jobTx[v] PROVE jobs'[g] = Append(jobs[g], <<v, f>>)
      BY <1>0, <2>1
    <3> QED  BY <1>0, <2>1
  <2>3. <<v, f>> \in Messages
    BY DEF Messages
  <2>4. \A g \in Gens :
          /\ \A n \in DOMAIN jobs[g] : n \in DOMAIN Append(jobs[g], <<v, f>>)
                                       /\ Append(jobs[g], <<v, f>>)[n] = jobs[g][n]
          /\ \A n \in DOMAIN Append(jobs[g], <<v, f>>) :
               n \in DOMAIN jobs[g] \/ Append(jobs[g], <<v, f>>)[n] = <<v, f>>
    <3> SUFFICES ASSUME NEW g \in Gens
                 PROVE  /\ \A n \in DOMAIN jobs[g] : n \in DOMAIN Append(jobs[g], <<v, f>>)
                                       /\ Append(jobs[g], <<v, f>>)[n] = jobs[g][n]
                        /\ \A n \in DOMAIN Append(jobs[g], <<v, f>>) :
                             n \in DOMAIN jobs[g] \/ Append(jobs[g], <<v, f>>)[n] = <<v, f>>
      OBVIOUS
    <3>1. /\ Len(jobs[g]) \in Nat /\ DOMAIN jobs[g] = 1 .. Len(jobs[g])
          /\ DOMAIN Append(jobs[g], <<v, f>>) = 1 .. (Len(jobs[g]) + 1)
          /\ \A n \in DOMAIN jobs[g] : Append(jobs[g], <<v, f>>)[n] = jobs[g][n]
          /\ Append(jobs[g], <<v, f>>)[Len(jobs[g]) + 1] = <<v, f>>
      BY <1>0, <2>3, AppendAt
    <3> QED  BY <3>1
  <2> QED  BY <2>1, <2>2, <2>4
<1>5. jobs' = jobs \/ (\E t \in Stoppers : StopSignals(t)) \/ \E v \in VMs, f \in Funcs : Enqueue(v, f)
  BY DEF SpawnTask, Shutdown, Stop, StopTakes, Advance, TakeTask, UseCompiler,
         TaskCompleted, TaskPanics, Drain, DrainStarts, DrainInstalls, DrainEnds, Invalidate, vars
<1> QED  BY <1>1, <1>2, <1>3, <1>4, <1>5

\* The last worker to return takes the channel and what is left in it along.
LEMMA ReadNext == Structure /\ ChannelsAreRead /\ [Next]_vars => ChannelsAreRead'
<1> SUFFICES ASSUME Structure, ChannelsAreRead, [Next]_vars, NEW g \in Gens, jobs'[g] # <<>>
             PROVE  Connected(g)'
  BY DEF ChannelsAreRead
<1>0. /\ jobs \in [Gens -> Seq(Messages)] /\ wpc \in [Gens -> [Workers -> WorkerPlaces]]
      /\ Workers # {}
  BY CompilerAssumption DEF Structure, Shapes
<1>1. CASE \/ SpawnTask \/ Shutdown \/ \E t \in Stoppers : Stop(t)
           \/ \E t \in Threads : Advance(t) \/ TaskPanics(t)
           \/ \E v \in VMs : Drain(v)
           \/ \E v \in VMs, f \in Funcs : Enqueue(v, f) \/ Invalidate(v, f)
           \/ UNCHANGED vars
  <2>1. Connected(g)
    BY <1>1, JobsAppended DEF ChannelsAreRead
  <2>2. CASE wpc' = wpc
    BY <2>1, <2>2 DEF Connected
  <2>3. ASSUME NEW t \in Threads, UseCompiler(t), wpc' # wpc PROVE Connected(g)'
    <3>1. wpc' = [wpc EXCEPT ![started + 1] = [w \in Workers |-> "top"]]
      BY <2>3 DEF UseCompiler
    <3>2. CASE g = started + 1
      BY <1>0, <3>1, <3>2 DEF Connected
    <3>3. CASE g # started + 1
      BY <1>0, <2>1, <3>1, <3>3 DEF Connected
    <3> QED  BY <3>2, <3>3
  <2>4. wpc' = wpc \/ \E t \in Threads : UseCompiler(t)
    BY <1>1 DEF SpawnTask, Shutdown, Stop, StopTakes, StopSignals, Advance, TakeTask,
           TaskCompleted, TaskPanics, Drain, DrainStarts, DrainInstalls, DrainEnds,
           Enqueue, Invalidate, workVars, vars
  <2> QED  BY <2>2, <2>3, <2>4
<1>2. ASSUME NEW h \in Gens, NEW w \in Workers, Work(h, w) PROVE Connected(g)'
  <2>1. CASE g # h
    <3>1. wpc'[g] = wpc[g] /\ jobs'[g] = jobs[g]
      BY <1>0, <1>2, <2>1 DEF Work, LoopTop, Receive, CheckJob, CompileEnds, Reply, RaiseFlag,
         Leaves, WGoto
    <3> QED  BY <3>1 DEF ChannelsAreRead, Connected
  <2>2. CASE g = h
    <3>1. PICK p \in WorkerPlaces :
            /\ wpc' = [wpc EXCEPT ![g][w] = p]
            /\ p = "exited" => jobs' = IF \A x \in Workers \ {w} : wpc[g][x] = "exited"
                                         THEN [jobs EXCEPT ![g] = <<>>] ELSE jobs
      BY <1>2, <2>2 DEF Work, LoopTop, Receive, CheckJob, CompileEnds, Reply, RaiseFlag,
         Leaves, WGoto, WorkerPlaces
    <3>2. wpc'[g][w] = p /\ \A x \in Workers \ {w} : wpc'[g][x] = wpc[g][x]
      BY <1>0, <3>1
    <3>3. CASE p # "exited"
      BY <3>2, <3>3 DEF Connected
    <3>4. CASE p = "exited"
      <4>1. \E x \in Workers \ {w} : wpc[g][x] # "exited"
        BY <1>0, <3>1, <3>4
      <4> QED  BY <3>2, <4>1 DEF Connected
    <3> QED  BY <3>3, <3>4
  <2> QED  BY <2>1, <2>2
<1> QED  BY <1>1, <1>2 DEF Next

\* A marked function stays where it is while nothing is read or drained.
LEMMA SomewhereFrame ==
    ASSUME Structure, [Next]_vars, NEW v \in VMs, NEW f \in Funcs, Somewhere(v, f),
           \A g \in Gens : \A n \in DOMAIN jobs[g] : jobs[g][n] = <<v, f>> =>
             Somewhere(v, f)',
           \A g \in Gens, w \in Workers : Has(g, w) /\ wjob[g][w] = <<v, f>> => Somewhere(v, f)',
           \A n \in DOMAIN replies[v] : replies[v][n][1] = f => Somewhere(v, f)'
    PROVE  Somewhere(v, f)'
<1>1. <<v, f>> \in dropped => <<v, f>> \in dropped'
  BY DroppedGrows
<1> QED  BY <1>1 DEF Somewhere

\* A job that is queued, in a worker's hand or answered stays one of these until its
\* answer is drained, or until a worker leaves it unanswered.
LEMMA SomewhereNext ==
    Structure /\ MarkedIsSomewhere /\ [Next]_vars => MarkedIsSomewhere'
<1> SUFFICES ASSUME Structure, MarkedIsSomewhere, [Next]_vars,
                    NEW v \in VMs, NEW f \in compiling'[v]
             PROVE  Somewhere(v, f)'
  BY DEF MarkedIsSomewhere
<1>0. /\ jobs \in [Gens -> Seq(Messages)] /\ replies \in [VMs -> Seq(Results)]
      /\ wpc \in [Gens -> [Workers -> WorkerPlaces]]
      /\ wjob \in [Gens -> [Workers -> Messages \cup {None}]]
      /\ compiling \in [VMs -> SUBSET Funcs] /\ compiling' \in [VMs -> SUBSET Funcs]
  BY ShapesNext DEF Structure, Shapes
<1>6. f \in Funcs /\ <<v, f>> \in Pointers
  BY <1>0 DEF Pointers
<1>1. CASE \/ SpawnTask \/ Shutdown \/ \E t \in Stoppers : Stop(t)
           \/ \E t \in Threads : Advance(t) \/ TaskPanics(t)
           \/ \E u \in VMs : DrainStarts(u) \/ DrainEnds(u)
           \/ \E u \in VMs, e \in Funcs : Enqueue(u, e) \/ Invalidate(u, e)
           \/ UNCHANGED vars
  <2>1. /\ wjob' = wjob
        /\ \A g \in Gens : \A n \in DOMAIN jobs[g] : n \in DOMAIN jobs'[g] /\ jobs'[g][n] = jobs[g][n]
    BY <1>1, JobsAppended DEF Drain
  <2>2. replies' = replies
    BY <1>1 DEF SpawnTask, Shutdown, Stop, StopTakes, StopSignals, Advance, TakeTask, UseCompiler,
           TaskCompleted, TaskPanics, DrainStarts, DrainEnds, Enqueue, Invalidate, replyVars, vars
  <2>3. \A g \in Gens, w \in Workers : Has(g, w) => Has(g, w)'
    <3>1. CASE wpc' = wpc
      BY <2>1, <3>1 DEF Has
    <3>2. ASSUME NEW t \in Threads, UseCompiler(t), wpc' # wpc
          PROVE  \A g \in Gens, w \in Workers : Has(g, w) => Has(g, w)'
      <4>1. wpc' = [wpc EXCEPT ![started + 1] = [w \in Workers |-> "top"]]
        BY <3>2 DEF UseCompiler
      <4>2. \A g \in Gens, w \in Workers : wpc'[g][w] = wpc[g][w] \/ wpc'[g][w] = "top"
        BY <1>0, <4>1
      <4> QED  BY <2>1, <4>2 DEF Has
    <3>3. wpc' = wpc \/ \E t \in Threads : UseCompiler(t)
      BY <1>1 DEF SpawnTask, Shutdown, Stop, StopTakes, StopSignals, Advance, TakeTask,
             TaskCompleted, TaskPanics, DrainStarts, DrainEnds, Enqueue, Invalidate, workVars, vars
    <3> QED  BY <3>1, <3>2, <3>3
  <2>4. CASE f \in compiling[v]
    <3>1. Somewhere(v, f)
      BY <2>4 DEF MarkedIsSomewhere
    <3>2. \A g \in Gens : \A n \in DOMAIN jobs[g] : jobs[g][n] = <<v, f>> => Somewhere(v, f)'
      BY <2>1 DEF Somewhere
    <3>3. \A g \in Gens, w \in Workers : Has(g, w) /\ wjob[g][w] = <<v, f>> => Somewhere(v, f)'
      BY <2>1, <2>3 DEF Somewhere
    <3>4. \A n \in DOMAIN replies[v] : replies[v][n][1] = f => Somewhere(v, f)'
      BY <2>2 DEF Somewhere
    <3> QED  BY <1>6, <3>1, <3>2, <3>3, <3>4, SomewhereFrame
  <2>5. CASE f \notin compiling[v]
    <3>1. PICK u \in VMs, e \in Funcs : Enqueue(u, e) /\ compiling' # compiling
      BY <1>1, <2>5 DEF SpawnTask, Shutdown, Stop, StopTakes, StopSignals, Advance, TakeTask,
             UseCompiler, TaskCompleted, TaskPanics, DrainStarts, DrainEnds, Invalidate,
             jitVars, vars
    <3>2. /\ compiling' = [compiling EXCEPT ![u] = @ \cup {e}]
          /\ jobs' = [jobs EXCEPT ![jobTx[u]] = Append(@, <<u, e>>)]
      BY <3>1 DEF Enqueue
    <3>3. u = v /\ e = f
      BY <1>0, <2>5, <3>2
    <3>4. jobTx[v] \in Gens
      <4>1. PICK t \in Threads : vm[t] = v /\ tpc[t] = "run"
        BY <3>1, <3>3 DEF Enqueue, At, Runner
      <4>2. jobTx[v] # 0
        BY <4>1 DEF Structure, Generations
      <4> QED  BY <4>2, GenRange
    <3>5. jobs'[jobTx[v]] = Append(jobs[jobTx[v]], <<v, f>>) /\ jobs[jobTx[v]] \in Seq(Messages)
      BY <1>0, <3>2, <3>3, <3>4
    <3>6. <<v, f>> \in Messages
      BY <1>6 DEF Messages, Pointers
    <3>7. LET s == Append(jobs[jobTx[v]], <<v, f>>)
          IN  Len(jobs[jobTx[v]]) + 1 \in DOMAIN s /\ s[Len(jobs[jobTx[v]]) + 1] = <<v, f>>
      BY <3>5, <3>6, AppendAt
    <3> QED  BY <3>4, <3>5, <3>7 DEF Somewhere
  <2> QED  BY <2>4, <2>5
<1>2. ASSUME NEW u \in VMs, DrainInstalls(u) PROVE Somewhere(v, f)'
  <2>1. /\ jobs' = jobs /\ wjob' = wjob /\ wpc' = wpc /\ replies[u] # <<>>
        /\ compiling' = [compiling EXCEPT ![u] = @ \ {Head(replies[u])[1]}]
        /\ replies' = [replies EXCEPT ![u] = Tail(@)]
    BY <1>2 DEF DrainInstalls, workVars
  <2>2. f \in compiling[v] /\ (u = v => f # Head(replies[v])[1])
    BY <1>0, <2>1
  <2>3. Head(replies[u]) = replies[u][1]
    BY <1>0, <2>1, TailAt
  <2>4. \A n \in DOMAIN replies[v] : replies[v][n][1] = f => Somewhere(v, f)'
    <3> SUFFICES ASSUME NEW n \in DOMAIN replies[v], replies[v][n][1] = f
                 PROVE  \E m \in DOMAIN replies'[v] : replies'[v][m][1] = f
      BY DEF Somewhere
    <3>1. CASE u # v
      <4>1. replies'[v] = replies[v]
        BY <1>0, <2>1, <3>1
      <4> QED  BY <4>1
    <3>2. CASE u = v
      <4>1. n # 1
        BY <2>2, <2>3, <3>2
      <4>2. n - 1 \in DOMAIN Tail(replies[v]) /\ Tail(replies[v])[n - 1] = replies[v][n]
        BY <1>0, <2>1, <3>2, <4>1, TailFrom
      <4>3. replies'[v] = Tail(replies[v])
        BY <1>0, <2>1, <3>2
      <4> QED  BY <4>2, <4>3
    <3> QED  BY <3>1, <3>2
  <2>5. Somewhere(v, f)
    BY <2>2 DEF MarkedIsSomewhere
  <2>6. \A g \in Gens : \A n \in DOMAIN jobs[g] : jobs[g][n] = <<v, f>> => Somewhere(v, f)'
    BY <2>1 DEF Somewhere
  <2>7. \A g \in Gens, w \in Workers : Has(g, w) /\ wjob[g][w] = <<v, f>> => Somewhere(v, f)'
    BY <2>1 DEF Somewhere, Has
  <2> QED  BY <1>6, <2>4, <2>5, <2>6, <2>7, SomewhereFrame
<1>3. ASSUME NEW g \in Gens, NEW w \in Workers, Receive(g, w) PROVE Somewhere(v, f)'
  <2>1. /\ wjob' = [wjob EXCEPT ![g][w] = Head(jobs[g])]
        /\ jobs' = [jobs EXCEPT ![g] = Tail(@)] /\ jobs[g] # <<>>
        /\ wpc' = [wpc EXCEPT ![g][w] = "check"] /\ wpc[g][w] = "recv" /\ wjob[g][w] = None
        /\ replies' = replies /\ compiling' = compiling
    BY <1>3 DEF Receive, WGoto, jitVars, replyVars, Structure, InHand
  <2>2. Somewhere(v, f)
    BY <2>1 DEF MarkedIsSomewhere
  <2>3. \A n \in DOMAIN replies[v] : replies[v][n][1] = f => Somewhere(v, f)'
    BY <2>1 DEF Somewhere
  <2>4. \A h \in Gens, x \in Workers : Has(h, x) /\ wjob[h][x] = <<v, f>> => Somewhere(v, f)'
    <3> SUFFICES ASSUME NEW h \in Gens, NEW x \in Workers, Has(h, x), wjob[h][x] = <<v, f>>
                 PROVE  Has(h, x)' /\ wjob'[h][x] = <<v, f>>
      BY DEF Somewhere
    <3>1. h # g \/ x # w
      BY <2>1, SignalNoPointer DEF Has
    <3>2. wjob'[h][x] = wjob[h][x] /\ wpc'[h][x] = wpc[h][x]
      BY <1>0, <2>1, <3>1
    <3> QED  BY <3>2 DEF Has
  <2>5. \A h \in Gens : \A n \in DOMAIN jobs[h] : jobs[h][n] = <<v, f>> => Somewhere(v, f)'
    <3> SUFFICES ASSUME NEW h \in Gens, NEW n \in DOMAIN jobs[h], jobs[h][n] = <<v, f>>
                 PROVE  Somewhere(v, f)'
      OBVIOUS
    <3>1. CASE h # g
      <4>1. jobs'[h] = jobs[h]
        BY <1>0, <2>1, <3>1
      <4> QED  BY <4>1 DEF Somewhere
    <3>2. CASE h = g /\ n = 1
      <4>1. wjob'[g][w] = <<v, f>> /\ wpc'[g][w] = "check"
        BY <1>0, <2>1, <3>2, TailAt
      <4> QED  BY <1>6, <4>1 DEF Somewhere, Has
    <3>3. CASE h = g /\ n # 1
      <4>1. n - 1 \in DOMAIN Tail(jobs[g]) /\ Tail(jobs[g])[n - 1] = <<v, f>>
        BY <1>0, <2>1, <3>3, TailFrom
      <4>2. jobs'[g] = Tail(jobs[g])
        BY <1>0, <2>1
      <4> QED  BY <4>1, <4>2 DEF Somewhere
    <3> QED  BY <3>1, <3>2, <3>3
  <2> QED  BY <1>6, <2>2, <2>3, <2>4, <2>5, SomewhereFrame
<1>4. ASSUME NEW g \in Gens, NEW w \in Workers, Reply(g, w) PROVE Somewhere(v, f)'
  <2>1. /\ wjob' = wjob /\ jobs' = jobs /\ compiling' = compiling
        /\ wpc' = [wpc EXCEPT ![g][w] = "flag"] /\ wpc[g][w] = "reply" /\ wjob[g][w] \in Pointers
    BY <1>4 DEF Reply, WGoto, jitVars, Structure, InHand
  <2>2. PICK result \in {"entry", "ineligible"} :
          replies' = [replies EXCEPT ![wjob[g][w][1]] = Append(@, <<wjob[g][w][2], result>>)]
    BY <1>4 DEF Reply
  <2>3. <<wjob[g][w][2], result>> \in Results /\ wjob[g][w][1] \in VMs
    BY <2>1 DEF Pointers, Results
  <2>4. LET s == Append(replies[v], <<wjob[g][w][2], result>>)
            last == Len(replies[v]) + 1
        IN  /\ \A n \in DOMAIN replies[v] : n \in DOMAIN s /\ s[n] = replies[v][n]
            /\ last \in DOMAIN s /\ s[last] = <<wjob[g][w][2], result>>
    <3>1. replies[v] \in Seq(Results)
      BY <1>0
    <3> QED  BY <2>3, <3>1, AppendAt
  <2>5. \A n \in DOMAIN replies[v] : replies[v][n][1] = f => Somewhere(v, f)'
    <3>1. replies'[v] \in {replies[v], Append(replies[v], <<wjob[g][w][2], result>>)}
      BY <1>0, <2>2, <2>3
    <3>2. \A n \in DOMAIN replies[v] : n \in DOMAIN replies'[v] /\ replies'[v][n] = replies[v][n]
      BY <2>4, <3>1
    <3> QED  BY <3>2 DEF Somewhere
  <2>6. \A h \in Gens, x \in Workers : Has(h, x) /\ wjob[h][x] = <<v, f>> => Somewhere(v, f)'
    <3> SUFFICES ASSUME NEW h \in Gens, NEW x \in Workers, Has(h, x), wjob[h][x] = <<v, f>>
                 PROVE  Somewhere(v, f)'
      OBVIOUS
    <3>1. CASE h # g \/ x # w
      <4>1. wpc'[h][x] = wpc[h][x] /\ wjob'[h][x] = wjob[h][x]
        BY <1>0, <2>1, <3>1
      <4> QED  BY <4>1 DEF Somewhere, Has
    <3>2. CASE h = g /\ x = w
      <4>1. wjob[g][w][1] = v /\ wjob[g][w][2] = f
        BY <3>2
      <4>2. replies'[v] = Append(replies[v], <<wjob[g][w][2], result>>)
        BY <1>0, <2>2, <4>1
      <4>3. Len(replies[v]) + 1 \in DOMAIN replies'[v] /\ replies'[v][Len(replies[v]) + 1][1] = f
        BY <2>4, <4>1, <4>2
      <4> QED  BY <4>3 DEF Somewhere
    <3> QED  BY <3>1, <3>2
  <2>7. \A h \in Gens : \A n \in DOMAIN jobs[h] : jobs[h][n] = <<v, f>> => Somewhere(v, f)'
    BY <2>1 DEF Somewhere
  <2>8. Somewhere(v, f)
    BY <2>1 DEF MarkedIsSomewhere
  <2> QED  BY <1>6, <2>5, <2>6, <2>7, <2>8, SomewhereFrame
<1>5. ASSUME NEW g \in Gens, NEW w \in Workers, Work(g, w), ~Receive(g, w), ~Reply(g, w)
      PROVE  Somewhere(v, f)'
  <2>1. /\ replies' = replies /\ compiling' = compiling
    BY <1>5 DEF Work, LoopTop, CheckJob, CompileEnds, RaiseFlag, jitVars, replyVars
  <2>2. Somewhere(v, f)
    BY <2>1 DEF MarkedIsSomewhere
  <2>3. \/ jobs' = jobs
        \/ /\ jobs' = [jobs EXCEPT ![g] = <<>>]
           /\ ({jobs[g][n] : n \in DOMAIN jobs[g]} \ {None, Signal}) \subseteq dropped'
    BY <1>5 DEF Work, LoopTop, CheckJob, CompileEnds, RaiseFlag, Leaves
  <2>4. \A h \in Gens : \A n \in DOMAIN jobs[h] : jobs[h][n] = <<v, f>> => Somewhere(v, f)'
    <3> SUFFICES ASSUME NEW h \in Gens, NEW n \in DOMAIN jobs[h], jobs[h][n] = <<v, f>>
                 PROVE  Somewhere(v, f)'
      OBVIOUS
    <3>1. CASE jobs'[h] = jobs[h]
      BY <3>1 DEF Somewhere
    <3>2. CASE h = g /\ ({jobs[g][m] : m \in DOMAIN jobs[g]} \ {None, Signal}) \subseteq dropped'
      BY <1>6, <3>2, SignalNoPointer DEF Somewhere
    <3> QED  BY <1>0, <2>3, <3>1, <3>2
  <2>5. \A h \in Gens, x \in Workers : Has(h, x) /\ wjob[h][x] = <<v, f>> => Somewhere(v, f)'
    <3> SUFFICES ASSUME NEW h \in Gens, NEW x \in Workers, Has(h, x), wjob[h][x] = <<v, f>>
                 PROVE  Somewhere(v, f)'
      OBVIOUS
    <3>1. CASE h # g \/ x # w
      <4>1. wpc'[h][x] = wpc[h][x] /\ wjob'[h][x] = wjob[h][x]
        BY <1>5, <3>1, WorkerFrame
      <4> QED  BY <4>1 DEF Somewhere, Has
    <3>2. CASE h = g /\ x = w
      <4>1. wpc[g][w] # "flag" /\ wjob[g][w] # None
        BY <3>2, SignalNoPointer DEF Has
      <4>2. CASE shutdown[g]
        <5>1. ({wjob[g][w]} \ {None, Signal}) \subseteq dropped'
          BY <1>5, <4>1, <4>2 DEF Work, LoopTop, CheckJob, CompileEnds, RaiseFlag, Leaves
        <5> QED  BY <1>6, <3>2, <5>1, SignalNoPointer DEF Somewhere
      <4>3. CASE ~shutdown[g]
        <5>1. wjob' = wjob /\ (wpc'[g][w] = "recv" \/ wpc'[g][w] = "compile" \/ wpc'[g][w] = "reply")
          BY <1>0, <1>5, <4>1, <4>3 DEF Work, LoopTop, CheckJob, CompileEnds, RaiseFlag, WGoto
        <5> QED  BY <3>2, <5>1 DEF Somewhere, Has
      <4> QED  BY <4>2, <4>3
    <3> QED  BY <3>1, <3>2
  <2>6. \A n \in DOMAIN replies[v] : replies[v][n][1] = f => Somewhere(v, f)'
    BY <2>1 DEF Somewhere
  <2> QED  BY <1>6, <2>2, <2>4, <2>5, <2>6, SomewhereFrame
<1> QED  BY <1>1, <1>2, <1>3, <1>4, <1>5 DEF Next, Drain

AnswerInv == Structure /\ ResultsAreAnnounced /\ ChannelsAreRead /\ MarkedIsSomewhere

\* What a VM asked for is under way, and what was answered is announced.
LEMMA AnswerInvAnswers == AnswerInv => CompilesAreAnswered
<1> SUFFICES ASSUME AnswerInv, NEW v \in VMs, NEW f \in compiling[v]
             PROVE  \/ \E a \in Away : a[4] = <<v, f>>
                    \/ <<v, f>> \in dropped
  BY DEF AnswerInv, CompilesAreAnswered, CompilingMeansInFlight
<1>1. Structure /\ ChannelsAreRead /\ Somewhere(v, f)
  BY DEF AnswerInv, MarkedIsSomewhere
<1>2. <<v, f>> \in Pointers
  BY <1>1 DEF Structure, Shapes, Pointers
<1>3. ASSUME NEW g \in Gens, NEW n \in DOMAIN jobs[g], jobs[g][n] = <<v, f>>
      PROVE  \E a \in Away : a[4] = <<v, f>>
  <2>1. jobs[g] # <<>> /\ Connected(g)
    BY <1>1, NoPlaces DEF ChannelsAreRead
  <2>2. <<"job", g, n, jobs[g][n]>> \in InChannel
    BY <1>2, <1>3, <2>1, SignalNoPointer DEF InChannel
  <2> QED  BY <1>3, <2>2 DEF Away
<1>4. ASSUME NEW g \in Gens, NEW w \in Workers, Has(g, w), wjob[g][w] = <<v, f>>
      PROVE  \E a \in Away : a[4] = <<v, f>>
  <2>1. <<"worker", g, w, wjob[g][w]>> \in AtWorker
    BY <1>4, SignalNoPointer DEF AtWorker, Has
  <2> QED  BY <1>4, <2>1 DEF Away
<1>5. ASSUME NEW n \in DOMAIN replies[v], replies[v][n][1] = f
      PROVE  \E a \in Away : a[4] = <<v, f>>
  <2>1. <<"reply", v, n, <<v, replies[v][n][1]>>>> \in InReply
    BY DEF InReply
  <2> QED  BY <1>5, <2>1 DEF Away
<1> QED  BY <1>1, <1>3, <1>4, <1>5 DEF Somewhere

\* A function marked as being compiled has a job or a result on its way, unless its very
\* job is one a worker of a stopped compiler left unanswered, which keeps the mark on for
\* good (MarkMeansInFlight does not hold); and a result that was sent is seen: the
\* VM's flag is up, about to be raised, or the VM is taking results.
THEOREM Answers == Spec => []CompilesAreAnswered
<1>1. Init => AnswerInv
  <2> SUFFICES ASSUME Init PROVE AnswerInv
    OBVIOUS
  <2>1. /\ \A g \in Gens : jobs[g] = <<>> /\ DOMAIN jobs[g] = {}
        /\ \A v \in VMs : replies[v] = <<>> /\ compiling[v] = {}
        /\ \A g \in Gens, w \in Workers : wjob[g][w] = None
    BY NoPlaces DEF Init
  <2> QED  BY <2>1, StructureInit, SignalNoPointer
           DEF AnswerInv, ResultsAreAnnounced, ChannelsAreRead, MarkedIsSomewhere
<1>2. AnswerInv /\ [Next]_vars => AnswerInv'
  BY StructureNext, AnnouncedNext, ReadNext, SomewhereNext DEF AnswerInv
<1>3. AnswerInv => CompilesAreAnswered
  BY AnswerInvAnswers
<1> QED  BY <1>1, <1>2, <1>3, PTL DEF Spec
=============================================================================
