---------------------------- MODULE JitTiersProofs ----------------------------
(* Proofs about JitTiers, for any functions, bets, loops and limits: what a    *)
(* JitInfo says of a function's code is what the code is, a function given up  *)
(* on never has code again, and nested interpreters are bounded.               *)
EXTENDS JitTiers, FiniteSetTheorems, SequenceTheorems, NaturalsInduction,
        WellFoundedInduction, TLAPS

\* TiersAreInStep, for one function.
InStep(j) ==
    /\ j.entry # None => j.osr_ids = j.entry /\ j.tier = j.entry.tier
    /\ j.baseline # None =>
         /\ j.baseline_osr_ids = j.baseline /\ j.baseline.tier = 1
         /\ j.tier = 2
    /\ j.entry = None <=> j.tier = 0
    /\ j.tier2 = "compiling" => j.compiling \/ j.ineligible
    /\ j.tier2 = "installed" => j.tier = 2
    /\ j.tier = 2 => j.tier2 \in {"installed", "compiling", "declined"}

\* What is in flight for a function: at most one job or one result, while it is
\* marked as being compiled.  Tier 1 is only asked for while there is no code.
Unoptimized(j) == j.entry = None /\ j.tier2 \in {"none", "declined"}
InFlight(j, b, r) ==
    /\ b # None \/ r # None => j.compiling
    /\ b = None \/ r = None
    /\ b # None /\ ~b.wanted => Unoptimized(j)
    /\ r # None /\ ~r.wanted => Unoptimized(j) /\ (r.code # None => r.code.tier = 1)

\* The inductive invariant.
TiersInv ==
    /\ TypeOK
    /\ \A f \in Funcs : InStep(jit[f]) /\ InFlight(jit[f], job[f], result[f])

-----------------------------------------------------------------------------
(* What happens to a JitInfo *)

\* k is j with code taken away: by a deopt, a bet on a list's elements that did
\* not hold, or for good.
Less(j, k) ==
    /\ k \in JitInfo /\ InStep(k)
    /\ k.compiling = j.compiling
    /\ j.ineligible => k.ineligible
    /\ j.entry = None => k.entry = None
    /\ j.tier2 \in {"none", "declined"} => k.tier2 \in {"none", "declined"}

\* Taking code away disturbs nothing in flight.
LEMMA LessInFlight ==
    ASSUME NEW j, NEW k, Less(j, k), NEW b, NEW r, InFlight(j, b, r)
    PROVE  InFlight(k, b, r)
BY DEF Less, InFlight, Unoptimized

\* Setting a field of a JitInfo to a value it can have.
Tier2States == {"none", "compiling", "installed", "declined"}
LEMMA Setting ==
    ASSUME NEW j \in JitInfo
    PROVE  /\ \A c \in Code \cup {None} :
                /\ [j EXCEPT !.entry = c] \in JitInfo
                /\ [j EXCEPT !.osr_ids = c] \in JitInfo
                /\ [j EXCEPT !.baseline = c] \in JitInfo
                /\ [j EXCEPT !.baseline_osr_ids = c] \in JitInfo
           /\ \A n \in 0..2 : [j EXCEPT !.tier = n] \in JitInfo
           /\ \A t \in Tier2States : [j EXCEPT !.tier2 = t] \in JitInfo
           /\ \A b \in BOOLEAN :
                /\ [j EXCEPT !.profiling = b] \in JitInfo
                /\ [j EXCEPT !.compiling = b] \in JitInfo
                /\ [j EXCEPT !.ineligible = b] \in JitInfo
                /\ [j EXCEPT !.speculation_off = b] \in JitInfo
                /\ [j EXCEPT !.elem_speculation_off = b] \in JitInfo
           /\ \A n \in 0..(MaxInvalidations + 1) : [j EXCEPT !.invalidations = n] \in JitInfo
           /\ \A s \in SUBSET Sites : [j EXCEPT !.deopt_sites = s] \in JitInfo
BY DEF JitInfo, Tier2States

\* The tiers are numbers.
LEMMA Tiers == 0 \in 0..2 /\ 1 \in 0..2 /\ 2 \in 0..2
OBVIOUS

\* The types of the fields the proofs are about.
LEMMA FieldTypes ==
    ASSUME NEW j \in JitInfo
    PROVE  /\ {j.entry, j.osr_ids, j.baseline, j.baseline_osr_ids} \subseteq Code \cup {None}
           /\ j.tier \in 0..2 /\ j.tier2 \in Tier2States
           /\ {j.profiling, j.compiling, j.ineligible, j.speculation_off,
               j.elem_speculation_off} \subseteq BOOLEAN
           /\ j.invalidations \in 0..(MaxInvalidations + 1) /\ j.deopt_sites \in SUBSET Sites
BY DEF JitInfo, Tier2States

\* What drop_compiled leaves.
LEMMA DroppedFields ==
    ASSUME NEW j \in JitInfo
    PROVE  /\ Dropped(j).entry = None /\ Dropped(j).tier = 0 /\ Dropped(j).baseline = None
           /\ Dropped(j).compiling = j.compiling /\ Dropped(j).ineligible = j.ineligible
           /\ Dropped(j).tier2 = IF j.tier2 = "declined" THEN "declined" ELSE "none"
           /\ Dropped(j).invalidations = j.invalidations
BY DEF Dropped, JitInfo

\* It stays a JitInfo.
LEMMA DroppedType ==
    ASSUME NEW j \in JitInfo
    PROVE  Dropped(j) \in JitInfo
<1> USE Tiers
<1> DEFINE a1 == [j EXCEPT !.entry = None]
           a2 == [a1 EXCEPT !.tier = 0]
           a3 == [a2 EXCEPT !.baseline = None]
           a4 == [a3 EXCEPT !.baseline_osr_ids = None]
           a5 == [a4 EXCEPT !.profiling = FALSE]
           t == IF a5.tier2 = "declined" THEN a5.tier2 ELSE "none"
           a6 == [a5 EXCEPT !.tier2 = t]
<1>1. Dropped(j) = a6
  BY DEF Dropped
<1>2. a1 \in JitInfo
  BY Setting
<1> HIDE DEF a1
<1>3. a2 \in JitInfo
  BY <1>2, Setting
<1> HIDE DEF a2
<1>4. a3 \in JitInfo
  BY <1>3, Setting
<1> HIDE DEF a3
<1>5. a4 \in JitInfo
  BY <1>4, Setting
<1> HIDE DEF a4
<1>6. a5 \in JitInfo
  BY <1>5, Setting
<1> HIDE DEF a5
<1>7. t \in Tier2States
  BY <1>6, FieldTypes DEF Tier2States
<1> HIDE DEF t
<1>8. a6 \in JitInfo
  BY <1>6, <1>7, Setting
<1> QED
  BY <1>1, <1>8

\* Dropping the code takes code away.
LEMMA DroppedIsLess ==
    ASSUME NEW j \in JitInfo, InStep(j)
    PROVE  Less(j, Dropped(j)) /\ Dropped(j).entry = None
<1>1. Dropped(j) \in JitInfo
  BY DroppedType
<1>2. InStep(Dropped(j))
  BY DroppedFields DEF InStep
<1> QED
  BY <1>1, <1>2, DroppedFields DEF Less

\* So does invalidating it.
LEMMA InvalidatedIsLess ==
    ASSUME NEW j \in JitInfo, InStep(j), NEW from_tier2 \in BOOLEAN
    PROVE  Less(j, Invalidated(j, from_tier2))
<1> USE Tiers
<1> DEFINE a1 == [j EXCEPT !.speculation_off = j.speculation_off \/ j.invalidations = MaxInvalidations]
           k == [a1 EXCEPT !.invalidations = a1.invalidations + 1]
           b1 == [k EXCEPT !.entry = j.baseline]
           b2 == [b1 EXCEPT !.osr_ids = j.baseline_osr_ids]
           b3 == [b2 EXCEPT !.baseline = None]
           b4 == [b3 EXCEPT !.baseline_osr_ids = None]
           b5 == [b4 EXCEPT !.tier = 1]
           back == [b5 EXCEPT !.tier2 = "none"]
<1>1. Invalidated(j, from_tier2)
        = IF j.invalidations > MaxInvalidations THEN j
          ELSE IF from_tier2 /\ j.tier = 2 /\ j.baseline # None THEN back
          ELSE Dropped(k)
  BY DEF Invalidated
<1>2. Less(j, j)
  BY DEF Less
<1>3. CASE ~ (j.invalidations > MaxInvalidations)
  <2> DEFINE off == j.speculation_off \/ j.invalidations = MaxInvalidations
  <2>0. off \in BOOLEAN
    OBVIOUS
  <2>1. a1 \in JitInfo /\ a1.invalidations = j.invalidations
    <3>1. a1 = [j EXCEPT !.speculation_off = off]
      OBVIOUS
    <3>2. a1.invalidations = j.invalidations
      BY DEF JitInfo
    <3> HIDE DEF off
    <3> QED
      BY <2>0, <3>1, <3>2, Setting
  <2>2. /\ k.entry = j.entry /\ k.osr_ids = j.osr_ids /\ k.baseline = j.baseline
        /\ k.baseline_osr_ids = j.baseline_osr_ids /\ k.tier = j.tier /\ k.tier2 = j.tier2
        /\ k.compiling = j.compiling /\ k.ineligible = j.ineligible
    BY DEF JitInfo
  <2> HIDE DEF a1
  <2>3. a1.invalidations + 1 \in 0..(MaxInvalidations + 1)
    BY <1>3, <2>1, FieldTypes, TiersAssumption
  <2>4. k \in JitInfo
    BY <2>1, <2>3, Setting
  <2> HIDE DEF k
  <2>5. InStep(k)
    BY <2>2 DEF InStep
  <2>6. Less(j, Dropped(k))
    BY <2>2, <2>4, <2>5, DroppedIsLess DEF Less
  <2>7. CASE from_tier2 /\ j.tier = 2 /\ j.baseline # None
    <3>1. /\ back.entry = j.baseline /\ back.osr_ids = j.baseline_osr_ids
          /\ back.baseline = None /\ back.tier = 1 /\ back.tier2 = "none"
          /\ back.compiling = j.compiling /\ back.ineligible = j.ineligible
      BY <2>2, <2>4 DEF JitInfo
    <3>2. b1 \in JitInfo
      BY <2>4, Setting, FieldTypes
    <3> HIDE DEF b1
    <3>3. b2 \in JitInfo
      BY <3>2, Setting, FieldTypes
    <3> HIDE DEF b2
    <3>4. b3 \in JitInfo
      BY <3>3, Setting
    <3> HIDE DEF b3
    <3>5. b4 \in JitInfo
      BY <3>4, Setting
    <3> HIDE DEF b4
    <3>6. b5 \in JitInfo
      BY <3>5, Setting
    <3> HIDE DEF b5
    <3>7. back \in JitInfo
      BY <3>6, Setting DEF Tier2States
    <3> HIDE DEF back
    <3>8. InStep(back) /\ j.entry # None
      BY <2>7, <3>1 DEF InStep
    <3>9. Less(j, back)
      BY <3>1, <3>7, <3>8 DEF Less
    <3> QED
      BY <1>1, <1>3, <2>7, <3>9
  <2> QED
    BY <1>1, <1>3, <2>6, <2>7
<1> QED
  BY <1>1, <1>2, <1>3

\* And giving up the bets on list elements.
LEMMA ElemMissedIsLess ==
    ASSUME NEW j \in JitInfo, InStep(j)
    PROVE  Less(j, ElemMissed(j))
<1> DEFINE k == [j EXCEPT !.elem_speculation_off = TRUE]
           n == [k EXCEPT !.invalidations = k.invalidations + 1]
<1>1. ElemMissed(j) = IF j.elem_speculation_off \/ j.invalidations > MaxInvalidations THEN k
                      ELSE Dropped(n)
  BY DEF ElemMissed
<1>2. k \in JitInfo
  BY Setting
<1>3. /\ k.entry = j.entry /\ k.osr_ids = j.osr_ids /\ k.baseline = j.baseline
      /\ k.baseline_osr_ids = j.baseline_osr_ids /\ k.tier = j.tier /\ k.tier2 = j.tier2
      /\ k.compiling = j.compiling /\ k.ineligible = j.ineligible
      /\ k.invalidations = j.invalidations
  BY DEF JitInfo
<1> HIDE DEF k
<1>4. Less(j, k)
  BY <1>2, <1>3 DEF Less, InStep
<1>5. CASE ~ (j.invalidations > MaxInvalidations)
  <2>1. k.invalidations + 1 \in 0..(MaxInvalidations + 1)
    BY <1>3, <1>5, FieldTypes, TiersAssumption
  <2>2. n \in JitInfo
    BY <1>2, <2>1, Setting
  <2>3. /\ n.entry = k.entry /\ n.osr_ids = k.osr_ids /\ n.baseline = k.baseline
        /\ n.baseline_osr_ids = k.baseline_osr_ids /\ n.tier = k.tier /\ n.tier2 = k.tier2
        /\ n.compiling = k.compiling /\ n.ineligible = k.ineligible
    BY <1>2 DEF JitInfo
  <2> HIDE DEF n
  <2>4. InStep(n)
    BY <1>4, <2>3 DEF InStep, Less
  <2>5. Less(n, Dropped(n))
    BY <2>2, <2>4, DroppedIsLess
  <2>6. Less(j, Dropped(n))
    BY <1>3, <2>3, <2>5 DEF Less
  <2> QED
    BY <1>1, <1>4, <2>6
<1> QED
  BY <1>1, <1>4, <1>5
\* Code put in a JitInfo, with the loops it can be entered at.
WithCode(j, c) == [j EXCEPT !.tier = c.tier, !.osr_ids = c, !.entry = c]

\* It is a JitInfo, and the rest of it is as it was.
LEMMA WithCodeIs ==
    ASSUME NEW j \in JitInfo, NEW c \in Code
    PROVE  /\ WithCode(j, c) \in JitInfo
           /\ WithCode(j, c).entry = c /\ WithCode(j, c).osr_ids = c
           /\ WithCode(j, c).tier = c.tier /\ WithCode(j, c).tier2 = j.tier2
           /\ WithCode(j, c).baseline = j.baseline
           /\ WithCode(j, c).baseline_osr_ids = j.baseline_osr_ids
           /\ WithCode(j, c).ineligible = j.ineligible
<1> DEFINE a1 == [j EXCEPT !.tier = c.tier]
           a2 == [a1 EXCEPT !.osr_ids = c]
           a3 == [a2 EXCEPT !.entry = c]
<1>1. c.tier \in 0..2
  BY DEF Code
<1>2. WithCode(j, c) = a3
  BY DEF WithCode
<1>3. /\ a3.entry = c /\ a3.osr_ids = c /\ a3.tier = c.tier /\ a3.tier2 = j.tier2
      /\ a3.baseline = j.baseline /\ a3.baseline_osr_ids = j.baseline_osr_ids
      /\ a3.ineligible = j.ineligible
  BY DEF JitInfo
<1>4. a1 \in JitInfo
  BY <1>1, Setting
<1> HIDE DEF a1
<1>5. a2 \in JitInfo
  BY <1>4, Setting
<1> HIDE DEF a2
<1>6. a3 \in JitInfo
  BY <1>5, Setting
<1> QED
  BY <1>2, <1>3, <1>6

\* A compile that came back with code for tier 2, with code for tier 1, or with
\* none, before it stops being marked as under way.
SecondIn(j, c) ==
    WithCode([j EXCEPT !.baseline = IF j.tier # 2 THEN j.entry ELSE @,
                       !.baseline_osr_ids = IF j.tier # 2 THEN j.osr_ids ELSE @,
                       !.tier2 = "installed"], c)
FirstIn(j, c, wanted) ==
    WithCode([j EXCEPT !.baseline = None, !.baseline_osr_ids = None,
                       !.profiling = c.profiling,
                       !.tier2 = IF wanted THEN "declined" ELSE @], c)
FailedIn(j, wanted) ==
    [j EXCEPT !.ineligible = TRUE, !.tier2 = IF wanted THEN "declined" ELSE @]

\* Tier 2's code keeps the tier-1 code below it.
LEMMA SecondKeeps ==
    ASSUME NEW j \in JitInfo, InStep(j), NEW c \in Code, c.tier = 2, c # None,
           NEW k, k = SecondIn(j, c)
    PROVE  /\ k \in JitInfo /\ InStep(k) /\ k.entry = c /\ k.tier2 = "installed"
           /\ k.ineligible = j.ineligible
<1> DEFINE e == IF j.tier # 2 THEN j.entry ELSE j.baseline
           o == IF j.tier # 2 THEN j.osr_ids ELSE j.baseline_osr_ids
           a1 == [j EXCEPT !.baseline = e]
           a2 == [a1 EXCEPT !.baseline_osr_ids = o]
           a3 == [a2 EXCEPT !.tier2 = "installed"]
<1>1. e \in Code \cup {None} /\ o \in Code \cup {None}
  BY FieldTypes
<1>2. k = WithCode(a3, c)
  BY DEF SecondIn
<1>3. /\ a3.baseline = e /\ a3.baseline_osr_ids = o /\ a3.tier2 = "installed"
      /\ a3.ineligible = j.ineligible
  BY DEF JitInfo
<1>4. e # None => o = e /\ e.tier = 1
  BY FieldTypes DEF InStep
<1> HIDE DEF e, o
<1>5. a1 \in JitInfo
  BY <1>1, Setting
<1> HIDE DEF a1
<1>6. a2 \in JitInfo
  BY <1>1, <1>5, Setting
<1> HIDE DEF a2
<1>7. a3 \in JitInfo
  BY <1>6, Setting DEF Tier2States
<1> HIDE DEF a3
<1>8. /\ k \in JitInfo /\ k.entry = c /\ k.osr_ids = c /\ k.tier = 2
      /\ k.baseline = e /\ k.baseline_osr_ids = o /\ k.tier2 = "installed"
      /\ k.ineligible = j.ineligible
  BY <1>2, <1>3, <1>7, WithCodeIs
<1> QED
  BY <1>4, <1>8 DEF InStep

\* Tier 1's code takes the place of everything.
LEMMA FirstKeeps ==
    ASSUME NEW j \in JitInfo, InStep(j), NEW c \in Code, c.tier # 2, c # None,
           NEW wanted \in BOOLEAN, ~wanted => Unoptimized(j),
           NEW k, k = FirstIn(j, c, wanted)
    PROVE  /\ k \in JitInfo /\ InStep(k) /\ k.entry = c /\ k.tier2 \in {"none", "declined"}
           /\ k.ineligible = j.ineligible
<1> DEFINE t == IF wanted THEN "declined" ELSE j.tier2
           a1 == [j EXCEPT !.baseline = None]
           a2 == [a1 EXCEPT !.baseline_osr_ids = None]
           a3 == [a2 EXCEPT !.profiling = c.profiling]
           a4 == [a3 EXCEPT !.tier2 = t]
<1>1. t \in {"none", "declined"}
  BY DEF Unoptimized
<1>2. k = WithCode(a4, c)
  BY DEF FirstIn
<1>3. a4.baseline = None /\ a4.tier2 = t /\ a4.ineligible = j.ineligible
  BY DEF JitInfo
<1>4. c.profiling \in BOOLEAN /\ c.tier = 1
  BY DEF Code
<1> HIDE DEF t
<1>5. a1 \in JitInfo
  BY Setting
<1> HIDE DEF a1
<1>6. a2 \in JitInfo
  BY <1>5, Setting
<1> HIDE DEF a2
<1>7. a3 \in JitInfo
  BY <1>4, <1>6, Setting
<1> HIDE DEF a3
<1>8. a4 \in JitInfo
  BY <1>1, <1>7, Setting DEF Tier2States
<1> HIDE DEF a4
<1>9. /\ k \in JitInfo /\ k.entry = c /\ k.osr_ids = c /\ k.tier = 1
      /\ k.baseline = None /\ k.tier2 = t /\ k.ineligible = j.ineligible
  BY <1>2, <1>3, <1>4, <1>8, WithCodeIs
<1> QED
  BY <1>1, <1>4, <1>9 DEF InStep

\* A compile that failed leaves the code there is.
LEMMA FailedKeeps ==
    ASSUME NEW j \in JitInfo, InStep(j), NEW wanted \in BOOLEAN,
           NEW k, k = FailedIn(j, wanted)
    PROVE  /\ k \in JitInfo /\ InStep(k)
           /\ k.entry = j.entry /\ k.ineligible
           /\ k.tier2 = IF wanted THEN "declined" ELSE j.tier2
<1> DEFINE t == IF wanted THEN "declined" ELSE j.tier2
           a1 == [j EXCEPT !.ineligible = TRUE]
           a2 == [a1 EXCEPT !.tier2 = t]
<1>1. t \in Tier2States
  BY FieldTypes DEF Tier2States
<1>2. k = a2
  BY DEF FailedIn
<1>3. /\ a2.entry = j.entry /\ a2.osr_ids = j.osr_ids /\ a2.tier = j.tier
      /\ a2.baseline = j.baseline /\ a2.baseline_osr_ids = j.baseline_osr_ids
      /\ a2.tier2 = t /\ a2.ineligible = TRUE
  BY DEF JitInfo
<1>4. a1 \in JitInfo
  BY Setting
<1> HIDE DEF a1
<1>5. a2 \in JitInfo
  BY <1>1, <1>4, Setting
<1> HIDE DEF a2
<1>6. InStep(k)
  BY <1>2, <1>3 DEF InStep
<1> QED
  BY <1>2, <1>3, <1>5, <1>6

\* The compile is not under way any more.
LEMMA Ended ==
    ASSUME NEW j \in JitInfo, InStep(j), j.tier2 = "compiling" => j.ineligible,
           NEW k, k = [j EXCEPT !.compiling = FALSE]
    PROVE  /\ k \in JitInfo /\ InStep(k) /\ ~k.compiling
           /\ k.entry = j.entry /\ k.tier2 = j.tier2 /\ k.ineligible = j.ineligible
<1>1. k \in JitInfo
  BY Setting
<1>2. /\ k.entry = j.entry /\ k.osr_ids = j.osr_ids /\ k.tier = j.tier
      /\ k.baseline = j.baseline /\ k.baseline_osr_ids = j.baseline_osr_ids
      /\ k.tier2 = j.tier2 /\ k.ineligible = j.ineligible /\ k.compiling = FALSE
  BY DEF JitInfo
<1> QED
  BY <1>1, <1>2 DEF InStep

\* drain_jit_results keeps a JitInfo in step.
LEMMA InstalledKeeps ==
    ASSUME NEW j \in JitInfo, InStep(j), NEW r \in Result, r # None, InFlight(j, None, r)
    PROVE  /\ Installed(j, r) \in JitInfo /\ InStep(Installed(j, r))
           /\ ~Installed(j, r).compiling
           /\ j.ineligible => Installed(j, r).ineligible
           /\ Installed(j, r).entry = None => Installed(j, r).tier2 \in {"none", "declined"}
<1>1. r.code \in Code \cup {None} /\ r.wanted \in BOOLEAN
  BY DEF Result
<1>2. ~r.wanted => Unoptimized(j) /\ (r.code # None => r.code.tier = 1)
  BY DEF InFlight
<1>3. CASE r.code = None
  <2> DEFINE k == FailedIn(j, r.wanted)
  <2>1. Installed(j, r) = [k EXCEPT !.compiling = FALSE]
    BY <1>3 DEF Installed, FailedIn
  <2>2. /\ k \in JitInfo /\ InStep(k) /\ k.entry = j.entry /\ k.ineligible
        /\ k.tier2 = IF r.wanted THEN "declined" ELSE j.tier2
    BY <1>1, FailedKeeps
  <2> HIDE DEF k
  <2>3. /\ Installed(j, r) \in JitInfo /\ InStep(Installed(j, r)) /\ ~Installed(j, r).compiling
        /\ Installed(j, r).tier2 = k.tier2 /\ Installed(j, r).ineligible = k.ineligible
    BY <2>1, <2>2, Ended
  <2> QED
    BY <1>1, <1>2, <2>2, <2>3 DEF Unoptimized
<1>4. CASE r.code # None /\ r.code.tier = 2
  <2> DEFINE k == SecondIn(j, r.code)
  <2>1. Installed(j, r) = [k EXCEPT !.compiling = FALSE]
    BY <1>4 DEF Installed, SecondIn, WithCode
  <2>2. /\ k \in JitInfo /\ InStep(k) /\ k.entry = r.code /\ k.tier2 = "installed"
        /\ k.ineligible = j.ineligible
    BY <1>1, <1>4, SecondKeeps
  <2> HIDE DEF k
  <2>3. /\ Installed(j, r) \in JitInfo /\ InStep(Installed(j, r)) /\ ~Installed(j, r).compiling
        /\ Installed(j, r).entry = k.entry /\ Installed(j, r).ineligible = k.ineligible
    BY <2>1, <2>2, Ended
  <2> QED
    BY <1>4, <2>2, <2>3
<1>5. CASE r.code # None /\ r.code.tier # 2
  <2> DEFINE k == FirstIn(j, r.code, r.wanted)
  <2>1. Installed(j, r) = [k EXCEPT !.compiling = FALSE]
    BY <1>5 DEF Installed, FirstIn, WithCode
  <2>2. /\ k \in JitInfo /\ InStep(k) /\ k.entry = r.code /\ k.tier2 \in {"none", "declined"}
        /\ k.ineligible = j.ineligible
    BY <1>1, <1>2, <1>5, FirstKeeps
  <2> HIDE DEF k
  <2>3. /\ Installed(j, r) \in JitInfo /\ InStep(Installed(j, r)) /\ ~Installed(j, r).compiling
        /\ Installed(j, r).entry = k.entry /\ Installed(j, r).ineligible = k.ineligible
    BY <2>1, <2>2, Ended
  <2> QED
    BY <1>5, <2>2, <2>3
<1> QED
  BY <1>3, <1>4, <1>5
-----------------------------------------------------------------------------
(* What happens to the functions *)

\* The functions' JitInfos js, the jobs b and the results r are in step; a function
\* given up on stays so.
Good(js, b, r) ==
    /\ js \in [Funcs -> JitInfo]
    /\ \A f \in Funcs : InStep(js[f]) /\ InFlight(js[f], b[f], r[f])
Sticky(j, k) ==
    j.ineligible =>
      /\ k.ineligible
      /\ j.entry = None \/ ~j.compiling => k.entry = None \/ ~k.compiling
      /\ ~j.compiling => ~k.compiling /\ (j.entry = None => k.entry = None)
AllSticky(js, ks) == \A f \in Funcs : Sticky(js[f], ks[f])
Nothing == [f \in Funcs |-> None]

\* Taking the code of one function away.
LEMMA LessKeeps ==
    ASSUME NEW js, NEW b, NEW r, Good(js, b, r), NEW f \in Funcs, NEW k, Less(js[f], k)
    PROVE  /\ Good([js EXCEPT ![f] = k], b, r)
           /\ AllSticky(js, [js EXCEPT ![f] = k])
<1> DEFINE ks == [js EXCEPT ![f] = k]
<1>1. k \in JitInfo /\ InStep(k) /\ InFlight(k, b[f], r[f]) /\ Sticky(js[f], k)
  BY LessInFlight DEF Good, Less, Sticky
<1>2. ks \in [Funcs -> JitInfo]
  BY <1>1 DEF Good
<1>3. \A g \in Funcs : ks[g] = IF g = f THEN k ELSE js[g]
  BY DEF Good
<1>4. \A g \in Funcs : Sticky(js[g], js[g])
  BY DEF Sticky
<1> HIDE DEF ks
<1>5. Good(ks, b, r)
  BY <1>1, <1>2, <1>3 DEF Good
<1>6. AllSticky(js, ks)
  BY <1>1, <1>3, <1>4 DEF AllSticky
<1> QED
  BY <1>5, <1>6 DEF ks

\* Doing nothing to a function is taking nothing away, and twice less is less.
LEMMA LessSame ==
    ASSUME NEW j \in JitInfo, InStep(j)
    PROVE  Less(j, j)
BY DEF Less

\* Less is transitive.
LEMMA LessTwice ==
    ASSUME NEW i, NEW j, NEW k, Less(i, j), Less(j, k)
    PROVE  Less(i, k)
BY DEF Less

\* Entering code takes at most the bets on list elements away.
LEMMA EntersKeeps ==
    ASSUME NEW js, NEW b, NEW r, Good(js, b, r), NEW f \in Funcs,
           NEW code \in Code, Enters(js, f, code)
    PROVE  Good(jit', b, r) /\ AllSticky(js, jit')
<1>1. code.elem \in BOOLEAN
  BY DEF Code
<1>2. jit' = js \/ jit' = [js EXCEPT ![f] = ElemMissed(js[f])]
  BY <1>1 DEF Enters
<1>3. Less(js[f], ElemMissed(js[f]))
  BY ElemMissedIsLess DEF Good
<1>4. CASE jit' = js
  BY <1>4 DEF AllSticky, Sticky
<1>5. CASE jit' = [js EXCEPT ![f] = ElemMissed(js[f])]
  <2>1. /\ Good([js EXCEPT ![f] = ElemMissed(js[f])], b, r)
        /\ AllSticky(js, [js EXCEPT ![f] = ElemMissed(js[f])])
    BY <1>3, LessKeeps
  <2> QED
    BY <1>5, <2>1
<1> QED
  BY <1>2, <1>4, <1>5

\* A compile asked for: of a function that is not being compiled, and for tier 1
\* only when it has no code.
LEMMA EnqueueKeeps ==
    ASSUME NEW js, Good(js, job, Nothing), job \in [Funcs -> Job \cup {None}],
           NEW f \in Funcs, NEW optimize \in BOOLEAN, NEW entries \in SUBSET Headers,
           ~js[f].compiling, optimize \/ ~tiered \/ Unoptimized(js[f]), tiered \in BOOLEAN,
           Enqueue(js, f, optimize, entries)
    PROVE  /\ Good(jit', job', Nothing) /\ job' \in [Funcs -> Job \cup {None}]
           /\ ~js[f].ineligible => AllSticky(js, jit')
<1> DEFINE j == js[f]
           wanted == optimize \/ ~tiered
           snapshot == [wanted  |-> wanted,
                        loops   |-> IF optimize /\ tiered THEN entries ELSE Headers,
                        profile |-> ~wanted /\ j.tier2 # "declined",
                        bets    |-> IF j.speculation_off THEN {} ELSE Sites \ j.deopt_sites,
                        elem    |-> ~j.elem_speculation_off]
           t == IF wanted THEN "compiling" ELSE j.tier2
           k == [j EXCEPT !.tier2 = t]
           sent == [k EXCEPT !.compiling = TRUE]
           k1 == [k EXCEPT !.compiling = FALSE]
           lost == [k1 EXCEPT !.ineligible = TRUE]
<1>1. j \in JitInfo /\ InStep(j) /\ ~j.compiling /\ job[f] = None /\ Nothing[f] = None
  BY DEF Good, InFlight, Nothing
<1>2. \/ /\ job' = [job EXCEPT ![f] = snapshot]
         /\ jit' = [js EXCEPT ![f] = sent]
      \/ /\ jit' = [js EXCEPT ![f] = lost]
         /\ job' = job
  BY DEF Enqueue
<1>3. snapshot \in Job /\ snapshot.wanted = wanted /\ wanted \in BOOLEAN
  <2>1. wanted \in BOOLEAN
    OBVIOUS
  <2> HIDE DEF wanted
  <2> QED
    BY <2>1 DEF Job
<1>4. t \in Tier2States /\ (wanted => t = "compiling") /\ (~wanted => t = j.tier2)
  BY <1>1, FieldTypes DEF Tier2States
<1>5. ~wanted => Unoptimized(j)
  OBVIOUS
<1> HIDE DEF wanted, snapshot, t
<1>6. /\ sent.entry = j.entry /\ sent.osr_ids = j.osr_ids /\ sent.tier = j.tier
      /\ sent.baseline = j.baseline /\ sent.baseline_osr_ids = j.baseline_osr_ids
      /\ sent.tier2 = t /\ sent.compiling = TRUE
  BY <1>1 DEF JitInfo
<1>7. /\ lost.entry = j.entry /\ lost.osr_ids = j.osr_ids /\ lost.tier = j.tier
      /\ lost.baseline = j.baseline /\ lost.baseline_osr_ids = j.baseline_osr_ids
      /\ lost.tier2 = t /\ lost.compiling = FALSE /\ lost.ineligible = TRUE
  BY <1>1 DEF JitInfo
<1>8. k \in JitInfo
  BY <1>1, <1>4, Setting
<1> HIDE DEF k
<1>9. sent \in JitInfo /\ k1 \in JitInfo
  BY <1>8, Setting
<1> HIDE DEF k1
<1>10. lost \in JitInfo
  BY <1>9, Setting
<1> HIDE DEF sent, lost
<1>11. InStep(sent) /\ InStep(lost)
  BY <1>1, <1>3, <1>4, <1>6, <1>7 DEF InStep
<1>12. CASE /\ job' = [job EXCEPT ![f] = snapshot]
            /\ jit' = [js EXCEPT ![f] = sent]
  <2>1. job' \in [Funcs -> Job \cup {None}]
    BY <1>3, <1>12
  <2>2. jit' \in [Funcs -> JitInfo]
    BY <1>9, <1>12 DEF Good
  <2>3. \A g \in Funcs : /\ job'[g] = IF g = f THEN snapshot ELSE job[g]
                         /\ jit'[g] = IF g = f THEN sent ELSE js[g]
    BY <1>12 DEF Good
  <2>4. InFlight(sent, snapshot, Nothing[f])
    BY <1>1, <1>3, <1>4, <1>5, <1>6 DEF InFlight, Unoptimized
  <2>5. \A g \in Funcs : InStep(jit'[g]) /\ InFlight(jit'[g], job'[g], Nothing[g])
    <3> SUFFICES ASSUME NEW g \in Funcs
                 PROVE  InStep(jit'[g]) /\ InFlight(jit'[g], job'[g], Nothing[g])
      OBVIOUS
    <3>1. CASE g = f
      BY <1>11, <2>3, <2>4, <3>1
    <3>2. CASE g # f
      BY <2>3, <3>2 DEF Good
    <3> QED
      BY <3>1, <3>2
  <2>6. ~j.ineligible => AllSticky(js, jit')
    BY <2>3 DEF AllSticky, Sticky
  <2> QED
    BY <2>1, <2>2, <2>5, <2>6 DEF Good
<1>13. CASE /\ jit' = [js EXCEPT ![f] = lost]
            /\ job' = job
  <2>1. jit' \in [Funcs -> JitInfo]
    BY <1>10, <1>13 DEF Good
  <2>2. \A g \in Funcs : jit'[g] = IF g = f THEN lost ELSE js[g]
    BY <1>13 DEF Good
  <2>3. InFlight(lost, None, Nothing[f])
    BY <1>1 DEF InFlight
  <2>4. \A g \in Funcs : InStep(jit'[g]) /\ InFlight(jit'[g], job[g], Nothing[g])
    <3> SUFFICES ASSUME NEW g \in Funcs
                 PROVE  InStep(jit'[g]) /\ InFlight(jit'[g], job[g], Nothing[g])
      OBVIOUS
    <3>1. CASE g = f
      BY <1>1, <1>11, <2>2, <2>3, <3>1
    <3>2. CASE g # f
      BY <2>2, <3>2 DEF Good
    <3> QED
      BY <3>1, <3>2
  <2>5. ~j.ineligible => AllSticky(js, jit')
    BY <2>2 DEF AllSticky, Sticky
  <2> QED
    BY <1>13, <2>1, <2>4, <2>5 DEF Good
<1> QED
  BY <1>2, <1>12, <1>13

\* After a drain nothing has come back that is not installed; what was not being
\* compiled is as it was, and code given up on in tier 2 has none there.
LEMMA DrainedKeeps ==
    ASSUME TiersInv
    PROVE  /\ Good(Drained, job, Nothing) /\ AllSticky(jit, Drained)
           /\ \A f \in Funcs :
                /\ Drained[f] = jit[f] \/ ~Drained[f].compiling
                /\ ~jit[f].ineligible /\ ~Drained[f].compiling /\ Drained[f].entry = None
                     => Unoptimized(Drained[f])
<1>1. \A f \in Funcs : Drained[f] = IF result[f] = None THEN jit[f]
                                    ELSE Installed(jit[f], result[f])
  BY DEF Drained
<1>2. ASSUME NEW f \in Funcs
      PROVE  /\ Drained[f] \in JitInfo /\ InStep(Drained[f])
             /\ InFlight(Drained[f], job[f], Nothing[f]) /\ Sticky(jit[f], Drained[f])
             /\ Drained[f] = jit[f] \/ ~Drained[f].compiling
             /\ ~jit[f].ineligible /\ ~Drained[f].compiling /\ Drained[f].entry = None
                  => Unoptimized(Drained[f])
  <2>1. jit[f] \in JitInfo /\ result[f] \in Result \cup {None} /\ Nothing[f] = None
    BY <1>2 DEF TiersInv, TypeOK, Nothing
  <2>2. InStep(jit[f]) /\ InFlight(jit[f], job[f], result[f])
    BY <1>2 DEF TiersInv
  <2>3. CASE result[f] = None
    <3>1. Drained[f] = jit[f]
      BY <1>1, <1>2, <2>3
    <3>2. InFlight(jit[f], job[f], Nothing[f]) /\ Sticky(jit[f], jit[f])
      BY <2>1, <2>2, <2>3 DEF Sticky
    <3>3. ~jit[f].ineligible /\ ~jit[f].compiling /\ jit[f].entry = None
            => Unoptimized(jit[f])
      BY <2>1, <2>2, FieldTypes DEF InStep, Unoptimized, Tier2States
    <3> QED
      BY <2>1, <2>2, <3>1, <3>2, <3>3
  <2>4. CASE result[f] # None
    <3> DEFINE k == Installed(jit[f], result[f])
    <3>1. Drained[f] = k
      BY <1>1, <1>2, <2>4
    <3>2. job[f] = None /\ jit[f].compiling
      BY <2>2, <2>4 DEF InFlight
    <3>3. /\ k \in JitInfo /\ InStep(k) /\ ~k.compiling
          /\ k.entry = None => k.tier2 \in {"none", "declined"}
          /\ jit[f].ineligible => k.ineligible
      BY <2>1, <2>2, <2>4, <3>2, InstalledKeeps
    <3> HIDE DEF k
    <3>4. InFlight(k, job[f], Nothing[f])
      BY <2>1, <3>2 DEF InFlight
    <3>5. Sticky(jit[f], k) /\ (k.entry = None => Unoptimized(k))
      BY <3>2, <3>3 DEF Sticky, Unoptimized
    <3> QED
      BY <3>1, <3>3, <3>4, <3>5
  <2> QED
    BY <2>3, <2>4
<1>3. Drained \in [Funcs -> JitInfo]
  <2>1. Drained = [f \in Funcs |-> Drained[f]]
    BY DEF Drained
  <2> QED
    BY <1>2, <2>1
<1> QED
  BY <1>2, <1>3 DEF Good, AllSticky
-----------------------------------------------------------------------------
(* The stack *)

\* The innermost activation.
LEMMA TopIs ==
    ASSUME TypeOK, stack # <<>>
    PROVE  /\ Len(stack) \in Nat /\ Len(stack) \in 1..Len(stack)
           /\ Top = stack[Len(stack)] /\ Top \in Activation
           /\ Top.f \in Funcs /\ Top.code \in Code \cup {None}
           /\ Top.osr \in BOOLEAN /\ Top.nested \in BOOLEAN
<1>1. Len(stack) \in 1..Len(stack) /\ stack[Len(stack)] \in Activation
  BY DEF TypeOK
<1> QED
  BY <1>1 DEF Top, Activation

\* It is replaced.
LEMMA SetTopIs ==
    ASSUME TypeOK, stack # <<>>, NEW a \in Activation, SetTop(a)
    PROVE  /\ stack' \in Seq(Activation) /\ Len(stack') = Len(stack) /\ Len(stack') <= MaxDepth
           /\ \A i \in 1..Len(stack) : stack'[i] = IF i = Len(stack) THEN a ELSE stack[i]
<1>1. Len(stack) \in 1..Len(stack) /\ stack \in Seq(Activation) /\ Len(stack) <= MaxDepth
  BY TopIs DEF TypeOK
<1> QED
  BY <1>1 DEF SetTop

\* A call stacks one more.
LEMMA PushIs ==
    ASSUME TypeOK, NEW f \in Funcs, NEW code \in Code \cup {None}, Len(stack) < MaxDepth,
           Pushes(f, code)
    PROVE  /\ stack' \in Seq(Activation) /\ Len(stack') = Len(stack) + 1
           /\ Len(stack') <= MaxDepth
           /\ \A i \in 1..Len(stack) : stack'[i] = stack[i]
           /\ stack'[Len(stack')].f = f /\ stack'[Len(stack')].code = code
           /\ stack'[Len(stack')].nested = FALSE
<1> DEFINE a == [f |-> f, code |-> code, osr |-> FALSE, nested |-> FALSE]
<1>1. a \in Activation /\ a.f = f /\ a.code = code /\ a.nested = FALSE
  BY DEF Activation
<1>2. stack' = Append(stack, a)
  BY DEF Pushes
<1> HIDE DEF a
<1>3. /\ stack \in Seq(Activation) /\ Len(stack) \in Nat /\ MaxDepth \in Nat
  BY TiersAssumption DEF TypeOK
<1> QED
  BY <1>1, <1>2, <1>3

-----------------------------------------------------------------------------
(* Leaving compiled code *)

\* Blaming a site only writes it down.
LEMMA BlamedIsLess ==
    ASSUME NEW j \in JitInfo, InStep(j), NEW s \in SUBSET Sites
    PROVE  Less(j, [j EXCEPT !.deopt_sites = s])
<1> DEFINE k == [j EXCEPT !.deopt_sites = s]
<1>1. k \in JitInfo
  BY Setting
<1>2. /\ k.entry = j.entry /\ k.osr_ids = j.osr_ids /\ k.tier = j.tier
      /\ k.baseline = j.baseline /\ k.baseline_osr_ids = j.baseline_osr_ids
      /\ k.tier2 = j.tier2 /\ k.ineligible = j.ineligible /\ k.compiling = j.compiling
  BY DEF JitInfo
<1> QED
  BY <1>1, <1>2 DEF Less, InStep

\* Giving up on a function takes its code away for good.
LEMMA GivenUpIsLess ==
    ASSUME NEW j \in JitInfo, InStep(j)
    PROVE  /\ Less(j, [Dropped(j) EXCEPT !.ineligible = TRUE])
           /\ [Dropped(j) EXCEPT !.ineligible = TRUE].ineligible
           /\ [Dropped(j) EXCEPT !.ineligible = TRUE].entry = None
<1> DEFINE d == Dropped(j)
           k == [d EXCEPT !.ineligible = TRUE]
<1>1. d \in JitInfo /\ InStep(d) /\ Less(j, d) /\ d.entry = None
  BY DroppedIsLess DEF Less
<1> HIDE DEF d
<1>2. k \in JitInfo
  BY <1>1, Setting
<1>3. /\ k.entry = d.entry /\ k.osr_ids = d.osr_ids /\ k.tier = d.tier
      /\ k.baseline = d.baseline /\ k.baseline_osr_ids = d.baseline_osr_ids
      /\ k.tier2 = d.tier2 /\ k.ineligible = TRUE /\ k.compiling = d.compiling
  BY <1>1 DEF JitInfo
<1> HIDE DEF k
<1>4. Less(j, k) /\ k.ineligible /\ k.entry = None
  BY <1>1, <1>2, <1>3 DEF Less, InStep
<1> QED
  BY <1>4 DEF d, k

\* settle_deopt takes code away, for good past the limit, and leaves the activation
\* to the interpreter.
LEMMA SettleKeeps ==
    ASSUME TypeOK, stack # <<>>, NEW js, NEW b, NEW r, Good(js, b, r),
           NEW site \in Sites \cup {None}, Settle(js, site)
    PROVE  /\ Good(jit', b, r) /\ AllSticky(js, jit')
           /\ stack' \in Seq(Activation) /\ Len(stack') = Len(stack) /\ Len(stack') <= MaxDepth
           /\ \A i \in 1..(Len(stack) - 1) : stack'[i] = stack[i]
           /\ stack'[Len(stack)].f = Top.f /\ stack'[Len(stack)].code = None
           /\ stack'[Len(stack)].nested = (Top.nested \/ ~Top.osr)
           /\ Depth + (IF ~Top.osr THEN 1 ELSE 0) > MaxReentrancy
                => jit'[Top.f].ineligible /\ jit'[Top.f].entry = None
<1> DEFINE nested == ~Top.osr
           over == Depth + (IF nested THEN 1 ELSE 0) > MaxReentrancy
           j == js[Top.f]
           k == IF over THEN [Dropped(j) EXCEPT !.ineligible = TRUE] ELSE j
           sites == k.deopt_sites \cup {site}
           blamed == [k EXCEPT !.deopt_sites = sites]
           tier2 == Top.code.tier = 2
           noted == Invalidated(blamed, tier2)
           new == IF site = None THEN k ELSE noted
           a == [Top EXCEPT !.code = None, !.nested = Top.nested \/ nested]
<1>1. jit' = [js EXCEPT ![Top.f] = new] /\ SetTop(a)
  BY DEF Settle
<1>2. Top.f \in Funcs /\ j \in JitInfo /\ InStep(j)
  BY TopIs DEF Good
<1>3. a \in Activation /\ a.f = Top.f /\ a.code = None /\ a.nested = (Top.nested \/ nested)
  <2> DEFINE n == Top.nested \/ nested
  <2>1. n \in BOOLEAN /\ Top \in Activation
    BY TopIs
  <2>2. a = [Top EXCEPT !.code = None, !.nested = n]
    OBVIOUS
  <2> HIDE DEF n, a
  <2>3. a \in Activation /\ a.f = Top.f /\ a.code = None /\ a.nested = n
    BY <2>1, <2>2 DEF Activation
  <2> QED
    BY <2>3 DEF n
<1> HIDE DEF a
<1>4. Less(j, k) /\ (over => k.ineligible /\ k.entry = None)
  BY <1>2, LessSame, GivenUpIsLess
<1>5. over => Depth + (IF ~Top.osr THEN 1 ELSE 0) > MaxReentrancy
  OBVIOUS
<1>6. Depth + (IF ~Top.osr THEN 1 ELSE 0) > MaxReentrancy => over
  OBVIOUS
<1>7. tier2 \in BOOLEAN
  OBVIOUS
<1> HIDE DEF over, k, tier2
<1>8. Less(j, new) /\ (over => new.ineligible /\ new.entry = None)
  <2>1. CASE site = None
    BY <1>4, <2>1
  <2>2. CASE site # None
    <3>1. k \in JitInfo /\ InStep(k) /\ sites \in SUBSET Sites
      BY <1>4, <2>2, FieldTypes DEF Less
    <3>2. Less(k, blamed)
      BY <3>1, BlamedIsLess
    <3> HIDE DEF blamed
    <3>3. Less(blamed, noted)
      BY <1>7, <3>2, InvalidatedIsLess DEF Less
    <3> HIDE DEF noted
    <3>4. Less(k, noted) /\ new = noted
      BY <2>2, <3>2, <3>3, LessTwice
    <3>5. Less(j, noted)
      BY <1>4, <3>4, LessTwice
    <3> QED
      BY <1>4, <3>4, <3>5 DEF Less
  <2> QED
    BY <2>1, <2>2
<1> HIDE DEF new
<1>9. Good(jit', b, r) /\ AllSticky(js, jit') /\ jit'[Top.f] = new
  <2> DEFINE f == Top.f
  <2>1. f \in Funcs /\ Less(js[f], new) /\ jit' = [js EXCEPT ![f] = new]
    BY <1>1, <1>2, <1>8
  <2> HIDE DEF f
  <2>2. Good(jit', b, r) /\ AllSticky(js, jit')
    BY <2>1, LessKeeps
  <2>3. jit'[f] = new
    BY <2>1 DEF Good
  <2> QED
    BY <2>2, <2>3 DEF f
<1>10. /\ stack' \in Seq(Activation) /\ Len(stack') = Len(stack) /\ Len(stack') <= MaxDepth
       /\ \A i \in 1..Len(stack) : stack'[i] = IF i = Len(stack) THEN a ELSE stack[i]
  BY <1>1, <1>3, SetTopIs
<1>11. Len(stack) \in Nat /\ Len(stack) \in 1..Len(stack)
  BY TopIs
<1>12. /\ \A i \in 1..(Len(stack) - 1) : stack'[i] = stack[i]
       /\ stack'[Len(stack)] = a
  BY <1>10, <1>11
<1> QED
  BY <1>3, <1>6, <1>8, <1>9, <1>10, <1>12
-----------------------------------------------------------------------------
(* The steps *)

\* What a step does to the stack: it keeps a part of it; a call, which finds code of
\* a function given up on only where there was some or a compile has come back; an
\* activation of a function not given up on enters its code at a loop; an activation
\* leaves its code.
Kept(n) == \A i \in 1..n : stack'[i] = stack[i]
Returned == Len(stack') <= Len(stack) /\ Kept(Len(stack'))
Called ==
    \E f \in Funcs :
      /\ Len(stack') = Len(stack) + 1 /\ Kept(Len(stack))
      /\ stack'[Len(stack')].f = f /\ stack'[Len(stack')].nested = FALSE
      /\ stack'[Len(stack')].code # None /\ jit[f].ineligible /\ jit[f].entry = None
           => jit[f].compiling /\ ~jit'[f].compiling
Looped ==
    /\ stack # <<>> /\ Len(stack') = Len(stack) /\ Kept(Len(stack) - 1)
    /\ stack'[Len(stack)].f = Top.f /\ stack'[Len(stack)].nested = Top.nested
    /\ ~jit[Top.f].ineligible
Left ==
    /\ stack # <<>> /\ Len(stack') = Len(stack) /\ Kept(Len(stack) - 1)
    /\ Top.code # None
    /\ stack'[Len(stack)].f = Top.f /\ stack'[Len(stack)].code = None
    /\ stack'[Len(stack)].nested = (Top.nested \/ ~Top.osr)
    /\ Depth + (IF ~Top.osr THEN 1 ELSE 0) > MaxReentrancy
         => jit'[Top.f].ineligible /\ jit'[Top.f].entry = None

StackMoves == Returned \/ Called \/ Looped \/ Left

\* What every step does.
Steps == TiersInv' /\ AllSticky(jit, jit') /\ StackMoves

\* The parts of the invariant, after a step.
LEMMA Invariant ==
    ASSUME tiered' \in BOOLEAN, job' \in [Funcs -> Job \cup {None}],
           result' \in [Funcs -> Result \cup {None}],
           stack' \in Seq(Activation), Len(stack') <= MaxDepth,
           Good(jit', job', result')
    PROVE  TiersInv'
BY DEF Good, TiersInv, TypeOK

\* Twice sticky is sticky.
LEMMA StickyTwice ==
    ASSUME NEW a, NEW b, NEW c, AllSticky(a, b), AllSticky(b, c)
    PROVE  AllSticky(a, c)
BY DEF AllSticky, Sticky

\* What a step starts from.
LEMMA Before ==
    ASSUME TiersInv
    PROVE  /\ Good(jit, job, result) /\ AllSticky(jit, jit)
           /\ tiered \in BOOLEAN /\ job \in [Funcs -> Job \cup {None}]
           /\ result \in [Funcs -> Result \cup {None}] /\ jit \in [Funcs -> JitInfo]
           /\ stack \in Seq(Activation) /\ Len(stack) <= MaxDepth /\ Len(stack) \in Nat
           /\ Nothing \in [Funcs -> Result \cup {None}]
BY DEF Good, AllSticky, Sticky, TiersInv, TypeOK, Nothing

\* A call that finds code.
LEMMA CallCompiledSteps ==
    ASSUME TiersInv, NEW f \in Funcs, CallCompiled(f)
    PROVE  Steps
<1> USE Before
<1>1. /\ Len(stack) < MaxDepth /\ jit[f].entry # None /\ jit[f].entry \in Code
      /\ Enters(jit, f, jit[f].entry) /\ Pushes(f, jit[f].entry)
      /\ tiered' = tiered /\ job' = job /\ result' = result
  BY FieldTypes DEF CallCompiled
<1>2. Good(jit', job, result) /\ AllSticky(jit, jit')
  BY <1>1, EntersKeeps
<1>3. /\ stack' \in Seq(Activation) /\ Len(stack') = Len(stack) + 1 /\ Len(stack') <= MaxDepth
      /\ \A i \in 1..Len(stack) : stack'[i] = stack[i]
      /\ stack'[Len(stack')].f = f /\ stack'[Len(stack')].nested = FALSE
  BY <1>1, PushIs DEF TiersInv
<1>4. TiersInv'
  BY <1>1, <1>2, <1>3, Invariant
<1>5. Called
  BY <1>1, <1>3 DEF Called, Kept
<1> QED
  BY <1>2, <1>4, <1>5 DEF Steps, StackMoves

\* A call with too much code on the stack.
LEMMA CallTooDeepSteps ==
    ASSUME TiersInv, NEW f \in Funcs, CallTooDeep(f)
    PROVE  Steps
<1> USE Before
<1>1. /\ Len(stack) < MaxDepth /\ Pushes(f, None)
      /\ tiered' = tiered /\ jit' = jit /\ job' = job /\ result' = result
  BY DEF CallTooDeep
<1>2. /\ stack' \in Seq(Activation) /\ Len(stack') = Len(stack) + 1 /\ Len(stack') <= MaxDepth
      /\ \A i \in 1..Len(stack) : stack'[i] = stack[i]
      /\ stack'[Len(stack')].f = f /\ stack'[Len(stack')].code = None
      /\ stack'[Len(stack')].nested = FALSE
  BY <1>1, PushIs DEF TiersInv
<1>3. TiersInv'
  BY <1>1, <1>2, Invariant
<1>4. Called
  BY <1>2 DEF Called, Kept
<1> QED
  BY <1>1, <1>3, <1>4 DEF Steps, StackMoves

\* A first compile is asked for, of a function with no code that nobody compiles.
LEMMA EnqueueFirstKeeps ==
    ASSUME NEW js, Good(js, job, Nothing), job \in [Funcs -> Job \cup {None}],
           NEW f \in Funcs, NEW entries \in SUBSET Headers, tiered \in BOOLEAN,
           ~js[f].compiling, Unoptimized(js[f]), EnqueueFirst(js, f, entries)
    PROVE  /\ Good(jit', job', Nothing) /\ job' \in [Funcs -> Job \cup {None}]
           /\ ~js[f].ineligible => AllSticky(js, jit')
<1>1. PICK complete \in BOOLEAN :
        Enqueue(js, f, ~tiered \/ (js[f].tier2 = "none" /\ complete), entries)
  BY DEF EnqueueFirst
<1> DEFINE optimize == ~tiered \/ (js[f].tier2 = "none" /\ complete)
<1>2. optimize \in BOOLEAN /\ Enqueue(js, f, optimize, entries)
  BY <1>1
<1> HIDE DEF optimize
<1> QED
  BY <1>2, EnqueueKeeps

\* A call that finds none: what has come back is installed first.
LEMMA CallUncompiledSteps ==
    ASSUME TiersInv, NEW f \in Funcs, CallUncompiled(f)
    PROVE  Steps
<1> USE Before
<1> DEFINE js == Drained
<1>1. /\ Len(stack) < MaxDepth /\ jit[f].entry = None
      /\ tiered' = tiered /\ result' = Nothing
      /\ \/ /\ js[f].entry # None
            /\ Enters(js, f, js[f].entry) /\ Pushes(f, js[f].entry)
            /\ job' = job
         \/ /\ Pushes(f, None) /\ jit' = js /\ job' = job
         \/ /\ Pushes(f, None) /\ js[f].entry = None
            /\ ~js[f].ineligible /\ ~js[f].compiling /\ EnqueueFirst(js, f, {})
  BY DEF CallUncompiled, Drain, Nothing
<1>2. /\ Good(js, job, Nothing) /\ AllSticky(jit, js)
      /\ js[f] = jit[f] \/ ~js[f].compiling
      /\ ~jit[f].ineligible /\ ~js[f].compiling /\ js[f].entry = None => Unoptimized(js[f])
  BY DrainedKeeps
<1> HIDE DEF js
<1>3. CASE /\ js[f].entry # None
           /\ Enters(js, f, js[f].entry) /\ Pushes(f, js[f].entry)
           /\ job' = job
  <2>1. js[f].entry \in Code
    BY <1>2, <1>3, FieldTypes DEF Good
  <2>2. Good(jit', job, Nothing) /\ AllSticky(js, jit')
    BY <1>2, <1>3, <2>1, EntersKeeps
  <2>3. AllSticky(jit, jit')
    BY <1>2, <2>2, StickyTwice
  <2>4. /\ stack' \in Seq(Activation) /\ Len(stack') = Len(stack) + 1
        /\ Len(stack') <= MaxDepth
        /\ \A i \in 1..Len(stack) : stack'[i] = stack[i]
        /\ stack'[Len(stack')].f = f /\ stack'[Len(stack')].nested = FALSE
    BY <1>1, <1>3, <2>1, PushIs DEF TiersInv
  <2>5. TiersInv'
    BY <1>1, <1>3, <2>2, <2>4, Invariant
  <2>6. jit[f].ineligible => jit[f].compiling /\ ~jit'[f].compiling
    BY <1>1, <1>2, <1>3, <2>2 DEF AllSticky, Sticky
  <2>7. Called
    BY <2>4, <2>6 DEF Called, Kept
  <2> QED
    BY <2>3, <2>5, <2>7 DEF Steps, StackMoves
<1>4. CASE Pushes(f, None)
  <2>1. Good(jit', job', Nothing) /\ AllSticky(js, jit') /\ job' \in [Funcs -> Job \cup {None}]
    <3>1. CASE jit' = js /\ job' = job
      BY <1>2, <3>1 DEF AllSticky, Sticky
    <3>2. CASE /\ js[f].entry = None
               /\ ~js[f].ineligible /\ ~js[f].compiling /\ EnqueueFirst(js, f, {})
      <4>1. Unoptimized(js[f])
        BY <1>2, <3>2 DEF AllSticky, Sticky
      <4> QED
        BY <1>2, <3>2, <4>1, EnqueueFirstKeeps
    <3>3. CASE /\ js[f].entry # None
               /\ Enters(js, f, js[f].entry) /\ job' = job
      <4>1. js[f].entry \in Code
        BY <1>2, <3>3, FieldTypes DEF Good
      <4> QED
        BY <1>2, <3>3, <4>1, EntersKeeps
    <3> QED
      BY <1>1, <3>1, <3>2, <3>3
  <2>2. AllSticky(jit, jit')
    BY <1>2, <2>1, StickyTwice
  <2>3. /\ stack' \in Seq(Activation) /\ Len(stack') = Len(stack) + 1
        /\ Len(stack') <= MaxDepth
        /\ \A i \in 1..Len(stack) : stack'[i] = stack[i]
        /\ stack'[Len(stack')].f = f /\ stack'[Len(stack')].code = None
        /\ stack'[Len(stack')].nested = FALSE
    BY <1>1, <1>4, PushIs DEF TiersInv
  <2>4. TiersInv'
    BY <1>1, <2>1, <2>3, Invariant
  <2>5. Called
    BY <2>3 DEF Called, Kept
  <2> QED
    BY <2>2, <2>4, <2>5 DEF Steps, StackMoves
<1> QED
  BY <1>1, <1>3, <1>4
\* A backward jump of an interpreted activation.
LEMMA LoopSteps ==
    ASSUME TiersInv, NEW h \in Headers, Loop(h)
    PROVE  Steps
<1> USE Before
<1> DEFINE js == Drained
           f == Top.f
           j == js[f]
           Way(code) == /\ Enters(js, f, code)
                        /\ SetTop([Top EXCEPT !.code = code, !.osr = TRUE])
                        /\ job' = job
<1>1. /\ stack # <<>> /\ ~jit[f].ineligible
      /\ tiered' = tiered /\ result' = Nothing
      /\ \/ j.entry # None /\ Way(j.entry)
         \/ j.baseline # None /\ Way(j.baseline)
         \/ jit' = js /\ job' = job /\ stack' = stack
         \/ /\ j.entry = None /\ ~j.compiling /\ EnqueueFirst(js, f, {h})
            /\ stack' = stack
  BY DEF Loop, Drain, Nothing
<1>2. /\ f \in Funcs /\ Top \in Activation
      /\ Len(stack) \in 1..Len(stack)
  BY <1>1, TopIs DEF TiersInv
<1>3. /\ Good(js, job, Nothing) /\ AllSticky(jit, js)
      /\ ~jit[f].ineligible /\ ~js[f].compiling /\ js[f].entry = None => Unoptimized(js[f])
  BY <1>2, DrainedKeeps
<1> HIDE DEF js
<1>4. ASSUME NEW code \in Code, code # None, Way(code)
      PROVE  Steps
  <2> DEFINE a == [Top EXCEPT !.code = code, !.osr = TRUE]
  <2>1. Good(jit', job, Nothing) /\ AllSticky(js, jit')
    BY <1>2, <1>3, <1>4, EntersKeeps
  <2>2. AllSticky(jit, jit')
    BY <1>3, <2>1, StickyTwice
  <2>3. a \in Activation /\ a.f = f /\ a.nested = Top.nested /\ SetTop(a)
    BY <1>2, <1>4 DEF Activation
  <2> HIDE DEF a, f
  <2>4. /\ stack' \in Seq(Activation) /\ Len(stack') = Len(stack) /\ Len(stack') <= MaxDepth
        /\ \A i \in 1..Len(stack) : stack'[i] = IF i = Len(stack) THEN a ELSE stack[i]
    BY <1>1, <2>3, SetTopIs DEF TiersInv
  <2>5. TiersInv'
    BY <1>1, <1>4, <2>1, <2>4, Invariant
  <2>6. Kept(Len(stack) - 1) /\ stack'[Len(stack)] = a
    BY <1>2, <2>4 DEF Kept
  <2>7. Looped
    BY <1>1, <2>3, <2>4, <2>6 DEF Looped, f
  <2> QED
    BY <2>2, <2>5, <2>7 DEF Steps, StackMoves
<1>5. CASE j.entry # None /\ Way(j.entry)
  <2>1. j.entry \in Code
    BY <1>2, <1>3, <1>5, FieldTypes DEF Good
  <2> QED
    BY <1>4, <1>5, <2>1
<1>6. CASE j.baseline # None /\ Way(j.baseline)
  <2>1. j.baseline \in Code
    BY <1>2, <1>3, <1>6, FieldTypes DEF Good
  <2> QED
    BY <1>4, <1>6, <2>1
<1>7. CASE stack' = stack /\ jit' = js /\ job' = job
  <2>1. TiersInv'
    BY <1>1, <1>3, <1>7, Invariant
  <2>2. Returned
    BY <1>7 DEF Returned, Kept
  <2> QED
    BY <1>3, <1>7, <2>1, <2>2 DEF Steps, StackMoves
<1>8. CASE /\ j.entry = None /\ ~j.compiling /\ EnqueueFirst(js, f, {h})
           /\ stack' = stack
  <2>1. /\ Good(jit', job', Nothing) /\ job' \in [Funcs -> Job \cup {None}]
        /\ ~js[f].ineligible => AllSticky(js, jit')
    BY <1>1, <1>2, <1>3, <1>8, EnqueueFirstKeeps
  <2>2. \A g \in Funcs : g # f => jit'[g] = js[g]
    BY <1>2, <1>3, <1>8 DEF EnqueueFirst, Enqueue, Good
  <2>3. AllSticky(jit, jit')
    BY <1>1, <1>3, <2>2 DEF AllSticky, Sticky
  <2>4. TiersInv'
    BY <1>1, <1>8, <2>1, Invariant
  <2>5. Returned
    BY <1>8 DEF Returned, Kept
  <2> QED
    BY <2>3, <2>4, <2>5 DEF Steps, StackMoves
<1> QED
  BY <1>1, <1>5, <1>6, <1>7, <1>8

\* Code that leaves, for a bet that failed or for none, without a drain or after one.
LEMMA SettleSteps ==
    ASSUME TiersInv, stack # <<>>, Top.code # None, tiered' = tiered, job' = job,
           result' \in [Funcs -> Result \cup {None}],
           NEW js, Good(js, job, result'), AllSticky(jit, js),
           NEW site \in Sites \cup {None}, Settle(js, site)
    PROVE  Steps
<1> USE Before
<1>1. TypeOK
  BY DEF TiersInv
<1>2. /\ Good(jit', job, result') /\ AllSticky(js, jit')
      /\ stack' \in Seq(Activation) /\ Len(stack') = Len(stack) /\ Len(stack') <= MaxDepth
      /\ \A i \in 1..(Len(stack) - 1) : stack'[i] = stack[i]
      /\ stack'[Len(stack)].f = Top.f /\ stack'[Len(stack)].code = None
      /\ stack'[Len(stack)].nested = (Top.nested \/ ~Top.osr)
      /\ Depth + (IF ~Top.osr THEN 1 ELSE 0) > MaxReentrancy
           => jit'[Top.f].ineligible /\ jit'[Top.f].entry = None
  BY <1>1, SettleKeeps
<1>3. AllSticky(jit, jit')
  BY <1>2, StickyTwice
<1>4. TiersInv'
  BY <1>2, Invariant
<1>5. Left
  BY <1>2 DEF Left, Kept
<1> QED
  BY <1>3, <1>4, <1>5 DEF Steps, StackMoves

\* A bet fails.
LEMMA DeoptSteps ==
    ASSUME TiersInv, NEW s \in Sites, Deopt(s)
    PROVE  Steps
BY SettleSteps, Before DEF Deopt

\* The code leaves without blame.
LEMMA LeaveSteps ==
    ASSUME TiersInv, Leave
    PROVE  Steps
BY SettleSteps, Before DEF Leave

\* Profiling code reaches its budget.
LEMMA TierUpSteps ==
    ASSUME TiersInv, NEW h \in Headers \cup {None}, TierUp(h)
    PROVE  Steps
<1> USE Before
<1> DEFINE js == Drained
           f == Top.f
           j == js[f]
           known == IF j.tier = 2 /\ j.osr_ids # None THEN j.osr_ids.loops ELSE {}
           entries == ({h} \ {None}) \cup known
<1>1. /\ stack # <<>> /\ Top.code # None
      /\ tiered' = tiered /\ result' = Nothing
      /\ \/ Settle(js, None) /\ job' = job
         \/ jit' = js /\ job' = job /\ stack' = stack
         \/ /\ ~j.compiling /\ ~j.ineligible /\ Enqueue(js, f, TRUE, entries)
            /\ stack' = stack
  BY DEF TierUp, Drain, Nothing
<1>2. f \in Funcs
  BY <1>1, TopIs DEF TiersInv
<1>3. Good(js, job, Nothing) /\ AllSticky(jit, js)
  BY DrainedKeeps
<1> HIDE DEF js
<1>4. CASE Settle(js, None) /\ job' = job
  BY <1>1, <1>3, <1>4, SettleSteps
<1>5. CASE jit' = js /\ job' = job /\ stack' = stack
  <2>1. TiersInv'
    BY <1>1, <1>3, <1>5, Invariant
  <2>2. Returned
    BY <1>5 DEF Returned, Kept
  <2> QED
    BY <1>3, <1>5, <2>1, <2>2 DEF Steps, StackMoves
<1>6. CASE /\ ~j.compiling /\ ~j.ineligible /\ Enqueue(js, f, TRUE, entries)
           /\ stack' = stack
  <2>1. entries \in SUBSET Headers
    <3>1. known \in SUBSET Headers
      BY <1>2, <1>3, FieldTypes DEF Good, Code
    <3> HIDE DEF known
    <3> QED
      BY <3>1
  <2> HIDE DEF entries
  <2>2. /\ Good(jit', job', Nothing) /\ job' \in [Funcs -> Job \cup {None}]
        /\ AllSticky(js, jit')
    BY <1>2, <1>3, <1>6, <2>1, EnqueueKeeps
  <2>3. AllSticky(jit, jit')
    BY <1>3, <2>2, StickyTwice
  <2>4. TiersInv'
    BY <1>1, <1>6, <2>2, Invariant
  <2>5. Returned
    BY <1>6 DEF Returned, Kept
  <2> QED
    BY <2>3, <2>4, <2>5 DEF Steps, StackMoves
<1> QED
  BY <1>1, <1>4, <1>5, <1>6

\* The innermost activation returns.
LEMMA ReturnSteps ==
    ASSUME TiersInv, Return
    PROVE  Steps
<1> USE Before
<1>1. /\ stack # <<>> /\ stack' = SubSeq(stack, 1, Len(stack) - 1)
      /\ tiered' = tiered /\ jit' = jit /\ job' = job /\ result' = result
  BY DEF Return
<1>2. Len(stack) \in 1..Len(stack)
  BY <1>1, TopIs DEF TiersInv
<1>3. /\ stack' \in Seq(Activation) /\ Len(stack') = Len(stack) - 1
      /\ \A i \in 1..(Len(stack) - 1) : stack'[i] = stack[i]
  <2> DEFINE n == Len(stack) - 1
  <2>1. n \in Int /\ 1 \in Int /\ n >= 0 /\ stack' = SubSeq(stack, 1, n)
    BY <1>1, <1>2
  <2>2. \A i \in 1..n : stack[i] \in Activation
    BY <1>2
  <2> HIDE DEF n
  <2>3. /\ SubSeq(stack, 1, n) \in Seq(Activation)
        /\ Len(SubSeq(stack, 1, n)) = IF 1 <= n THEN n - 1 + 1 ELSE 0
        /\ \A i \in 1..(n - 1 + 1) : SubSeq(stack, 1, n)[i] = stack[1 + i - 1]
    BY <2>1, <2>2, SubSeqProperties
  <2>4. /\ stack' \in Seq(Activation) /\ Len(stack') = n
        /\ \A i \in 1..n : stack'[i] = stack[i]
    BY <2>1, <2>3
  <2> QED
    BY <2>4 DEF n
<1>4. MaxDepth \in Nat
  BY TiersAssumption
<1>5. Len(stack') <= MaxDepth
  BY <1>2, <1>3, <1>4
<1>6. TiersInv'
  BY <1>1, <1>3, <1>5, Invariant
<1>7. Returned
  BY <1>2, <1>3 DEF Returned, Kept
<1> QED
  BY <1>1, <1>6, <1>7 DEF Steps, StackMoves

\* A change of what is in flight for one function keeps the rest.
LEMMA FlightSteps ==
    ASSUME TiersInv, NEW f \in Funcs, job[f] # None, NEW r \in Result \cup {None},
           tiered' = tiered, jit' = jit, stack' = stack,
           job' = [job EXCEPT ![f] = None], result' = [result EXCEPT ![f] = r],
           r # None /\ ~r.wanted => ~job[f].wanted /\ (r.code # None => r.code.tier = 1)
    PROVE  Steps
<1> USE Before
<1>1. job' \in [Funcs -> Job \cup {None}] /\ result' \in [Funcs -> Result \cup {None}]
  OBVIOUS
<1>2. InFlight(jit[f], None, r)
  BY DEF TiersInv, InFlight
<1>3. \A g \in Funcs : /\ job'[g] = IF g = f THEN None ELSE job[g]
                       /\ result'[g] = IF g = f THEN r ELSE result[g]
  OBVIOUS
<1>4. ASSUME NEW g \in Funcs
      PROVE  InStep(jit[g]) /\ InFlight(jit[g], job'[g], result'[g])
  <2>1. CASE g = f
    BY <1>2, <1>3, <2>1 DEF TiersInv
  <2>2. CASE g # f
    BY <1>3, <2>2 DEF TiersInv
  <2> QED
    BY <2>1, <2>2
<1>5. Good(jit', job', result')
  BY <1>4 DEF Good
<1>6. TiersInv'
  BY <1>1, <1>5, Invariant
<1>7. Returned
  BY DEF Returned, Kept
<1> QED
  BY <1>6, <1>7 DEF Steps, StackMoves

\* The compiler answers.
LEMMA AnswerSteps ==
    ASSUME TiersInv, NEW f \in Funcs, Answer(f)
    PROVE  Steps
<1> USE Before
<1>1. /\ job[f] # None /\ job[f] \in Job /\ job' = [job EXCEPT ![f] = None]
      /\ tiered' = tiered /\ jit' = jit /\ stack' = stack
  BY DEF Answer
<1>2. PICK code \in Compiled(job[f]) \cup {None} :
        result' = [result EXCEPT ![f] = [code |-> code, wanted |-> job[f].wanted]]
  BY DEF Answer
<1> DEFINE r == [code |-> code, wanted |-> job[f].wanted]
           b == job[f]
           second == [tier |-> 2, profiling |-> FALSE, bets |-> b.bets, loops |-> b.loops,
                      elem |-> FALSE]
           first == [tier |-> 1, profiling |-> b.profile, bets |-> b.bets \cup GlobalSites,
                     loops |-> Headers, elem |-> b.elem]
<1>3. code \in {second, first, None} /\ (~b.wanted => code \in {first, None})
  BY <1>2 DEF Compiled
<1>4. second \in Code /\ first \in Code /\ first.tier = 1 /\ b.wanted \in BOOLEAN
  BY <1>1, TiersAssumption DEF Job, Code
<1> HIDE DEF second, first
<1>5. code \in Code \cup {None} /\ (~b.wanted /\ code # None => code.tier = 1)
  BY <1>3, <1>4
<1>6. r \in Result /\ r.code = code /\ r.wanted = b.wanted
  BY <1>4, <1>5 DEF Result
<1>7. result' = [result EXCEPT ![f] = r]
  BY <1>2
<1> HIDE DEF r
<1> QED
  BY <1>1, <1>5, <1>6, <1>7, FlightSteps

\* The compiler stops with a job.
LEMMA JobLostSteps ==
    ASSUME TiersInv, NEW f \in Funcs, JobLost(f)
    PROVE  Steps
<1>1. /\ job[f] # None /\ job' = [job EXCEPT ![f] = None]
      /\ tiered' = tiered /\ jit' = jit /\ stack' = stack /\ result' = result
  BY DEF JobLost
<1>2. result[f] = None /\ result \in [Funcs -> Result \cup {None}]
  BY <1>1, Before DEF TiersInv, InFlight
<1>3. result' = [result EXCEPT ![f] = None]
  BY <1>1, <1>2
<1> QED
  BY <1>1, <1>3, FlightSteps
-----------------------------------------------------------------------------
(* The invariant, and what follows at once *)

\* It holds at the start.
LEMMA TiersInvInit == Init => TiersInv
<1> DEFINE j0 == [entry |-> None, osr_ids |-> None, baseline |-> None,
                  baseline_osr_ids |-> None, tier |-> 0, tier2 |-> "none",
                  profiling |-> FALSE, compiling |-> FALSE, ineligible |-> FALSE,
                  invalidations |-> 0, deopt_sites |-> {}, speculation_off |-> FALSE,
                  elem_speculation_off |-> FALSE]
<1>1. /\ j0.entry = None /\ j0.baseline = None /\ j0.tier = 0 /\ j0.tier2 = "none"
  OBVIOUS
<1>2. j0 \in JitInfo
  BY TiersAssumption DEF JitInfo
<1> HIDE DEF j0
<1>3. InStep(j0) /\ InFlight(j0, None, None)
  BY <1>1 DEF InStep, InFlight
<1> SUFFICES ASSUME Init PROVE TiersInv
  OBVIOUS
<1>4. /\ tiered \in BOOLEAN /\ jit = [f \in Funcs |-> j0]
      /\ job = [f \in Funcs |-> None] /\ result = [f \in Funcs |-> None] /\ stack = <<>>
  BY DEF Init, j0
<1>5. <<>> \in Seq(Activation) /\ Len(<<>>) <= MaxDepth
  BY TiersAssumption
<1> QED
  BY <1>2, <1>3, <1>4, <1>5 DEF TiersInv, TypeOK

\* Every step is one of those above.
LEMMA TiersInvNext == TiersInv /\ [Next]_vars => Steps
<1> SUFFICES ASSUME TiersInv, [Next]_vars PROVE Steps
  OBVIOUS
<1>1. CASE UNCHANGED vars
  <2>1. /\ tiered' = tiered /\ jit' = jit /\ job' = job /\ result' = result
        /\ stack' = stack
    BY <1>1 DEF vars
  <2>2. TiersInv'
    BY <2>1, Before, Invariant
  <2>3. Returned /\ AllSticky(jit, jit')
    BY <2>1, Before DEF Returned, Kept
  <2> QED
    BY <2>2, <2>3 DEF Steps, StackMoves
<1>2. CASE \E f \in Funcs : CallCompiled(f) \/ CallTooDeep(f) \/ CallUncompiled(f)
                            \/ Answer(f) \/ JobLost(f)
  BY <1>2, CallCompiledSteps, CallTooDeepSteps, CallUncompiledSteps, AnswerSteps,
     JobLostSteps
<1>3. CASE \E h \in Headers : Loop(h)
  BY <1>3, LoopSteps
<1>4. CASE \E h \in Headers \cup {None} : TierUp(h)
  BY <1>4, TierUpSteps
<1>5. CASE \E s \in Sites : Deopt(s)
  BY <1>5, DeoptSteps
<1>6. CASE Leave
  BY <1>6, LeaveSteps
<1>7. CASE Return
  BY <1>7, ReturnSteps
<1> QED
  BY <1>1, <1>2, <1>3, <1>4, <1>5, <1>6, <1>7 DEF Next

\* So it always holds.
LEMMA TiersInvariant == Spec => []TiersInv
<1>1. TiersInv /\ [Next]_vars => TiersInv'
  BY TiersInvNext DEF Steps
<1> QED
  BY TiersInvInit, <1>1, PTL DEF Spec

\* Every variable has its type in every reachable state.
THEOREM TiersTypes == Spec => []TypeOK
<1>1. TiersInv => TypeOK
  BY DEF TiersInv
<1> QED
  BY TiersInvariant, <1>1, PTL

\* What a JitInfo says of a function's code is what the code is, in every order of
\* calls, loops, deopts, compiles asked for, answered and lost: code is entered by
\* its own osr ids, and tier 2's state says what became of tier 2.
THEOREM TiersStayInStep == Spec => []TiersAreInStep
<1>1. TiersInv => TiersAreInStep
  BY DEF TiersInv, InStep, TiersAreInStep, CodeMatchesItsMaps, Tier2IsAccounted
<1> QED
  BY TiersInvariant, <1>1, PTL

\* A function given up on, with no compile under way, never has code again nor is it
\* compiled: no answer that comes late and no loop or call finds a way around
\* JitInfo::ineligible.
THEOREM GivenUp == Spec => GivenUpForGood
<1> DEFINE Holds == \A f \in Funcs :
              jit[f].ineligible /\ ~jit[f].compiling /\ jit[f].entry = None
                => jit'[f].entry = None /\ ~jit'[f].compiling
<1>1. TiersInv /\ [Next]_vars => [Holds]_vars
  BY TiersInvNext DEF Steps, AllSticky, Sticky
<1>2. Spec => [][Holds]_vars
  BY TiersInvariant, <1>1, PTL DEF Spec
<1> QED
  BY <1>2 DEF GivenUpForGood
-----------------------------------------------------------------------------
(* Nested interpreters are bounded *)

\* The activations of a stack up to i with an interpreter of their own; whether i has
\* one past the limit; whether i was ever entered in compiled code by a call.
NestedTo(s, i) == {k \in 1..i : s[k].nested}
Over(s, i) == s[i].nested /\ Cardinality(NestedTo(s, i)) > MaxReentrancy
Marked(s, i) == s[i].code # None \/ s[i].nested

\* A function with an activation past the limit has been given up on.  What was entered
\* in its code since was in code that a compile under way brought; a second one past
\* the limit leaves it without code and without a compile.
NestOf(s, js) ==
    /\ \A i \in 1..Len(s) :
         Over(s, i) => /\ js[s[i].f].ineligible
                       /\ js[s[i].f].entry = None \/ ~js[s[i].f].compiling
    /\ \A i, k \in 1..Len(s) :
         i < k /\ s[k].f = s[i].f /\ Over(s, i) /\ Marked(s, k) => ~js[s[i].f].compiling
    /\ \A i, k \in 1..Len(s) :
         i < k /\ s[k].f = s[i].f /\ Over(s, i) /\ Over(s, k) => js[s[i].f].entry = None
    /\ \A i, k, m \in 1..Len(s) :
         /\ i < k /\ k < m /\ s[k].f = s[i].f /\ s[m].f = s[i].f
         /\ Over(s, i) /\ Over(s, k)
         => ~Marked(s, m)

\* What a step keeps of the stack is as it was.
LEMMA KeptSame ==
    ASSUME NEW n \in Nat, Kept(n), NEW i \in 1..n
    PROVE  /\ stack'[i] = stack[i] /\ NestedTo(stack', i) = NestedTo(stack, i)
           /\ Over(stack', i) = Over(stack, i) /\ Marked(stack', i) = Marked(stack, i)
<1>1. \A k \in 1..i : stack'[k] = stack[k]
  BY DEF Kept
<1>2. stack'[i] = stack[i]
  BY <1>1
<1>3. NestedTo(stack', i) = NestedTo(stack, i)
  BY <1>1 DEF NestedTo
<1> QED
  BY <1>2, <1>3 DEF Over, Marked

\* The functions on the stack.
LEMMA OnStack ==
    ASSUME TypeOK, NEW i \in 1..Len(stack)
    PROVE  stack[i] \in Activation /\ stack[i].f \in Funcs
<1>1. stack[i] \in Activation
  BY DEF TypeOK
<1> QED
  BY <1>1 DEF Activation

\* A step that keeps all but one activation.
LEMMA NestLast ==
    ASSUME TypeOK, NestOf(stack, jit), AllSticky(jit, jit'),
           NEW n \in Nat, n <= Len(stack), Kept(n), Len(stack') \in {n, n + 1},
           Len(stack') = n + 1 =>
             LET l == n + 1
                 f == stack'[l].f
             IN  /\ Over(stack', l) =>
                      \/ jit'[f].ineligible /\ jit'[f].entry = None
                      \/ l <= Len(stack) /\ stack[l].f = f /\ Over(stack, l)
                 /\ \A i \in 1..n : stack[i].f = f /\ Over(stack, i) =>
                      /\ Over(stack', l) => jit'[f].entry = None
                      /\ Marked(stack', l) => ~jit'[f].compiling
                 /\ \A i, k \in 1..n : /\ i < k /\ stack[i].f = f /\ stack[k].f = f
                                       /\ Over(stack, i) /\ Over(stack, k)
                                       => ~Marked(stack', l)
    PROVE  NestOf(stack', jit')
<1>1. Len(stack) \in Nat
  BY DEF TypeOK
<1> DEFINE l == n + 1
           f == stack'[l].f
           last == Len(stack') = l
<1>2. \A i \in 1..n : /\ i \in 1..Len(stack) /\ stack'[i] = stack[i] /\ stack[i].f \in Funcs
                      /\ Over(stack', i) = Over(stack, i)
                      /\ Marked(stack', i) = Marked(stack, i)
  <2> SUFFICES ASSUME NEW i \in 1..n
               PROVE  /\ i \in 1..Len(stack) /\ stack'[i] = stack[i] /\ stack[i].f \in Funcs
                      /\ Over(stack', i) = Over(stack, i)
                      /\ Marked(stack', i) = Marked(stack, i)
    OBVIOUS
  <2>1. i \in 1..Len(stack)
    BY <1>1
  <2> QED
    BY <2>1, KeptSame, OnStack
<1>3. last =>
        /\ Over(stack', l) =>
             \/ jit'[f].ineligible /\ jit'[f].entry = None
             \/ l \in 1..Len(stack) /\ stack[l].f = f /\ Over(stack, l)
        /\ \A i \in 1..n : stack[i].f = f /\ Over(stack, i) =>
             /\ Over(stack', l) => jit'[f].entry = None
             /\ Marked(stack', l) => ~jit'[f].compiling
        /\ \A i, k \in 1..n : /\ i < k /\ stack[i].f = f /\ stack[k].f = f
                              /\ Over(stack, i) /\ Over(stack, k)
                              => ~Marked(stack', l)
  BY <1>1
<1>4. \A i \in 1..Len(stack') : i \in 1..n \/ (last /\ i = l)
  OBVIOUS
<1>5. \A i, k \in 1..Len(stack') : i < k => i \in 1..n
  OBVIOUS
<1>6. \A g \in Funcs : Sticky(jit[g], jit'[g])
  BY DEF AllSticky
<1> HIDE DEF l, f, last
<1>7. ASSUME NEW i \in 1..Len(stack'), Over(stack', i)
      PROVE  LET j == jit'[stack'[i].f] IN j.ineligible /\ (j.entry = None \/ ~j.compiling)
  <2>1. CASE i \in 1..n
    <3>1. /\ jit[stack[i].f].ineligible
          /\ jit[stack[i].f].entry = None \/ ~jit[stack[i].f].compiling
      BY <1>2, <1>7, <2>1 DEF NestOf
    <3> QED
      BY <1>2, <1>6, <2>1, <3>1 DEF Sticky
  <2>2. CASE last /\ i = l
    <3>1. CASE l \in 1..Len(stack) /\ stack[l].f = f /\ Over(stack, l)
      <4>1. f \in Funcs /\ jit[f].ineligible /\ (jit[f].entry = None \/ ~jit[f].compiling)
        BY <3>1, OnStack DEF NestOf
      <4> QED
        BY <1>6, <2>2, <4>1 DEF Sticky, f
    <3> QED
      BY <1>3, <1>7, <2>2, <3>1 DEF f
  <2> QED
    BY <1>4, <2>1, <2>2
<1>8. ASSUME NEW i \in 1..Len(stack'), NEW k \in 1..Len(stack'), i < k,
             stack'[k].f = stack'[i].f, Over(stack', i)
      PROVE  /\ Marked(stack', k) => ~jit'[stack'[i].f].compiling
             /\ Over(stack', k) => jit'[stack'[i].f].entry = None
  <2>1. i \in 1..n
    BY <1>5, <1>8
  <2>2. CASE k \in 1..n
    <3> DEFINE j == jit[stack[i].f]
    <3>1. /\ Marked(stack', k) => ~j.compiling
          /\ Over(stack', k) => j.entry = None /\ Marked(stack', k)
          /\ j.ineligible
      BY <1>2, <1>8, <2>1, <2>2 DEF NestOf, Over, Marked
    <3>2. Sticky(j, jit'[stack[i].f])
      BY <1>2, <1>6, <2>1
    <3> QED
      BY <1>2, <2>1, <3>1, <3>2 DEF Sticky
  <2>3. CASE last /\ k = l
    BY <1>2, <1>3, <1>8, <2>1, <2>3 DEF f
  <2> QED
    BY <1>4, <2>2, <2>3
<1>9. ASSUME NEW i \in 1..Len(stack'), NEW k \in 1..Len(stack'), NEW m \in 1..Len(stack'),
             i < k, k < m, stack'[k].f = stack'[i].f, stack'[m].f = stack'[i].f,
             Over(stack', i), Over(stack', k)
      PROVE  ~Marked(stack', m)
  <2>1. i \in 1..n /\ k \in 1..n
    BY <1>5, <1>9
  <2>2. CASE m \in 1..n
    BY <1>2, <1>9, <2>1, <2>2 DEF NestOf
  <2>3. CASE last /\ m = l
    BY <1>2, <1>3, <1>9, <2>1, <2>3 DEF f
  <2> QED
    BY <1>4, <2>2, <2>3
<1> QED
  BY <1>7, <1>8, <1>9 DEF NestOf
\* Every step keeps the nesting as it should be.
LEMMA NestNext ==
    ASSUME TypeOK, NestOf(stack, jit), Steps
    PROVE  NestOf(stack', jit')
<1>1. /\ AllSticky(jit, jit') /\ Len(stack) \in Nat /\ Len(stack') \in Nat
      /\ \A f \in Funcs : Sticky(jit[f], jit'[f])
  BY DEF TypeOK, TiersInv, Steps, AllSticky
<1>2. CASE Returned
  <2> DEFINE n == Len(stack')
  <2>1. n \in Nat /\ n <= Len(stack) /\ Kept(n) /\ Len(stack') \in {n, n + 1} /\ Len(stack') # n + 1
    BY <1>1, <1>2 DEF Returned
  <2> HIDE DEF n
  <2> QED
    BY <1>1, <2>1, NestLast
<1>3. CASE Called
  <2> DEFINE n == Len(stack)
  <2>1. PICK f \in Funcs :
          /\ Len(stack') = n + 1 /\ Kept(n)
          /\ stack'[n + 1].f = f /\ stack'[n + 1].nested = FALSE
          /\ stack'[n + 1].code # None /\ jit[f].ineligible /\ jit[f].entry = None
               => jit[f].compiling /\ ~jit'[f].compiling
    BY <1>3 DEF Called
  <2>2. ~Over(stack', n + 1) /\ (Marked(stack', n + 1) => stack'[n + 1].code # None)
    BY <2>1 DEF Over, Marked
  <2>3. \A i \in 1..n : stack[i].f = f /\ Over(stack, i) =>
          (Marked(stack', n + 1) => ~jit'[f].compiling)
    BY <1>1, <2>1, <2>2 DEF NestOf, Sticky
  <2>4. ASSUME NEW i \in 1..n, NEW k \in 1..n, i < k, stack[i].f = f, stack[k].f = f,
               Over(stack, i), Over(stack, k), Marked(stack', n + 1)
        PROVE  FALSE
    <3>1. jit[f].ineligible /\ jit[f].entry = None /\ ~jit[f].compiling
      BY <2>4 DEF NestOf, Over, Marked
    <3> QED
      BY <2>1, <2>2, <2>4, <3>1
  <2> HIDE DEF n
  <2>5. n \in Nat /\ n <= Len(stack)
    BY <1>1 DEF n
  <2> QED
    BY <1>1, <2>1, <2>2, <2>3, <2>4, <2>5, NestLast
<1>4. CASE Looped
  <2> DEFINE n == Len(stack) - 1
             f == Top.f
  <2>1. Len(stack) = n + 1 /\ n \in Nat /\ f \in Funcs /\ Top = stack[n + 1]
        /\ n + 1 \in 1..Len(stack)
    BY <1>1, <1>4, TopIs DEF Looped
  <2>2. /\ Len(stack') = n + 1 /\ Kept(n) /\ stack'[n + 1].f = f
        /\ stack'[n + 1].nested = stack[n + 1].nested /\ ~jit[f].ineligible
    BY <1>4, <2>1 DEF Looped
  <2> HIDE DEF n, f
  <2>3. \A i \in 1..(n + 1) : stack'[i].nested = stack[i].nested
    BY <2>1, <2>2 DEF Kept
  <2>4. NestedTo(stack', n + 1) = NestedTo(stack, n + 1)
    BY <2>3 DEF NestedTo
  <2>5. Over(stack', n + 1) = Over(stack, n + 1)
    BY <2>2, <2>4 DEF Over
  <2>6. \A i \in 1..Len(stack) : stack[i].f = f => ~Over(stack, i)
    BY <2>2 DEF NestOf
  <2>7. \A i \in 1..n : stack[i].f = f => ~Over(stack, i)
    BY <2>1, <2>6
  <2>8. ~Over(stack', n + 1)
    BY <2>1, <2>5, <2>6 DEF f
  <2> QED
    BY <1>1, <2>1, <2>2, <2>7, <2>8, NestLast
<1>5. CASE Left
  <2> DEFINE n == Len(stack) - 1
             f == Top.f
             l == n + 1
  <2>1. /\ l = Len(stack) /\ n \in Nat /\ f \in Funcs /\ Top = stack[l]
        /\ l \in 1..Len(stack) /\ \A i \in 1..n : i \in 1..Len(stack) /\ i < l
        /\ Top.nested \in BOOLEAN /\ Top.osr \in BOOLEAN
    BY <1>1, <1>5, TopIs DEF Left
  <2>2. /\ Len(stack') = l /\ Kept(n) /\ stack'[l].f = f /\ Top.code # None
        /\ stack'[l].nested = (Top.nested \/ ~Top.osr)
        /\ Depth + (IF ~Top.osr THEN 1 ELSE 0) > MaxReentrancy
             => jit'[f].ineligible /\ jit'[f].entry = None
    BY <1>5, <2>1 DEF Left
  <2> HIDE DEF n, f
  <2>3. Marked(stack, l) /\ stack[l].f = f
    BY <2>1, <2>2 DEF Marked, f
  <2>4. \A i \in 1..n : stack[i].f = f /\ Over(stack, i) => ~jit[f].compiling
    BY <2>1, <2>3 DEF NestOf
  <2>5. \A i \in 1..n : stack[i].f = f /\ Over(stack, i) =>
          jit[f].ineligible /\ ~jit'[f].compiling
    BY <1>1, <2>1, <2>4 DEF NestOf, Sticky
  <2>6. \A i, k \in 1..n : /\ i < k /\ stack[i].f = f /\ stack[k].f = f
                           /\ Over(stack, i) /\ Over(stack, k)
                           => FALSE
    BY <2>1, <2>3 DEF NestOf
  <2>7. \A i \in 1..n : NestedTo(stack', i) = NestedTo(stack, i)
    BY <2>1, <2>2, KeptSame
  <2>8. CASE Top.nested
    <3>1. \A i \in 1..l : stack'[i].nested = stack[i].nested
      <4>1. \A i \in 1..n : stack'[i].nested = stack[i].nested
        BY <2>2 DEF Kept
      <4>2. stack'[l].nested = stack[l].nested
        <5>1. (Top.nested \/ ~Top.osr) = Top.nested
          BY <2>1, <2>8
        <5> QED
          BY <2>1, <2>2, <5>1
      <4>3. \A i \in 1..l : i \in 1..n \/ i = l
        BY <2>1
      <4> QED
        BY <4>1, <4>2, <4>3
    <3>2. NestedTo(stack', l) = NestedTo(stack, l)
      BY <3>1 DEF NestedTo
    <3>3. Over(stack', l) = Over(stack, l)
      BY <2>1, <2>2, <2>8, <3>2 DEF Over
    <3>4. \A i \in 1..n : stack[i].f = f /\ Over(stack, i) =>
            (Over(stack', l) => jit'[f].entry = None)
      <4> SUFFICES ASSUME NEW i \in 1..n, stack[i].f = f, Over(stack, i), Over(stack, l)
                   PROVE  jit'[f].entry = None
        BY <3>3
      <4>1. jit[f].entry = None
        BY <2>1, <2>3 DEF NestOf
      <4> QED
        BY <1>1, <2>1, <2>4, <2>5, <4>1 DEF Sticky
    <3> HIDE DEF l
    <3>5. l = n + 1 /\ l <= Len(stack)
      BY <2>1 DEF l
    <3> QED
      BY <1>1, <2>1, <2>2, <2>3, <2>5, <2>6, <3>3, <3>4, <3>5, NestLast
  <2>9. CASE ~Top.nested
    <3>1. Over(stack', l) => jit'[f].ineligible /\ jit'[f].entry = None
      <4> SUFFICES ASSUME Over(stack', l)
                   PROVE  jit'[f].ineligible /\ jit'[f].entry = None
        OBVIOUS
      <4>1. ~Top.osr /\ Cardinality(NestedTo(stack', l)) > MaxReentrancy
        BY <2>1, <2>2, <2>9 DEF Over
      <4>2. NestedTo(stack', l) = NestedTo(stack, l) \cup {l}
        <5>1. \A i \in 1..n : stack'[i].nested = stack[i].nested
          BY <2>2 DEF Kept
        <5>2. \A i \in 1..l : i \in 1..n \/ i = l
          BY <2>1
        <5>3. stack'[l].nested
          BY <2>2, <4>1
        <5> HIDE DEF l
        <5> QED
          BY <2>1, <5>1, <5>2, <5>3 DEF NestedTo
      <4>3. l \notin NestedTo(stack, l)
        BY <2>1, <2>9 DEF NestedTo
      <4>4. IsFiniteSet(NestedTo(stack, l))
        <5>1. IsFiniteSet(1..l)
          BY <2>1, FS_Interval
        <5> QED
          BY <5>1, FS_Subset DEF NestedTo
      <4>5. /\ Cardinality(NestedTo(stack', l)) = Cardinality(NestedTo(stack, l)) + 1
        BY <4>2, <4>3, <4>4, FS_AddElement
      <4>6. Depth = Cardinality(NestedTo(stack, l))
        <5>1. DOMAIN stack = 1..l
          BY <2>1 DEF TypeOK
        <5> QED
          BY <5>1 DEF Depth, NestedTo
      <4> QED
        BY <2>2, <4>1, <4>5, <4>6
    <3>2. \A i \in 1..n : stack[i].f = f /\ Over(stack, i) =>
            (Over(stack', l) => jit'[f].entry = None)
      BY <3>1
    <3> HIDE DEF l
    <3>3. l = n + 1 /\ l <= Len(stack)
      BY <2>1 DEF l
    <3> QED
      BY <1>1, <2>1, <2>2, <2>5, <2>6, <3>1, <3>2, <3>3, NestLast
  <2> QED
    BY <2>1, <2>8, <2>9
<1> QED
  BY <1>2, <1>3, <1>4, <1>5 DEF Steps, StackMoves

\* A set of positions of the stack has a greatest one.
LEMMA Greatest ==
    ASSUME NEW n \in Nat, NEW S \in SUBSET (1..n), S # {}
    PROVE  \E m \in S : \A y \in S : y <= m
<1> DEFINE T == {n - y : y \in S}
<1>1. T \in SUBSET Nat /\ T # {}
  OBVIOUS
<1>2. PICK t \in T : \A u \in T : ~ (<<u, t>> \in OpToRel(<, Nat))
  BY <1>1, NatLessThanWellFounded, WFMin
<1>3. \A u \in T : ~ (u < t)
  BY <1>1, <1>2 DEF OpToRel
<1>4. PICK m \in S : t = n - m
  BY <1>2
<1>5. ASSUME NEW y \in S
      PROVE  y <= m
  <2>1. n - y \in T
    OBVIOUS
  <2>2. ~ (n - y < n - m)
    BY <1>3, <1>4, <2>1
  <2>3. y \in Int /\ m \in Int
    OBVIOUS
  <2> HIDE DEF T
  <2> QED
    BY <2>2, <2>3
<1> QED
  BY <1>5

\* No more than the limit, and twice the functions past it.
LEMMA NestBound ==
    ASSUME TypeOK, NestOf(stack, jit)
    PROVE  NestingIsBounded
<1> DEFINE n == Len(stack)
           nested == {i \in 1..n : stack[i].nested}
           under == {i \in nested : ~Over(stack, i)}
           over == {i \in 1..n : Over(stack, i)}
           first == {i \in over : \A k \in over : k < i => stack[k].f # stack[i].f}
           second == over \ first
<1>1. n \in Nat /\ DOMAIN stack = 1..n /\ MaxReentrancy \in Nat /\ IsFiniteSet(Funcs)
  BY TiersAssumption DEF TypeOK
<1>2. IsFiniteSet(1..n) /\ Cardinality(Funcs) \in Nat
  BY <1>1, FS_Interval, FS_CardinalityType
<1>3. Depth = Cardinality(nested)
  BY <1>1 DEF Depth
<1>4. nested = (under \cup first) \cup second
  BY DEF Over
<1>5. IsFiniteSet(under) /\ IsFiniteSet(first) /\ IsFiniteSet(second)
  BY <1>2, FS_Subset
<1>6. Cardinality(under) <= MaxReentrancy
  <2>1. CASE under = {}
    <3> HIDE DEF under
    <3>1. Cardinality(under) = 0
      BY <2>1, FS_EmptySet
    <3> QED
      BY <1>1, <3>1
  <2>2. CASE under # {}
    <3>1. under \in SUBSET (1..n)
      OBVIOUS
    <3>2. PICK m \in under : \A y \in under : y <= m
      BY <1>1, <2>2, <3>1, Greatest
    <3>3. under \in SUBSET NestedTo(stack, m)
      BY <3>2 DEF NestedTo
    <3>4. IsFiniteSet(NestedTo(stack, m))
      <4>1. IsFiniteSet(1..m)
        BY <3>2, FS_Interval
      <4> QED
        BY <4>1, FS_Subset DEF NestedTo
    <3>5. /\ Cardinality(under) <= Cardinality(NestedTo(stack, m))
          /\ Cardinality(NestedTo(stack, m)) \in Nat /\ Cardinality(under) \in Nat
      BY <1>5, <3>3, <3>4, FS_Subset, FS_CardinalityType
    <3>6. ~ (Cardinality(NestedTo(stack, m)) > MaxReentrancy)
      BY <3>2 DEF Over
    <3> HIDE DEF under
    <3> QED
      BY <1>1, <3>5, <3>6
  <2> QED
    BY <2>1, <2>2
<1>7. \A i \in over : stack[i].f \in Funcs
  BY OnStack
<1>8. Cardinality(first) <= Cardinality(Funcs)
  <2> DEFINE g == [i \in first |-> stack[i].f]
  <2>1. \A i, k \in first : stack[i].f = stack[k].f => i = k
    <3> SUFFICES ASSUME NEW i \in first, NEW k \in first, stack[i].f = stack[k].f, i # k
                 PROVE  FALSE
      OBVIOUS
    <3>1. i < k \/ k < i
      OBVIOUS
    <3> QED
      BY <3>1
  <2>2. g \in Injection(first, Funcs)
    BY <1>7, <2>1 DEF Injection, IsInjective
  <2> HIDE DEF g, first
  <2> QED
    BY <1>1, <2>2, FS_Injection
<1>9. Cardinality(second) <= Cardinality(Funcs)
  <2> DEFINE g == [i \in second |-> stack[i].f]
  <2>1. ASSUME NEW i \in second, NEW k \in second, stack[i].f = stack[k].f, i < k
        PROVE  FALSE
    <3>1. PICK e \in over : e < i /\ stack[e].f = stack[i].f
      BY <2>1
    <3>2. Marked(stack, k) /\ Over(stack, e) /\ Over(stack, i)
      BY <2>1, <3>1 DEF Marked, Over
    <3> QED
      BY <2>1, <3>1, <3>2 DEF NestOf
  <2>2. \A i, k \in second : stack[i].f = stack[k].f => i = k
    <3> SUFFICES ASSUME NEW i \in second, NEW k \in second, stack[i].f = stack[k].f, i # k
                 PROVE  FALSE
      OBVIOUS
    <3>1. i < k \/ k < i
      OBVIOUS
    <3> QED
      BY <2>1, <3>1
  <2>3. g \in Injection(second, Funcs)
    BY <1>7, <2>2 DEF Injection, IsInjective
  <2> HIDE DEF g, second
  <2> QED
    BY <1>1, <2>3, FS_Injection
<1> HIDE DEF nested, under, first, second
<1>10. /\ IsFiniteSet(under \cup first)
       /\ Cardinality(under \cup first) <= Cardinality(under) + Cardinality(first)
  <2>1. /\ IsFiniteSet(under \cup first) /\ IsFiniteSet(under \cap first)
        /\ Cardinality(under \cup first)
             = Cardinality(under) + Cardinality(first) - Cardinality(under \cap first)
    BY <1>5, FS_Union, FS_Intersection
  <2>2. /\ Cardinality(under) \in Nat /\ Cardinality(first) \in Nat
        /\ Cardinality(under \cap first) \in Nat
    BY <1>5, <2>1, FS_CardinalityType
  <2> QED
    BY <2>1, <2>2
<1>11. Cardinality(nested) <= Cardinality(under \cup first) + Cardinality(second)
  <2>1. /\ IsFiniteSet((under \cup first) \cap second)
        /\ Cardinality(nested)
             = Cardinality(under \cup first) + Cardinality(second)
                 - Cardinality((under \cup first) \cap second)
    BY <1>4, <1>5, <1>10, FS_Union, FS_Intersection
  <2>2. /\ Cardinality(under \cup first) \in Nat /\ Cardinality(second) \in Nat
        /\ Cardinality((under \cup first) \cap second) \in Nat
    BY <1>5, <1>10, <2>1, FS_CardinalityType
  <2> QED
    BY <2>1, <2>2
<1>12. /\ Cardinality(under) \in Nat /\ Cardinality(first) \in Nat
       /\ Cardinality(second) \in Nat /\ Cardinality(under \cup first) \in Nat
       /\ IsFiniteSet(nested)
  BY <1>4, <1>5, <1>10, FS_CardinalityType, FS_Union
<1>13. Cardinality(nested) \in Nat
  BY <1>12, FS_CardinalityType
<1>14. Depth <= MaxReentrancy + 2 * Cardinality(Funcs)
  BY <1>1, <1>2, <1>3, <1>6, <1>8, <1>9, <1>10, <1>11, <1>12, <1>13
<1> QED
  BY <1>14 DEF NestingIsBounded

\* However deep deoptimized activations call each other, the interpreters stacked for
\* them stay within the limit and two for every function there is: the innermost
\* function loses its code past the limit, and can only get what is under way.
THEOREM NestingBound == Spec => []NestingIsBounded
<1> DEFINE Nest == TiersInv /\ NestOf(stack, jit)
<1>1. Init => Nest
  <2>1. Init => NestOf(stack, jit)
    BY DEF Init, NestOf
  <2> QED
    BY <2>1, TiersInvInit
<1>2. Nest /\ [Next]_vars => Nest'
  <2> SUFFICES ASSUME Nest, [Next]_vars PROVE Nest'
    OBVIOUS
  <2>1. TypeOK /\ Steps
    BY TiersInvNext DEF TiersInv
  <2>2. NestOf(stack', jit')
    BY <2>1, NestNext
  <2> QED
    BY <2>1, <2>2 DEF Steps
<1>3. Nest => NestingIsBounded
  BY NestBound DEF TiersInv
<1> QED
  BY <1>1, <1>2, <1>3, PTL DEF Spec
=============================================================================
