-------------------------------- MODULE JitTiers --------------------------------
(***************************************************************************)
(* One VM's compiled code: how a function gets it, enters it, gives up on  *)
(* it and gets it again (vm/vm.rs: tiered_entry, maybe_osr, tier_up,       *)
(* settle_deopt, enqueue_compile, drain_jit_results; JitInfo in            *)
(* vm/object.rs).  Tier 1 is "Kebbi", tier 2 "Bayelsa".  In direct mode,   *)
(* the default, every compile asks for tier 2; with ZURI_JIT_TIERED tier 1 *)
(* profiles first.                                                         *)
(*                                                                         *)
(* Code is what the VM can tell of it: its tier, whether it profiles, the  *)
(* sites it bets on, the loop headers it can be entered at and whether it  *)
(* bets on list elements.  A bet may fail whenever the code runs.  The     *)
(* counters that make a function warm, a loop hot or a tier-up due are a   *)
(* choice.  Calls built into their caller are left out: a bet that fails   *)
(* is one of the function whose code it is in.                             *)
(***************************************************************************)
EXTENDS Naturals, Sequences, FiniteSets

CONSTANTS Funcs,
          Sites,        \* instructions a compile can bet on
          GlobalSites,  \* those where tier 1 bets on what a global holds now
          Headers,      \* loop headers, of every function
          MaxInvalidations, \* MAX_JIT_INVALIDATIONS
          MaxReentrancy,    \* MAX_DEOPT_REENTRANCY
          MaxCallDepth,     \* MAX_JIT_CALL_DEPTH
          MaxDepth,         \* bound: activations on the stack
          MayStop,          \* whether the compiler can be stopped (isolate pool)
          None

ASSUME TiersAssumption ==
    /\ IsFiniteSet(Funcs) /\ GlobalSites \subseteq Sites /\ None \notin Headers
    /\ {MaxInvalidations, MaxReentrancy, MaxCallDepth, MaxDepth} \subseteq Nat
    /\ MayStop \in BOOLEAN

VARIABLES
    tiered,   \* ZURI_JIT_TIERED, read once
    jit,      \* [Funcs -> JitInfo]; an osr_ids holds the code it maps the loops of
    job,      \* [Funcs -> Job or None]: with the compiler
    result,   \* [Funcs -> Result or None]: sent back and not drained
    stack     \* activations, innermost last

vars == <<tiered, jit, job, result, stack>>

Code == [tier : 1..2, profiling : BOOLEAN, bets : SUBSET Sites,
         loops : SUBSET Headers, elem : BOOLEAN]

JitInfo == [entry : Code \cup {None}, osr_ids : Code \cup {None},
            baseline : Code \cup {None}, baseline_osr_ids : Code \cup {None},
            tier : 0..2, tier2 : {"none", "compiling", "installed", "declined"},
            profiling : BOOLEAN, compiling : BOOLEAN, ineligible : BOOLEAN,
            invalidations : 0..(MaxInvalidations + 1), deopt_sites : SUBSET Sites,
            speculation_off : BOOLEAN, elem_speculation_off : BOOLEAN]

(* What a compile knows: enqueue_compile's snapshot.                          *)
Job == [wanted : BOOLEAN, loops : SUBSET Headers, profile : BOOLEAN,
        bets : SUBSET Sites, elem : BOOLEAN]

Result == [code : Code \cup {None}, wanted : BOOLEAN]

(* An activation of f: the code it is in, None when it is interpreted;        *)
(* whether it entered that at a loop; whether a run_until was stacked for it. *)
Activation == [f : Funcs, code : Code \cup {None}, osr : BOOLEAN, nested : BOOLEAN]

Init ==
    /\ tiered \in BOOLEAN
    /\ jit = [f \in Funcs |->
               [entry |-> None, osr_ids |-> None, baseline |-> None, baseline_osr_ids |-> None,
                tier |-> 0, tier2 |-> "none", profiling |-> FALSE, compiling |-> FALSE,
                ineligible |-> FALSE, invalidations |-> 0, deopt_sites |-> {},
                speculation_off |-> FALSE, elem_speculation_off |-> FALSE]]
    /\ job = [f \in Funcs |-> None]
    /\ result = [f \in Funcs |-> None]
    /\ stack = <<>>

-------------------------------------------------------------------------------
(* What happens to a JitInfo. *)

(* Seeded bug: tier 2's state stays when its code goes.                       *)
DroppedInstalled(j) ==
    [j EXCEPT !.entry = None, !.tier = 0, !.baseline = None, !.baseline_osr_ids = None,
              !.profiling = FALSE]

(* drop_compiled. *)
Dropped(j) ==
    [j EXCEPT !.entry = None, !.tier = 0, !.baseline = None, !.baseline_osr_ids = None,
              !.profiling = FALSE, !.tier2 = IF @ = "declined" THEN @ ELSE "none"]

(* Seeded bug: the baseline is entered by tier 2's osr ids.                   *)
InvalidatedKeepsIds(j, from_tier2) ==
    LET k == [j EXCEPT !.speculation_off = @ \/ j.invalidations = MaxInvalidations,
                       !.invalidations = @ + 1]
    IN  IF j.invalidations > MaxInvalidations THEN j
        ELSE IF from_tier2 /\ j.tier = 2 /\ j.baseline # None
        THEN [k EXCEPT !.entry = j.baseline, !.baseline = None, !.baseline_osr_ids = None,
                       !.tier = 1, !.tier2 = "none"]
        ELSE Dropped(k)

(* invalidate_compiled: tier 2's code gives way to the tier-1 code it         *)
(* replaced, anything else to the interpreter.                                *)
Invalidated(j, from_tier2) ==
    LET k == [j EXCEPT !.speculation_off = @ \/ j.invalidations = MaxInvalidations,
                       !.invalidations = @ + 1]
    IN  IF j.invalidations > MaxInvalidations THEN j
        ELSE IF from_tier2 /\ j.tier = 2 /\ j.baseline # None
        THEN [k EXCEPT !.entry = j.baseline, !.osr_ids = j.baseline_osr_ids,
                       !.baseline = None, !.baseline_osr_ids = None,
                       !.tier = 1, !.tier2 = "none"]
        ELSE Dropped(k)

(* Seeded bug: the cap is not looked at.                                      *)
ElemMissedUncapped(j) ==
    IF j.elem_speculation_off THEN j
    ELSE Dropped([j EXCEPT !.elem_speculation_off = TRUE, !.invalidations = @ + 1])

(* disable_elem_speculation. *)
ElemMissed(j) ==
    LET k == [j EXCEPT !.elem_speculation_off = TRUE]
    IN  IF j.elem_speculation_off \/ j.invalidations > MaxInvalidations THEN k
        ELSE Dropped([k EXCEPT !.invalidations = @ + 1])

(* drain_jit_results, for one result. *)
Installed(j, r) ==
    LET failed == [j EXCEPT !.ineligible = TRUE, !.tier2 = IF r.wanted THEN "declined" ELSE @]
        second == [j EXCEPT !.baseline = IF j.tier # 2 THEN j.entry ELSE @,
                            !.baseline_osr_ids = IF j.tier # 2 THEN j.osr_ids ELSE @,
                            !.tier2 = "installed"]
        first == [j EXCEPT !.baseline = None, !.baseline_osr_ids = None,
                           !.profiling = r.code.profiling,
                           !.tier2 = IF r.wanted THEN "declined" ELSE @]
        With(k) == [k EXCEPT !.tier = r.code.tier, !.osr_ids = r.code, !.entry = r.code]
        k == IF r.code = None THEN failed
             ELSE IF r.code.tier = 2 THEN With(second) ELSE With(first)
    IN  [k EXCEPT !.compiling = FALSE]

(* Seeded bug: new code starts with a clean record.                           *)
DrainedForgets ==
    [f \in Funcs |-> IF result[f] = None THEN jit[f]
                     ELSE [Installed(jit[f], result[f]) EXCEPT !.invalidations = 0]]

Drained == [f \in Funcs |-> IF result[f] = None THEN jit[f] ELSE Installed(jit[f], result[f])]

Drain == result' = [f \in Funcs |-> None]

HasLoop(code, h) == code # None /\ h \in code.loops

-------------------------------------------------------------------------------
(* Asking for a compile. *)

(* enqueue_compile; the send fails when every worker is gone. *)
Enqueue(js, f, optimize, entries) ==
    LET j == js[f]
        wanted == optimize \/ ~tiered
        snapshot == [wanted  |-> wanted,
                     loops   |-> IF optimize /\ tiered THEN entries ELSE Headers,
                     profile |-> ~wanted /\ j.tier2 # "declined",
                     bets    |-> IF j.speculation_off THEN {} ELSE Sites \ j.deopt_sites,
                     elem    |-> ~j.elem_speculation_off]
        k == [j EXCEPT !.tier2 = IF wanted THEN "compiling" ELSE @]
    IN  \/ /\ job' = [job EXCEPT ![f] = snapshot]
           /\ jit' = [js EXCEPT ![f] = [k EXCEPT !.compiling = TRUE]]
        \/ /\ MayStop
           /\ jit' = [js EXCEPT ![f] = [k EXCEPT !.compiling = FALSE, !.ineligible = TRUE]]
           /\ UNCHANGED job

(* enqueue_first_compile: straight to tier 2 in direct mode, or when every    *)
(* site has run.                                                              *)
EnqueueFirst(js, f, entries) ==
    \E complete \in BOOLEAN :
        Enqueue(js, f, ~tiered \/ (js[f].tier2 = "none" /\ complete), entries)

-------------------------------------------------------------------------------
(* Entering and leaving compiled code. *)

Top == stack[Len(stack)]

SetTop(a) == stack' = [stack EXCEPT ![Len(stack)] = a]

(* jit_call_depth and deopt_reentrancy_depth. *)
InCode == Cardinality({i \in DOMAIN stack : stack[i].code # None})
Depth == Cardinality({i \in DOMAIN stack : stack[i].nested})

(* enter_compiled; the code scans its lists first, if it bets on them. *)
Enters(js, f, code) ==
    \E missed \in {FALSE, code.elem} :
        jit' = IF missed THEN [js EXCEPT ![f] = ElemMissed(@)] ELSE js

Pushes(f, code) ==
    stack' = Append(stack, [f |-> f, code |-> code, osr |-> FALSE, nested |-> FALSE])

(* A call of f that finds code, and one that does not: tiered_entry.          *)
CallCompiled(f) ==
    /\ Len(stack) < MaxDepth /\ InCode < MaxCallDepth
    /\ jit[f].entry # None
    /\ Enters(jit, f, jit[f].entry) /\ Pushes(f, jit[f].entry)
    /\ UNCHANGED <<tiered, job, result>>

CallTooDeep(f) ==
    /\ Len(stack) < MaxDepth /\ InCode >= MaxCallDepth
    /\ Pushes(f, None)
    /\ UNCHANGED <<tiered, jit, job, result>>

(* Seeded bug: a function given up on is asked for when it is warm.           *)
CallUncompiledAsks(f) ==
    /\ Len(stack) < MaxDepth /\ InCode < MaxCallDepth
    /\ jit[f].entry = None
    /\ Drain
    /\ LET js == Drained IN
         \/ /\ js[f].entry # None
            /\ Enters(js, f, js[f].entry) /\ Pushes(f, js[f].entry)
            /\ UNCHANGED job
         \/ /\ js[f].entry = None
            /\ Pushes(f, None)
            /\ \/ jit' = js /\ UNCHANGED job
               \/ ~js[f].compiling /\ EnqueueFirst(js, f, {})
    /\ UNCHANGED tiered

CallUncompiled(f) ==
    /\ Len(stack) < MaxDepth /\ InCode < MaxCallDepth
    /\ jit[f].entry = None
    /\ Drain
    /\ LET js == Drained IN
         \/ /\ js[f].entry # None
            /\ Enters(js, f, js[f].entry) /\ Pushes(f, js[f].entry)
            /\ UNCHANGED job
         \/ /\ js[f].entry = None
            /\ Pushes(f, None)
            /\ \/ jit' = js /\ UNCHANGED job
               \/ /\ ~js[f].ineligible /\ ~js[f].compiling
                  /\ EnqueueFirst(js, f, {})
    /\ UNCHANGED tiered

(* A backward jump of an interpreted activation: maybe_osr.  It looks at      *)
(* ineligible before it drains.                                               *)
Loop(h) ==
    /\ stack # <<>> /\ Top.code = None
    /\ ~jit[Top.f].ineligible /\ InCode < MaxCallDepth
    /\ Drain
    /\ LET js == Drained
           j == js[Top.f]
           Way(code) == /\ Enters(js, Top.f, code)
                        /\ SetTop([Top EXCEPT !.code = code, !.osr = TRUE])
                        /\ UNCHANGED job
       IN  \/ j.entry # None /\ HasLoop(j.osr_ids, h) /\ Way(j.entry)
           \/ /\ j.entry # None /\ ~HasLoop(j.osr_ids, h)
              /\ j.baseline # None /\ HasLoop(j.baseline_osr_ids, h)
              /\ Way(j.baseline)
           \/ /\ j.entry # None /\ ~HasLoop(j.osr_ids, h)
              /\ ~(j.baseline # None /\ HasLoop(j.baseline_osr_ids, h))
              /\ jit' = js /\ UNCHANGED <<job, stack>>
           \/ j.entry = None /\ jit' = js /\ UNCHANGED <<job, stack>>
           \/ /\ j.entry = None /\ ~j.compiling
              /\ EnqueueFirst(js, Top.f, {h}) /\ UNCHANGED stack
    /\ UNCHANGED tiered

(* Seeded bug: past the limit the function is given up on and its code stays. *)
SettleKeepsEntry(js, site) ==
    LET nested == ~Top.osr
        j == js[Top.f]
        k == IF Depth + (IF nested THEN 1 ELSE 0) > MaxReentrancy
             THEN [j EXCEPT !.ineligible = TRUE] ELSE j
        noted == Invalidated([k EXCEPT !.deopt_sites = @ \cup {site}], Top.code.tier = 2)
    IN  /\ jit' = [js EXCEPT ![Top.f] = IF site = None THEN k ELSE noted]
        /\ SetTop([Top EXCEPT !.code = None, !.nested = @ \/ nested])

(* settle_deopt: the interpreter takes the activation over, in a run_until of *)
(* its own unless the code was entered at a loop.  site is the bet that       *)
(* failed, None when nothing is blamed.                                       *)
Settle(js, site) ==
    LET nested == ~Top.osr
        j == js[Top.f]
        k == IF Depth + (IF nested THEN 1 ELSE 0) > MaxReentrancy
             THEN [Dropped(j) EXCEPT !.ineligible = TRUE] ELSE j
        noted == Invalidated([k EXCEPT !.deopt_sites = @ \cup {site}], Top.code.tier = 2)
    IN  /\ jit' = [js EXCEPT ![Top.f] = IF site = None THEN k ELSE noted]
        /\ SetTop([Top EXCEPT !.code = None, !.nested = @ \/ nested])

Deopt(s) ==
    /\ stack # <<>> /\ Top.code # None /\ s \in Top.code.bets
    /\ Settle(jit, s)
    /\ UNCHANGED <<tiered, job, result>>

(* The code leaves without blame: a raise, or a handler of its own. *)
Leave ==
    /\ stack # <<>> /\ Top.code # None
    /\ Settle(jit, None)
    /\ UNCHANGED <<tiered, job, result>>

(* Profiling code reaches its budget: tier_up, at an entry (None) or at a     *)
(* backward jump to h, where it leaves for the code that took its place.      *)
TierUp(h) ==
    /\ stack # <<>> /\ Top.code # None /\ Top.code.profiling
    /\ Drain
    /\ LET js == Drained
           j == js[Top.f]
           settled == j.tier = 2 \/ ~j.profiling
           leaves == settled /\ j.entry # None /\ HasLoop(j.osr_ids, h)
           asks == /\ j.tier2 = "none" \/ (j.tier2 = "installed" /\ h # None)
                   /\ ~j.compiling /\ ~j.ineligible
           known == IF j.tier = 2 /\ j.osr_ids # None THEN j.osr_ids.loops ELSE {}
       IN  \/ leaves /\ Settle(js, None) /\ UNCHANGED job
           \/ ~leaves /\ ~asks /\ jit' = js /\ UNCHANGED <<job, stack>>
           \/ /\ ~leaves /\ asks
              /\ Enqueue(js, Top.f, TRUE, ({h} \ {None}) \cup known)
              /\ UNCHANGED stack
    /\ UNCHANGED tiered

Return ==
    /\ stack # <<>>
    /\ stack' = SubSeq(stack, 1, Len(stack) - 1)
    /\ UNCHANGED <<tiered, jit, job, result>>

-------------------------------------------------------------------------------
(* The compiler: the tier asked for, tier 1 when tier 2 declines, or an error. *)

Compiled(j) ==
    LET second == [tier |-> 2, profiling |-> FALSE, bets |-> j.bets, loops |-> j.loops,
                   elem |-> FALSE]
        first == [tier |-> 1, profiling |-> j.profile, bets |-> j.bets \cup GlobalSites,
                  loops |-> Headers, elem |-> j.elem]
    IN  IF j.wanted THEN {second, first} ELSE {first}

Answer(f) ==
    /\ job[f] # None
    /\ job' = [job EXCEPT ![f] = None]
    /\ \E code \in Compiled(job[f]) \cup {None} :
         result' = [result EXCEPT ![f] = [code |-> code, wanted |-> job[f].wanted]]
    /\ UNCHANGED <<tiered, jit, stack>>

(* The compiler stops with the job in hand, or in its queue. *)
JobLost(f) ==
    /\ MayStop /\ job[f] # None
    /\ job' = [job EXCEPT ![f] = None]
    /\ UNCHANGED <<tiered, jit, result, stack>>

Next ==
    \/ \E f \in Funcs : CallCompiled(f) \/ CallTooDeep(f) \/ CallUncompiled(f)
                        \/ Answer(f) \/ JobLost(f)
    \/ \E h \in Headers : Loop(h)
    \/ \E h \in Headers \cup {None} : TierUp(h)
    \/ \E s \in Sites : Deopt(s)
    \/ Leave \/ Return

Spec == Init /\ [][Next]_vars

-------------------------------------------------------------------------------

(* Every variable has its type. *)
TypeOK ==
    /\ tiered \in BOOLEAN
    /\ jit \in [Funcs -> JitInfo]
    /\ job \in [Funcs -> Job \cup {None}]
    /\ result \in [Funcs -> Result \cup {None}]
    /\ stack \in Seq(Activation) /\ Len(stack) <= MaxDepth

(* The code a function is entered in is the code its osr ids are numbers of,  *)
(* for both tiers, although dropping the code leaves the ids where they are   *)
(* (drop_compiled) and they become the baseline's without a look (Install):   *)
(* an id of other code would enter at the wrong instruction.                  *)
CodeMatchesItsMaps ==
    \A f \in Funcs : LET j == jit[f] IN
        /\ j.entry # None => j.osr_ids = j.entry /\ j.tier = j.entry.tier
        /\ j.baseline # None =>
             /\ j.baseline_osr_ids = j.baseline /\ j.baseline.tier = 1
             /\ j.tier = 2
        /\ j.entry = None <=> j.tier = 0

(* The tier-2 state says what became of tier 2 (TIER2_COMPILING, "a compile   *)
(* is in flight"; TIER2_INSTALLED, "its code is installed"): tier_up would    *)
(* never ask again for a function it had wrong.                               *)
Tier2IsAccounted ==
    \A f \in Funcs : LET j == jit[f] IN
        /\ j.tier2 = "compiling" => j.compiling \/ j.ineligible
        /\ j.tier2 = "installed" => j.tier = 2
        /\ j.tier = 2 => j.tier2 \in {"installed", "compiling", "declined"}

(* What JitInfo says of a function's code is what the code is, whatever       *)
(* deopts, invalidations and compiles in flight came between.                 *)
TiersAreInStep == CodeMatchesItsMaps /\ Tier2IsAccounted

(* Nested interpreters are bounded: past the limit each deopt takes the       *)
(* innermost function's code away for good, and all a function can still get  *)
(* is the code a compile had under way.                                       *)
NestingIsBounded == Depth <= MaxReentrancy + 2 * Cardinality(Funcs)

(* A function given up on with no compile under way never has code again      *)
(* (JitInfo::ineligible, "Sticky").                                           *)
GivenUpForGood ==
    [][\A f \in Funcs :
         jit[f].ineligible /\ ~jit[f].compiling /\ jit[f].entry = None
           => jit'[f].entry = None /\ ~jit'[f].compiling]_vars

(* However its code goes on failing, a function stops being compiled again    *)
(* (MAX_JIT_INVALIDATIONS, "either way the recompiling stops").               *)
SettlesDown == <>[][\A f \in Funcs : job[f] = None => job'[f] = None]_vars

(* Compiling is given up for good: at once for a function marked so, and in the *)
(* end for one whose code keeps failing.                                        *)
CompilingStops == GivenUpForGood /\ SettlesDown
=================================================================================
