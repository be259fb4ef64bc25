------------------------------- MODULE GenHeap -------------------------------
(* The generational heap of one VM (src/src/vm/object.rs, src/src/vm/vm.rs):  *)
(* the nursery, the survivor space and the old generation, the write barrier  *)
(* and its remembered set, the moving minor collection, the marking major     *)
(* one, and the roots and raw pointers through which the interpreter, the     *)
(* natives and compiled code reach the objects.  An object is its slots; any  *)
(* object can be called, and one slot of it is a dictionary key whose hash is *)
(* the address it holds.  The box an object is in and the object itself are   *)
(* told apart: the program must never notice that a box changed.              *)
EXTENDS FiniteSets, FiniteSetsExt, Integers, Sequences, SequencesExt

CONSTANTS
    Eden, Survivor, Tenured,    \* how many boxes each space has
    MaxEpoch,                   \* u32::MAX, the last epoch before 1
    MaxObjects,                 \* bound: objects the heap holds at once
    SlotOrder,                  \* the slots of an object, in scanning order
    Key, Trace,                 \* a dictionary's key; an error's stacktrace
    RaiseKept,                  \* is an error raised again after it was kept?
    Callers                     \* who calls: "instruction", "operator", "new"

ASSUME HeapAssumption ==
    /\ MaxObjects \in Nat \ {0}
    /\ {Eden, Survivor, Tenured} \subseteq Nat /\ Eden > 0
    /\ Survivor >= MaxObjects /\ Tenured >= MaxObjects
    /\ MaxEpoch \in Nat /\ MaxEpoch >= 2
    /\ SlotOrder \in Seq(ToSet(SlotOrder)) /\ {Key, Trace} \subseteq ToSet(SlotOrder)
    /\ RaiseKept \in BOOLEAN /\ Callers \subseteq {"instruction", "operator", "new"}

Nil == 0                        \* no box, and no object
\* An address whose box was given back after a loop had read it: whatever the
\* nursery put there since is at it now.
Retired == -1
Boxes == 1 .. Eden + Survivor + Tenured
EdenBoxes == 1 .. Eden
SurvivorBoxes == Eden + 1 .. Eden + Survivor
Young == EdenBoxes \cup SurvivorBoxes
Old == Boxes \ Young
Pointer == Boxes \cup {Nil}
Slots == ToSet(SlotOrder)
Empty == [s \in Slots |-> Nil]

\* The roots in the order a minor collection takes them: a register of the
\* outer and one of the inner frame (globals, open upvalues, pending errors and
\* handlers are roots just like them), the closures of the two frames, and the
\* pins of an instance under construction and of a closure being entered.
RootOrder == <<"r1", "r2", "outer", "inner", "made", "entered">>
Roots == ToSet(RootOrder)
Registers == {"r1", "r2"}

VARIABLES
    obj,        \* GcBox::obj, the payload: [Boxes -> [Slots -> Pointer]]
    hashed,     \* the key address a dictionary's index was built with
    home,       \* the box each object is in (history variable)
    stamp,      \* GcBox::chunk_idx of a young box: the epoch it belongs to
    live,       \* GcBox::live of the old boxes
    marked,     \* GcBox::marked: reached (old), forwarded (young)
    flag,       \* GcBox::remembered: remembered (old), survived once (young)
    target,     \* GcBox::list_next of a forwarded young box
    list,       \* the list headed by REMEMBERED_HEAD
    used,       \* the nursery cursor: eden boxes handed out
    survivors,  \* Heap::survivor_chunks
    arriving,   \* Heap::survivor_next
    epoch,      \* Heap::young_epoch
    root,       \* the places a collection starts from: [Roots -> Pointer]
    frame,      \* who called the inner frame; "none": there is none
    compiled,   \* is the inner frame in compiled code?
    running,    \* the innermost dispatch loop's or compiled code's closure
    suspended,  \* the closure pointer of the loop waiting for an inner one
    phase,      \* where the collector is; "run": the program runs
    why,        \* what the collection is for: "minor", "major", "enter"
    keeps,      \* keeps_survivors() of this collection
    todo,       \* roots still to forward or to mark
    recalled,   \* remembered objects still to scan
    gray,       \* the worklist
    at, left    \* the object being scanned and its slots still to do

heap == <<obj, hashed, home, stamp, live, marked, flag, target, list,
          used, survivors, arriving, epoch>>
program == <<root, frame, compiled, running, suspended>>
collector == <<phase, why, keeps, todo, recalled, gray, at, left>>
vars == <<heap, program, collector>>

-----------------------------------------------------------------------------
\* Seeded bug: the epoch is counted past the last one.
EndlessEpochs == epoch + 1

\* 0 is never an epoch.
NextEpoch == IF epoch = MaxEpoch THEN 1 ELSE epoch + 1

\* The boxes the heap really holds, and what Heap::holds says of a box.
Held == 1 .. used \cup survivors \cup live
Holds(b) == IF b \in Young THEN stamp[b] = epoch /\ b \notin marked ELSE b \in live

Objects == 1 .. MaxObjects

\* Canonical choices: the lowest free box, the lowest free identity.
FreeTenured == Min(Old \ live)
FreeSurvivor == Min(SurvivorBoxes \ (survivors \cup arriving))
Homeless == {o \in Objects : home[o] = Nil}
Identity == Min(Homeless)
Room == Homeless # {}

\* write_barrier, over the containers that were written.
Remember(cs) ==
    /\ flag' = flag \cup (cs \cap Old)
    /\ list' = list \cup ((cs \cap Old) \ flag)

\* frame_top: the registers of the innermost frame and of those below it.
InReach == IF frame = "none" THEN {"r1"} ELSE Registers
Values == {root[r] : r \in InReach} \cup {Nil}

\* The closure of the innermost frame, as its CallFrame has it.
Closure == IF frame = "none" THEN root["outer"] ELSE root["inner"]

Init ==
    /\ obj = [b \in Boxes |-> Empty]
    /\ hashed = [b \in Boxes |-> Nil]
    /\ home = [o \in Objects |-> IF o = 1 THEN 1 ELSE Nil]
    /\ stamp = [b \in Young |-> IF b = 1 THEN 1 ELSE 0]
    /\ live = {} /\ marked = {} /\ flag = {} /\ list = {}
    /\ target = [b \in Young |-> Nil]
    /\ used = 1 /\ survivors = {} /\ arriving = {} /\ epoch = 1
    /\ root = [r \in Roots |-> IF r = "outer" THEN 1 ELSE Nil]
    /\ frame = "none" /\ compiled = FALSE /\ running = 1 /\ suspended = Nil
    /\ phase = "run" /\ why = "minor" /\ keeps = FALSE
    /\ todo = {} /\ recalled = {} /\ gray = {}
    /\ at = Nil /\ left = <<>>

-----------------------------------------------------------------------------
(* The program *)

\* Heap::alloc_sized: b is the next box of the nursery.
Born(b) ==
    /\ used < Eden /\ Room
    /\ b = used + 1
    /\ used' = b
    /\ home' = [home EXCEPT ![Identity] = b]
    /\ stamp' = [stamp EXCEPT ![b] = epoch]
    /\ target' = [target EXCEPT ![b] = Nil]
    /\ marked' = marked \ {b}
    /\ flag' = flag \ {b}
    /\ UNCHANGED <<live, list, survivors, arriving, epoch>>

\* Writing a slot of a dictionary hashes the key it has then.
Write(b, content) ==
    /\ obj' = [obj EXCEPT ![b] = content]
    /\ hashed' = [hashed EXCEPT ![b] = content[Key]]

Contents == {[Empty EXCEPT ![s] = v] : s \in Slots, v \in Values}

Alloc(r, content) ==
    \E b \in EdenBoxes :
        /\ Born(b) /\ Write(b, content)
        /\ root' = [root EXCEPT ![r] = b]
        /\ UNCHANGED <<frame, compiled, running, suspended, collector>>

\* Seeded bug: an object born old is not remembered.
AllocOldUnremembered(r, content) ==
    /\ Room
    /\ LET b == FreeTenured IN
         /\ live' = live \cup {b}
         /\ Write(b, content)
         /\ home' = [home EXCEPT ![Identity] = b]
         /\ marked' = marked \ {b}
         /\ root' = [root EXCEPT ![r] = b]
    /\ UNCHANGED <<stamp, target, flag, list, used, survivors, arriving, epoch, frame,
                   compiled, running, suspended, collector>>

\* Heap::alloc_old: a box that never moves, remembered from birth because the
\* values it is made of may be young.
AllocOld(r, content) ==
    /\ Room
    /\ LET b == FreeTenured IN
         /\ live' = live \cup {b}
         /\ Write(b, content)
         /\ home' = [home EXCEPT ![Identity] = b]
         /\ marked' = marked \ {b}
         /\ Remember({b})
         /\ root' = [root EXCEPT ![r] = b]
    /\ UNCHANGED <<stamp, target, used, survivors, arriving, epoch, frame,
                   compiled, running, suspended, collector>>

\* container.s = v: a list element, a dictionary entry, a field, a closed
\* upvalue.
Store(c, s, v) ==
    /\ c # Nil
    /\ Write(c, [obj[c] EXCEPT ![s] = v])
    /\ Remember({c})
    /\ UNCHANGED <<home, stamp, live, marked, target, used, survivors, arriving,
                   epoch, program, collector>>

\* Registers take values from each other and from fields.
Load(r, v) ==
    /\ root' = [root EXCEPT ![r] = v]
    /\ UNCHANGED <<heap, frame, compiled, running, suspended, collector>>

Loadable == Values \cup {obj[c][s] : c \in Values \ {Nil}, s \in Slots}

\* raise and Instr::Raise: attach_stacktrace puts a new list into the error.
Raise(e) ==
    /\ e # Nil
    /\ ~RaiseKept => e \in Young
    /\ \E b \in EdenBoxes :
         /\ Born(b)
         /\ obj' = [obj EXCEPT ![b] = Empty, ![e][Trace] = b]
         /\ hashed' = [hashed EXCEPT ![b] = Nil, ![e] = obj'[e][Key]]
    /\ UNCHANGED <<program, collector>>

\* The closure f is called.  An instruction pushes a frame on the loop that
\* runs (dispatch_call); try_operator_override and instantiate run the callee in
\* a loop of its own (call_value), the latter with the new instance pinned.
Call(f, by) ==
    /\ frame = "none" /\ f # Nil
    /\ frame' = by /\ running' = f
    /\ suspended' = IF by = "operator" THEN running ELSE Nil
    /\ \/ /\ by # "new"
          /\ root' = [root EXCEPT !["inner"] = f]
          /\ UNCHANGED heap
       \/ /\ by = "new"
          /\ \E b \in EdenBoxes :
               /\ Born(b) /\ Write(b, Empty)
               /\ root' = [root EXCEPT !["inner"] = f, !["made"] = b]
    /\ UNCHANGED <<compiled, collector>>

\* Instr::Return.  The loop reads its closure from the frame again, except that
\* an instruction that called an operator goes on with the pointer it had.
Return ==
    /\ frame # "none"
    /\ frame' = "none" /\ compiled' = FALSE /\ suspended' = Nil
    /\ running' = IF frame = "operator" THEN suspended ELSE root["outer"]
    /\ root' = [root EXCEPT !["inner"] = Nil, !["made"] = Nil,
                            !["r1"] = IF frame = "new" THEN root["made"] ELSE @]
    /\ UNCHANGED <<heap, collector>>

-----------------------------------------------------------------------------
(* The start of a collection *)

\* Seeded bug: dead registers keep what they named.
BeginUncleared(reason, keep, roots) ==
    /\ phase' = "forward" /\ why' = reason /\ keeps' = keep
    /\ root' = roots
    /\ todo' = {r \in Roots \ (Registers \ InReach) : root'[r] \in Young}
    /\ UNCHANGED <<heap, frame, compiled, running, suspended, recalled, gray, at, left>>

\* collect_minor up to its root loop: registers out of reach are cleared
\* (clear_dead_registers), the others are roots, and those that name nothing
\* young are done.
Begin(reason, keep, roots) ==
    /\ phase' = "forward" /\ why' = reason /\ keeps' = keep
    /\ root' = [r \in Roots |-> IF r \in Registers \ InReach THEN Nil ELSE roots[r]]
    /\ todo' = {r \in Roots : root'[r] \in Young}
    /\ UNCHANGED <<heap, frame, compiled, running, suspended, recalled, gray,
                   at, left>>

\* A safepoint of a loop or of compiled code that finds the nursery over its
\* budget (needs_minor_gc); aging and first_cycle decide whether survivors
\* stay young.
CollectMinor ==
    /\ used > 0 \/ survivors # {}
    /\ \E keep \in BOOLEAN : Begin("minor", keep, root)

CollectGarbage == Begin("major", FALSE, root)

\* ensure_stable_for_compiled_entry: an old closure is entered at once, a
\* young one is pinned and promoted first.
EnterOld ==
    /\ frame # "none" /\ ~compiled
    /\ root["inner"] \in Old
    /\ compiled' = TRUE /\ running' = root["inner"]
    /\ UNCHANGED <<heap, root, frame, suspended, collector>>

EnterYoung ==
    /\ frame # "none" /\ ~compiled
    /\ root["inner"] \in Young
    /\ Begin("enter", FALSE, [root EXCEPT !["entered"] = root["inner"]])

-----------------------------------------------------------------------------
(* The minor collection *)

\* Old, or a survivor of this very collection: stays where it is.
Settled(p) == p \in Young => stamp[p] # epoch

\* Seeded bug: a box that was moved is moved again when it is met again.
LeavesAgain(p) == ~Settled(p)

Leaves(p) == ~Settled(p) /\ p \notin marked

Kept(p) == keeps /\ p \notin flag

\* forward_or_promote, forward_young: p is now found at q.  The payload moves
\* to the survivor space (copy_to_survivors) or the old generation
\* (promote_into_old) the first time; the box left behind forwards to it.
Forward(p, q) ==
    \/ /\ Settled(p) /\ q = p
       /\ UNCHANGED <<home, stamp, live, marked, target, arriving, gray>>
    \/ /\ ~Settled(p) /\ p \in marked /\ q = target[p]
       /\ UNCHANGED <<home, stamp, live, marked, target, arriving, gray>>
    \/ /\ Leaves(p)
       /\ \/ /\ Kept(p) /\ q = FreeSurvivor
             /\ stamp' = [stamp EXCEPT ![q] = NextEpoch]
             /\ arriving' = arriving \cup {q}
             /\ UNCHANGED live
          \/ /\ ~Kept(p) /\ q = FreeTenured
             /\ live' = live \cup {q}
             /\ UNCHANGED <<stamp, arriving>>
       /\ home' = [o \in Objects |-> IF home[o] = p THEN q ELSE home[o]]
       /\ marked' = (marked \ {q}) \cup {p}
       /\ target' = [target EXCEPT ![p] = q]
       /\ gray' = gray \cup {q}

\* Seeded bug: the stub is written before the payload is read.
MovedTooLate(f, p, q) == f

\* The payload, and what is kept beside it, goes along.
Moved(f, p, q) == IF Leaves(p) THEN [f EXCEPT ![q] = f[p]] ELSE f

Flags(p, q) ==
    CASE ~Leaves(p) -> flag
      [] Leaves(p) /\ Kept(p) -> flag \cup {q}
      [] Leaves(p) /\ ~Kept(p) -> flag \ {q}

\* Seeded bug: the index is left as it was when a key moves.
NotReindexed(s, p, q) == Moved(hashed, p, q)

\* DictStorage::reindex, for a key that moved.
Reindexed(s, p, q) ==
    LET kept == Moved(hashed, p, q) IN
      IF s = Key /\ p # q THEN [kept EXCEPT ![at] = q] ELSE kept

\* Is r the first root, in their order, that is still to forward?
Foremost(r) ==
    \E n \in DOMAIN RootOrder :
        r = RootOrder[n] /\ r \in todo /\ \A m \in 1 .. n - 1 : RootOrder[m] \notin todo

ForwardRoot ==
    /\ phase = "forward"
    /\ \E r \in Roots, q \in Pointer :
         /\ Foremost(r)
         /\ Forward(root[r], q)
         /\ obj' = Moved(obj, root[r], q)
         /\ hashed' = Moved(hashed, root[r], q)
         /\ flag' = Flags(root[r], q)
         /\ root' = [root EXCEPT ![r] = q]
         /\ todo' = todo \ {r}
    /\ UNCHANGED <<list, used, survivors, epoch, frame, compiled, running,
                   suspended, phase, why, keeps, recalled, at, left>>

\* drain_remembered, once the roots are done.
Recall ==
    /\ phase = "forward" /\ todo = {}
    /\ phase' = "scan"
    /\ recalled' = list
    /\ flag' = flag \ list
    /\ list' = {}
    /\ UNCHANGED <<obj, hashed, home, stamp, live, marked, target, used, survivors,
                   arriving, epoch, program, why, keeps, todo, gray, at, left>>

\* forward_children starts on an object: the remembered ones first, then the
\* worklist (in any fixed order; the code's is last in, first out).
Scan ==
    /\ phase = "scan" /\ left = <<>>
    /\ \/ /\ recalled # {}
          /\ at' = Min(recalled)
          /\ recalled' = recalled \ {at'}
          /\ UNCHANGED gray
       \/ /\ recalled = {} /\ gray # {}
          /\ at' = Min(gray)
          /\ gray' = gray \ {at'}
          /\ UNCHANGED recalled
    /\ left' = SlotOrder
    /\ UNCHANGED <<heap, program, phase, why, keeps, todo>>

\* One child: forward_slot, and the barrier for an old object that is left with
\* a young child.
ForwardSlot ==
    /\ phase = "scan" /\ left # <<>>
    /\ LET s == Head(left)  p == obj[at][s] IN \E q \in Pointer :
         /\ Forward(p, q)
         /\ obj' = [Moved(obj, p, q) EXCEPT ![at][s] = q]
         /\ hashed' = Reindexed(s, p, q)
         /\ LET holders == IF keeps /\ q \in Young THEN {at} \cap Old ELSE {} IN
              /\ flag' = Flags(p, q) \cup holders
              /\ list' = list \cup (holders \ Flags(p, q))
    /\ left' = Tail(left)
    /\ UNCHANGED <<used, survivors, epoch, program, phase, why, keeps, todo,
                   recalled, at>>

\* Seeded bug: stamps are not cleared when the epochs start over.
StampsKept == stamp

\* advance_epoch, before an epoch is used again.
Stamps == [b \in Young |-> IF epoch = MaxEpoch /\ b \notin arriving THEN 0 ELSE stamp[b]]

\* Seeded bug: the loop goes on with the pointer it had.
NotRefreshed == running

\* run_until reads the closure again after its collection; compiled code, whose
\* closure does not move, has nothing to read.
Refreshed == IF compiled THEN running ELSE Closure

\* reset_nursery and advance_epoch: everything young that was not moved is
\* gone, and of its boxes only the stamps are ever read again.
ResetNursery ==
    /\ phase = "scan" /\ left = <<>> /\ recalled = {} /\ gray = {}
    /\ used' = 0
    /\ survivors' = arriving /\ arriving' = {}
    /\ epoch' = NextEpoch
    /\ stamp' = Stamps
    /\ home' = [o \in Objects |-> IF home[o] \in Young \ arriving THEN Nil ELSE home[o]]
    /\ obj' = [b \in Boxes |-> IF b \in Young \ arriving THEN Empty ELSE obj[b]]
    /\ hashed' = [b \in Boxes |-> IF b \in Young \ arriving THEN Nil ELSE hashed[b]]
    /\ marked' = marked \ Young
    /\ flag' = flag \ (Young \ arriving)
    /\ target' = [b \in Young |-> Nil]
    /\ keeps' = FALSE /\ at' = Nil
    /\ suspended' = IF suspended \in Young \ arriving THEN Retired ELSE suspended
    /\ \/ /\ why = "minor"
          /\ phase' = "run"
          /\ running' = Refreshed
          /\ UNCHANGED <<root, compiled, why>>
       \/ /\ why = "enter"
          /\ phase' = "run" /\ why' = "minor"
          /\ compiled' = TRUE /\ running' = root["entered"]
          /\ root' = [root EXCEPT !["entered"] = Nil]
       \/ /\ why = "major"
          /\ phase' = "roots" /\ why' = "minor"
          /\ UNCHANGED <<root, compiled, running>>
    /\ UNCHANGED <<live, list, todo, frame, recalled, gray, left>>

-----------------------------------------------------------------------------
(* The rest of a major collection: collect_garbage *)

\* mark_object says yes the first time it sees an object that is not dead.
Reach(ps) ==
    LET fresh == (ps \cap live) \ marked IN
      /\ marked' = marked \cup fresh
      /\ gray' = fresh
      /\ UNCHANGED <<obj, hashed, home, stamp, live, flag, target, list, used, survivors,
                     arriving, epoch, program, why, keeps, todo, recalled, at, left>>

MarkRoots == phase = "roots" /\ phase' = "mark" /\ Reach({root[r] : r \in Roots})

\* The worklist, all of it at a time: the order of marking makes no difference.
MarkChildren ==
    /\ phase = "mark" /\ gray # {}
    /\ UNCHANGED phase
    /\ Reach({obj[b][s] : b \in gray, s \in Slots})

\* Seeded bug: the marks stay.
SweepKeepingMarks ==
    /\ phase = "mark" /\ gray = {}
    /\ flag' = flag \ list
    /\ list' = {}
    /\ LET dead == live \ marked IN
         /\ live' = live \ dead
         /\ home' = [o \in Objects |-> IF home[o] \in dead THEN Nil ELSE home[o]]
         /\ obj' = [b \in Boxes |-> IF b \in dead THEN Empty ELSE obj[b]]
         /\ hashed' = [b \in Boxes |-> IF b \in dead THEN Nil ELSE hashed[b]]
    /\ phase' = "run"
    /\ running' = Refreshed
    /\ UNCHANGED <<stamp, marked, target, used, survivors, arriving, epoch, root, frame,
                   compiled, suspended, why, keeps, todo, recalled, gray, at, left>>

\* drain_remembered for its flags alone, then Heap::sweep.
Sweep ==
    /\ phase = "mark" /\ gray = {}
    /\ flag' = flag \ list
    /\ list' = {}
    /\ LET dead == live \ marked IN
         /\ live' = live \ dead
         /\ home' = [o \in Objects |-> IF home[o] \in dead THEN Nil ELSE home[o]]
         /\ obj' = [b \in Boxes |-> IF b \in dead THEN Empty ELSE obj[b]]
         /\ hashed' = [b \in Boxes |-> IF b \in dead THEN Nil ELSE hashed[b]]
    /\ marked' = marked \ Old
    /\ phase' = "run"
    /\ running' = Refreshed
    /\ UNCHANGED <<stamp, target, used, survivors, arriving, epoch, root, frame,
                   compiled, suspended, why, keeps, todo, recalled, gray, at, left>>
-----------------------------------------------------------------------------
(* The system *)

\* One instruction, or the call of one native, between two safepoints.
Instruction ==
    \/ \E r \in InReach, content \in Contents : Alloc(r, content) \/ AllocOld(r, content)
    \/ \E c \in Values, s \in Slots, v \in Values : Store(c, s, v)
    \/ \E r \in InReach, v \in Loadable : Load(r, v)
    \/ \E v \in Values : Raise(v) \/ \E by \in Callers : Call(v, by)
    \/ Return

Safepoint == CollectMinor \/ CollectGarbage \/ EnterOld \/ EnterYoung

Program == phase = "run" /\ (Instruction \/ Safepoint)

Collector ==
    \/ ForwardRoot \/ Recall \/ Scan \/ ForwardSlot \/ ResetNursery
    \/ MarkRoots \/ MarkChildren \/ Sweep

Next == Program \/ Collector

Spec == Init /\ [][Next]_vars

-----------------------------------------------------------------------------
(* Properties *)

\* Types of the variables.
TypeOK ==
    /\ obj \in [Boxes -> [Slots -> Pointer]]
    /\ hashed \in [Boxes -> Pointer]
    /\ home \in [Objects -> Pointer]
    /\ stamp \in [Young -> 0 .. MaxEpoch]
    /\ live \subseteq Old /\ marked \subseteq Boxes /\ flag \subseteq Boxes
    /\ target \in [Young -> Pointer]
    /\ list \subseteq Old
    /\ used \in 0 .. Eden /\ epoch \in 1 .. MaxEpoch
    /\ survivors \subseteq SurvivorBoxes /\ arriving \subseteq SurvivorBoxes
    /\ root \in [Roots -> Pointer]
    /\ frame \in Callers \cup {"none"} /\ compiled \in BOOLEAN
    /\ {running, suspended} \subseteq Pointer \cup {Retired}
    /\ phase \in {"run", "forward", "scan", "roots", "mark"}
    /\ why \in {"minor", "major", "enter"} /\ keeps \in BOOLEAN
    /\ todo \subseteq Roots /\ recalled \subseteq Old /\ gray \subseteq Boxes
    /\ at \in Pointer /\ left \in Seq(Slots)

\* Whenever the program runs, every root and every field of every box the heap
\* holds names a box the heap holds: debug_check_registers' "names an object
\* the heap no longer holds", for all that the program can follow.
NothingDangles ==
    phase = "run" => LET held == Held IN
        /\ \A r \in Roots : root[r] \in held \cup {Nil}
        /\ \A b \in held, s \in Slots : obj[b][s] \in held \cup {Nil}

\* collect_minor: "an old->young edge can only exist via the remembered set",
\* and the set is exactly what the flags say (a flag without its list entry
\* "would silently stop a future write from ever re-queuing that object").
RememberedIsComplete ==
    phase = "run" =>
        /\ \A b \in live, s \in Slots : obj[b][s] \in Young => b \in list
        /\ list = flag \cap live

\* advance_epoch: a retired box never reads as alive again, nor a young box
\* that is in use as retired, however often the epoch comes round.
RetiredReadsDead == phase = "run" => Held = {b \in Boxes : Holds(b)}

\* run_until: "The interpreter re-derives the pointer from the frame's own
\* closure_val on every safepoint rather than needing it pinned", so the closure
\* that is worked with is the frame's, and compiled code's never moves.  But an
\* instruction that calls an operator's method (try_operator_override) has no
\* safepoint after it: if that method collected, this does not hold
\* (HeapOperator.cfg), and the loop works with what was its closure's box.
ClosureIsCurrent ==
    phase = "run" => running = Closure /\ (compiled => running \in Old)

\* What the code does give: an address is out of date only in a loop that goes
\* on after an operator's method that collected, up to its next safepoint or
\* call.  A loop that waits for such a method goes on with its frame's closure
\* or a retired one; every other loop, and compiled code, with the frame's.
ClosureIsReread ==
    phase = "run" =>
        /\ running = Closure \/ (running = Retired /\ frame = "none")
        /\ frame = "operator" => suspended \in {Retired, root["outer"]}
        /\ compiled => running \in Old

\* A dictionary keyed by an object is indexed by the address the key has now.
IndexIsCurrent == phase = "run" => \A b \in Held : hashed[b] = obj[b][Key]

\* Three places keep an address, or a stamp, of an object that a minor
\* collection may move (retired boxes, the running frame's closure, the index of
\* a dictionary).  None of them is out of date when it is used, but for the
\* closure of a loop that goes on after an operator's method that collected:
\* ClosureIsReread excuses that one, ClosureIsCurrent does not.
AddressesAreCurrent == RetiredReadsDead /\ ClosureIsReread /\ IndexIsCurrent

\* A box that was moved is found where it went; others where they are.
Found(p) == IF p \in marked /\ p \in Young /\ stamp[p] = epoch THEN target[p] ELSE p
Object(p) ==
    IF p = Nil THEN Nil
    ELSE LET b == Found(p) IN CHOOSE o \in Objects : home[o] = b

AbsRoot == [r \in Roots |-> Object(root[r])]
AbsField == [o \in Objects \ Homeless |-> [s \in Slots |-> Object(obj[home[o]][s])]]

Abs == INSTANCE AbstractHeap WITH root <- AbsRoot, field <- AbsField

\* No collection is ever noticed: through every step of it the program's view
\* of its objects is what its own operations made of it.
CollectionsAreInvisible == Abs!Spec

\* A major collection leaves exactly what can be reached.
MajorReclaims ==
    [][phase = "mark" /\ phase' = "run" => Objects \ Homeless' = Abs!Reached']_vars

\* Every collection ends, whatever cycles the objects are in: each step leaves
\* less to do than there was.
Stage(p) == CASE p = "forward" -> 4 [] p = "scan" -> 3 [] p = "roots" -> 2
              [] p = "mark" -> 1 [] p = "run" -> 0

PerObject == Len(SlotOrder) + 2

ToMove == {o \in Objects : home[o] \in Young \ arriving}

Work ==
    IF phase \in {"roots", "mark"} THEN 2 * Cardinality(live \ marked) + Cardinality(gray)
    ELSE (PerObject + 1) * Cardinality(ToMove)
         + PerObject * (Cardinality(gray) + Cardinality(recalled))
         + Len(left) + Cardinality(todo)

CollectionsEnd ==
    [][phase # "run" => \/ Stage(phase') < Stage(phase)
                        \/ phase' = phase /\ Work' < Work]_vars

\* A collection, once begun, comes to its end, and a major one leaves nothing
\* behind that it should have taken.
CollectionsDoTheirWork == CollectionsEnd /\ MajorReclaims
=============================================================================
