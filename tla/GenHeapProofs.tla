---------------------------- MODULE GenHeapProofs ----------------------------
(* Proofs about GenHeap, for heaps of every size: the spaces never run full,  *)
(* nothing the program can follow dangles, the remembered set is complete, no *)
(* address that is kept beside the roots is out of date when it is used, and  *)
(* no collection is noticed (refinement of AbstractHeap) or goes on for ever. *)
EXTENDS GenHeap, FiniteSetTheorems, WellFoundedInduction, TLAPS

Moving == phase \in {"forward", "scan"}
Marking == phase \in {"roots", "mark"}

\* The young boxes a collection empties, the boxes that outlive it, and all that
\* are some object's now.
From == 1 .. used \cup survivors
To == arriving \cup live
Current == (From \ marked) \cup To

\* The spaces, and what the flags say, in every phase.
SpacesFit ==
    /\ list = flag \cap Old /\ list \subseteq live
    /\ survivors \cap arriving = {}
    /\ survivors \cup arriving \subseteq flag
    /\ keeps \/ arriving = {}
    /\ ~Moving => arriving = {}
    /\ Moving => marked \subseteq From
    /\ phase \in {"run", "roots"} => marked = {}
    /\ Marking => used = 0 /\ survivors = {}
    /\ phase = "mark" => marked \subseteq live

\* Every current box is one object's, and every object is in a current box.
HomesFit ==
    /\ \A o \in Objects : home[o] \in Current \cup {Nil}
    /\ \A b \in Current : \E o \in Objects : home[o] = b
    /\ \A o, x \in Objects : home[o] = home[x] /\ home[o] # Nil => o = x

\* A stamp is the epoch's exactly where the collection empties, the next one's
\* exactly where it arrives, and older elsewhere.
StampsFit ==
    /\ \A b \in Young \ arriving : stamp[b] <= epoch /\ (stamp[b] = epoch <=> b \in From)
    /\ \A b \in arriving : stamp[b] = NextEpoch

\* Boxes that were left forward to different boxes; survivors to old ones.
ForwardsFit ==
    Moving =>
        /\ \A p \in marked : target[p] \in To /\ (p \in survivors => target[p] \in live)
        /\ \A p, x \in marked : target[p] = target[x] => p = x

\* What each phase leaves empty.
WorkFits ==
    /\ phase # "forward" => todo = {}
    /\ phase # "scan" => recalled = {} /\ at = Nil /\ left = <<>>
    /\ phase \in {"run", "roots"} => gray = {}
    /\ Moving => gray \subseteq To
    /\ phase = "mark" => gray \subseteq marked
    /\ recalled \subseteq live
    /\ at \in To \cup {Nil}
    /\ at = Nil => left = <<>>
    /\ why # "minor" => ~keeps

\* Roots name boxes that are, were or will be somebody's; those that are done,
\* boxes that stay.
RootsFit ==
    /\ \A r \in Roots : root[r] \in From \cup To \cup {Nil}
    /\ Moving => \A r \in Roots \ todo : root[r] \in To \cup {Nil}

\* So do the fields of an object, wherever it is.
FieldsFit ==
    \A b \in Current :
        /\ \A s \in Slots : obj[b][s] \in From \cup To \cup {Nil}
        /\ hashed[b] = obj[b][Key]

\* Is slot s of box b still to be looked at?
Unscanned(b, s) ==
    \/ b \in gray \cup recalled
    \/ phase = "forward" /\ b \in list
    \/ b = at /\ s \in ToSet(left)

\* What was looked at names boxes that stay, and an old box that names a young
\* one is remembered.
ScannedFits ==
    /\ Moving => \A b \in To, s \in Slots :
                    \/ Unscanned(b, s)
                    \/ /\ obj[b][s] \in To \cup {Nil}
                       /\ b \in live /\ obj[b][s] \in Young => b \in list
    /\ phase = "run" => \A b \in live, s \in Slots : obj[b][s] \in Young => b \in list

\* What is marked and not on the worklist names what is marked.
MarksFit ==
    phase = "mark" =>
        /\ \A r \in Roots : root[r] \in marked \cup {Nil}
        /\ \A b \in marked \ gray, s \in Slots : obj[b][s] \in marked \cup {Nil}

\* Where a box m marks as left is forwarded to by t; others are where they are.
Whereabouts(m, t, p) == IF p \in m THEN t[p] ELSE p

\* The closures that are kept outside the roots.
ClosuresFit ==
    /\ compiled => frame # "none" /\ running = root["inner"] /\ running \in Old
    /\ frame = "operator" => \/ suspended \in {Retired, root["outer"]}
                             \/ Moving /\ suspended \in From
    /\ phase = "run" => running = Closure \/ (running = Retired /\ frame = "none")
    /\ ~Moving => why = "minor"
    /\ why = "enter" => /\ frame # "none" /\ ~compiled
                        /\ root["entered"] # Nil
                        /\ Whereabouts(marked, target, root["entered"])
                             = Whereabouts(marked, target, root["inner"])

\* The types, part by part.
SpaceTypes ==
    /\ home \in [Objects -> Pointer]
    /\ stamp \in [Young -> 0 .. MaxEpoch]
    /\ live \subseteq Old /\ marked \subseteq Boxes /\ flag \subseteq Boxes
    /\ target \in [Young -> Pointer]
    /\ list \subseteq Old
    /\ used \in 0 .. Eden /\ epoch \in 1 .. MaxEpoch
    /\ survivors \subseteq SurvivorBoxes /\ arriving \subseteq SurvivorBoxes
DataTypes ==
    /\ obj \in [Boxes -> [Slots -> Pointer]]
    /\ hashed \in [Boxes -> Pointer]
    /\ root \in [Roots -> Pointer]
ClosureTypes ==
    /\ frame \in Callers \cup {"none"} /\ compiled \in BOOLEAN
    /\ {running, suspended} \subseteq Pointer \cup {Retired}
WorkTypes ==
    /\ phase \in {"run", "forward", "scan", "roots", "mark"}
    /\ why \in {"minor", "major", "enter"} /\ keeps \in BOOLEAN
    /\ todo \subseteq Roots /\ recalled \subseteq Old /\ gray \subseteq Boxes
    /\ at \in Pointer /\ left \in Seq(Slots)

\* The inductive invariant, by what its parts are about.
SpaceInv == SpaceTypes /\ SpacesFit /\ HomesFit /\ StampsFit /\ ForwardsFit
WorkInv == WorkTypes /\ WorkFits
DataInv == DataTypes /\ RootsFit /\ FieldsFit /\ ScannedFits /\ MarksFit
ClosureInv == ClosureTypes /\ ClosuresFit
HeapInv == SpaceInv /\ WorkInv /\ DataInv /\ ClosureInv

-----------------------------------------------------------------------------
(* The layout of the heap *)

\* A set of numbers has a least one, and Min picks it.
LEMMA MinIn ==
    ASSUME NEW S \in SUBSET Nat, S # {}
    PROVE  Min(S) \in S
<1>1. PICK x \in S : \A y \in S : ~ (<<y, x>> \in OpToRel(<, Nat))
  BY NatLessThanWellFounded, WFMin
<1>2. \A y \in S : x <= y
  <2>1. SUFFICES ASSUME NEW y \in S PROVE x <= y
    OBVIOUS
  <2>2. <<y, x>> \notin OpToRel(<, Nat)
    BY <1>1
  <2>3. ~ (y < x)
    BY <2>2 DEF OpToRel
  <2> QED
    BY <2>3
<1> QED
  BY <1>2 DEF Min

\* The sizes of the spaces are numbers.
LEMMA Sizes ==
    /\ Eden \in Nat /\ Survivor \in Nat /\ Tenured \in Nat /\ MaxObjects \in Nat
    /\ Eden > 0 /\ MaxObjects > 0 /\ Survivor >= MaxObjects /\ Tenured >= MaxObjects
    /\ MaxEpoch \in Nat /\ MaxEpoch >= 2
BY HeapAssumption

\* The spaces are disjoint sets of numbers above Nil, as large as they are said
\* to be.
LEMMA Layout ==
    /\ Boxes \subseteq Nat /\ Nil \notin Boxes /\ Retired \notin Pointer
    /\ Boxes = Young \cup Old /\ Young \cap Old = {}
    /\ Young = EdenBoxes \cup SurvivorBoxes /\ EdenBoxes \cap SurvivorBoxes = {}
    /\ IsFiniteSet(SurvivorBoxes) /\ Cardinality(SurvivorBoxes) >= MaxObjects
    /\ IsFiniteSet(Old) /\ Cardinality(Old) >= MaxObjects
    /\ IsFiniteSet(Objects) /\ Cardinality(Objects) = MaxObjects
    /\ 1 \in EdenBoxes /\ 1 \in Objects
<1> USE Sizes
<1>1. Old = Eden + Survivor + 1 .. Eden + Survivor + Tenured
  BY DEF Old, Boxes, Young, EdenBoxes, SurvivorBoxes
<1>2. IsFiniteSet(Old) /\ Cardinality(Old) = Tenured
  <2>1. \A a, b \in Int : IsFiniteSet(a .. b) /\ Cardinality(a .. b) = IF a > b THEN 0 ELSE b - a + 1
    BY FS_Interval
  <2>2. /\ Eden + Survivor + 1 \in Int /\ Eden + Survivor + Tenured \in Int
        /\ ~ (Eden + Survivor + 1 > Eden + Survivor + Tenured)
    OBVIOUS
  <2>3. Eden + Survivor + Tenured - (Eden + Survivor + 1) + 1 = Tenured
    OBVIOUS
  <2> QED
    BY <1>1, <2>1, <2>2, <2>3
<1>3. IsFiniteSet(SurvivorBoxes) /\ Cardinality(SurvivorBoxes) = Survivor
  <2>1. \A a, b \in Int : IsFiniteSet(a .. b) /\ Cardinality(a .. b) = IF a > b THEN 0 ELSE b - a + 1
    BY FS_Interval
  <2>2. Eden + 1 \in Int /\ Eden + Survivor \in Int /\ ~ (Eden + 1 > Eden + Survivor)
    OBVIOUS
  <2>3. Eden + Survivor - (Eden + 1) + 1 = Survivor
    OBVIOUS
  <2> QED
    BY <2>1, <2>2, <2>3 DEF SurvivorBoxes
<1>4. IsFiniteSet(Objects) /\ Cardinality(Objects) = MaxObjects
  BY FS_Interval DEF Objects
<1>5. Boxes = Young \cup Old /\ Young \cap Old = {}
  BY <1>1 DEF Boxes, Young, EdenBoxes, SurvivorBoxes
<1>6. Boxes \subseteq Nat /\ Nil \notin Boxes /\ Retired \notin Pointer
  BY DEF Boxes, Nil, Retired, Pointer
<1>7. Young = EdenBoxes \cup SurvivorBoxes /\ EdenBoxes \cap SurvivorBoxes = {}
  BY DEF Young, EdenBoxes, SurvivorBoxes
<1>8. 1 \in EdenBoxes /\ 1 \in Objects
  BY DEF EdenBoxes, Objects
<1> QED
  BY <1>2, <1>3, <1>4, <1>5, <1>6, <1>7, <1>8

\* The roots by name.
LEMMA RootsAre == Roots = {"r1", "r2", "outer", "inner", "made", "entered"}
BY DEF Roots, RootOrder, ToSet

\* What a collection empties is young, and no part of what outlives it.
LEMMA Apart ==
    ASSUME SpaceTypes, SpacesFit
    PROVE  /\ From \subseteq Young /\ To \subseteq Boxes /\ From \cap To = {}
           /\ Current \subseteq Boxes /\ Nil \notin Current /\ Nil \notin From
           /\ Nil \notin To /\ To \cap Old = live /\ To \cap Young = arriving
<1>1. 1 .. used \subseteq EdenBoxes
  BY Sizes DEF SpaceTypes, EdenBoxes
<1> QED
  BY <1>1, Layout DEF SpaceTypes, SpacesFit, From, To, Current

-----------------------------------------------------------------------------
(* There is always a box to move to *)

\* A part of a space that is not larger than the program's objects, with one
\* more thing beside it that is some object's too, is not the whole space.
LEMMA RoomLeft ==
    ASSUME NEW Space, NEW A \in SUBSET Space, NEW p, p \notin A,
           IsFiniteSet(Space), Cardinality(Space) >= MaxObjects,
           NEW f \in [A \cup {p} -> Objects],
           \A x, y \in A \cup {p} : f[x] = f[y] => x = y
    PROVE  Space \ A # {}
<1>1. SUFFICES ASSUME Space \ A = {} PROVE FALSE
  OBVIOUS
<1>2. A = Space
  BY <1>1
<1>3. f \in Injection(A \cup {p}, Objects)
  BY DEF Injection, IsInjective
<1>4. Cardinality(A \cup {p}) <= MaxObjects
  BY <1>3, Layout, FS_Injection
<1>5. Cardinality(A \cup {p}) = Cardinality(A) + 1
  BY <1>2, FS_AddElement
<1>6. Cardinality(A) \in Nat
  BY <1>2, FS_CardinalityType
<1> QED
  BY <1>2, <1>4, <1>5, <1>6, Sizes

\* The object that is in a box.
Owner(b) == CHOOSE o \in Objects : home[o] = b

\* Different boxes in use are different objects'.
LEMMA Owners ==
    ASSUME HomesFit
    PROVE  /\ \A b \in Current : Owner(b) \in Objects /\ home[Owner(b)] = b
           /\ \A b, c \in Current : Owner(b) = Owner(c) => b = c
BY DEF HomesFit, Owner

\* While an object can still be made, there is an old box for it.
LEMMA TenuredForNew ==
    ASSUME SpaceInv, Room
    PROVE  FreeTenured \in Old \ live /\ Identity \in Homeless
<1> USE DEF SpaceInv
<1>1. Homeless \subseteq Objects /\ Homeless # {} /\ Objects \subseteq Nat
  BY Sizes DEF Room, Homeless, Objects
<1>2. Identity \in Homeless
  BY <1>1, MinIn DEF Identity
<1>3. live \subseteq Old /\ live \subseteq Current /\ Nil \notin live /\ Old \subseteq Nat
  BY Layout DEF SpaceTypes, Current, To
<1> DEFINE f == [b \in live \cup {Nil} |-> IF b = Nil THEN Identity ELSE Owner(b)]
<1>4. f \in [live \cup {Nil} -> Objects]
  BY <1>1, <1>2, <1>3, Owners
<1>5. \A x, y \in live \cup {Nil} : f[x] = f[y] => x = y
  <2>1. \A b \in live : Owner(b) # Identity
    BY <1>2, <1>3, Owners DEF Homeless
  <2> QED
    BY <2>1, <1>3, Owners
<1> HIDE DEF f
<1>6. Old \ live # {}
  BY <1>3, <1>4, <1>5, RoomLeft, Layout
<1> QED
  BY <1>2, <1>3, <1>6, MinIn DEF FreeTenured

\* What leaves its box can always become old: what is old already is some other
\* object.
LEMMA TenuredForMoved ==
    ASSUME SpaceInv, NEW p \in From \ marked
    PROVE  FreeTenured \in Old \ live
<1> USE DEF SpaceInv
<1>1. live \subseteq Old /\ live \subseteq Current /\ p \in Current /\ p \notin live /\ Old \subseteq Nat
  BY Layout, Apart DEF SpaceTypes, Current, To
<1> DEFINE f == [b \in live \cup {p} |-> Owner(b)]
<1>2. f \in [live \cup {p} -> Objects]
  BY <1>1, Owners
<1>3. \A x, y \in live \cup {p} : f[x] = f[y] => x = y
  BY <1>1, Owners
<1> HIDE DEF f
<1>4. Old \ live # {}
  BY <1>1, <1>2, <1>3, RoomLeft, Layout
<1> QED
  BY <1>1, <1>4, MinIn DEF FreeTenured

\* What leaves the nursery can always arrive in the survivor space: a survivor
\* that left became old, and each of the boxes of that space that are taken is
\* some other object's or was.
LEMMA SurvivorForMoved ==
    ASSUME SpaceInv, Moving, NEW p \in From \ marked, p \notin flag
    PROVE  FreeSurvivor \in SurvivorBoxes \ (survivors \cup arriving)
<1> USE DEF SpaceInv
<1> DEFINE A == survivors \cup arriving
           g == [b \in A \cup {p} |->
                   IF b \in survivors /\ b \in marked THEN target[b] ELSE b]
           f == [b \in A \cup {p} |-> Owner(g[b])]
<1>1. A \subseteq SurvivorBoxes /\ p \notin A /\ SurvivorBoxes \subseteq Nat
  BY Layout DEF SpaceTypes, SpacesFit
<1>2. \A b \in survivors \cap marked : target[b] \in live
  BY DEF ForwardsFit
<1>3. \A b \in (A \cup {p}) \ (survivors \cap marked) : b \in Current /\ b \notin live
  BY Apart, Layout DEF SpaceTypes, SpacesFit, From, To, Current
<1>4. \A b \in A \cup {p} : g[b] \in Current
  BY <1>2, <1>3 DEF Current, To
<1>5. \A x, y \in A \cup {p} : g[x] = g[y] => x = y
  BY <1>2, <1>3 DEF ForwardsFit
<1> HIDE DEF g
<1>6. f \in [A \cup {p} -> Objects]
  BY <1>4, Owners
<1>7. \A x, y \in A \cup {p} : f[x] = f[y] => x = y
  BY <1>4, <1>5, Owners
<1> HIDE DEF f, A
<1>8. SurvivorBoxes \ A # {}
  BY <1>1, <1>6, <1>7, RoomLeft, Layout
<1> QED
  BY <1>1, <1>8, MinIn DEF FreeSurvivor, A
-----------------------------------------------------------------------------
(* Forwarding *)

\* What forwarding comes to: p stays, or was moved before; it moves to the
\* survivor space; it becomes old.
Stays(p, q) ==
    /\ p \notin From \ marked /\ q = Found(p)
    /\ UNCHANGED <<home, stamp, live, marked, target, arriving, gray>>
Goes(p, q) ==
    /\ p \in From \ marked /\ q \in Boxes \ (From \cup To)
    /\ home' = [o \in Objects |-> IF home[o] = p THEN q ELSE home[o]]
    /\ marked' = marked \cup {p}
    /\ target' = [target EXCEPT ![p] = q]
    /\ gray' = gray \cup {q}
Arrives(p, q) ==
    /\ Goes(p, q) /\ q \in SurvivorBoxes
    /\ keeps /\ p \notin flag
    /\ stamp' = [stamp EXCEPT ![q] = NextEpoch]
    /\ arriving' = arriving \cup {q} /\ live' = live
Promoted(p, q) ==
    /\ Goes(p, q) /\ q \in Old
    /\ ~ (keeps /\ p \notin flag)
    /\ live' = live \cup {q} /\ UNCHANGED <<stamp, arriving>>

\* The next epoch is an epoch, and another one.
LEMMA Epochs ==
    ASSUME SpaceTypes
    PROVE  /\ epoch \in Nat /\ NextEpoch \in 1 .. MaxEpoch /\ NextEpoch # epoch
           /\ NextEpoch = epoch + 1 \/ (epoch = MaxEpoch /\ NextEpoch = 1)
BY Sizes DEF SpaceTypes, NextEpoch

\* What leaves its box is what the collection empties and has not moved yet, and
\* an object is found through the box it left.
LEMMA Leaving ==
    ASSUME SpaceInv, Moving, NEW p
    PROVE  /\ Leaves(p) <=> p \in From \ marked
           /\ Settled(p) => p \notin From
           /\ ~Settled(p) => p \in From
           /\ Found(p) = IF p \in marked THEN target[p] ELSE p
<1> USE DEF SpaceInv
<1>1. \A b \in Young : stamp[b] = epoch <=> b \in From
  BY Epochs, Apart, Layout DEF StampsFit, SpaceTypes, To
<1>2. From \subseteq Young /\ marked \subseteq From
  BY Apart DEF SpacesFit
<1> QED
  BY <1>1, <1>2 DEF Leaves, Settled, Found

\* Every way to forward is one of these.
LEMMA Outcomes ==
    ASSUME SpaceInv, Moving, NEW p \in Pointer, NEW q \in Pointer, Forward(p, q)
    PROVE  Stays(p, q) \/ Arrives(p, q) \/ Promoted(p, q)
<1> USE DEF SpaceInv
<1>1. CASE ~Leaves(p)
  <2>1. UNCHANGED <<home, stamp, live, marked, target, arriving, gray>>
    BY <1>1 DEF Forward
  <2>2. q = Found(p)
    <3>1. \/ Settled(p) /\ q = p
          \/ ~Settled(p) /\ p \in marked /\ q = target[p]
      BY <1>1 DEF Forward
    <3>2. p \in marked => p \in From
      BY DEF SpacesFit
    <3> QED
      BY <3>1, <3>2, Leaving
  <2> QED
    BY <1>1, <2>1, <2>2, Leaving DEF Stays
<1>2. CASE Leaves(p)
  <2>1. p \in From \ marked
    BY <1>2, Leaving
  <2>2. /\ \/ /\ Kept(p) /\ q = FreeSurvivor
              /\ stamp' = [stamp EXCEPT ![q] = NextEpoch]
              /\ arriving' = arriving \cup {q}
              /\ live' = live
           \/ /\ ~Kept(p) /\ q = FreeTenured
              /\ live' = live \cup {q}
              /\ UNCHANGED <<stamp, arriving>>
        /\ home' = [o \in Objects |-> IF home[o] = p THEN q ELSE home[o]]
        /\ marked' = (marked \ {q}) \cup {p}
        /\ target' = [target EXCEPT ![p] = q]
        /\ gray' = gray \cup {q}
    BY <1>2, Leaving DEF Forward, Leaves
  <2>3. From = (1 .. used) \cup survivors /\ 1 .. used \subseteq EdenBoxes
    BY Sizes DEF From, SpaceTypes, EdenBoxes
  <2>4. CASE Kept(p)
    <3>1. q \in SurvivorBoxes \ (survivors \cup arriving)
      BY <2>1, <2>2, <2>4, SurvivorForMoved DEF Kept
    <3>2. q \in Boxes \ (From \cup To)
      BY <2>3, <3>1, Layout DEF SpaceTypes, To
    <3>3. q \notin marked
      BY <3>2 DEF SpacesFit
    <3> QED
      BY <2>1, <2>2, <2>4, <3>1, <3>2, <3>3 DEF Kept, Arrives, Goes
  <2>5. CASE ~Kept(p)
    <3>1. q \in Old \ live
      BY <2>1, <2>2, <2>5, TenuredForMoved
    <3>2. q \in Boxes \ (From \cup To)
      BY <3>1, Apart, Layout DEF SpaceTypes, To
    <3>3. q \notin marked
      BY <3>2 DEF SpacesFit
    <3> QED
      BY <2>1, <2>2, <2>5, <3>1, <3>2, <3>3 DEF Kept, Promoted, Goes
  <2> QED
    BY <2>4, <2>5
<1> QED
  BY <1>1, <1>2

\* What an object of the program is forwarded to outlives the collection.
LEMMA FoundStays ==
    ASSUME SpaceInv, Moving, NEW p \in From \cup To \cup {Nil}, p \notin From \ marked
    PROVE  Found(p) \in To \cup {Nil}
<1>1. p \in marked \/ p \in To \cup {Nil}
  OBVIOUS
<1>2. p \in To \cup {Nil} => p \notin marked
  BY Apart DEF SpaceInv, SpacesFit
<1> QED
  BY <1>1, <1>2, Leaving DEF SpaceInv, ForwardsFit
\* What a step of a collection leaves alone when it forwards something, and what
\* it remembers.
Forwards(p, q, holders) ==
    /\ Forward(p, q)
    /\ flag' = Flags(p, q) \cup holders
    /\ list' = list \cup (holders \ Flags(p, q))
    /\ UNCHANGED <<used, survivors, epoch, phase, keeps>>

\* The boxes that outlive the collection become one more, or stay the same; the
\* moved box takes the place of the box that was left.
LEMMA ForwardedBoxes ==
    ASSUME SpaceInv, Moving, NEW p \in Pointer, NEW q \in Pointer, NEW holders \in SUBSET live,
           Forwards(p, q, holders)
    PROVE  /\ From' = From /\ To \subseteq To' /\ Moving'
           /\ Stays(p, q) => To' = To /\ Current' = Current
           /\ Goes(p, q) => To' = To \cup {q} /\ Current' = (Current \ {p}) \cup {q}
           /\ q \in Young /\ q \in To' => q \in arriving'
           /\ p \in From \cup To \cup {Nil} => q \in To' \cup {Nil}
           /\ p \in From \cup To => q # Nil
<1> USE DEF SpaceInv
<1>1. From' = From /\ Moving'
  BY DEF Forwards, From, Moving
<1>2. Stays(p, q) => To' = To /\ Current' = Current
  BY <1>1 DEF Stays, To, Current
<1>3. Goes(p, q) => ~Stays(p, q)
  BY DEF Goes, Stays
<1>4. Goes(p, q) => To' = To \cup {q} /\ Current' = (Current \ {p}) \cup {q}
  <2>1. SUFFICES ASSUME Goes(p, q) PROVE To' = To \cup {q} /\ Current' = (Current \ {p}) \cup {q}
    OBVIOUS
  <2>2. Arrives(p, q) \/ Promoted(p, q)
    BY <1>3, <2>1, Outcomes DEF Forwards
  <2>3. To' = To \cup {q}
    BY <2>2 DEF Arrives, Promoted, To
  <2>4. p \in From /\ p \notin To /\ q \notin From \cup To /\ marked' = marked \cup {p}
    BY <2>1, Apart DEF Goes
  <2> QED
    BY <1>1, <2>3, <2>4 DEF Current
<1>5. Stays(p, q) \/ Goes(p, q)
  BY Outcomes DEF Forwards, Arrives, Promoted
<1>6. q \in Young /\ q \in To' => q \in arriving'
  <2>1. CASE Stays(p, q)
    BY <2>1, Apart DEF Stays, To
  <2>2. CASE Arrives(p, q)
    BY <2>2 DEF Arrives
  <2>3. CASE Promoted(p, q)
    BY <2>3, Layout DEF Promoted
  <2> QED
    BY <2>1, <2>2, <2>3, Outcomes DEF Forwards
<1>7. p \in From \cup To \cup {Nil} => q \in To' \cup {Nil}
  BY <1>2, <1>4, <1>5, FoundStays DEF Stays
<1>8. p \in From \cup To => q # Nil
  <2>1. Goes(p, q) => q # Nil
    BY Layout DEF Goes
  <2>2. Stays(p, q) => p \notin From \ marked /\ q = IF p \in marked THEN target[p] ELSE p
    BY Leaving DEF Stays
  <2>3. \A x \in marked : target[x] \in To
    BY DEF ForwardsFit
  <2> QED
    BY <1>5, <2>1, <2>2, <2>3, Apart
<1> QED
  BY <1>1, <1>2, <1>4, <1>5, <1>6, <1>7, <1>8

\* Forwarding keeps the spaces.
LEMMA ForwardSpaces ==
    ASSUME SpaceInv, Moving, NEW p \in Pointer, NEW q \in Pointer, NEW holders \in SUBSET live,
           Forwards(p, q, holders)
    PROVE  SpaceInv'
<1> USE DEF SpaceInv
<1>1. Stays(p, q) \/ Arrives(p, q) \/ Promoted(p, q)
  BY Outcomes DEF Forwards
<1>2. UNCHANGED <<used, survivors, epoch, phase, keeps>>
  BY DEF Forwards
<1>3. From' = From /\ Moving' /\ To \subseteq To'
  BY ForwardedBoxes
<1>4. holders \subseteq live /\ live \subseteq Old /\ live \subseteq Boxes
  BY Layout DEF SpaceTypes
<1>5. \/ Stays(p, q) /\ flag' = flag \cup holders
      \/ Arrives(p, q) /\ flag' = flag \cup {q} \cup holders
      \/ Promoted(p, q) /\ flag' = (flag \ {q}) \cup holders
  <2>1. flag' = Flags(p, q) \cup holders
    BY DEF Forwards
  <2>2. Leaves(p) <=> p \in From \ marked
    BY Leaving
  <2> QED
    BY <1>1, <2>1, <2>2 DEF Flags, Kept, Stays, Arrives, Promoted, Goes
<1>6. list' = flag' \cap Old
  <2>1. list' = list \cup (holders \ Flags(p, q)) /\ flag' = Flags(p, q) \cup holders
    BY DEF Forwards
  <2>2. Flags(p, q) \cap Old = list
    <3>1. list = flag \cap Old /\ list \subseteq live
      BY DEF SpacesFit
    <3>2. q \in SurvivorBoxes => q \notin Old
      BY Layout
    <3>3. Goes(p, q) => q \notin live
      BY DEF Goes, To
    <3>4. Leaves(p) <=> p \in From \ marked
      BY Leaving
    <3> QED
      BY <1>1, <3>1, <3>2, <3>3, <3>4 DEF Flags, Kept, Stays, Arrives, Promoted, Goes
  <2> QED
    BY <1>4, <2>1, <2>2
<1>7. SpaceTypes'
  <2>1. NextEpoch \in 0 .. MaxEpoch
    BY Epochs
  <2>2. /\ live' \subseteq Old /\ marked' \subseteq Boxes /\ flag' \subseteq Boxes
        /\ list' \subseteq Old /\ arriving' \subseteq SurvivorBoxes
    <3>1. /\ live \subseteq Old /\ marked \subseteq Boxes /\ flag \subseteq Boxes
          /\ arriving \subseteq SurvivorBoxes
      BY DEF SpaceTypes
    <3>2. Goes(p, q) => p \in Boxes /\ q \in Boxes
      BY Apart, Layout DEF Goes
    <3>3. live' \subseteq Old /\ arriving' \subseteq SurvivorBoxes
      BY <1>1, <3>1 DEF Stays, Arrives, Promoted
    <3>4. marked' \subseteq Boxes
      BY <1>1, <3>1, <3>2 DEF Stays, Arrives, Promoted, Goes
    <3>5. flag' \subseteq Boxes
      BY <1>4, <1>5, <3>1, <3>2 DEF Arrives
    <3> QED
      BY <1>6, <3>3, <3>4, <3>5
  <2>3. stamp' \in [Young -> 0 .. MaxEpoch]
    BY <1>1, <2>1 DEF SpaceTypes, Stays, Arrives, Promoted
  <2>4. home' \in [Objects -> Pointer]
    BY <1>1 DEF SpaceTypes, Stays, Arrives, Promoted, Goes
  <2>5. target' \in [Young -> Pointer]
    BY <1>1, Apart DEF SpaceTypes, Stays, Arrives, Promoted, Goes
  <2> QED
    BY <1>2, <2>2, <2>3, <2>4, <2>5 DEF SpaceTypes
<1>8. SpacesFit'
  <2>1. list' \subseteq live'
    BY <1>1, <1>4 DEF SpacesFit, Forwards, Stays, Arrives, Promoted
  <2>2. survivors' \cap arriving' = {}
    BY <1>1, <1>2 DEF SpacesFit, From, Stays, Arrives, Promoted, Goes
  <2>3. survivors' \cup arriving' \subseteq flag'
    <3>1. Promoted(p, q) => q \notin survivors \cup arriving
      BY Layout DEF Promoted, SpaceTypes
    <3> QED
      BY <1>2, <1>5, <3>1 DEF SpacesFit, Stays, Arrives, Promoted
  <2>4. keeps' \/ arriving' = {}
    BY <1>1, <1>2 DEF SpacesFit, Stays, Arrives, Promoted
  <2>5. marked' \subseteq From'
    BY <1>1, <1>3 DEF SpacesFit, Stays, Arrives, Promoted, Goes
  <2> QED
    BY <1>3, <1>6, <2>1, <2>2, <2>3, <2>4, <2>5 DEF SpacesFit, Moving, Marking
<1>9. HomesFit'
  <2>1. CASE Stays(p, q)
    BY <2>1, ForwardedBoxes DEF HomesFit, Stays
  <2>2. CASE Goes(p, q)
    <3>1. Current' = (Current \ {p}) \cup {q} /\ q \notin Current /\ p \in Current /\ p # Nil /\ q # Nil
      BY <2>2, ForwardedBoxes, Apart, Layout DEF Goes, Current
    <3>2. home' = [o \in Objects |-> IF home[o] = p THEN q ELSE home[o]]
      BY <2>2 DEF Goes
    <3> QED
      BY <3>1, <3>2 DEF HomesFit
  <2> QED
    BY <1>1, <2>1, <2>2 DEF Arrives, Promoted
<1>10. StampsFit'
  <2>1. NextEpoch' = NextEpoch
    BY <1>2 DEF NextEpoch
  <2>2. CASE Stays(p, q)
    BY <1>2, <1>3, <2>1, <2>2 DEF StampsFit, Stays
  <2>3. CASE Promoted(p, q)
    BY <1>2, <1>3, <2>1, <2>3 DEF StampsFit, Promoted
  <2>4. CASE Arrives(p, q)
    <3>1. /\ stamp' = [stamp EXCEPT ![q] = NextEpoch] /\ arriving' = arriving \cup {q}
          /\ q \in Young /\ epoch' = epoch
      BY <1>2, <2>4, Layout DEF Arrives
    <3>2. stamp \in [Young -> 0 .. MaxEpoch]
      BY DEF SpaceTypes
    <3> QED
      BY <1>3, <2>1, <3>1, <3>2 DEF StampsFit, SpaceTypes
  <2> QED
    BY <1>1, <2>2, <2>3, <2>4
<1>11. ForwardsFit'
  <2>1. SUFFICES /\ \A x \in marked' : target'[x] \in To' /\ (x \in survivors => target'[x] \in live')
                 /\ \A x, y \in marked' : target'[x] = target'[y] => x = y
    BY <1>2 DEF ForwardsFit
  <2>2. CASE Stays(p, q)
    BY <1>3, <2>2 DEF ForwardsFit, Stays
  <2>3. CASE Goes(p, q)
    <3>1. /\ \A x \in marked : target[x] \in To /\ (x \in survivors => target[x] \in live)
          /\ \A x, y \in marked : target[x] = target[y] => x = y
      BY DEF ForwardsFit
    <3>2. /\ marked' = marked \cup {p} /\ target' = [target EXCEPT ![p] = q] /\ p \notin marked
          /\ q \notin To /\ p \in Young /\ target \in [Young -> Pointer]
      BY <2>3, Apart DEF Goes, SpaceTypes
    <3>3. To' = To \cup {q} /\ live \subseteq live'
      BY <1>1, <2>3, ForwardedBoxes DEF Stays, Arrives, Promoted
    <3>4. p \in survivors => q \in live'
      BY <1>1, <2>3 DEF Stays, Goes, Arrives, Promoted, SpacesFit
    <3>5. marked \subseteq Young
      BY Apart DEF SpacesFit
    <3> QED
      BY <3>1, <3>2, <3>3, <3>4, <3>5
  <2> QED
    BY <1>1, <2>2, <2>3 DEF Arrives, Promoted
<1> QED
  BY <1>7, <1>8, <1>9, <1>10, <1>11
\* What is kept for every box goes along with what moves.
LEMMA MovedIs ==
    ASSUME SpaceInv, Moving, NEW p \in Pointer, NEW q \in Pointer, Forward(p, q), NEW f
    PROVE  /\ Stays(p, q) => Moved(f, p, q) = f
           /\ Goes(p, q) => Moved(f, p, q) = [f EXCEPT ![q] = f[p]]
<1>1. Leaves(p) <=> p \in From \ marked
  BY Leaving
<1> QED
  BY <1>1 DEF Moved, Stays, Goes

\* And stays of its type.
LEMMA MovedTo ==
    ASSUME SpaceInv, Moving, NEW p \in Pointer, NEW q \in Pointer, Forward(p, q),
           NEW T, NEW f \in [Boxes -> T]
    PROVE  Moved(f, p, q) \in [Boxes -> T]
<1>1. Goes(p, q) => p \in Boxes
  BY Apart, Layout DEF SpaceInv, Goes
<1>2. Stays(p, q) \/ Goes(p, q)
  BY Outcomes DEF Arrives, Promoted
<1> QED
  BY <1>1, <1>2, MovedIs

\* A box is found where it was found before, or where that was moved to; and
\* what was forwarded is found where it is now.
LEMMA FoundAfter ==
    ASSUME SpaceInv, Moving, NEW p \in Pointer, NEW q \in Pointer, NEW holders \in SUBSET live,
           Forwards(p, q, holders), p \in From \cup To \cup {Nil}
    PROVE  /\ \A x : Whereabouts(marked', target', x)
                       = IF Goes(p, q) /\ Whereabouts(marked, target, x) = p THEN q
                         ELSE Whereabouts(marked, target, x)
           /\ Whereabouts(marked', target', p) = q
           /\ Whereabouts(marked', target', q) = q
<1> USE DEF SpaceInv
<1>1. /\ marked \subseteq From /\ From \cap To = {} /\ \A x \in marked : target[x] \in To
      /\ From \subseteq Young /\ Nil \notin From
  BY Apart DEF SpacesFit, ForwardsFit
<1>2. CASE Stays(p, q)
  <2>1. q = Whereabouts(marked, target, p) /\ ~Goes(p, q)
    BY <1>2, Leaving DEF Stays, Goes, Whereabouts
  <2>2. marked' = marked /\ target' = target
    BY <1>2 DEF Stays
  <2>3. q \notin marked
    BY <1>1, <1>2, FoundStays DEF Stays
  <2> QED
    BY <2>1, <2>2, <2>3 DEF Whereabouts
<1>3. CASE Goes(p, q)
  <2>1. /\ marked' = marked \cup {p} /\ target' = [target EXCEPT ![p] = q]
        /\ p \in From /\ p \notin marked /\ q \notin From \cup To
    BY <1>3 DEF Goes
  <2>2. \A x \in marked : target'[x] = target[x]
    BY <1>1, <2>1 DEF SpaceTypes
  <2>3. target'[p] = q
    BY <1>1, <2>1 DEF SpaceTypes
  <2> QED
    BY <1>1, <1>3, <2>1, <2>2, <2>3 DEF Whereabouts
<1> QED
  BY <1>2, <1>3, Outcomes DEF Forwards, Arrives, Promoted

\* What forwarding a root comes to.
LEMMA ForwardRootIs ==
    ASSUME HeapInv, ForwardRoot
    PROVE  \E r \in todo, q \in Pointer :
             /\ Moving /\ root[r] \in Pointer /\ root[r] \in From \cup To \cup {Nil}
             /\ Forwards(root[r], q, {}) /\ Forward(root[r], q)
             /\ obj' = Moved(obj, root[r], q)
             /\ hashed' = Moved(hashed, root[r], q)
             /\ root' = [root EXCEPT ![r] = q]
             /\ todo' = todo \ {r}
<1>1. PICK r \in Roots, q \in Pointer :
         /\ Foremost(r)
         /\ Forward(root[r], q)
         /\ obj' = Moved(obj, root[r], q)
         /\ hashed' = Moved(hashed, root[r], q)
         /\ flag' = Flags(root[r], q)
         /\ root' = [root EXCEPT ![r] = q]
         /\ todo' = todo \ {r}
  BY DEF ForwardRoot
<1>2. r \in todo
  BY <1>1 DEF Foremost
<1>3. Forwards(root[r], q, {})
  BY <1>1 DEF ForwardRoot, Forwards
<1>4. Moving /\ root[r] \in Pointer /\ root[r] \in From \cup To \cup {Nil}
  BY DEF ForwardRoot, Moving, HeapInv, DataInv, DataTypes, RootsFit
<1> QED
  BY <1>1, <1>2, <1>3, <1>4
\* Forwarding a root keeps the invariant.
LEMMA ForwardRootKeeps ==
    ASSUME HeapInv, ForwardRoot
    PROVE  HeapInv'
<1> USE DEF HeapInv
<1>1. PICK r \in todo, q \in Pointer :
         /\ Moving /\ root[r] \in Pointer /\ root[r] \in From \cup To \cup {Nil}
         /\ Forwards(root[r], q, {}) /\ Forward(root[r], q)
         /\ obj' = Moved(obj, root[r], q)
         /\ hashed' = Moved(hashed, root[r], q)
         /\ root' = [root EXCEPT ![r] = q]
         /\ todo' = todo \ {r}
  BY ForwardRootIs
<1> DEFINE p == root[r]
<1>2. /\ UNCHANGED <<used, survivors, epoch, frame, compiled, running, suspended,
                     phase, why, keeps, recalled, at, left>>
      /\ phase = "forward" /\ phase' = "forward" /\ r \in Roots
  BY DEF ForwardRoot, WorkInv, WorkTypes
<1>3. /\ From' = From /\ To \subseteq To' /\ Moving'
      /\ Stays(p, q) => To' = To /\ Current' = Current
      /\ Goes(p, q) => To' = To \cup {q} /\ Current' = (Current \ {p}) \cup {q}
      /\ q \in To' \cup {Nil}
      /\ p \in From \cup To => q # Nil
  BY <1>1, ForwardedBoxes
<1>4. SpaceInv'
  BY <1>1, ForwardSpaces
<1>5. \/ Stays(p, q) /\ gray' = gray /\ live' = live
      \/ Goes(p, q) /\ gray' = gray \cup {q} /\ live \subseteq live' /\ q \in Boxes
            /\ q \notin From \cup To
  BY <1>1, Outcomes DEF Stays, Arrives, Promoted, Goes
<1>6. list \subseteq list' /\ list' \subseteq list
  BY <1>1 DEF Forwards
<1>7. WorkInv'
  <2>1. WorkTypes'
    BY <1>1, <1>2, <1>5 DEF WorkInv, WorkTypes
  <2>2. gray' \subseteq To'
    BY <1>1, <1>3, <1>5 DEF WorkInv, WorkFits
  <2> QED
    BY <1>1, <1>2, <1>3, <1>5, <2>1, <2>2 DEF WorkInv, WorkFits
<1>8. DataTypes'
  <2>1. obj' \in [Boxes -> [Slots -> Pointer]] /\ hashed' \in [Boxes -> Pointer]
    BY <1>1, MovedTo DEF DataInv, DataTypes
  <2> QED
    BY <1>1, <1>2, <2>1 DEF DataInv, DataTypes
<1>9. RootsFit'
  <2>1. SUFFICES ASSUME NEW x \in Roots
                 PROVE  /\ root'[x] \in From' \cup To' \cup {Nil}
                        /\ x \notin todo' => root'[x] \in To' \cup {Nil}
    BY DEF RootsFit
  <2>2. root'[x] = IF x = r THEN q ELSE root[x]
    BY <1>1 DEF DataInv, DataTypes
  <2> QED
    BY <1>1, <1>3, <2>2 DEF DataInv, RootsFit
<1>10. /\ Stays(p, q) => obj' = obj /\ hashed' = hashed
       /\ Goes(p, q) => obj' = [obj EXCEPT ![q] = obj[p]] /\ hashed' = [hashed EXCEPT ![q] = hashed[p]]
  BY <1>1, MovedIs
<1>11. FieldsFit'
  <2>1. SUFFICES ASSUME NEW b \in Current'
                 PROVE  /\ \A s \in Slots : obj'[b][s] \in From' \cup To' \cup {Nil}
                        /\ hashed'[b] = obj'[b][Key]
    BY DEF FieldsFit
  <2>2. CASE Stays(p, q)
    BY <1>3, <1>10, <2>2 DEF DataInv, FieldsFit
  <2>3. CASE Goes(p, q)
    <3>1. p \in Current
      BY <2>3 DEF Goes, Current
    <3>2. \E c \in Current : obj'[b] = obj[c] /\ hashed'[b] = hashed[c]
      <4>1. q \in Boxes /\ Current \subseteq Boxes /\ Current' = (Current \ {p}) \cup {q}
        BY <1>3, <2>3, Apart DEF Goes, SpaceInv
      <4>2. obj' = [obj EXCEPT ![q] = obj[p]] /\ hashed' = [hashed EXCEPT ![q] = hashed[p]]
        BY <1>10, <2>3
      <4>3. obj \in [Boxes -> [Slots -> Pointer]] /\ hashed \in [Boxes -> Pointer]
        BY DEF DataInv, DataTypes
      <4>4. CASE b = q
        BY <3>1, <4>1, <4>2, <4>3, <4>4
      <4>5. CASE b # q
        BY <4>1, <4>2, <4>3, <4>5
      <4> QED
        BY <4>4, <4>5
    <3> QED
      BY <1>3, <3>2 DEF DataInv, FieldsFit
  <2> QED
    BY <1>5, <2>2, <2>3
<1>12. ScannedFits'
  <2>1. SUFFICES ASSUME NEW b \in To', NEW s \in Slots
                 PROVE  \/ Unscanned(b, s)'
                        \/ /\ obj'[b][s] \in To' \cup {Nil}
                           /\ b \in live' /\ obj'[b][s] \in Young => b \in list'
    BY <1>2 DEF ScannedFits
  <2>2. CASE b \notin To
    BY <1>3, <1>5, <2>2 DEF Unscanned
  <2>3. CASE b \in To
    <3>1. Unscanned(b, s) => Unscanned(b, s)'
      BY <1>2, <1>5, <1>6 DEF Unscanned
    <3>2. obj'[b][s] = obj[b][s]
      <4>1. CASE Stays(p, q)
        BY <1>10, <4>1
      <4>2. CASE Goes(p, q)
        <5>1. obj' = [obj EXCEPT ![q] = obj[p]] /\ b # q
          BY <1>10, <2>3, <4>2 DEF Goes
        <5> QED
          BY <5>1, <2>3, Apart DEF DataInv, DataTypes, SpaceInv
      <4> QED
        BY <1>5, <4>1, <4>2
    <3>3. b \in live' => b \in live
      BY <1>4, <2>3, Apart DEF SpaceInv, SpaceTypes
    <3> QED
      BY <1>1, <1>3, <1>6, <2>3, <3>1, <3>2, <3>3 DEF DataInv, ScannedFits
  <2> QED
    BY <2>2, <2>3
<1>13. MarksFit'
  BY <1>2 DEF MarksFit
<1>14. ClosureInv'
  <2>1. ClosureTypes'
    BY <1>2 DEF ClosureInv, ClosureTypes
  <2>2. \A x \in Roots : root'[x] = IF x = r THEN q ELSE root[x]
    BY <1>1 DEF DataInv, DataTypes
  <2>3. p \in Old \cup {Nil} => q = p
    BY <1>1, <1>5, Apart, Layout, Leaving DEF SpaceInv, SpacesFit, Stays, Goes
  <2>4. compiled' => frame' # "none" /\ running' = root'["inner"] /\ running' \in Old
    BY <1>2, <2>2, <2>3, RootsAre DEF ClosureInv, ClosuresFit
  <2>5. frame' = "operator" => suspended' \in {Retired, root'["outer"]} \/ suspended' \in From'
    <3>1. p \in To \cup {Nil} => q = p
      BY <1>1, <1>5, Apart, Layout, Leaving DEF SpaceInv, SpacesFit, Stays, Goes
    <3> QED
      BY <1>1, <1>2, <1>3, <2>2, <3>1, RootsAre DEF ClosureInv, ClosuresFit
  <2>6. why' = "enter" => /\ frame' # "none" /\ ~compiled' /\ root'["entered"] # Nil
                          /\ Whereabouts(marked', target', root'["entered"])
                               = Whereabouts(marked', target', root'["inner"])
    <3>1. SUFFICES ASSUME why = "enter"
                   PROVE  /\ root'["entered"] # Nil
                          /\ Whereabouts(marked', target', root'["entered"])
                               = Whereabouts(marked', target', root'["inner"])
      BY <1>2 DEF ClosureInv, ClosuresFit
    <3>2. /\ root["entered"] # Nil
          /\ Whereabouts(marked, target, root["entered"]) = Whereabouts(marked, target, root["inner"])
      BY <3>1 DEF ClosureInv, ClosuresFit
    <3>3. \A x : Whereabouts(marked', target', x)
                   = IF Goes(p, q) /\ Whereabouts(marked, target, x) = p THEN q
                     ELSE Whereabouts(marked, target, x)
      BY <1>1, FoundAfter
    <3>4. Whereabouts(marked', target', p) = q /\ Whereabouts(marked', target', q) = q
      BY <1>1, FoundAfter
    <3>5. Whereabouts(marked', target', root["entered"]) = Whereabouts(marked', target', root["inner"])
      BY <3>2, <3>3
    <3>6. \A x \in Roots : Whereabouts(marked', target', root'[x]) = Whereabouts(marked', target', root[x])
      BY <2>2, <3>4
    <3>7. root'["entered"] # Nil
      BY <1>1, <1>3, <2>2, <3>2, RootsAre
    <3> QED
      BY <3>5, <3>6, <3>7, RootsAre
  <2> QED
    BY <1>2, <1>3, <2>1, <2>4, <2>5, <2>6 DEF ClosureInv, ClosuresFit
<1> QED
  BY <1>4, <1>7, <1>8, <1>9, <1>11, <1>12, <1>13, <1>14 DEF DataInv
\* The slots still to do: Head is one of them, Tail has the others.
LEMMA Remaining ==
    ASSUME NEW q \in Seq(Slots), q # <<>>
    PROVE  /\ Head(q) \in Slots /\ Tail(q) \in Seq(Slots)
           /\ \A s \in ToSet(q) : s = Head(q) \/ s \in ToSet(Tail(q))
<1>1. Head(q) \in Slots /\ Tail(q) \in Seq(Slots)
  OBVIOUS
<1>2. /\ Len(q) \in Nat /\ Len(q) > 0 /\ DOMAIN q = 1 .. Len(q) /\ Head(q) = q[1]
      /\ DOMAIN Tail(q) = 1 .. Len(q) - 1 /\ \A i \in 1 .. Len(q) - 1 : Tail(q)[i] = q[i + 1]
  OBVIOUS
<1>3. \A i \in DOMAIN q : q[i] = Head(q) \/ \E j \in DOMAIN Tail(q) : Tail(q)[j] = q[i]
  <2>1. SUFFICES ASSUME NEW i \in 1 .. Len(q), i # 1
                 PROVE  \E j \in DOMAIN Tail(q) : Tail(q)[j] = q[i]
    BY <1>2
  <2>2. i - 1 \in 1 .. Len(q) - 1 /\ (i - 1) + 1 = i
    BY <1>2, <2>1
  <2> QED
    BY <1>2, <2>2
<1> QED
  BY <1>1, <1>3 DEF ToSet

\* What forwarding a slot comes to.
LEMMA ForwardSlotIs ==
    ASSUME HeapInv, ForwardSlot
    PROVE  \E s \in Slots, q \in Pointer, holders \in SUBSET live :
             /\ Moving /\ at \in To
             /\ obj[at][s] \in Pointer /\ obj[at][s] \in From \cup To \cup {Nil}
             /\ Forwards(obj[at][s], q, holders) /\ Forward(obj[at][s], q)
             /\ obj' = [Moved(obj, obj[at][s], q) EXCEPT ![at][s] = q]
             /\ hashed' = Reindexed(s, obj[at][s], q)
             /\ holders = IF keeps /\ q \in Young THEN {at} \cap Old ELSE {}
             /\ \A x \in ToSet(left) : x = s \/ x \in ToSet(left')
             /\ left' \in Seq(Slots)
<1> USE DEF HeapInv
<1>1. /\ phase = "scan" /\ left # <<>> /\ left' = Tail(left) /\ left \in Seq(Slots)
      /\ UNCHANGED <<used, survivors, epoch, phase, keeps>>
  BY DEF ForwardSlot, WorkInv, WorkTypes
<1>2. at \in To
  BY <1>1 DEF WorkInv, WorkFits
<1>3. at \in Current /\ at \in Boxes
  BY <1>2, Apart DEF Current, SpaceInv
<1> DEFINE s == Head(left)
           p == obj[at][s]
<1>4. s \in Slots /\ left' \in Seq(Slots) /\ \A x \in ToSet(left) : x = s \/ x \in ToSet(left')
  BY <1>1, Remaining
<1>5. p \in Pointer /\ p \in From \cup To \cup {Nil}
  BY <1>3, <1>4 DEF DataInv, DataTypes, FieldsFit
<1>6. PICK q \in Pointer :
         /\ Forward(p, q)
         /\ obj' = [Moved(obj, p, q) EXCEPT ![at][s] = q]
         /\ hashed' = Reindexed(s, p, q)
         /\ LET holders == IF keeps /\ q \in Young THEN {at} \cap Old ELSE {} IN
              /\ flag' = Flags(p, q) \cup holders
              /\ list' = list \cup (holders \ Flags(p, q))
  BY DEF ForwardSlot
<1> DEFINE holders == IF keeps /\ q \in Young THEN {at} \cap Old ELSE {}
<1>7. holders \in SUBSET live
  BY <1>2, Apart DEF SpaceInv
<1>8. Forwards(p, q, holders)
  BY <1>1, <1>6 DEF Forwards
<1>9. Moving
  BY <1>1 DEF Moving
<1> HIDE DEF s, p, holders
<1>10. /\ obj' = [Moved(obj, p, q) EXCEPT ![at][s] = q] /\ hashed' = Reindexed(s, p, q)
       /\ Forward(p, q)
  BY <1>6
<1>11. p = obj[at][s] /\ holders = IF keeps /\ q \in Young THEN {at} \cap Old ELSE {}
  BY DEF p, holders
<1> QED
  BY <1>2, <1>4, <1>5, <1>7, <1>8, <1>9, <1>10, <1>11

\* Forwarding a slot keeps the invariant.
LEMMA ForwardSlotKeeps ==
    ASSUME HeapInv, ForwardSlot
    PROVE  HeapInv'
<1> USE DEF HeapInv
<1>1. PICK s \in Slots, q \in Pointer, holders \in SUBSET live :
             /\ Moving /\ at \in To
             /\ obj[at][s] \in Pointer /\ obj[at][s] \in From \cup To \cup {Nil}
             /\ Forwards(obj[at][s], q, holders) /\ Forward(obj[at][s], q)
             /\ obj' = [Moved(obj, obj[at][s], q) EXCEPT ![at][s] = q]
             /\ hashed' = Reindexed(s, obj[at][s], q)
             /\ holders = IF keeps /\ q \in Young THEN {at} \cap Old ELSE {}
             /\ \A x \in ToSet(left) : x = s \/ x \in ToSet(left')
             /\ left' \in Seq(Slots)
  BY ForwardSlotIs
<1> DEFINE p == obj[at][s]
<1>2. /\ UNCHANGED <<used, survivors, epoch, root, frame, compiled, running, suspended,
                     phase, why, keeps, todo, recalled, at>>
      /\ phase = "scan" /\ phase' = "scan"
  BY DEF ForwardSlot, program
<1>3. /\ From' = From /\ To \subseteq To' /\ Moving'
      /\ Stays(p, q) => To' = To /\ Current' = Current
      /\ Goes(p, q) => To' = To \cup {q} /\ Current' = (Current \ {p}) \cup {q}
      /\ q \in To' \cup {Nil}
      /\ p \in From \cup To => q # Nil
      /\ q \in Young /\ q \in To' => q \in arriving'
  BY <1>1, ForwardedBoxes
<1>4. SpaceInv'
  BY <1>1, ForwardSpaces
<1>5. \/ Stays(p, q) /\ gray' = gray /\ live' = live
      \/ Goes(p, q) /\ gray' = gray \cup {q} /\ live \subseteq live' /\ q \in Boxes
            /\ q \notin From \cup To
  BY <1>1, Outcomes DEF Stays, Arrives, Promoted, Goes
<1>6. list \subseteq list' /\ at \in Boxes /\ at \in Current /\ at # Nil
  BY <1>1, Apart DEF Forwards, Current, SpaceInv
<1>7. WorkInv'
  <2>1. WorkTypes'
    BY <1>1, <1>2, <1>5 DEF WorkInv, WorkTypes
  <2>2. gray' \subseteq To'
    BY <1>1, <1>3, <1>5 DEF WorkInv, WorkFits
  <2> QED
    BY <1>1, <1>2, <1>3, <1>5, <1>6, <2>1, <2>2 DEF WorkInv, WorkFits
<1>8. /\ obj \in [Boxes -> [Slots -> Pointer]] /\ hashed \in [Boxes -> Pointer]
      /\ root \in [Roots -> Pointer] /\ Key \in Slots
  BY HeapAssumption DEF DataInv, DataTypes, Slots
<1>9. /\ Stays(p, q) => Moved(obj, p, q) = obj /\ Moved(hashed, p, q) = hashed
      /\ Goes(p, q) => /\ Moved(obj, p, q) = [obj EXCEPT ![q] = obj[p]]
                       /\ Moved(hashed, p, q) = [hashed EXCEPT ![q] = hashed[p]]
  BY <1>1, MovedIs
<1>10. Moved(obj, p, q) \in [Boxes -> [Slots -> Pointer]] /\ Moved(hashed, p, q) \in [Boxes -> Pointer]
  BY <1>1, <1>8, MovedTo
<1>11. hashed' = IF s = Key /\ p # q THEN [Moved(hashed, p, q) EXCEPT ![at] = q] ELSE Moved(hashed, p, q)
  BY <1>1 DEF Reindexed
<1>12. DataTypes'
  BY <1>1, <1>2, <1>8, <1>10, <1>11 DEF DataTypes
<1>13. RootsFit'
  <2>1. SUFFICES ASSUME NEW x \in Roots
                 PROVE  /\ root'[x] \in From' \cup To' \cup {Nil}
                        /\ x \notin todo' => root'[x] \in To' \cup {Nil}
    BY DEF RootsFit
  <2> QED
    BY <1>1, <1>2, <1>3 DEF DataInv, RootsFit
\* The box that is scanned keeps its content, but for the slot.
<1>14. Moved(obj, p, q)[at] = obj[at] /\ Moved(hashed, p, q)[at] = hashed[at]
  <2>1. CASE Stays(p, q)
    BY <1>9, <2>1
  <2>2. CASE Goes(p, q)
    BY <1>1, <1>6, <1>8, <1>9, <2>2 DEF Goes
  <2> QED
    BY <1>5, <2>1, <2>2
<1>15. \A x \in Slots : obj'[at][x] = IF x = s THEN q ELSE obj[at][x]
  BY <1>1, <1>6, <1>8, <1>10, <1>14
<1>16. hashed'[at] = IF s = Key THEN q ELSE hashed[at]
  <2>1. hashed[at] = obj[at][Key]
    BY <1>6 DEF DataInv, FieldsFit
  <2>2. CASE s = Key /\ p # q
    BY <1>6, <1>10, <1>11, <2>2
  <2>3. CASE ~ (s = Key /\ p # q)
    BY <1>11, <1>14, <2>1, <2>3
  <2> QED
    BY <2>2, <2>3
\* Another box has its own or what moved to it.
<1>17. \A b \in Boxes \ {at} : obj'[b] = Moved(obj, p, q)[b] /\ hashed'[b] = Moved(hashed, p, q)[b]
  BY <1>1, <1>10, <1>11
<1>18. \A b \in Current' : b # at => \E c \in Current : obj'[b] = obj[c] /\ hashed'[b] = hashed[c]
  <2>1. SUFFICES ASSUME NEW b \in Current', b # at
                 PROVE  \E c \in Current : obj'[b] = obj[c] /\ hashed'[b] = hashed[c]
    OBVIOUS
  <2>2. Current \subseteq Boxes /\ Current' \subseteq Boxes
    <3>1. Current \subseteq Boxes
      BY Apart DEF SpaceInv
    <3> QED
      BY <1>3, <1>5, <3>1
  <2>3. CASE Stays(p, q)
    BY <1>3, <1>9, <1>17, <2>1, <2>2, <2>3
  <2>4. CASE Goes(p, q)
    <3>1. p \in Current
      BY <2>4 DEF Goes, Current
    <3>2. CASE b = q
      BY <1>8, <1>9, <1>17, <2>1, <2>2, <2>4, <3>1, <3>2
    <3>3. CASE b # q
      <4>1. b \in Current
        BY <1>3, <2>4, <3>3
      <4> QED
        BY <1>8, <1>9, <1>17, <2>1, <2>2, <2>4, <3>3, <4>1
    <3> QED
      BY <3>2, <3>3
  <2> QED
    BY <1>5, <2>3, <2>4
<1>19. FieldsFit'
  <2>1. SUFFICES ASSUME NEW b \in Current'
                 PROVE  /\ \A x \in Slots : obj'[b][x] \in From' \cup To' \cup {Nil}
                        /\ hashed'[b] = obj'[b][Key]
    BY DEF FieldsFit
  <2>2. CASE b = at
    BY <1>3, <1>6, <1>8, <1>15, <1>16, <2>2 DEF DataInv, FieldsFit
  <2>3. CASE b # at
    BY <1>3, <1>18, <2>3 DEF DataInv, FieldsFit
  <2> QED
    BY <2>2, <2>3
<1>20. ScannedFits'
  <2>1. SUFFICES ASSUME NEW b \in To', NEW x \in Slots
                 PROVE  \/ Unscanned(b, x)'
                        \/ /\ obj'[b][x] \in To' \cup {Nil}
                           /\ b \in live' /\ obj'[b][x] \in Young => b \in list'
    BY <1>2 DEF ScannedFits
  <2>2. CASE b \notin To
    BY <1>3, <1>5, <2>2 DEF Unscanned
  <2>3. CASE b \in To /\ ~ (b = at /\ x = s)
    <3>1. Unscanned(b, x) => Unscanned(b, x)'
      BY <1>1, <1>2, <1>5, <2>3 DEF Unscanned
    <3>2. obj'[b][x] = obj[b][x]
      <4>1. CASE b = at
        BY <1>15, <2>3, <4>1
      <4>2. CASE b # at
        <5>1. b \in Boxes /\ (Goes(p, q) => b # q)
          BY <2>3, Apart DEF SpaceInv, Goes
        <5>2. Moved(obj, p, q)[b] = obj[b]
          BY <1>5, <1>8, <1>9, <5>1
        <5> QED
          BY <1>17, <4>2, <5>1, <5>2
      <4> QED
        BY <4>1, <4>2
    <3>3. b \in live' => b \in live
      BY <1>4, <2>3, Apart DEF SpaceInv, SpaceTypes
    <3> QED
      BY <1>1, <1>3, <1>6, <2>3, <3>1, <3>2, <3>3 DEF DataInv, ScannedFits
  <2>4. CASE b = at /\ x = s
    <3>1. obj'[b][x] = q
      BY <1>15, <2>4
    <3>2. b \in live' /\ q \in Young => b \in list'
      <4>1. SUFFICES ASSUME b \in live', q \in Young PROVE b \in list'
        OBVIOUS
      <4>2. q \in arriving'
        BY <1>3, <4>1, Layout DEF Nil, Pointer
      <4>3. keeps
        BY <1>2, <1>4, <4>2 DEF SpaceInv, SpacesFit
      <4>4. at \in Old
        BY <1>4, <2>4, <4>1 DEF SpaceInv, SpaceTypes
      <4>5. at \in flag'
        BY <1>1, <4>1, <4>3, <4>4 DEF Forwards
      <4> QED
        BY <1>4, <2>4, <4>4, <4>5 DEF SpaceInv, SpacesFit
    <3> QED
      BY <1>3, <3>1, <3>2
  <2> QED
    BY <2>2, <2>3, <2>4
<1>21. MarksFit'
  BY <1>2 DEF MarksFit
<1>22. ClosureInv'
  <2>1. \A x : Whereabouts(marked', target', x)
                   = IF Goes(p, q) /\ Whereabouts(marked, target, x) = p THEN q
                     ELSE Whereabouts(marked, target, x)
    BY <1>1, FoundAfter
  <2> QED
    BY <1>2, <1>3, <2>1 DEF ClosureInv, ClosureTypes, ClosuresFit, Moving
<1> QED
  BY <1>4, <1>7, <1>12, <1>13, <1>19, <1>20, <1>21, <1>22 DEF DataInv
-----------------------------------------------------------------------------
(* The other steps of a minor collection *)

\* Taking the remembered set keeps the invariant: what was remembered is to be
\* scanned now.
LEMMA RecallKeeps ==
    ASSUME HeapInv, Recall
    PROVE  HeapInv'
<1> USE DEF HeapInv
<1>1. /\ phase = "forward" /\ phase' = "scan" /\ todo = {}
      /\ recalled' = list /\ flag' = flag \ list /\ list' = {}
      /\ UNCHANGED <<obj, hashed, home, stamp, live, marked, target, used, survivors,
                     arriving, epoch, root, frame, compiled, running, suspended,
                     why, keeps, todo, gray, at, left>>
  BY DEF Recall, program
<1>2. Moving /\ Moving' /\ From' = From /\ To' = To /\ Current' = Current
  BY <1>1 DEF Moving, From, To, Current
<1>3. list = flag \cap Old /\ list \subseteq live /\ list \subseteq Old
  BY DEF SpaceInv, SpacesFit
<1>4. SpaceInv'
  <2>1. SpaceTypes'
    BY <1>1 DEF SpaceInv, SpaceTypes
  <2>2. SpacesFit'
    <3>1. survivors \cup arriving \subseteq flag'
      BY <1>1, <1>3, Layout DEF SpaceInv, SpaceTypes, SpacesFit
    <3> QED
      BY <1>1, <1>2, <1>3, <3>1 DEF SpaceInv, SpacesFit, Marking, Moving
  <2>3. HomesFit'
    BY <1>1, <1>2 DEF SpaceInv, HomesFit
  <2>4. StampsFit'
    BY <1>1, <1>2 DEF SpaceInv, StampsFit, NextEpoch
  <2>5. ForwardsFit'
    BY <1>1, <1>2 DEF SpaceInv, ForwardsFit
  <2> QED
    BY <2>1, <2>2, <2>3, <2>4, <2>5 DEF SpaceInv
<1>5. WorkInv'
  BY <1>1, <1>2, <1>3 DEF WorkInv, WorkTypes, WorkFits
<1>6. DataTypes' /\ FieldsFit'
  BY <1>1, <1>2 DEF DataInv, DataTypes, FieldsFit
<1>7. RootsFit'
  BY <1>1, <1>2 DEF DataInv, RootsFit
<1>8. ScannedFits'
  <2>1. SUFFICES ASSUME NEW b \in To, NEW s \in Slots
                 PROVE  \/ Unscanned(b, s)'
                        \/ /\ obj[b][s] \in To \cup {Nil}
                           /\ b \in live /\ obj[b][s] \in Young => b \in list'
    BY <1>1, <1>2 DEF ScannedFits
  <2>2. Unscanned(b, s) \/ b \in list => Unscanned(b, s)'
    BY <1>1 DEF Unscanned, WorkInv, WorkFits
  <2> QED
    BY <1>2, <2>2 DEF DataInv, ScannedFits
<1>9. MarksFit'
  BY <1>1 DEF MarksFit
<1>10. ClosureInv'
  BY <1>1, <1>2 DEF ClosureInv, ClosureTypes, ClosuresFit
<1> QED
  BY <1>4, <1>5, <1>6, <1>7, <1>8, <1>9, <1>10 DEF DataInv

\* Starting on an object keeps the invariant: all of its slots are to do.
LEMMA ScanKeeps ==
    ASSUME HeapInv, Scan
    PROVE  HeapInv'
<1> USE DEF HeapInv
<1>1. /\ phase = "scan" /\ left = <<>> /\ left' = SlotOrder
      /\ UNCHANGED <<obj, hashed, home, stamp, live, marked, flag, target, list, used,
                     survivors, arriving, epoch, root, frame, compiled, running,
                     suspended, phase, why, keeps, todo>>
  BY DEF Scan, program, heap
<1>2. Moving /\ Moving' /\ From' = From /\ To' = To /\ Current' = Current
  BY <1>1 DEF Moving, From, To, Current
<1>3. recalled \subseteq live /\ gray \subseteq To /\ live \subseteq To /\ To \subseteq Boxes
  BY <1>2, Apart DEF WorkInv, WorkFits, To, SpaceInv
<1>4. \/ at' \in recalled /\ recalled' = recalled \ {at'} /\ gray' = gray
      \/ at' \in gray /\ gray' = gray \ {at'} /\ recalled' = recalled
  <2>1. recalled \in SUBSET Nat /\ gray \in SUBSET Nat
    BY <1>3, Layout
  <2>2. /\ recalled # {} => Min(recalled) \in recalled
        /\ gray # {} => Min(gray) \in gray
    BY <2>1, MinIn
  <2> QED
    BY <2>2 DEF Scan
<1>5. at' \in To /\ at' # Nil /\ at' \in Boxes
  BY <1>3, <1>4, Layout
<1>6. left' \in Seq(Slots) /\ ToSet(left') = Slots
  BY <1>1, HeapAssumption DEF Slots
<1>7. SpaceInv'
  BY <1>1, <1>2 DEF SpaceInv, SpaceTypes, SpacesFit, HomesFit, StampsFit, ForwardsFit,
                    NextEpoch, Moving, Marking
<1>8. WorkInv'
  BY <1>1, <1>2, <1>3, <1>4, <1>5, <1>6 DEF WorkInv, WorkTypes, WorkFits, Pointer
<1>9. DataTypes' /\ FieldsFit' /\ RootsFit'
  BY <1>1, <1>2 DEF DataInv, DataTypes, FieldsFit, RootsFit
<1>10. ScannedFits'
  <2>1. SUFFICES ASSUME NEW b \in To, NEW s \in Slots
                 PROVE  \/ Unscanned(b, s)'
                        \/ /\ obj[b][s] \in To \cup {Nil}
                           /\ b \in live /\ obj[b][s] \in Young => b \in list
    BY <1>1, <1>2 DEF ScannedFits
  <2>2. s \notin ToSet(left)
    BY <1>1 DEF ToSet
  <2>3. Unscanned(b, s) => Unscanned(b, s)'
    BY <1>1, <1>4, <1>6, <2>2 DEF Unscanned
  <2> QED
    BY <1>2, <2>3 DEF DataInv, ScannedFits
<1>11. MarksFit'
  BY <1>1 DEF MarksFit
<1>12. ClosureInv'
  BY <1>1, <1>2 DEF ClosureInv, ClosureTypes, ClosuresFit
<1> QED
  BY <1>7, <1>8, <1>9, <1>10, <1>11, <1>12 DEF DataInv
\* The end of a minor collection keeps the invariant: what was not moved is
\* gone, what arrived is the nursery's rest, and the epoch is another one.
LEMMA ResetNurseryKeeps ==
    ASSUME HeapInv, ResetNursery
    PROVE  HeapInv'
<1> USE DEF HeapInv
<1>1. /\ phase = "scan" /\ left = <<>> /\ recalled = {} /\ gray = {}
      /\ used' = 0 /\ survivors' = arriving /\ arriving' = {} /\ epoch' = NextEpoch
      /\ stamp' = Stamps
      /\ home' = [o \in Objects |-> IF home[o] \in Young \ arriving THEN Nil ELSE home[o]]
      /\ marked' = marked \ Young
      /\ flag' = flag \ (Young \ arriving)
      /\ target' = [b \in Young |-> Nil]
      /\ keeps' = FALSE /\ at' = Nil
      /\ suspended' = IF suspended \in Young \ arriving THEN Retired ELSE suspended
      /\ UNCHANGED <<live, list, todo, frame, recalled, gray, left>>
  BY DEF ResetNursery
<1>2. /\ obj' = [b \in Boxes |-> IF b \in Young \ arriving THEN Empty ELSE obj[b]]
      /\ hashed' = [b \in Boxes |-> IF b \in Young \ arriving THEN Nil ELSE hashed[b]]
  BY DEF ResetNursery
<1>3. \/ /\ why = "minor" /\ phase' = "run" /\ running' = Refreshed
         /\ UNCHANGED <<root, compiled, why>>
      \/ /\ why = "enter" /\ phase' = "run" /\ why' = "minor"
         /\ compiled' = TRUE /\ running' = root["entered"]
         /\ root' = [root EXCEPT !["entered"] = Nil]
      \/ /\ why = "major" /\ phase' = "roots" /\ why' = "minor"
         /\ UNCHANGED <<root, compiled, running>>
  BY DEF ResetNursery
<1>4. Moving /\ ~Moving' /\ phase' \in {"run", "roots"}
  BY <1>1, <1>3 DEF Moving
<1>5. marked \subseteq From /\ From \subseteq Young \ arriving /\ To \cap Young = arriving
  BY <1>4, Apart DEF SpaceInv, SpacesFit, To
<1>6. marked' = {}
  BY <1>1, <1>5
<1>7. /\ arriving \subseteq SurvivorBoxes /\ arriving \subseteq Young /\ live \subseteq Old
      /\ Young \cap Old = {} /\ Nil \notin Young /\ Nil \notin Old /\ Young \subseteq Boxes /\ Old \subseteq Boxes
  BY Layout DEF SpaceInv, SpaceTypes
<1>8. From' = arriving /\ To' = live /\ Current' = To
  <2>1. 1 .. 0 = {}
    OBVIOUS
  <2>2. From' = arriving
    BY <1>1, <2>1 DEF From
  <2> QED
    BY <1>1, <1>6, <2>2 DEF To, Current
<1>9. To = arriving \cup live
  BY DEF To
<1>10. SpaceInv'
  <2>1. \A b \in Young : stamp'[b] = IF epoch = MaxEpoch /\ b \notin arriving THEN 0 ELSE stamp[b]
    BY <1>1 DEF Stamps
  <2>2. stamp' \in [Young -> 0 .. MaxEpoch]
    BY <1>1, Sizes DEF Stamps, SpaceInv, SpaceTypes
  <2>3. home' \in [Objects -> Pointer]
    BY <1>1 DEF SpaceInv, SpaceTypes, Pointer
  <2>4. target' \in [Young -> Pointer]
    BY <1>1 DEF Pointer
  <2>5. SpaceTypes'
    BY <1>1, <1>6, <2>2, <2>3, <2>4, Sizes, Epochs DEF SpaceInv, SpaceTypes
  <2>6. list' = flag' \cap Old
    BY <1>1, <1>7 DEF SpaceInv, SpacesFit
  <2>7. survivors' \cup arriving' \subseteq flag'
    BY <1>1 DEF SpaceInv, SpacesFit
  <2>8. phase' = "roots" => survivors' = {}
    BY <1>1, <1>3 DEF SpaceInv, SpacesFit, WorkInv, WorkFits
  <2>9. SpacesFit'
    BY <1>1, <1>4, <1>6, <2>6, <2>7, <2>8 DEF SpaceInv, SpacesFit, Marking
  <2>10. HomesFit'
    <3>1. \A o \in Objects : home'[o] = IF home[o] \in Young \ arriving THEN Nil ELSE home[o]
      BY <1>1
    <3>2. /\ \A o \in Objects : home[o] \in (From \ marked) \cup To \cup {Nil}
          /\ \A b \in To : \E o \in Objects : home[o] = b
          /\ \A o, x \in Objects : home[o] = home[x] /\ home[o] # Nil => o = x
      BY DEF SpaceInv, HomesFit, Current
    <3>3. \A o \in Objects : home'[o] \in To \cup {Nil} /\ (home'[o] # Nil => home'[o] = home[o])
      BY <1>5, <3>1, <3>2
    <3>4. \A o \in Objects : home[o] \in To => home'[o] = home[o]
      BY <1>7, <1>9, <3>1
    <3> QED
      BY <1>8, <3>2, <3>3, <3>4 DEF HomesFit
  <2>11. StampsFit'
    <3>1. NextEpoch = epoch + 1 \/ (epoch = MaxEpoch /\ NextEpoch = 1)
      BY Epochs DEF SpaceInv
    <3>2. epoch \in 1 .. MaxEpoch /\ \A b \in Young : stamp[b] \in 0 .. MaxEpoch
      BY DEF SpaceInv, SpaceTypes
    <3>3. \A b \in Young \ arriving : stamp[b] <= epoch
      BY DEF SpaceInv, StampsFit
    <3>4. \A b \in arriving : stamp[b] = NextEpoch
      BY DEF SpaceInv, StampsFit
    <3>5. SUFFICES ASSUME NEW b \in Young
                   PROVE  stamp'[b] <= NextEpoch /\ (stamp'[b] = NextEpoch <=> b \in arriving)
      BY <1>1, <1>8 DEF StampsFit
    <3>6. CASE b \in arriving
      BY <2>1, <3>1, <3>2, <3>4, <3>6, Sizes
    <3>7. CASE b \notin arriving
      BY <2>1, <3>1, <3>2, <3>3, <3>7, Sizes
    <3> QED
      BY <3>6, <3>7
  <2>12. ForwardsFit'
    BY <1>4 DEF ForwardsFit
  <2> QED
    BY <2>5, <2>9, <2>10, <2>11, <2>12 DEF SpaceInv
<1>11. WorkInv'
  BY <1>1, <1>3, <1>4 DEF WorkInv, WorkTypes, WorkFits, Pointer
<1>12. \A r \in Roots : root[r] \in To \cup {Nil}
  BY <1>1, <1>4 DEF WorkInv, WorkFits, DataInv, RootsFit
<1>13. \A r \in Roots : root'[r] \in {root[r], Nil}
  BY <1>3 DEF DataInv, DataTypes
<1>14. DataTypes'
  <2>1. Empty \in [Slots -> Pointer] /\ Nil \in Pointer
    BY DEF Empty, Pointer
  <2>2. root' \in [Roots -> Pointer]
    BY <1>3, <2>1 DEF DataInv, DataTypes
  <2> QED
    BY <1>2, <2>1, <2>2 DEF DataInv, DataTypes
<1>15. RootsFit'
  BY <1>4, <1>8, <1>9, <1>12, <1>13 DEF RootsFit
<1>16. \A b \in To, s \in Slots : /\ obj[b][s] \in To \cup {Nil}
                                  /\ b \in live /\ obj[b][s] \in Young => b \in list
  <2>1. \A b, s : ~Unscanned(b, s)
    BY <1>1 DEF Unscanned, ToSet
  <2> QED
    BY <1>4, <2>1 DEF DataInv, ScannedFits
<1>17. \A b \in To : obj'[b] = obj[b] /\ hashed'[b] = hashed[b]
  BY <1>2, <1>7, <1>9
<1>18. FieldsFit'
  <2>1. \A b \in To : hashed[b] = obj[b][Key]
    BY DEF DataInv, FieldsFit, Current
  <2> QED
    BY <1>8, <1>9, <1>16, <1>17, <2>1 DEF FieldsFit
<1>19. ScannedFits'
  BY <1>1, <1>4, <1>9, <1>16, <1>17 DEF ScannedFits
<1>20. MarksFit'
  BY <1>4 DEF MarksFit
<1>21. ClosureInv'
  <2>1. why = "enter" => /\ root["entered"] = root["inner"] /\ root["entered"] \in Old
                         /\ frame # "none"
    <3>1. SUFFICES ASSUME why = "enter"
                   PROVE  root["entered"] = root["inner"] /\ root["entered"] \in Old /\ frame # "none"
      OBVIOUS
    <3>2. /\ root["entered"] # Nil /\ frame # "none"
          /\ Whereabouts(marked, target, root["entered"]) = Whereabouts(marked, target, root["inner"])
      BY <3>1 DEF ClosureInv, ClosuresFit
    <3>3. root["entered"] \in To \cup {Nil} /\ root["inner"] \in To \cup {Nil}
      BY <1>12, RootsAre
    <3>4. root["entered"] \notin marked /\ root["inner"] \notin marked
      BY <1>5, <1>7, <1>9, <3>3
    <3>5. arriving = {}
      BY <3>1 DEF WorkInv, WorkFits, SpaceInv, SpacesFit
    <3> QED
      BY <1>7, <1>9, <3>2, <3>3, <3>4, <3>5 DEF Whereabouts
  <2>2. root' \in [Roots -> Pointer]
    BY <1>14 DEF DataTypes
  <2>3. root'["inner"] = root["inner"] /\ root'["outer"] = root["outer"]
    BY <1>3, RootsAre DEF DataInv, DataTypes
  <2>4. compiled' => frame' # "none" /\ running' = root'["inner"] /\ running' \in Old
    BY <1>1, <1>3, <2>1, <2>3 DEF ClosureInv, ClosuresFit, Refreshed
  <2>5. phase' = "run" => running' = Closure'
    BY <1>1, <1>3, <2>1, <2>3 DEF ClosureInv, ClosuresFit, Refreshed, Closure
  <2>6. frame' = "operator" => suspended' \in {Retired, root'["outer"]}
    BY <1>1, <1>4, <1>5, <2>3 DEF ClosureInv, ClosuresFit
  <2>7. ClosureTypes'
    <3>1. suspended' \in Pointer \cup {Retired} /\ frame' = frame /\ compiled' \in BOOLEAN
      BY <1>1, <1>3 DEF ClosureInv, ClosureTypes
    <3>2. running' \in Pointer \cup {Retired}
      BY <1>3, RootsAre DEF ClosureInv, ClosureTypes, Refreshed, Closure, DataInv, DataTypes
    <3> QED
      BY <3>1, <3>2 DEF ClosureInv, ClosureTypes
  <2>8. why' = "minor"
    BY <1>3
  <2> QED
    BY <2>4, <2>5, <2>6, <2>7, <2>8 DEF ClosureInv, ClosuresFit
<1> QED
  BY <1>10, <1>11, <1>14, <1>15, <1>18, <1>19, <1>20, <1>21 DEF DataInv
-----------------------------------------------------------------------------
(* Marking and sweeping *)

\* While a major collection marks, there is nothing young.
LEMMA NothingYoung ==
    ASSUME SpaceInv, Marking
    PROVE  /\ From = {} /\ arriving = {} /\ To = live /\ Current = live
           /\ live \subseteq Old /\ live \cap Young = {} /\ Nil \notin live
<1>1. 1 .. 0 = {}
  OBVIOUS
<1>2. used = 0 /\ survivors = {} /\ arriving = {}
  BY DEF SpaceInv, SpacesFit, Marking, Moving
<1> QED
  BY <1>1, <1>2, Layout DEF From, To, Current, SpaceInv, SpaceTypes

\* Reaching boxes marks those that were not, and puts them on the worklist.
LEMMA ReachKeeps ==
    ASSUME HeapInv, Marking, phase' = "mark", NEW ps, Reach(ps),
           phase = "roots" => \A r \in Roots : root[r] \in ps,
           phase = "mark" => \A b \in gray, s \in Slots : obj[b][s] \in ps
    PROVE  HeapInv'
<1> USE DEF HeapInv
<1> DEFINE fresh == (ps \cap live) \ marked
<1>1. /\ marked' = marked \cup fresh /\ gray' = fresh
      /\ UNCHANGED <<obj, hashed, home, stamp, live, flag, target, list, used, survivors,
                     arriving, epoch, root, frame, compiled, running, suspended,
                     why, keeps, todo, recalled, at, left>>
  BY DEF Reach, program
<1>2. ~Moving /\ ~Moving' /\ Marking'
  BY DEF Marking, Moving
<1>3. /\ From = {} /\ arriving = {} /\ To = live /\ Current = live
      /\ live \subseteq Old /\ live \cap Young = {} /\ Nil \notin live
  BY NothingYoung
<1>4. From' = From /\ To' = To /\ Current' = Current
  <2>1. From' = From /\ To' = To
    BY <1>1 DEF From, To
  <2> QED
    BY <1>3, <2>1 DEF Current
<1>5. marked \subseteq live /\ marked' \subseteq live /\ fresh \subseteq live
  BY <1>1, <1>2 DEF SpaceInv, SpacesFit, Marking
<1>6. SpaceInv'
  <2>1. SpaceTypes'
    BY <1>1, <1>3, <1>5, Layout DEF SpaceInv, SpaceTypes
  <2>2. SpacesFit'
    BY <1>1, <1>2, <1>5 DEF SpaceInv, SpacesFit, Marking
  <2>3. HomesFit'
    BY <1>1, <1>4 DEF SpaceInv, HomesFit
  <2>4. StampsFit'
    BY <1>1, <1>4 DEF SpaceInv, StampsFit, NextEpoch
  <2>5. ForwardsFit'
    BY <1>2 DEF ForwardsFit
  <2> QED
    BY <2>1, <2>2, <2>3, <2>4, <2>5 DEF SpaceInv
<1>7. WorkInv'
  <2>1. gray' \subseteq Boxes
    BY <1>1, <1>3, <1>5, Layout
  <2> QED
    BY <1>1, <1>2, <1>4, <2>1 DEF WorkInv, WorkTypes, WorkFits, Marking
<1>8. DataTypes' /\ FieldsFit' /\ RootsFit'
  BY <1>1, <1>2, <1>4 DEF DataInv, DataTypes, FieldsFit, RootsFit
<1>9. ScannedFits'
  BY <1>2 DEF ScannedFits
<1>10. MarksFit'
  <2>1. CASE phase = "roots"
    <3>1. \A r \in Roots : root[r] \in live \cup {Nil} /\ root[r] \in ps
      BY <1>3, <2>1 DEF DataInv, RootsFit
    <3>2. marked = {}
      BY <2>1 DEF SpaceInv, SpacesFit
    <3> QED
      BY <1>1, <3>1, <3>2 DEF MarksFit
  <2>2. CASE phase = "mark"
    <3>1. /\ \A r \in Roots : root[r] \in marked \cup {Nil}
          /\ \A b \in marked \ gray, s \in Slots : obj[b][s] \in marked \cup {Nil}
      BY <2>2 DEF DataInv, MarksFit
    <3>2. \A b \in live, s \in Slots : obj[b][s] \in live \cup {Nil}
      BY <1>3 DEF DataInv, FieldsFit
    <3>3. gray \subseteq marked /\ \A b \in gray, s \in Slots : obj[b][s] \in ps
      BY <2>2 DEF WorkInv, WorkFits
    <3>4. \A b \in gray, s \in Slots : obj[b][s] \in marked' \cup {Nil}
      BY <1>1, <1>5, <3>2, <3>3
    <3>5. marked' \ gray' = marked
      BY <1>1
    <3> HIDE DEF fresh
    <3> QED
      BY <1>1, <3>1, <3>4, <3>5 DEF MarksFit
  <2> QED
    BY <2>1, <2>2 DEF Marking
<1>11. ClosureInv'
  BY <1>1, <1>2 DEF ClosureInv, ClosureTypes, ClosuresFit, Marking
<1> QED
  BY <1>6, <1>7, <1>8, <1>9, <1>10, <1>11 DEF DataInv

\* Marking the roots keeps the invariant.
LEMMA MarkRootsKeeps ==
    ASSUME HeapInv, MarkRoots
    PROVE  HeapInv'
<1>1. Marking /\ phase = "roots" /\ phase' = "mark" /\ Reach({root[r] : r \in Roots})
  BY DEF MarkRoots, Marking
<1>2. \A r \in Roots : root[r] \in {root[x] : x \in Roots}
  OBVIOUS
<1> QED
  BY <1>1, <1>2, ReachKeeps

\* Marking the children keeps the invariant.
LEMMA MarkChildrenKeeps ==
    ASSUME HeapInv, MarkChildren
    PROVE  HeapInv'
<1>1. Marking /\ phase = "mark" /\ phase' = "mark" /\ Reach({obj[b][s] : b \in gray, s \in Slots})
  BY DEF MarkChildren, Marking
<1>2. \A b \in gray, s \in Slots : obj[b][s] \in {obj[c][x] : c \in gray, x \in Slots}
  OBVIOUS
<1> QED
  BY <1>1, <1>2, ReachKeeps

\* Sweeping keeps the invariant: what is left is what was marked, and that names
\* nothing else.
LEMMA SweepKeeps ==
    ASSUME HeapInv, Sweep
    PROVE  HeapInv'
<1> USE DEF HeapInv
<1> DEFINE dead == live \ marked
<1>1. /\ phase = "mark" /\ gray = {} /\ phase' = "run"
      /\ flag' = flag \ list /\ list' = {} /\ live' = live \ dead
      /\ marked' = marked \ Old /\ running' = Refreshed
      /\ home' = [o \in Objects |-> IF home[o] \in dead THEN Nil ELSE home[o]]
      /\ obj' = [b \in Boxes |-> IF b \in dead THEN Empty ELSE obj[b]]
      /\ hashed' = [b \in Boxes |-> IF b \in dead THEN Nil ELSE hashed[b]]
      /\ UNCHANGED <<stamp, target, used, survivors, arriving, epoch, root, frame,
                     compiled, suspended, why, keeps, todo, recalled, gray, at, left>>
  BY DEF Sweep
<1>2. ~Moving /\ ~Moving' /\ Marking
  BY <1>1 DEF Moving, Marking
<1>3. /\ From = {} /\ arriving = {} /\ To = live /\ Current = live
      /\ live \subseteq Old /\ live \cap Young = {} /\ Nil \notin live
  BY <1>2, NothingYoung
<1>4. marked \subseteq live /\ live' = marked /\ marked' = {}
  BY <1>1, <1>3 DEF SpaceInv, SpacesFit
<1>5. From' = {} /\ To' = live' /\ Current' = live'
  <2>1. From' = From /\ To' = live'
    BY <1>1, <1>3 DEF From, To
  <2> QED
    BY <1>3, <2>1 DEF Current
<1>6. dead = live \ marked /\ dead \cap marked = {}
  OBVIOUS
<1> HIDE DEF dead
<1>7. SpaceInv'
  <2>1. SpaceTypes'
    BY <1>1, <1>3, <1>4 DEF SpaceInv, SpaceTypes, Pointer
  <2>2. SpacesFit'
    <3>1. list = flag \cap Old /\ survivors = {} /\ used = 0
      BY <1>2 DEF SpaceInv, SpacesFit
    <3> QED
      BY <1>1, <1>2, <1>3, <1>4, <3>1 DEF SpacesFit, Marking
  <2>3. HomesFit'
    <3>1. /\ \A o \in Objects : home[o] \in live \cup {Nil}
          /\ \A b \in live : \E o \in Objects : home[o] = b
          /\ \A o, x \in Objects : home[o] = home[x] /\ home[o] # Nil => o = x
      BY <1>3 DEF SpaceInv, HomesFit
    <3>2. \A o \in Objects : home'[o] = IF home[o] \in dead THEN Nil ELSE home[o]
      BY <1>1
    <3> QED
      BY <1>3, <1>4, <1>5, <1>6, <3>1, <3>2 DEF HomesFit
  <2>4. StampsFit'
    BY <1>1, <1>3, <1>5 DEF SpaceInv, StampsFit
  <2>5. ForwardsFit'
    BY <1>2 DEF ForwardsFit
  <2> QED
    BY <2>1, <2>2, <2>3, <2>4, <2>5 DEF SpaceInv
<1>8. WorkInv'
  BY <1>1, <1>2, <1>3, <1>5 DEF WorkInv, WorkTypes, WorkFits
<1>9. \A b \in live' : b \in Boxes /\ obj'[b] = obj[b] /\ hashed'[b] = hashed[b]
  BY <1>1, <1>3, <1>4, <1>6, Layout
<1>10. \A b \in live', s \in Slots : obj'[b][s] \in live' \cup {Nil}
  BY <1>1, <1>4, <1>9 DEF DataInv, MarksFit
<1>11. DataTypes'
  <2>1. Empty \in [Slots -> Pointer] /\ Nil \in Pointer
    BY DEF Empty, Pointer
  <2> QED
    BY <1>1, <2>1 DEF DataInv, DataTypes
<1>12. RootsFit'
  BY <1>1, <1>2, <1>4, <1>5 DEF DataInv, RootsFit, MarksFit
<1>13. FieldsFit'
  BY <1>3, <1>4, <1>5, <1>9, <1>10 DEF DataInv, FieldsFit
<1>14. ScannedFits'
  BY <1>1, <1>2, <1>3, <1>4, <1>10, Layout DEF ScannedFits, Pointer
<1>15. MarksFit'
  BY <1>1 DEF MarksFit
<1>16. ClosureInv'
  <2>1. running' \in Pointer \cup {Retired}
    BY <1>1, RootsAre DEF ClosureInv, ClosureTypes, Refreshed, Closure, DataInv, DataTypes
  <2>2. running' = Closure'
    BY <1>1 DEF ClosureInv, ClosuresFit, Refreshed, Closure
  <2>3. compiled' => running' = root'["inner"] /\ running' \in Old /\ frame' # "none"
    BY <1>1 DEF ClosureInv, ClosuresFit, Refreshed
  <2> QED
    BY <1>1, <1>2, <2>1, <2>2, <2>3 DEF ClosureInv, ClosureTypes, ClosuresFit
<1> QED
  BY <1>7, <1>8, <1>11, <1>12, <1>13, <1>14, <1>15, <1>16 DEF DataInv
-----------------------------------------------------------------------------
(* The program *)

\* While the program runs, the collector has nothing in hand.
LEMMA AtRest ==
    ASSUME HeapInv, phase = "run"
    PROVE  /\ marked = {} /\ arriving = {} /\ gray = {} /\ recalled = {} /\ todo = {}
           /\ at = Nil /\ left = <<>> /\ ~Moving /\ ~Marking /\ why = "minor"
           /\ To = live /\ Current = From \cup live /\ Current \subseteq Boxes /\ Nil \notin Current
           /\ Values \subseteq Current \cup {Nil} /\ Loadable \subseteq Current \cup {Nil}
           /\ Values \subseteq Pointer /\ Loadable \subseteq Pointer
           /\ \A r \in Roots : root[r] \in Current \cup {Nil}
           /\ \A b \in Current, s \in Slots : obj[b][s] \in Current \cup {Nil}
           /\ \A b \in live, s \in Slots : obj[b][s] \in Young => b \in list
<1> USE DEF HeapInv
<1>1. ~Moving /\ ~Marking
  BY DEF Moving, Marking
<1>2. marked = {} /\ arriving = {}
  BY <1>1 DEF SpaceInv, SpacesFit
<1>3. To = live /\ Current = From \cup live
  BY <1>2 DEF To, Current
<1>4. Current \subseteq Boxes /\ Nil \notin Current
  BY Apart DEF SpaceInv
<1>5. \A r \in Roots : root[r] \in Current \cup {Nil}
  BY <1>3 DEF DataInv, RootsFit
<1>6. \A b \in Current, s \in Slots : obj[b][s] \in Current \cup {Nil}
  BY <1>3 DEF DataInv, FieldsFit
<1>7. InReach \subseteq Roots
  BY RootsAre DEF InReach, Registers
<1>8. Values \subseteq Current \cup {Nil}
  BY <1>5, <1>7 DEF Values
<1>9. Loadable \subseteq Current \cup {Nil}
  BY <1>6, <1>8 DEF Loadable
<1>10. Values \subseteq Pointer /\ Loadable \subseteq Pointer
  BY <1>4, <1>8, <1>9 DEF Pointer
<1> QED
  BY <1>1, <1>2, <1>3, <1>4, <1>5, <1>6, <1>8, <1>9, <1>10
     DEF WorkInv, WorkFits, ClosureInv, ClosuresFit, DataInv, ScannedFits

\* What a step of the program has to keep.
LEMMA StepKeeps ==
    ASSUME HeapInv, phase = "run", UNCHANGED collector, SpaceInv', DataTypes',
           \A r \in Roots : root'[r] \in Current' \cup {Nil},
           FieldsFit', \A b \in live', s \in Slots : obj'[b][s] \in Young => b \in list',
           ClosureTypes',
           compiled' => frame' # "none" /\ running' = root'["inner"] /\ running' \in Old,
           frame' = "operator" => suspended' \in {Retired, root'["outer"]},
           running' = Closure' \/ (running' = Retired /\ frame' = "none")
    PROVE  HeapInv'
<1> USE DEF HeapInv
<1>1. UNCHANGED <<phase, why, keeps, todo, recalled, gray, at, left>>
  BY DEF collector
<1>2. /\ gray = {} /\ recalled = {} /\ todo = {} /\ at = Nil /\ left = <<>> /\ why = "minor"
      /\ ~Moving
  BY AtRest
<1>3. ~Moving' /\ phase' = "run"
  BY <1>1, <1>2 DEF Moving
<1>4. WorkInv'
  BY <1>1, <1>2, <1>3 DEF WorkInv, WorkTypes, WorkFits
<1>5. RootsFit'
  BY <1>3 DEF RootsFit, Current
<1>6. ScannedFits' /\ MarksFit'
  BY <1>3 DEF ScannedFits, MarksFit
<1>7. ClosureInv'
  BY <1>1, <1>2, <1>3 DEF ClosureInv, ClosuresFit
<1> QED
  BY <1>4, <1>5, <1>6, <1>7 DEF DataInv

\* A box from the nursery is nobody's, and then the new object's.
LEMMA BornSpaces ==
    ASSUME HeapInv, phase = "run", NEW b, Born(b), UNCHANGED <<phase, keeps>>
    PROVE  /\ SpaceInv' /\ b \in Young /\ b \in EdenBoxes /\ b \notin Current
           /\ Current' = Current \cup {b} /\ live' = live /\ list' = list
<1> USE DEF HeapInv
<1>1. /\ used < Eden /\ Room /\ b = used + 1 /\ used' = b
      /\ home' = [home EXCEPT ![Identity] = b]
      /\ stamp' = [stamp EXCEPT ![b] = epoch]
      /\ target' = [target EXCEPT ![b] = Nil]
      /\ marked' = marked \ {b} /\ flag' = flag \ {b}
      /\ UNCHANGED <<live, list, survivors, arriving, epoch>>
  BY DEF Born
<1>2. Identity \in Homeless
  BY <1>1, TenuredForNew
<1>3. used \in 0 .. Eden
  BY DEF SpaceInv, SpaceTypes
<1>4. b \in EdenBoxes /\ 1 .. used' = (1 .. used) \cup {b} /\ b \notin 1 .. used
  BY <1>1, <1>3, Sizes DEF EdenBoxes
<1>5. marked = {} /\ arriving = {} /\ ~Moving /\ ~Marking /\ To = live /\ Current = From \cup live
  BY AtRest
<1>6. /\ b \in Young /\ b \notin SurvivorBoxes /\ b \notin Old /\ b \in Boxes /\ b # Nil
      /\ b \in Pointer /\ Nil \in Pointer
  BY <1>4, Layout DEF Pointer
<1>7. survivors \subseteq SurvivorBoxes /\ live \subseteq Old
  BY DEF SpaceInv, SpaceTypes
<1>8. From' = From \cup {b} /\ b \notin From /\ b \notin live
  BY <1>1, <1>4, <1>6, <1>7 DEF From
<1>9. marked' = {} /\ arriving' = {} /\ ~Moving' /\ ~Marking' /\ To' = live /\ Current' = Current \cup {b}
  BY <1>1, <1>5, <1>8 DEF Moving, Marking, To, Current
<1>10. b \notin Current
  BY <1>5, <1>8
<1>11. SpaceTypes'
  <2>1. used' \in 0 .. Eden
    BY <1>1, <1>3, Sizes
  <2>2. stamp' \in [Young -> 0 .. MaxEpoch]
    <3>1. epoch \in 0 .. MaxEpoch
      BY Sizes DEF SpaceInv, SpaceTypes
    <3> QED
      BY <1>1, <3>1 DEF SpaceInv, SpaceTypes
  <2>3. home' \in [Objects -> Pointer] /\ target' \in [Young -> Pointer]
    BY <1>1, <1>6 DEF SpaceInv, SpaceTypes
  <2> QED
    BY <1>1, <2>1, <2>2, <2>3 DEF SpaceInv, SpaceTypes
<1>12. SpacesFit'
  BY <1>1, <1>6, <1>7, <1>9 DEF SpaceInv, SpacesFit
<1>13. HomesFit'
  <2>1. \A o \in Objects : home'[o] = IF o = Identity THEN b ELSE home[o]
    BY <1>1 DEF SpaceInv, SpaceTypes
  <2>2. Identity \in Objects /\ home[Identity] = Nil
    BY <1>2 DEF Homeless
  <2>3. /\ \A o \in Objects : home[o] \in Current \cup {Nil}
        /\ \A c \in Current : \E o \in Objects : home[o] = c
        /\ \A o, x \in Objects : home[o] = home[x] /\ home[o] # Nil => o = x
    BY DEF SpaceInv, HomesFit
  <2>4. Nil \notin Current
    BY AtRest
  <2> QED
    BY <1>6, <1>9, <1>10, <2>1, <2>2, <2>3, <2>4 DEF HomesFit
<1>14. StampsFit'
  <2>1. \A c \in Young : stamp'[c] = IF c = b THEN epoch ELSE stamp[c]
    BY <1>1 DEF SpaceInv, SpaceTypes
  <2>2. epoch' = epoch /\ epoch <= epoch
    BY <1>1, Epochs DEF SpaceInv
  <2> QED
    BY <1>5, <1>6, <1>8, <1>9, <2>1, <2>2 DEF SpaceInv, StampsFit
<1>15. ForwardsFit'
  BY <1>9 DEF ForwardsFit
<1> QED
  BY <1>1, <1>4, <1>6, <1>9, <1>10, <1>11, <1>12, <1>13, <1>14, <1>15 DEF SpaceInv

\* A box from the old generation is nobody's, and then the new object's, which
\* is remembered.
LEMMA BornOldSpaces ==
    ASSUME HeapInv, phase = "run", Room, UNCHANGED <<phase, keeps>>,
           NEW b, b = FreeTenured, live' = live \cup {b},
           home' = [home EXCEPT ![Identity] = b], marked' = marked \ {b}, Remember({b}),
           UNCHANGED <<stamp, target, used, survivors, arriving, epoch>>
    PROVE  /\ SpaceInv' /\ b \in Old /\ b \notin Current
           /\ Current' = Current \cup {b} /\ list' = list \cup {b}
<1> USE DEF HeapInv
<1>1. b \in Old \ live /\ Identity \in Homeless
  BY TenuredForNew
<1>2. /\ marked = {} /\ arriving = {} /\ ~Moving /\ ~Marking /\ To = live
      /\ Current = From \cup live /\ Nil \notin Current
  BY AtRest
<1>3. /\ b \notin Young /\ b \notin SurvivorBoxes /\ b \in Boxes /\ b # Nil /\ b \in Pointer
      /\ From \subseteq Young
  BY <1>1, Apart, Layout DEF Pointer, SpaceInv
<1>4. From' = From /\ To' = To \cup {b} /\ marked' = {} /\ ~Moving' /\ ~Marking'
  BY <1>2 DEF From, To, Moving, Marking
<1>5. Current' = Current \cup {b} /\ b \notin Current
  BY <1>1, <1>2, <1>3, <1>4 DEF Current
<1>6. list = flag \cap Old /\ list \subseteq live
  BY DEF SpaceInv, SpacesFit
<1>7. flag' = flag \cup {b} /\ list' = list \cup {b}
  BY <1>1, <1>6 DEF Remember
<1>8. SpaceTypes'
  <2>1. home' \in [Objects -> Pointer]
    BY <1>3 DEF SpaceInv, SpaceTypes
  <2> QED
    BY <1>1, <1>3, <1>4, <1>7, <2>1 DEF SpaceInv, SpaceTypes
<1>9. SpacesFit'
  BY <1>1, <1>2, <1>3, <1>4, <1>6, <1>7 DEF SpaceInv, SpacesFit
<1>10. HomesFit'
  <2>1. \A o \in Objects : home'[o] = IF o = Identity THEN b ELSE home[o]
    BY DEF SpaceInv, SpaceTypes
  <2>2. Identity \in Objects /\ home[Identity] = Nil
    BY <1>1 DEF Homeless
  <2>3. /\ \A o \in Objects : home[o] \in Current \cup {Nil}
        /\ \A c \in Current : \E o \in Objects : home[o] = c
        /\ \A o, x \in Objects : home[o] = home[x] /\ home[o] # Nil => o = x
    BY DEF SpaceInv, HomesFit
  <2> QED
    BY <1>2, <1>3, <1>5, <2>1, <2>2, <2>3 DEF HomesFit
<1>11. StampsFit'
  BY <1>2, <1>4 DEF SpaceInv, StampsFit, NextEpoch
<1>12. ForwardsFit'
  BY <1>4 DEF ForwardsFit
<1> QED
  BY <1>1, <1>5, <1>7, <1>8, <1>9, <1>10, <1>11, <1>12 DEF SpaceInv

\* A container that is written is remembered if it is old.
LEMMA StoredSpaces ==
    ASSUME HeapInv, phase = "run", NEW c \in Current, Remember({c}),
           UNCHANGED <<home, stamp, live, marked, target, used, survivors, arriving, epoch,
                       phase, keeps>>
    PROVE  /\ SpaceInv' /\ Current' = Current /\ list \subseteq list'
           /\ c \in live => c \in list'
<1> USE DEF HeapInv
<1>1. /\ marked = {} /\ arriving = {} /\ ~Moving /\ ~Marking /\ To = live
      /\ Current = From \cup live /\ Current \subseteq Boxes
  BY AtRest
<1>2. From' = From /\ To' = To /\ Current' = Current /\ ~Moving' /\ ~Marking'
  BY <1>1 DEF From, To, Current, Moving, Marking
<1>3. From \subseteq Young /\ live \subseteq Old /\ Young \cap Old = {}
  BY Apart, Layout DEF SpaceInv, SpaceTypes
<1>4. list = flag \cap Old /\ list \subseteq live
  BY DEF SpaceInv, SpacesFit
<1>5. flag' = flag \cup ({c} \cap Old) /\ list' = list \cup (({c} \cap Old) \ flag)
  BY DEF Remember
<1>6. list' = flag' \cap Old /\ list' \subseteq live
  BY <1>1, <1>3, <1>4, <1>5
<1>7. SpaceTypes'
  BY <1>1, <1>3, <1>5, <1>6 DEF SpaceInv, SpaceTypes
<1>8. SpacesFit'
  BY <1>1, <1>2, <1>5, <1>6 DEF SpaceInv, SpacesFit
<1>9. HomesFit' /\ StampsFit' /\ ForwardsFit'
  BY <1>2 DEF SpaceInv, HomesFit, StampsFit, ForwardsFit, NextEpoch
<1> QED
  BY <1>2, <1>3, <1>4, <1>5, <1>6, <1>7, <1>8, <1>9 DEF SpaceInv
\* What a new object is made of are values of the program.
LEMMA ContentsFit ==
    ASSUME HeapInv, phase = "run", NEW content \in Contents \cup {Empty}
    PROVE  /\ content \in [Slots -> Pointer]
           /\ \A s \in Slots : content[s] \in Current \cup {Nil}
<1>1. Empty \in [Slots -> Pointer] /\ \A s \in Slots : Empty[s] = Nil
  BY DEF Empty, Pointer
<1>2. CASE content = Empty
  BY <1>1, <1>2
<1>3. CASE content \in Contents
  <2>1. PICK s \in Slots, v \in Values : content = [Empty EXCEPT ![s] = v]
    BY <1>3 DEF Contents
  <2>2. v \in Pointer /\ v \in Current \cup {Nil}
    BY AtRest
  <2> QED
    BY <1>1, <2>1, <2>2
<1> QED
  BY <1>2, <1>3

\* The data when a box b is filled with content that names what there is.
LEMMA WrittenFits ==
    ASSUME HeapInv, phase = "run", NEW b \in Boxes, NEW content \in [Slots -> Pointer],
           Write(b, content), Current' = Current \cup {b},
           \A s \in Slots : content[s] \in Current' \cup {Nil},
           live' \subseteq live \cup {b}, list \subseteq list',
           b \in live' => b \in list'
    PROVE  /\ obj' \in [Boxes -> [Slots -> Pointer]] /\ hashed' \in [Boxes -> Pointer]
           /\ \A c \in Current' : /\ \A s \in Slots : obj'[c][s] \in Current' \cup {Nil}
                                  /\ hashed'[c] = obj'[c][Key]
           /\ \A c \in live', s \in Slots : obj'[c][s] \in Young => c \in list'
<1> USE DEF HeapInv
<1>1. /\ obj \in [Boxes -> [Slots -> Pointer]] /\ hashed \in [Boxes -> Pointer]
      /\ Key \in Slots
  BY HeapAssumption DEF DataInv, DataTypes, Slots
<1>2. obj' = [obj EXCEPT ![b] = content] /\ hashed' = [hashed EXCEPT ![b] = content[Key]]
  BY DEF Write
<1>3. /\ obj' \in [Boxes -> [Slots -> Pointer]] /\ hashed' \in [Boxes -> Pointer]
      /\ obj'[b] = content /\ hashed'[b] = content[Key]
      /\ \A c \in Boxes \ {b} : obj'[c] = obj[c] /\ hashed'[c] = hashed[c]
  BY <1>1, <1>2
<1>4. /\ \A c \in Current, s \in Slots : obj[c][s] \in Current \cup {Nil}
      /\ \A c \in live, s \in Slots : obj[c][s] \in Young => c \in list
      /\ Current \subseteq Boxes /\ live \subseteq Current
  BY AtRest
<1>5. \A c \in Current : hashed[c] = obj[c][Key]
  BY DEF DataInv, FieldsFit
<1> QED
  BY <1>3, <1>4, <1>5

\* The closures stay what they were as long as the roots that name them do.
LEMMA ClosuresStay ==
    ASSUME HeapInv, phase = "run", UNCHANGED <<frame, compiled, running, suspended>>,
           root'["outer"] = root["outer"], root'["inner"] = root["inner"]
    PROVE  /\ ClosureTypes'
           /\ compiled' => frame' # "none" /\ running' = root'["inner"] /\ running' \in Old
           /\ frame' = "operator" => suspended' \in {Retired, root'["outer"]}
           /\ running' = Closure' \/ (running' = Retired /\ frame' = "none")
<1>1. ~Moving
  BY AtRest
<1> QED
  BY <1>1 DEF HeapInv, ClosureInv, ClosureTypes, ClosuresFit, Closure

\* An allocation keeps the invariant.
LEMMA AllocKeeps ==
    ASSUME HeapInv, phase = "run", NEW r \in InReach, NEW content \in Contents,
           Alloc(r, content)
    PROVE  HeapInv'
<1> USE DEF HeapInv
<1>1. PICK b \in EdenBoxes :
         /\ Born(b) /\ Write(b, content)
         /\ root' = [root EXCEPT ![r] = b]
         /\ UNCHANGED <<frame, compiled, running, suspended, collector>>
  BY DEF Alloc
<1>2. UNCHANGED <<phase, keeps>>
  BY <1>1 DEF collector
<1>3. /\ SpaceInv' /\ b \in Young /\ b \notin Current /\ Current' = Current \cup {b}
      /\ live' = live /\ list' = list
  BY <1>1, <1>2, BornSpaces
<1>4. b \in Boxes /\ b \in Pointer /\ b \notin live
  BY <1>3, Layout, AtRest DEF Pointer
<1>5. content \in [Slots -> Pointer] /\ \A s \in Slots : content[s] \in Current' \cup {Nil}
  BY <1>3, ContentsFit
<1>6. /\ obj' \in [Boxes -> [Slots -> Pointer]] /\ hashed' \in [Boxes -> Pointer]
      /\ \A c \in Current' : /\ \A s \in Slots : obj'[c][s] \in Current' \cup {Nil}
                             /\ hashed'[c] = obj'[c][Key]
      /\ \A c \in live', s \in Slots : obj'[c][s] \in Young => c \in list'
  BY <1>1, <1>3, <1>4, <1>5, WrittenFits
<1>7. r \in Roots /\ r \notin {"outer", "inner"} /\ root \in [Roots -> Pointer]
  BY RootsAre DEF InReach, Registers, DataInv, DataTypes
<1>8. /\ root' \in [Roots -> Pointer] /\ \A x \in Roots : root'[x] = IF x = r THEN b ELSE root[x]
  BY <1>1, <1>4, <1>7
<1>9. \A x \in Roots : root'[x] \in Current' \cup {Nil}
  BY <1>3, <1>8, AtRest
<1>10. root'["outer"] = root["outer"] /\ root'["inner"] = root["inner"]
  BY <1>7, <1>8, RootsAre
<1>11. DataTypes' /\ FieldsFit'
  <2>1. Moving' = FALSE
    BY <1>2, AtRest DEF Moving
  <2>2. Current' \subseteq From' \cup To'
    BY DEF Current
  <2> QED
    BY <1>6, <1>8, <2>2 DEF DataTypes, FieldsFit
<1>12. UNCHANGED collector
  BY <1>1
<1> QED
  BY <1>1, <1>3, <1>6, <1>9, <1>10, <1>11, <1>12, ClosuresStay, StepKeeps

\* An allocation in the old generation keeps the invariant.
LEMMA AllocOldKeeps ==
    ASSUME HeapInv, phase = "run", NEW r \in InReach, NEW content \in Contents,
           AllocOld(r, content)
    PROVE  HeapInv'
<1> USE DEF HeapInv
<1> DEFINE b == FreeTenured
<1>1. /\ Room /\ live' = live \cup {b} /\ Write(b, content)
      /\ home' = [home EXCEPT ![Identity] = b]
      /\ marked' = marked \ {b} /\ Remember({b})
      /\ root' = [root EXCEPT ![r] = b]
      /\ UNCHANGED <<stamp, target, used, survivors, arriving, epoch, frame,
                     compiled, running, suspended, collector>>
  BY DEF AllocOld
<1>2. UNCHANGED <<phase, keeps>> /\ UNCHANGED collector
  BY <1>1 DEF collector
<1> HIDE DEF b
<1>3. /\ SpaceInv' /\ b \in Old /\ b \notin Current /\ Current' = Current \cup {b}
      /\ list' = list \cup {b}
  BY <1>1, <1>2, BornOldSpaces DEF b
<1>4. b \in Boxes /\ b \in Pointer
  BY <1>3, Layout DEF Pointer
<1>5. content \in [Slots -> Pointer] /\ \A s \in Slots : content[s] \in Current' \cup {Nil}
  BY <1>3, ContentsFit
<1>6. /\ obj' \in [Boxes -> [Slots -> Pointer]] /\ hashed' \in [Boxes -> Pointer]
      /\ \A c \in Current' : /\ \A s \in Slots : obj'[c][s] \in Current' \cup {Nil}
                             /\ hashed'[c] = obj'[c][Key]
      /\ \A c \in live', s \in Slots : obj'[c][s] \in Young => c \in list'
  BY <1>1, <1>3, <1>4, <1>5, WrittenFits
<1>7. r \in Roots /\ r \notin {"outer", "inner"} /\ root \in [Roots -> Pointer]
  BY RootsAre DEF InReach, Registers, DataInv, DataTypes
<1>8. /\ root' \in [Roots -> Pointer] /\ \A x \in Roots : root'[x] = IF x = r THEN b ELSE root[x]
  BY <1>1, <1>4, <1>7
<1>9. \A x \in Roots : root'[x] \in Current' \cup {Nil}
  BY <1>3, <1>8, AtRest
<1>10. root'["outer"] = root["outer"] /\ root'["inner"] = root["inner"]
  BY <1>7, <1>8, RootsAre
<1>11. DataTypes' /\ FieldsFit'
  <2>1. Current' \subseteq From' \cup To'
    BY DEF Current
  <2> QED
    BY <1>6, <1>8, <2>1 DEF DataTypes, FieldsFit
<1>12. UNCHANGED <<frame, compiled, running, suspended>>
  BY <1>1
<1> QED
  BY <1>2, <1>3, <1>6, <1>9, <1>10, <1>11, <1>12, ClosuresStay, StepKeeps

\* A store keeps the invariant.
LEMMA StoreKeeps ==
    ASSUME HeapInv, phase = "run", NEW c \in Values, NEW s \in Slots, NEW v \in Values,
           Store(c, s, v)
    PROVE  HeapInv'
<1> USE DEF HeapInv
<1>1. /\ c # Nil /\ Write(c, [obj[c] EXCEPT ![s] = v]) /\ Remember({c})
      /\ UNCHANGED <<home, stamp, live, marked, target, used, survivors, arriving,
                     epoch, root, frame, compiled, running, suspended, phase, keeps>>
      /\ UNCHANGED collector
  BY DEF Store, program, collector
<1>2. c \in Current /\ c \in Boxes /\ v \in Current \cup {Nil} /\ v \in Pointer
  BY <1>1, AtRest
<1>3. SpaceInv' /\ Current' = Current /\ list \subseteq list' /\ (c \in live => c \in list')
  BY <1>1, <1>2, StoredSpaces
<1>4. obj[c] \in [Slots -> Pointer] /\ \A x \in Slots : obj[c][x] \in Current \cup {Nil}
  BY <1>2, AtRest DEF DataInv, DataTypes
<1> DEFINE content == [obj[c] EXCEPT ![s] = v]
<1>5. content \in [Slots -> Pointer] /\ \A x \in Slots : content[x] \in Current' \cup {Nil}
  BY <1>2, <1>3, <1>4
<1>6. Write(c, content) /\ Current' = Current \cup {c} /\ live' \subseteq live \cup {c}
      /\ (c \in live' => c \in list')
  BY <1>1, <1>2, <1>3
<1> HIDE DEF content
<1>7. /\ obj' \in [Boxes -> [Slots -> Pointer]] /\ hashed' \in [Boxes -> Pointer]
      /\ \A b \in Current' : /\ \A x \in Slots : obj'[b][x] \in Current' \cup {Nil}
                             /\ hashed'[b] = obj'[b][Key]
      /\ \A b \in live', x \in Slots : obj'[b][x] \in Young => b \in list'
  BY <1>2, <1>3, <1>5, <1>6, WrittenFits
<1>8. DataTypes' /\ FieldsFit'
  <2>1. Current' \subseteq From' \cup To'
    BY DEF Current
  <2> QED
    BY <1>1, <1>7, <2>1 DEF DataInv, DataTypes, FieldsFit
<1>9. \A x \in Roots : root'[x] \in Current' \cup {Nil}
  BY <1>1, <1>3, AtRest
<1> QED
  BY <1>1, <1>3, <1>7, <1>8, <1>9, ClosuresStay, StepKeeps
\* A load keeps the invariant.
LEMMA LoadKeeps ==
    ASSUME HeapInv, phase = "run", NEW r \in InReach, NEW v \in Loadable, Load(r, v)
    PROVE  HeapInv'
<1> USE DEF HeapInv
<1>1. /\ root' = [root EXCEPT ![r] = v]
      /\ UNCHANGED <<obj, hashed, home, stamp, live, marked, flag, target, list, used,
                     survivors, arriving, epoch, frame, compiled, running, suspended>>
      /\ UNCHANGED <<phase, keeps>> /\ UNCHANGED collector
  BY DEF Load, heap, collector
<1>2. v \in Current \cup {Nil} /\ v \in Pointer
  BY AtRest
<1>3. r \in Roots /\ r \notin {"outer", "inner"} /\ root \in [Roots -> Pointer]
  BY RootsAre DEF InReach, Registers, DataInv, DataTypes
<1>4. From' = From /\ To' = To /\ Current' = Current
  BY <1>1 DEF From, To, Current
<1>5. SpaceInv'
  BY <1>1, <1>4 DEF SpaceInv, SpaceTypes, SpacesFit, HomesFit, StampsFit, ForwardsFit,
                    NextEpoch, Moving, Marking
<1>6. /\ root' \in [Roots -> Pointer] /\ \A x \in Roots : root'[x] = IF x = r THEN v ELSE root[x]
  BY <1>1, <1>2, <1>3
<1>7. \A x \in Roots : root'[x] \in Current' \cup {Nil}
  BY <1>2, <1>4, <1>6, AtRest
<1>8. root'["outer"] = root["outer"] /\ root'["inner"] = root["inner"]
  BY <1>3, <1>6, RootsAre
<1>9. DataTypes' /\ FieldsFit'
  BY <1>1, <1>4, <1>6 DEF DataInv, DataTypes, FieldsFit
<1>10. \A b \in live', s \in Slots : obj'[b][s] \in Young => b \in list'
  BY <1>1, AtRest
<1> QED
  BY <1>1, <1>5, <1>7, <1>8, <1>9, <1>10, ClosuresStay, StepKeeps

\* An error that is raised keeps the invariant, as long as it is young: nobody
\* remembers the list that is put into it.
LEMMA RaiseKeeps ==
    ASSUME ~RaiseKept, HeapInv, phase = "run", NEW e \in Values, Raise(e)
    PROVE  HeapInv'
<1> USE DEF HeapInv
<1>1. PICK b \in EdenBoxes :
         /\ Born(b)
         /\ obj' = [obj EXCEPT ![b] = Empty, ![e][Trace] = b]
         /\ hashed' = [hashed EXCEPT ![b] = Nil, ![e] = obj'[e][Key]]
  BY DEF Raise
<1>2. /\ e # Nil /\ e \in Young
      /\ UNCHANGED <<root, frame, compiled, running, suspended, phase, keeps>>
      /\ UNCHANGED collector
  BY DEF Raise, program, collector
<1>3. /\ SpaceInv' /\ b \in Young /\ b \notin Current /\ Current' = Current \cup {b}
      /\ live' = live /\ list' = list
  BY <1>1, <1>2, BornSpaces
<1>4. e \in Current /\ e # b /\ e \in Boxes /\ b \in Boxes /\ b \in Pointer
  BY <1>2, <1>3, AtRest, Layout DEF Pointer
<1>5. /\ obj \in [Boxes -> [Slots -> Pointer]] /\ hashed \in [Boxes -> Pointer]
      /\ Key \in Slots /\ Trace \in Slots
  BY HeapAssumption DEF DataInv, DataTypes, Slots
<1>6. Empty \in [Slots -> Pointer] /\ \A s \in Slots : Empty[s] = Nil
  BY DEF Empty, Pointer
<1>7. /\ obj' \in [Boxes -> [Slots -> Pointer]]
      /\ obj'[b] = Empty
      /\ \A s \in Slots : obj'[e][s] = IF s = Trace THEN b ELSE obj[e][s]
      /\ \A c \in Boxes \ {b, e} : obj'[c] = obj[c]
  BY <1>1, <1>4, <1>5, <1>6
<1>8. /\ hashed' \in [Boxes -> Pointer] /\ hashed'[b] = Nil /\ hashed'[e] = obj'[e][Key]
      /\ \A c \in Boxes \ {b, e} : hashed'[c] = hashed[c]
  <2>1. obj'[e][Key] \in Pointer /\ Nil \in Pointer
    BY <1>4, <1>5, <1>7 DEF Pointer
  <2> QED
    BY <1>1, <1>4, <1>5, <2>1
<1>9. /\ \A c \in Current, s \in Slots : obj[c][s] \in Current \cup {Nil}
      /\ \A c \in live, s \in Slots : obj[c][s] \in Young => c \in list
      /\ Current \subseteq Boxes /\ live \subseteq Current
  BY AtRest
<1>10. e \notin live /\ b \notin live
  BY <1>2, <1>3, Layout DEF SpaceInv, SpaceTypes
<1>11. \A c \in Current : hashed[c] = obj[c][Key]
  BY DEF DataInv, FieldsFit
<1>12. \A c \in Current', s \in Slots : obj'[c][s] \in Current' \cup {Nil}
  BY <1>3, <1>4, <1>6, <1>7, <1>9
<1>13. \A c \in Current' : hashed'[c] = obj'[c][Key]
  BY <1>3, <1>4, <1>5, <1>6, <1>7, <1>8, <1>9, <1>11
<1>14. \A c \in live', s \in Slots : obj'[c][s] \in Young => c \in list'
  BY <1>3, <1>7, <1>9, <1>10
<1>15. DataTypes' /\ FieldsFit'
  <2>1. Current' \subseteq From' \cup To'
    BY DEF Current
  <2> QED
    BY <1>2, <1>7, <1>8, <1>12, <1>13, <2>1 DEF DataInv, DataTypes, FieldsFit
<1>16. \A x \in Roots : root'[x] \in Current' \cup {Nil}
  BY <1>2, <1>3, AtRest
<1> QED
  BY <1>2, <1>3, <1>14, <1>15, <1>16, ClosuresStay, StepKeeps

\* A call keeps the invariant: the loop works with the callee's closure, and a
\* loop that waits has its own.
LEMMA CallKeeps ==
    ASSUME HeapInv, phase = "run", NEW f \in Values, NEW by \in Callers, Call(f, by)
    PROVE  HeapInv'
<1> USE DEF HeapInv
<1>1. /\ frame = "none" /\ f # Nil /\ frame' = by /\ running' = f /\ compiled' = compiled
      /\ suspended' = IF by = "operator" THEN running ELSE Nil
      /\ UNCHANGED collector /\ UNCHANGED <<phase, keeps>>
  BY DEF Call, collector
<1>2. f \in Current /\ f \in Pointer
  BY <1>1, AtRest
<1>3. by # "none" /\ ~compiled /\ "none" # "operator"
  BY <1>1, HeapAssumption DEF ClosureInv, ClosuresFit
<1>4. root \in [Roots -> Pointer] /\ {"r1", "r2", "outer", "inner", "made"} \subseteq Roots
  BY RootsAre DEF DataInv, DataTypes
<1>5. CASE /\ root' = [root EXCEPT !["inner"] = f]
           /\ UNCHANGED heap
  <2>1. UNCHANGED <<obj, hashed, home, stamp, live, marked, flag, target, list, used,
                    survivors, arriving, epoch>>
    BY <1>5 DEF heap
  <2>2. From' = From /\ To' = To /\ Current' = Current
    BY <2>1 DEF From, To, Current
  <2>3. SpaceInv'
    BY <1>1, <2>1, <2>2 DEF SpaceInv, SpaceTypes, SpacesFit, HomesFit, StampsFit,
                            ForwardsFit, NextEpoch, Moving, Marking
  <2>4. /\ root' \in [Roots -> Pointer]
        /\ \A x \in Roots : root'[x] = IF x = "inner" THEN f ELSE root[x]
    BY <1>2, <1>4, <1>5
  <2>5. \A x \in Roots : root'[x] \in Current' \cup {Nil}
    BY <1>2, <2>2, <2>4, AtRest
  <2>6. DataTypes' /\ FieldsFit'
    BY <2>1, <2>2, <2>4 DEF DataInv, DataTypes, FieldsFit
  <2>7. \A b \in live', s \in Slots : obj'[b][s] \in Young => b \in list'
    BY <2>1, AtRest
  <2>8. root'["outer"] = root["outer"] /\ root'["inner"] = f
    BY <1>4, <2>4
  <2>9. ClosureTypes'
    BY <1>1, <1>2 DEF ClosureInv, ClosureTypes, Pointer
  <2>10. frame' = "operator" => suspended' \in {Retired, root'["outer"]}
    BY <1>1, <2>8 DEF ClosureInv, ClosuresFit, Closure
  <2>11. running' = Closure'
    BY <1>1, <1>3, <2>8 DEF Closure
  <2> QED
    BY <1>1, <1>3, <2>3, <2>5, <2>6, <2>7, <2>9, <2>10, <2>11, StepKeeps
<1>6. CASE \E b \in EdenBoxes :
             /\ Born(b) /\ Write(b, Empty)
             /\ root' = [root EXCEPT !["inner"] = f, !["made"] = b]
  <2>1. PICK b \in EdenBoxes : /\ Born(b) /\ Write(b, Empty)
                               /\ root' = [root EXCEPT !["inner"] = f, !["made"] = b]
    BY <1>6
  <2>2. /\ SpaceInv' /\ b \in Young /\ b \notin Current /\ Current' = Current \cup {b}
        /\ live' = live /\ list' = list
    BY <1>1, <2>1, BornSpaces
  <2>3. b \in Boxes /\ b \in Pointer /\ b \notin live
    BY <2>2, Layout, AtRest DEF Pointer
  <2>4. Empty \in [Slots -> Pointer] /\ \A s \in Slots : Empty[s] \in Current' \cup {Nil}
    BY ContentsFit, <2>2
  <2>5. /\ obj' \in [Boxes -> [Slots -> Pointer]] /\ hashed' \in [Boxes -> Pointer]
        /\ \A c \in Current' : /\ \A s \in Slots : obj'[c][s] \in Current' \cup {Nil}
                               /\ hashed'[c] = obj'[c][Key]
        /\ \A c \in live', s \in Slots : obj'[c][s] \in Young => c \in list'
    BY <2>1, <2>2, <2>3, <2>4, WrittenFits
  <2>6. /\ root' \in [Roots -> Pointer]
        /\ \A x \in Roots : root'[x] = IF x = "made" THEN b ELSE IF x = "inner" THEN f ELSE root[x]
    BY <1>2, <1>4, <2>1, <2>3
  <2>7. \A x \in Roots : root'[x] \in Current' \cup {Nil}
    BY <1>2, <2>2, <2>6, AtRest
  <2>8. DataTypes' /\ FieldsFit'
    <3>1. Current' \subseteq From' \cup To'
      BY DEF Current
    <3> QED
      BY <2>5, <2>6, <3>1 DEF DataTypes, FieldsFit
  <2>9. root'["outer"] = root["outer"] /\ root'["inner"] = f
    BY <1>4, <2>6
  <2>10. ClosureTypes'
    BY <1>1, <1>2 DEF ClosureInv, ClosureTypes, Pointer
  <2>11. frame' = "operator" => suspended' \in {Retired, root'["outer"]}
    BY <1>1, <2>9 DEF ClosureInv, ClosuresFit, Closure
  <2>12. running' = Closure'
    BY <1>1, <1>3, <2>9 DEF Closure
  <2> QED
    BY <1>1, <1>3, <2>2, <2>5, <2>7, <2>8, <2>10, <2>11, <2>12, StepKeeps
<1> QED
  BY <1>5, <1>6 DEF Call

\* A return keeps the invariant: the loop goes on with the caller's closure, or
\* with what is left of it.
LEMMA ReturnKeeps ==
    ASSUME HeapInv, phase = "run", Return
    PROVE  HeapInv'
<1> USE DEF HeapInv
<1>1. /\ frame' = "none" /\ compiled' = FALSE /\ suspended' = Nil
      /\ running' = IF frame = "operator" THEN suspended ELSE root["outer"]
      /\ root' = [root EXCEPT !["inner"] = Nil, !["made"] = Nil,
                            !["r1"] = IF frame = "new" THEN root["made"] ELSE @]
      /\ UNCHANGED <<obj, hashed, home, stamp, live, marked, flag, target, list, used,
                     survivors, arriving, epoch, phase, keeps>>
      /\ UNCHANGED collector
  BY DEF Return, heap, collector
<1>2. root \in [Roots -> Pointer] /\ {"r1", "outer", "inner", "made"} \subseteq Roots /\ Nil \in Pointer
  BY RootsAre DEF DataInv, DataTypes, Pointer
<1>3. /\ root' \in [Roots -> Pointer] /\ root'["outer"] = root["outer"]
      /\ \A x \in Roots : root'[x] \in {root[x], root["made"], Nil}
  BY <1>1, <1>2
<1>4. From' = From /\ To' = To /\ Current' = Current
  BY <1>1 DEF From, To, Current
<1>5. SpaceInv'
  BY <1>1, <1>4 DEF SpaceInv, SpaceTypes, SpacesFit, HomesFit, StampsFit, ForwardsFit,
                    NextEpoch, Moving, Marking
<1>6. \A x \in Roots : root'[x] \in Current' \cup {Nil}
  BY <1>2, <1>3, <1>4, AtRest
<1>7. DataTypes' /\ FieldsFit'
  BY <1>1, <1>3, <1>4 DEF DataInv, DataTypes, FieldsFit
<1>8. \A b \in live', s \in Slots : obj'[b][s] \in Young => b \in list'
  BY <1>1, AtRest
<1>9. running' \in {root'["outer"], Retired}
  BY <1>1, <1>3, AtRest DEF ClosureInv, ClosuresFit
<1>10. running' = Closure' \/ running' = Retired
  BY <1>1, <1>9 DEF Closure
<1>11. ClosureTypes'
  BY <1>1, <1>2, <1>3, <1>9 DEF ClosureInv, ClosureTypes
<1> QED
  BY <1>1, <1>5, <1>6, <1>7, <1>8, <1>10, <1>11, StepKeeps

\* Entering compiled code whose closure is old keeps the invariant.
LEMMA EnterOldKeeps ==
    ASSUME HeapInv, phase = "run", EnterOld
    PROVE  HeapInv'
<1> USE DEF HeapInv
<1>1. /\ frame # "none" /\ root["inner"] \in Old /\ compiled' = TRUE
      /\ running' = root["inner"]
      /\ UNCHANGED <<obj, hashed, home, stamp, live, marked, flag, target, list, used,
                     survivors, arriving, epoch, root, frame, suspended, phase, keeps>>
      /\ UNCHANGED collector
  BY DEF EnterOld, heap, collector
<1>2. From' = From /\ To' = To /\ Current' = Current
  BY <1>1 DEF From, To, Current
<1>3. SpaceInv'
  BY <1>1, <1>2 DEF SpaceInv, SpaceTypes, SpacesFit, HomesFit, StampsFit, ForwardsFit,
                    NextEpoch, Moving, Marking
<1>4. DataTypes' /\ FieldsFit'
  BY <1>1, <1>2 DEF DataInv, DataTypes, FieldsFit
<1>5. \A x \in Roots : root'[x] \in Current' \cup {Nil}
  BY <1>1, <1>2, AtRest
<1>6. \A b \in live', s \in Slots : obj'[b][s] \in Young => b \in list'
  BY <1>1, AtRest
<1>7. ClosureTypes' /\ running' = Closure'
  BY <1>1, Layout DEF ClosureInv, ClosureTypes, Closure, Pointer
<1>8. frame' = "operator" => suspended' \in {Retired, root'["outer"]}
  BY <1>1, AtRest DEF ClosureInv, ClosuresFit
<1> QED
  BY <1>1, <1>3, <1>4, <1>5, <1>6, <1>7, <1>8, StepKeeps

\* A collection begins in a state of the invariant: every root that may name
\* something young is to do, and so are the remembered objects.
LEMMA BeginKeeps ==
    ASSUME HeapInv, phase = "run", NEW reason \in {"minor", "major", "enter"},
           NEW keep \in BOOLEAN, NEW roots \in [Roots -> Pointer], Begin(reason, keep, roots),
           reason # "minor" => ~keep,
           \A r \in Roots : roots[r] \in Current \cup {Nil},
           roots["outer"] = root["outer"], roots["inner"] = root["inner"],
           reason = "enter" => /\ frame # "none" /\ ~compiled /\ roots["inner"] # Nil
                               /\ roots["entered"] = roots["inner"]
    PROVE  HeapInv'
<1> USE DEF HeapInv
<1>1. /\ phase' = "forward" /\ why' = reason /\ keeps' = keep
      /\ root' = [r \in Roots |-> IF r \in Registers \ InReach THEN Nil ELSE roots[r]]
      /\ todo' = {r \in Roots : root'[r] \in Young}
      /\ UNCHANGED <<obj, hashed, home, stamp, live, marked, flag, target, list, used,
                     survivors, arriving, epoch, frame, compiled, running, suspended,
                     recalled, gray, at, left>>
  BY DEF Begin, heap
<1>2. /\ marked = {} /\ arriving = {} /\ gray = {} /\ recalled = {} /\ at = Nil /\ left = <<>>
      /\ To = live /\ Current = From \cup live /\ ~Moving
  BY AtRest
<1>3. From' = From /\ To' = To /\ Current' = Current /\ Moving'
  BY <1>1 DEF From, To, Current, Moving
<1>4. /\ root' \in [Roots -> Pointer]
      /\ \A r \in Roots : root'[r] \in Current \cup {Nil}
      /\ root'["outer"] = root["outer"] /\ root'["inner"] = root["inner"]
      /\ root'["entered"] = roots["entered"]
  BY <1>1, RootsAre DEF Registers, Pointer
<1>5. SpaceInv'
  BY <1>1, <1>2, <1>3 DEF SpaceInv, SpaceTypes, SpacesFit, HomesFit, StampsFit, ForwardsFit,
                          NextEpoch, Marking
<1>6. WorkInv'
  BY <1>1, <1>2, <1>3 DEF WorkInv, WorkTypes, WorkFits
<1>7. From \subseteq Young
  BY Apart DEF SpaceInv
<1>8. RootsFit'
  BY <1>1, <1>2, <1>3, <1>4, <1>7 DEF RootsFit
<1>9. DataTypes' /\ FieldsFit'
  BY <1>1, <1>3, <1>4 DEF DataInv, DataTypes, FieldsFit
<1>10. ScannedFits'
  <2>1. \A b \in live, s \in Slots : /\ obj[b][s] \in From \cup live \cup {Nil}
                                     /\ obj[b][s] \in Young => b \in list
    BY <1>2, AtRest
  <2>2. \A b \in live, s \in Slots : b \in list => Unscanned(b, s)'
    BY <1>1 DEF Unscanned
  <2> QED
    BY <1>1, <1>2, <1>3, <1>7, <2>1, <2>2 DEF ScannedFits
<1>11. MarksFit'
  BY <1>1 DEF MarksFit
<1>12. ClosureInv'
  BY <1>1, <1>2, <1>3, <1>4 DEF ClosureInv, ClosureTypes, ClosuresFit
<1> QED
  BY <1>5, <1>6, <1>8, <1>9, <1>10, <1>11, <1>12 DEF DataInv

\* So every safepoint keeps the invariant.
LEMMA SafepointKeeps ==
    ASSUME HeapInv, phase = "run", Safepoint
    PROVE  HeapInv'
<1>1. /\ root \in [Roots -> Pointer] /\ {"inner", "outer", "entered"} \subseteq Roots
      /\ \A r \in Roots : root[r] \in Current \cup {Nil}
  BY AtRest, RootsAre DEF HeapInv, DataInv, DataTypes
<1>2. CASE CollectMinor
  BY <1>1, <1>2, BeginKeeps DEF CollectMinor
<1>3. CASE CollectGarbage
  BY <1>1, <1>3, BeginKeeps DEF CollectGarbage
<1>4. CASE EnterOld
  BY <1>4, EnterOldKeeps
<1>5. CASE EnterYoung
  <2> DEFINE roots == [root EXCEPT !["entered"] = root["inner"]]
  <2>1. Begin("enter", FALSE, roots) /\ frame # "none" /\ ~compiled /\ root["inner"] \in Young
    BY <1>5 DEF EnterYoung
  <2>2. /\ roots \in [Roots -> Pointer] /\ roots["inner"] = root["inner"]
        /\ roots["outer"] = root["outer"] /\ roots["entered"] = root["inner"]
        /\ \A r \in Roots : roots[r] \in {root[r], root["inner"]}
    BY <1>1
  <2> HIDE DEF roots
  <2>3. root["inner"] # Nil
    BY <2>1, Layout
  <2>4. \A r \in Roots : roots[r] \in Current \cup {Nil}
    BY <1>1, <2>2
  <2> QED
    BY <2>1, <2>2, <2>3, <2>4, BeginKeeps
<1> QED
  BY <1>2, <1>3, <1>4, <1>5 DEF Safepoint
-----------------------------------------------------------------------------
(* The theorems *)

\* The invariant holds at first: there is one object, the closure that runs.
LEMMA InitFits == Init => HeapInv
<1> SUFFICES ASSUME Init PROVE HeapInv
  OBVIOUS
<1>1. /\ obj = [b \in Boxes |-> Empty] /\ hashed = [b \in Boxes |-> Nil]
      /\ home = [o \in Objects |-> IF o = 1 THEN 1 ELSE Nil]
      /\ stamp = [b \in Young |-> IF b = 1 THEN 1 ELSE 0]
      /\ live = {} /\ marked = {} /\ flag = {} /\ list = {}
      /\ target = [b \in Young |-> Nil]
      /\ used = 1 /\ survivors = {} /\ arriving = {} /\ epoch = 1
      /\ root = [r \in Roots |-> IF r = "outer" THEN 1 ELSE Nil]
      /\ frame = "none" /\ compiled = FALSE /\ running = 1 /\ suspended = Nil
      /\ phase = "run" /\ why = "minor" /\ keeps = FALSE
      /\ todo = {} /\ recalled = {} /\ gray = {} /\ at = Nil /\ left = <<>>
  BY DEF Init
<1>2. 1 \in Boxes /\ 1 \in Young /\ 1 \in Pointer /\ Nil \in Pointer /\ Nil # 1 /\ 1 \in Objects
  BY Layout DEF Pointer, Nil
<1>3. From = {1} /\ To = {} /\ Current = {1} /\ ~Moving /\ ~Marking
  <2>1. 1 .. 1 = {1}
    OBVIOUS
  <2> QED
    BY <1>1, <2>1 DEF From, To, Current, Moving, Marking
<1>4. /\ Empty \in [Slots -> Pointer] /\ \A s \in Slots : Empty[s] = Nil
      /\ Key \in Slots
  BY <1>2, HeapAssumption DEF Empty, Slots
<1>5. SpaceTypes
  BY <1>1, <1>2, Sizes DEF SpaceTypes
<1>6. SpacesFit /\ HomesFit /\ ForwardsFit
  BY <1>1, <1>2, <1>3 DEF SpacesFit, HomesFit, ForwardsFit
<1>7. StampsFit
  <2>1. \A b \in Young : stamp[b] = IF b = 1 THEN 1 ELSE 0
    BY <1>1
  <2> QED
    BY <1>1, <1>3, <2>1 DEF StampsFit
<1>8. WorkInv
  <2>1. <<>> \in Seq(Slots)
    OBVIOUS
  <2>2. WorkTypes
    BY <1>1, <1>2, <2>1 DEF WorkTypes
  <2> QED
    BY <1>1, <1>2, <1>3, <2>2 DEF WorkInv, WorkFits
<1>9. DataTypes /\ FieldsFit
  BY <1>1, <1>2, <1>3, <1>4 DEF DataTypes, FieldsFit
<1>10. RootsFit /\ ScannedFits /\ MarksFit
  BY <1>1, <1>2, <1>3, <1>4 DEF RootsFit, ScannedFits, MarksFit
<1>11. ClosureInv
  BY <1>1, <1>2, <1>3, RootsAre DEF ClosureInv, ClosureTypes, ClosuresFit, Closure
<1> QED
  BY <1>5, <1>6, <1>7, <1>8, <1>9, <1>10, <1>11 DEF HeapInv, SpaceInv, DataInv

\* A step that changes nothing keeps the invariant.
LEMMA StutterKeeps ==
    ASSUME HeapInv, UNCHANGED vars
    PROVE  HeapInv'
<1>1. UNCHANGED <<obj, hashed, home, stamp, live, marked, flag, target, list, used, survivors,
                  arriving, epoch, root, frame, compiled, running, suspended, phase, why,
                  keeps, todo, recalled, gray, at, left>>
  BY DEF vars, heap, program, collector
<1>2. From' = From /\ To' = To /\ Current' = Current /\ (Moving' <=> Moving) /\ (Marking' <=> Marking)
  BY <1>1 DEF From, To, Current, Moving, Marking
<1>3. SpaceInv' /\ WorkInv'
  BY <1>1, <1>2 DEF HeapInv, SpaceInv, SpaceTypes, SpacesFit, HomesFit, StampsFit, ForwardsFit,
                    NextEpoch, WorkInv, WorkTypes, WorkFits
<1>4. DataTypes' /\ RootsFit' /\ FieldsFit' /\ MarksFit'
  BY <1>1, <1>2 DEF HeapInv, DataInv, DataTypes, RootsFit, FieldsFit, MarksFit
<1>5. ScannedFits'
  BY <1>1, <1>2 DEF HeapInv, DataInv, ScannedFits, Unscanned
<1>6. ClosureInv'
  BY <1>1, <1>2 DEF HeapInv, ClosureInv, ClosureTypes, ClosuresFit, Closure
<1> QED
  BY <1>3, <1>4, <1>5, <1>6 DEF HeapInv, DataInv

\* Every step keeps the invariant, in a program that does not raise an error
\* again that it has kept.
LEMMA StepsKeep ==
    ASSUME ~RaiseKept, HeapInv, [Next]_vars
    PROVE  HeapInv'
<1>1. CASE UNCHANGED vars
  BY <1>1, StutterKeeps
<1>2. CASE Program
  <2>1. phase = "run" /\ (Instruction \/ Safepoint)
    BY <1>2 DEF Program
  <2>2. CASE Safepoint
    BY <2>1, <2>2, SafepointKeeps
  <2>3. CASE Instruction
    <3>1. CASE \E r \in InReach, content \in Contents : Alloc(r, content) \/ AllocOld(r, content)
      BY <2>1, <3>1, AllocKeeps, AllocOldKeeps
    <3>2. CASE \E c \in Values, s \in Slots, v \in Values : Store(c, s, v)
      BY <2>1, <3>2, StoreKeeps
    <3>3. CASE \E r \in InReach, v \in Loadable : Load(r, v)
      BY <2>1, <3>3, LoadKeeps
    <3>4. CASE \E v \in Values : Raise(v)
      BY <2>1, <3>4, RaiseKeeps
    <3>5. CASE \E v \in Values, by \in Callers : Call(v, by)
      BY <2>1, <3>5, CallKeeps
    <3>6. CASE Return
      BY <2>1, <3>6, ReturnKeeps
    <3> QED
      BY <2>3, <3>1, <3>2, <3>3, <3>4, <3>5, <3>6 DEF Instruction
  <2> QED
    BY <2>1, <2>2, <2>3
<1>3. CASE Collector
  BY <1>3, ForwardRootKeeps, RecallKeeps, ScanKeeps, ForwardSlotKeeps, ResetNurseryKeeps,
     MarkRootsKeeps, MarkChildrenKeeps, SweepKeeps DEF Collector
<1> QED
  BY <1>1, <1>2, <1>3 DEF Next

\* The inductive invariant, for a program that does not raise a kept error
\* again (with one that does the remembered set is incomplete, as HeapRaise
\* shows).
THEOREM HeapInvariant ==
    ASSUME ~RaiseKept
    PROVE  Spec => []HeapInv
<1>1. HeapInv /\ [Next]_vars => HeapInv'
  BY StepsKeep
<1> QED
  BY <1>1, InitFits, PTL DEF Spec

\* Every variable keeps its type: in particular a collection, an allocation in
\* the old generation and a promotion never find their space full, as long as
\* the spaces are as large as the program's objects are many.
THEOREM HeapTypes ==
    ASSUME ~RaiseKept
    PROVE  Spec => []TypeOK
<1>1. HeapInv => TypeOK
  BY DEF HeapInv, SpaceInv, SpaceTypes, WorkInv, WorkTypes, DataInv, DataTypes, ClosureInv,
         ClosureTypes, TypeOK
<1> QED
  BY <1>1, HeapInvariant, PTL

\* What the heap holds is, while the program runs, what is some object's.
LEMMA HeldIsCurrent ==
    ASSUME HeapInv, phase = "run"
    PROVE  Held = Current
BY AtRest DEF Held, From

\* No root and no field of an object names a box the heap does not hold.
THEOREM NothingEverDangles ==
    ASSUME ~RaiseKept
    PROVE  Spec => []NothingDangles
<1>1. HeapInv => NothingDangles
  BY HeldIsCurrent, AtRest DEF NothingDangles
<1> QED
  BY <1>1, HeapInvariant, PTL

\* An old box that names a young one is remembered, and the flags say of every
\* old box whether it is.
THEOREM RememberedSet ==
    ASSUME ~RaiseKept
    PROVE  Spec => []RememberedIsComplete
<1>1. HeapInv => RememberedIsComplete
  <2>1. SUFFICES ASSUME HeapInv, phase = "run"
                 PROVE  /\ \A b \in live, s \in Slots : obj[b][s] \in Young => b \in list
                        /\ list = flag \cap live
    BY DEF RememberedIsComplete
  <2>2. list = flag \cap Old /\ list \subseteq live /\ live \subseteq Old
    BY <2>1 DEF HeapInv, SpaceInv, SpacesFit, SpaceTypes
  <2> QED
    BY <2>1, <2>2, AtRest
<1> QED
  BY <1>1, HeapInvariant, PTL

\* Of the three addresses that are kept beside the roots, a retired box's stamp
\* and a dictionary's index are current when used, and so is the closure of the
\* running frame, except in a loop that goes on after an operator's method that
\* collected: until it reads it again it may have a retired one (Retired).
THEOREM AddressesStayCurrent ==
    ASSUME ~RaiseKept
    PROVE  Spec => []AddressesAreCurrent
<1>1. HeapInv => AddressesAreCurrent
  <2>1. SUFFICES ASSUME HeapInv, phase = "run"
                 PROVE  /\ Held = {b \in Boxes : Holds(b)}
                        /\ running = Closure \/ (running = Retired /\ frame = "none")
                        /\ frame = "operator" => suspended \in {Retired, root["outer"]}
                        /\ compiled => running \in Old
                        /\ \A b \in Held : hashed[b] = obj[b][Key]
    BY DEF AddressesAreCurrent, RetiredReadsDead, ClosureIsReread, IndexIsCurrent
  <2>2. /\ Held = Current /\ Current = From \cup live /\ marked = {} /\ arriving = {}
        /\ Current \subseteq Boxes
    BY <2>1, HeldIsCurrent, AtRest
  <2>3. \A b \in Young : stamp[b] = epoch <=> b \in From
    BY <2>1, <2>2 DEF HeapInv, SpaceInv, StampsFit
  <2>4. From \subseteq Young /\ live \subseteq Old /\ Boxes = Young \cup Old /\ Young \cap Old = {}
    BY Apart, Layout, <2>1 DEF HeapInv, SpaceInv, SpaceTypes
  <2>5. Held = {b \in Boxes : Holds(b)}
    BY <2>2, <2>3, <2>4 DEF Holds
  <2>6. /\ running = Closure \/ (running = Retired /\ frame = "none")
        /\ frame = "operator" => suspended \in {Retired, root["outer"]}
        /\ compiled => running \in Old
    BY <2>1 DEF HeapInv, ClosureInv, ClosuresFit, Moving
  <2>7. \A b \in Current : hashed[b] = obj[b][Key]
    BY <2>1 DEF HeapInv, DataInv, FieldsFit
  <2> QED
    BY <2>2, <2>5, <2>6, <2>7
<1> QED
  BY <1>1, HeapInvariant, PTL


-----------------------------------------------------------------------------
(* What the program sees *)

\* The boxes that were left: in a major collection marked means something else.
Vacated == IF Moving THEN marked ELSE {}

\* The object a pointer names, given where the objects are and what was left
\* for what.
OwnerIn(h, b) == CHOOSE o \in Objects : h[o] = b
ObjectIn(h, m, t, p) == IF p = Nil THEN Nil ELSE OwnerIn(h, Whereabouts(m, t, p))

\* The roots and the fields as the program sees them.
ViewRoot == [r \in Roots |-> ObjectIn(home, Vacated, target, root[r])]
ViewField ==
    [o \in Objects \ Homeless |->
        [s \in Slots |-> ObjectIn(home, Vacated, target, obj[home[o]][s])]]
View == AbsRoot = ViewRoot /\ AbsField = ViewField

\* That is how the refinement mapping sees them.
LEMMA Viewed == HeapInv => View
<1> SUFFICES ASSUME HeapInv PROVE View
  OBVIOUS
<1>1. \A p : Found(p) = Whereabouts(Vacated, target, p)
  <2>1. SUFFICES ASSUME NEW p PROVE Found(p) = Whereabouts(Vacated, target, p)
    OBVIOUS
  <2>2. CASE Moving
    BY <2>2, Leaving DEF HeapInv, Vacated, Whereabouts
  <2>3. CASE phase = "run"
    BY <2>3, AtRest DEF Found, Vacated, Whereabouts
  <2>4. CASE Marking
    <3>1. marked \cap Young = {}
      BY <2>4, NothingYoung DEF HeapInv, SpaceInv, SpacesFit, Marking
    <3>2. ~Moving
      BY <2>4 DEF Marking, Moving
    <3> QED
      BY <3>1, <3>2 DEF Found, Vacated, Whereabouts
  <2> QED
    BY <2>2, <2>3, <2>4 DEF HeapInv, WorkInv, WorkTypes, Moving, Marking
<1>2. \A p : Object(p) = ObjectIn(home, Vacated, target, p)
  <2>1. SUFFICES ASSUME NEW p PROVE Object(p) = ObjectIn(home, Vacated, target, p)
    OBVIOUS
  <2>2. Object(p) = IF p = Nil THEN Nil ELSE OwnerIn(home, Found(p))
    BY Zenon DEF Object, OwnerIn
  <2> QED
    BY <1>1, <2>2 DEF ObjectIn
<1> QED
  BY <1>2 DEF View, AbsRoot, AbsField, ViewRoot, ViewField

\* Where no two objects share a box, a box tells its object.
LEMMA OwnersIn ==
    ASSUME NEW h, \A o, x \in Objects : h[o] = h[x] /\ h[o] # Nil => o = x,
           NEW o \in Objects, h[o] # Nil
    PROVE  OwnerIn(h, h[o]) = o
BY DEF OwnerIn

\* So a pointer names the object whose box it leads to.
LEMMA Names ==
    ASSUME NEW h, \A o, x \in Objects : h[o] = h[x] /\ h[o] # Nil => o = x,
           NEW m, NEW t, NEW p, p # Nil, NEW o \in Objects, h[o] # Nil,
           h[o] = Whereabouts(m, t, p)
    PROVE  ObjectIn(h, m, t, p) = o
BY OwnersIn DEF ObjectIn

\* Every pointer of the program leads to some object's box.
LEMMA Leads ==
    ASSUME HeapInv, NEW p \in From \cup To
    PROVE  /\ p # Nil /\ Whereabouts(Vacated, target, p) \in Current
           /\ \E o \in Objects : /\ home[o] = Whereabouts(Vacated, target, p) /\ home[o] # Nil
                                 /\ ObjectIn(home, Vacated, target, p) = o
                                 /\ o \notin Homeless
<1>1. Nil \notin From /\ Nil \notin To /\ From \cap To = {} /\ Nil \notin Current
  BY Apart DEF HeapInv, SpaceInv
<1>2. Whereabouts(Vacated, target, p) \in Current
  <2>1. CASE Moving
    BY <2>1 DEF HeapInv, SpaceInv, ForwardsFit, Vacated, Whereabouts, Current
  <2>2. CASE phase = "run"
    BY <2>2, AtRest DEF Vacated, Whereabouts, Moving
  <2>3. CASE Marking
    BY <2>3, NothingYoung DEF HeapInv, Marking, Moving, Vacated, Whereabouts
  <2> QED
    BY <2>1, <2>2, <2>3 DEF HeapInv, WorkInv, WorkTypes, Moving, Marking
<1>3. PICK o \in Objects : home[o] = Whereabouts(Vacated, target, p)
  BY <1>2 DEF HeapInv, SpaceInv, HomesFit
<1>4. \A x, y \in Objects : home[x] = home[y] /\ home[x] # Nil => x = y
  BY DEF HeapInv, SpaceInv, HomesFit
<1> QED
  BY <1>1, <1>2, <1>3, <1>4, Names DEF Homeless

\* Objects are not Nil.
LEMMA ObjectsAre == Nil \notin Objects
BY DEF Nil, Objects

\* A step of the collector that forwards p to q: whatever named an object names
\* it still, and q names what p named.
LEMMA ForwardSameObjects ==
    ASSUME HeapInv, SpaceInv', Moving, NEW p \in Pointer, NEW q \in Pointer,
           NEW holders \in SUBSET live,
           Forwards(p, q, holders), p \in From \cup To \cup {Nil}
    PROVE  /\ \A x \in From \cup To \cup {Nil} :
                 ObjectIn(home', Vacated', target', x) = ObjectIn(home, Vacated, target, x)
           /\ ObjectIn(home', Vacated', target', q) = ObjectIn(home, Vacated, target, p)
           /\ Homeless' = Homeless
           /\ \A o \in Objects : home'[o] = IF Goes(p, q) /\ home[o] = p THEN q ELSE home[o]
<1>1. Moving' /\ Vacated = marked /\ Vacated' = marked'
  BY ForwardedBoxes DEF HeapInv, Vacated
<1>2. \A x : Whereabouts(marked', target', x)
               = IF Goes(p, q) /\ Whereabouts(marked, target, x) = p THEN q
                 ELSE Whereabouts(marked, target, x)
  BY FoundAfter DEF HeapInv
<1>3. Whereabouts(marked', target', p) = q /\ Whereabouts(marked', target', q) = q
  BY FoundAfter DEF HeapInv
<1>4. Stays(p, q) \/ Goes(p, q)
  BY Outcomes DEF HeapInv, Forwards, Arrives, Promoted
<1>5. \A o \in Objects : home'[o] = IF Goes(p, q) /\ home[o] = p THEN q ELSE home[o]
  BY <1>4 DEF Stays, Goes
<1>6. Goes(p, q) => q # Nil /\ p # Nil
  BY Layout, Apart DEF Goes, HeapInv, SpaceInv
<1>7. Homeless' = Homeless
  BY <1>5, <1>6 DEF Homeless
<1>8. \A o, x \in Objects : home'[o] = home'[x] /\ home'[o] # Nil => o = x
  BY DEF SpaceInv, HomesFit
<1>9. \A x \in From \cup To : ObjectIn(home', Vacated', target', x) = ObjectIn(home, Vacated, target, x)
  <2>1. SUFFICES ASSUME NEW x \in From \cup To
                 PROVE  ObjectIn(home', marked', target', x) = ObjectIn(home, marked, target, x)
    BY <1>1
  <2>2. PICK o \in Objects : /\ home[o] = Whereabouts(marked, target, x) /\ home[o] # Nil
                             /\ ObjectIn(home, marked, target, x) = o /\ x # Nil
    BY <1>1, Leads
  <2>3. home'[o] = Whereabouts(marked', target', x) /\ home'[o] # Nil
    BY <1>2, <1>5, <1>6, <2>2
  <2> QED
    BY <1>8, <2>2, <2>3, Names
<1>10. ObjectIn(home', marked', target', q) = ObjectIn(home, marked, target, p)
  <2>1. CASE p = Nil
    <3>1. Nil \notin marked
      BY Apart DEF HeapInv, SpaceInv, SpacesFit
    <3>2. ~Goes(p, q) /\ Whereabouts(marked, target, p) = Nil
      BY <1>6, <2>1, <3>1 DEF Whereabouts
    <3>3. q = Nil
      BY <1>2, <1>3, <3>2
    <3> QED
      BY <2>1, <3>3 DEF ObjectIn
  <2>2. CASE p # Nil
    <3>1. p \in From \cup To
      BY <2>2
    <3>2. q # Nil
      BY <3>1, ForwardedBoxes DEF HeapInv
    <3>3. ObjectIn(home', marked', target', q) = ObjectIn(home', marked', target', p)
      BY <1>3, <2>2, <3>2 DEF ObjectIn
    <3> QED
      BY <1>1, <1>9, <3>1, <3>3
  <2> QED
    BY <2>1, <2>2
<1> QED
  BY <1>1, <1>5, <1>7, <1>9, <1>10 DEF ObjectIn
\* Forwarding a root is not noticed.
LEMMA ForwardRootUnseen ==
    ASSUME HeapInv, HeapInv', View, View', ForwardRoot
    PROVE  AbsRoot' = AbsRoot /\ AbsField' = AbsField
<1>1. PICK r \in todo, q \in Pointer :
         /\ Moving /\ root[r] \in Pointer /\ root[r] \in From \cup To \cup {Nil}
         /\ Forwards(root[r], q, {}) /\ Forward(root[r], q)
         /\ obj' = Moved(obj, root[r], q)
         /\ hashed' = Moved(hashed, root[r], q)
         /\ root' = [root EXCEPT ![r] = q]
         /\ todo' = todo \ {r}
  BY ForwardRootIs
<1> DEFINE p == root[r]
           O(x) == ObjectIn(home, Vacated, target, x)
           P(x) == ObjectIn(home', Vacated', target', x)
<1>2. /\ \A x \in From \cup To \cup {Nil} : P(x) = O(x)
      /\ P(q) = O(p) /\ Homeless' = Homeless
      /\ \A o \in Objects : home'[o] = IF Goes(p, q) /\ home[o] = p THEN q ELSE home[o]
  BY <1>1, ForwardSameObjects DEF HeapInv
<1> HIDE DEF O, P
<1>3. /\ Stays(p, q) => obj' = obj
      /\ Goes(p, q) => obj' = [obj EXCEPT ![q] = obj[p]]
      /\ Stays(p, q) \/ Goes(p, q)
  BY <1>1, MovedIs, Outcomes DEF HeapInv, Arrives, Promoted
<1>4. /\ \A x \in Roots : root[x] \in From \cup To \cup {Nil}
      /\ \A b \in Current, s \in Slots : obj[b][s] \in From \cup To \cup {Nil}
      /\ \A o \in Objects : home[o] \in Current \cup {Nil}
      /\ root \in [Roots -> Pointer] /\ obj \in [Boxes -> [Slots -> Pointer]]
      /\ Current \subseteq Boxes
  BY Apart DEF HeapInv, DataInv, RootsFit, FieldsFit, SpaceInv, HomesFit, DataTypes
<1>5. \A x \in Roots : P(root'[x]) = O(root[x])
  BY <1>1, <1>2, <1>4
<1>6. \A o \in Objects \ Homeless, s \in Slots : P(obj'[home'[o]][s]) = O(obj[home[o]][s])
  <2>1. SUFFICES ASSUME NEW o \in Objects \ Homeless PROVE obj'[home'[o]] = obj[home[o]]
    BY <1>2, <1>4 DEF Homeless
  <2>2. home[o] \in Current
    BY <1>4 DEF Homeless
  <2>3. CASE Stays(p, q)
    BY <1>2, <1>3, <2>3 DEF Stays, Goes
  <2>4. CASE Goes(p, q)
    BY <1>2, <1>3, <1>4, <2>2, <2>4 DEF Goes, Current
  <2> QED
    BY <1>3, <2>3, <2>4
<1>7. ViewRoot' = ViewRoot
  BY <1>5 DEF ViewRoot, O, P
<1>8. ViewField' = ViewField
  BY <1>2, <1>6 DEF ViewField, O, P
<1> QED
  BY <1>7, <1>8 DEF View

\* Forwarding a slot is not noticed.
LEMMA ForwardSlotUnseen ==
    ASSUME HeapInv, HeapInv', View, View', ForwardSlot
    PROVE  AbsRoot' = AbsRoot /\ AbsField' = AbsField
<1>1. PICK s \in Slots, q \in Pointer, holders \in SUBSET live :
             /\ Moving /\ at \in To
             /\ obj[at][s] \in Pointer /\ obj[at][s] \in From \cup To \cup {Nil}
             /\ Forwards(obj[at][s], q, holders) /\ Forward(obj[at][s], q)
             /\ obj' = [Moved(obj, obj[at][s], q) EXCEPT ![at][s] = q]
             /\ hashed' = Reindexed(s, obj[at][s], q)
             /\ holders = IF keeps /\ q \in Young THEN {at} \cap Old ELSE {}
             /\ \A x \in ToSet(left) : x = s \/ x \in ToSet(left')
             /\ left' \in Seq(Slots)
  BY ForwardSlotIs
<1> DEFINE p == obj[at][s]
           O(x) == ObjectIn(home, Vacated, target, x)
           P(x) == ObjectIn(home', Vacated', target', x)
<1>2. /\ \A x \in From \cup To \cup {Nil} : P(x) = O(x)
      /\ P(q) = O(p) /\ Homeless' = Homeless
      /\ \A o \in Objects : home'[o] = IF Goes(p, q) /\ home[o] = p THEN q ELSE home[o]
  BY <1>1, ForwardSameObjects DEF HeapInv
<1> HIDE DEF O, P
<1>3. /\ Stays(p, q) => Moved(obj, p, q) = obj
      /\ Goes(p, q) => Moved(obj, p, q) = [obj EXCEPT ![q] = obj[p]]
      /\ Stays(p, q) \/ Goes(p, q)
      /\ ~ (Stays(p, q) /\ Goes(p, q))
  BY <1>1, MovedIs, Outcomes DEF HeapInv, Arrives, Promoted, Stays, Goes
<1>4. /\ \A x \in Roots : root[x] \in From \cup To \cup {Nil}
      /\ \A b \in Current, x \in Slots : obj[b][x] \in From \cup To \cup {Nil}
      /\ \A o \in Objects : home[o] \in Current \cup {Nil}
      /\ obj \in [Boxes -> [Slots -> Pointer]]
      /\ Current \subseteq Boxes /\ at \in Current
      /\ root' = root
  BY <1>1, Apart DEF HeapInv, DataInv, RootsFit, FieldsFit, SpaceInv, HomesFit, DataTypes,
                     Current, ForwardSlot, program
<1>5. Moved(obj, p, q) \in [Boxes -> [Slots -> Pointer]]
  BY <1>1, <1>4, MovedTo DEF HeapInv
\* Where an object is now, its slots are what they were where it was, but for
\* the one that was forwarded.
<1>6. \A o \in Objects \ Homeless : Moved(obj, p, q)[home'[o]] = obj[home[o]] /\ home'[o] \in Boxes
  <2>1. SUFFICES ASSUME NEW o \in Objects \ Homeless
                 PROVE  Moved(obj, p, q)[home'[o]] = obj[home[o]] /\ home'[o] \in Boxes
    OBVIOUS
  <2>2. home[o] \in Current
    BY <1>4 DEF Homeless
  <2>3. CASE Stays(p, q)
    BY <1>2, <1>3, <1>4, <2>2, <2>3
  <2>4. CASE Goes(p, q)
    <3>1. q \in Boxes /\ q \notin Current
      BY <2>4 DEF Goes, Current
    <3> QED
      <4>1. Moved(obj, p, q) = [obj EXCEPT ![q] = obj[p]] /\ q \in Boxes
        BY <1>3, <2>4, <3>1
      <4>2. CASE home[o] = p
        BY <1>2, <1>4, <2>4, <4>1, <4>2
      <4>3. CASE home[o] # p
        <5>1. home'[o] = home[o] /\ home[o] # q /\ home[o] \in Boxes
          BY <1>2, <1>4, <2>2, <3>1, <4>3
        <5> QED
          BY <1>4, <4>1, <5>1
      <4> QED
        BY <4>2, <4>3
  <2> QED
    BY <1>3, <2>3, <2>4
<1>7. \A o \in Objects \ Homeless : home'[o] = at <=> home[o] = at
  BY <1>1, <1>2, Apart DEF Goes, HeapInv, SpaceInv
<1>8. \A o \in Objects \ Homeless, x \in Slots : P(obj'[home'[o]][x]) = O(obj[home[o]][x])
  <2>1. SUFFICES ASSUME NEW o \in Objects \ Homeless, NEW x \in Slots
                 PROVE  P(obj'[home'[o]][x]) = O(obj[home[o]][x])
    OBVIOUS
  <2>2. O(obj[home[o]][x]) = P(obj[home[o]][x])
    BY <1>2, <1>4 DEF Homeless
  <2>3. CASE home[o] = at /\ x = s
    <3>1. home'[o] = at /\ at \in Boxes
      BY <1>4, <1>7, <2>3
    <3>2. obj'[at][s] = q
      BY <1>1, <1>5, <3>1
    <3> QED
      BY <1>2, <2>3, <3>1, <3>2
  <2>4. CASE ~ (home[o] = at /\ x = s)
    <3>1. obj'[home'[o]][x] = Moved(obj, p, q)[home'[o]][x]
      BY <1>1, <1>5, <1>6, <1>7, <2>4
    <3> QED
      BY <1>6, <2>2, <3>1
  <2> QED
    BY <2>3, <2>4
<1>9. ViewRoot' = ViewRoot
  BY <1>2, <1>4 DEF ViewRoot, O, P
<1>10. ViewField' = ViewField
  BY <1>2, <1>8 DEF ViewField, O, P
<1> QED
  BY <1>9, <1>10 DEF View

\* Nor is a step that moves and writes nothing.
LEMMA QuietUnseen ==
    ASSUME View, View', UNCHANGED <<home, obj, root, target>>, Vacated' = Vacated
    PROVE  AbsRoot' = AbsRoot /\ AbsField' = AbsField
<1>1. ViewRoot' = ViewRoot
  BY DEF ViewRoot
<1>2. Homeless' = Homeless
  BY DEF Homeless
<1>3. ViewField' = ViewField
  BY <1>2 DEF ViewField
<1> QED
  BY <1>1, <1>3 DEF View
-----------------------------------------------------------------------------
(* The program's steps are steps of the abstract heap *)

\* What a pointer of the running program names, and what the program knows of
\* its objects is what the abstract heap says it knows.
LEMMA KnownValues ==
    ASSUME HeapInv, View, phase = "run"
    PROVE  /\ \A p : ObjectIn(home, Vacated, target, p) = IF p = Nil THEN Nil ELSE OwnerIn(home, p)
           /\ \A p \in Current : OwnerIn(home, p) \in Objects \ Homeless /\ home[OwnerIn(home, p)] = p
           /\ \A v \in Values \cup {Nil} :
                ObjectIn(home, Vacated, target, v) \in Abs!Named \cup {Nil}
           /\ \A v \in Loadable : ObjectIn(home, Vacated, target, v) \in Abs!Known
           /\ Abs!Named \cup {Nil} \subseteq Abs!Known
           /\ Abs!Named \subseteq Objects \ Homeless
<1>1. ~Moving /\ Vacated = {}
  BY AtRest DEF Vacated
<1>2. \A p : ObjectIn(home, Vacated, target, p) = IF p = Nil THEN Nil ELSE OwnerIn(home, p)
  BY <1>1 DEF ObjectIn, Whereabouts
<1>3. \A p \in Current : OwnerIn(home, p) \in Objects \ Homeless /\ home[OwnerIn(home, p)] = p
  <2>1. SUFFICES ASSUME NEW p \in Current
                 PROVE  OwnerIn(home, p) \in Objects \ Homeless /\ home[OwnerIn(home, p)] = p
    OBVIOUS
  <2>2. PICK o \in Objects : home[o] = p
    BY DEF HeapInv, SpaceInv, HomesFit
  <2>3. OwnerIn(home, p) \in Objects /\ home[OwnerIn(home, p)] = p
    BY <2>2 DEF OwnerIn
  <2> QED
    BY <2>3, AtRest DEF Homeless
<1> DEFINE O(p) == ObjectIn(home, Vacated, target, p)
<1>4. \A r \in Roots : AbsRoot[r] = O(root[r])
  BY DEF View, ViewRoot
<1>5. \A o \in Objects \ Homeless, s \in Slots : AbsField[o][s] = O(obj[home[o]][s])
  BY DEF View, ViewField
<1>6. O(Nil) = Nil
  BY DEF ObjectIn
<1> HIDE DEF O
<1>7. InReach \subseteq Roots
  BY RootsAre DEF InReach, Registers
<1>8. \A v \in Values \cup {Nil} : O(v) \in Abs!Named \cup {Nil}
  <2>1. SUFFICES ASSUME NEW v \in Values PROVE O(v) \in Abs!Named \cup {Nil}
    BY <1>6
  <2>2. CASE v = Nil
    BY <1>6, <2>2
  <2>3. CASE v # Nil
    <3>1. PICK r \in Roots : v = root[r]
      BY <1>7, <2>3 DEF Values
    <3> QED
      BY <1>4, <3>1 DEF Abs!Named
  <2> QED
    BY <2>2, <2>3
<1>9. Abs!Named \cup {Nil} \subseteq Abs!Known
  BY DEF Abs!Known
<1>10. Abs!Named \subseteq Objects \ Homeless
  <2>1. SUFFICES ASSUME NEW r \in Roots, AbsRoot[r] # Nil PROVE AbsRoot[r] \in Objects \ Homeless
    BY DEF Abs!Named
  <2>2. root[r] \in Current
    BY <1>4, <1>6, <2>1, AtRest
  <2>3. AbsRoot[r] = OwnerIn(home, root[r])
    BY <1>2, <1>4, <2>1, <2>2, AtRest DEF O
  <2> QED
    BY <1>3, <2>2, <2>3
<1>11. \A v \in Loadable : O(v) \in Abs!Known
  <2>1. SUFFICES ASSUME NEW v \in Loadable PROVE O(v) \in Abs!Known
    OBVIOUS
  <2>2. CASE v \in Values
    BY <1>8, <1>9, <2>2
  <2>3. CASE v \notin Values
    <3>1. PICK c \in Values \ {Nil}, s \in Slots : v = obj[c][s]
      BY <2>3 DEF Loadable
    <3>2. c \in Current
      BY <3>1, AtRest
    <3>3. OwnerIn(home, c) \in Objects \ Homeless /\ home[OwnerIn(home, c)] = c
      BY <1>3, <3>2
    <3>4. O(c) = OwnerIn(home, c)
      BY <1>2, <3>1 DEF O
    <3>5. O(c) \in Abs!Named
      BY <1>8, <3>1, <3>3, <3>4, ObjectsAre
    <3>6. AbsField[O(c)][s] = O(v)
      BY <1>5, <3>1, <3>3, <3>4
    <3>7. AbsField[O(c)][s] \in Abs!Known
      BY <3>5 DEF Abs!Known
    <3> QED
      BY <3>6, <3>7
  <2> QED
    BY <2>2, <2>3
<1> QED
  BY <1>2, <1>3, <1>8, <1>9, <1>10, <1>11 DEF O

\* A step that only changes roots, each to nothing or to itself but for one that
\* takes a known value, is a Move.
LEMMA MovesRoots ==
    ASSUME HeapInv, View, View', UNCHANGED <<home, obj>>, Vacated = {}, Vacated' = {},
           NEW r \in Roots, root \in [Roots -> Pointer], root' \in [Roots -> Pointer],
           \A x \in Roots \ {r} : root'[x] \in {root[x], Nil},
           root'[r] # root[r] => ObjectIn(home, Vacated, target, root'[r]) \in Abs!Known
    PROVE  Abs!Move
<1>1. \A p : ObjectIn(home', Vacated', target', p) = ObjectIn(home, Vacated, target, p)
  BY DEF ObjectIn, Whereabouts
<1>2. AbsField' = AbsField
  BY <1>1 DEF View, ViewField, Homeless
<1>3. \A x \in Roots : /\ AbsRoot[x] = ObjectIn(home, Vacated, target, root[x])
                       /\ AbsRoot'[x] = ObjectIn(home, Vacated, target, root'[x])
  BY <1>1 DEF View, ViewRoot
<1>4. ObjectIn(home, Vacated, target, Nil) = Nil
  BY DEF ObjectIn
<1>5. \A x \in Roots \ {r} : AbsRoot'[x] \in {AbsRoot[x], Nil}
  BY <1>3, <1>4
<1>6. AbsRoot'[r] # AbsRoot[r] => AbsRoot'[r] \in Abs!Known
  BY <1>3
<1> QED
  BY <1>2, <1>5, <1>6 DEF Abs!Move
\* A load is a Move: what is loaded is known.
LEMMA LoadMoves ==
    ASSUME HeapInv, View, View', phase = "run",
           NEW r \in InReach, NEW v \in Loadable, Load(r, v)
    PROVE  Abs!Move
<1>1. root' = [root EXCEPT ![r] = v] /\ UNCHANGED <<home, obj, phase>>
  BY DEF Load, heap, collector
<1>2. Vacated = {} /\ Vacated' = {}
  BY <1>1, AtRest DEF Vacated, Moving
<1>3. r \in Roots /\ root \in [Roots -> Pointer] /\ v \in Pointer
  BY RootsAre, AtRest DEF InReach, Registers, HeapInv, DataInv, DataTypes
<1>4. ObjectIn(home, Vacated, target, v) \in Abs!Known
  BY KnownValues
<1>5. root' \in [Roots -> Pointer] /\ root'[r] = v /\ \A x \in Roots \ {r} : root'[x] = root[x]
  BY <1>1, <1>3
<1> QED
  BY <1>1, <1>2, <1>3, <1>4, <1>5, MovesRoots

\* A return forgets the inner frame; a constructor's instance is its result.
LEMMA ReturnMoves ==
    ASSUME HeapInv, View, View', phase = "run", Return
    PROVE  Abs!Move
<1>1. /\ root' = [root EXCEPT !["inner"] = Nil, !["made"] = Nil,
                            !["r1"] = IF frame = "new" THEN root["made"] ELSE @]
      /\ UNCHANGED <<home, obj, phase>>
  BY DEF Return, heap, collector
<1>2. Vacated = {} /\ Vacated' = {}
  BY <1>1, AtRest DEF Vacated, Moving
<1>3. root \in [Roots -> Pointer] /\ {"r1", "inner", "made"} \subseteq Roots /\ Nil \in Pointer
  BY RootsAre DEF HeapInv, DataInv, DataTypes, Pointer
<1>4. /\ root' \in [Roots -> Pointer] /\ root'["r1"] \in {root["made"], root["r1"]}
      /\ \A x \in Roots \ {"r1"} : root'[x] \in {root[x], Nil}
  BY <1>1, <1>3
<1>5. AbsRoot["made"] = ObjectIn(home, Vacated, target, root["made"])
  BY <1>3 DEF View, ViewRoot
<1>6. ObjectIn(home, Vacated, target, root["made"]) \in Abs!Known
  BY <1>3, <1>5, KnownValues DEF Abs!Named
<1> QED
  BY <1>1, <1>2, <1>3, <1>4, <1>6, MovesRoots

\* The callee is a value of the program; so is what a root already names.
LEMMA RootKnown ==
    ASSUME HeapInv, View, phase = "run", NEW r \in Roots
    PROVE  ObjectIn(home, Vacated, target, root[r]) \in Abs!Known
<1>1. AbsRoot[r] = ObjectIn(home, Vacated, target, root[r])
  BY DEF View, ViewRoot
<1> QED
  BY <1>1, KnownValues DEF Abs!Named

\* The start of a collection forgets the registers out of reach; one that is for
\* entering compiled code pins the closure of the frame.
LEMMA BeginMoves ==
    ASSUME HeapInv, View, View', phase = "run", NEW reason, NEW keep,
           NEW roots \in [Roots -> Pointer], Begin(reason, keep, roots),
           roots = root \/ roots = [root EXCEPT !["entered"] = root["inner"]]
    PROVE  Abs!Move
<1>1. /\ root' = [r \in Roots |-> IF r \in Registers \ InReach THEN Nil ELSE roots[r]]
      /\ UNCHANGED <<home, obj, marked>>
  BY DEF Begin, heap
<1>2. Vacated = {} /\ Vacated' = {}
  BY <1>1, AtRest DEF Vacated
<1>3. root \in [Roots -> Pointer] /\ {"inner", "entered"} \subseteq Roots /\ Nil \in Pointer
  BY RootsAre DEF HeapInv, DataInv, DataTypes, Pointer
<1>4. \A x \in Roots : roots[x] \in {root[x], IF x = "entered" THEN root["inner"] ELSE root[x]}
  BY <1>3
<1>5. "entered" \notin Registers
  BY DEF Registers
<1>6. /\ root' \in [Roots -> Pointer] /\ root'["entered"] \in {root["entered"], root["inner"]}
      /\ \A x \in Roots \ {"entered"} : root'[x] \in {root[x], Nil}
  BY <1>1, <1>3, <1>4, <1>5
<1>7. ObjectIn(home, Vacated, target, root["inner"]) \in Abs!Known
  BY <1>3, RootKnown
<1> QED
  BY <1>1, <1>2, <1>3, <1>6, <1>7, MovesRoots

\* A safepoint is a Move, or nothing is noticed of it.
LEMMA SafepointMoves ==
    ASSUME HeapInv, View, View', phase = "run", Safepoint
    PROVE  Abs!Move \/ (AbsRoot' = AbsRoot /\ AbsField' = AbsField)
<1>1. root \in [Roots -> Pointer] /\ "inner" \in Roots /\ "entered" \in Roots
  BY RootsAre DEF HeapInv, DataInv, DataTypes
<1>2. CASE CollectMinor
  BY <1>1, <1>2, BeginMoves DEF CollectMinor
<1>3. CASE CollectGarbage
  BY <1>1, <1>3, BeginMoves DEF CollectGarbage
<1>4. CASE EnterOld
  <2>1. UNCHANGED <<home, obj, root, target, marked, phase>>
    BY <1>4 DEF EnterOld, heap, collector
  <2>2. Vacated' = Vacated
    BY <2>1 DEF Vacated, Moving
  <2> QED
    BY <2>1, <2>2, QuietUnseen
<1>5. CASE EnterYoung
  <2> DEFINE roots == [root EXCEPT !["entered"] = root["inner"]]
  <2>1. Begin("enter", FALSE, roots) /\ roots \in [Roots -> Pointer]
    BY <1>1, <1>5 DEF EnterYoung
  <2> HIDE DEF roots
  <2>2. roots = [root EXCEPT !["entered"] = root["inner"]]
    BY DEF roots
  <2> QED
    BY <2>1, <2>2, BeginMoves
<1> QED
  BY <1>2, <1>3, <1>4, <1>5 DEF Safepoint

\* A store is a Store.
LEMMA StoreStores ==
    ASSUME HeapInv, View, View', phase = "run",
           NEW c \in Values, NEW s \in Slots, NEW v \in Values, Store(c, s, v)
    PROVE  Abs!Store
<1>1. /\ c # Nil /\ obj' = [obj EXCEPT ![c] = [obj[c] EXCEPT ![s] = v]]
      /\ UNCHANGED <<home, root, phase>>
  BY DEF Store, Write, program, collector
<1>2. Vacated = {} /\ Vacated' = {}
  BY <1>1, AtRest DEF Vacated, Moving
<1>3. c \in Current /\ Current \subseteq Boxes /\ obj \in [Boxes -> [Slots -> Pointer]]
  BY <1>1, AtRest DEF HeapInv, DataInv, DataTypes
<1> DEFINE O(p) == ObjectIn(home, Vacated, target, p)
<1>4. \A p : ObjectIn(home', Vacated', target', p) = O(p)
  BY <1>1, <1>2 DEF ObjectIn, Whereabouts
<1>5. O(c) = OwnerIn(home, c) /\ O(c) \in Objects \ Homeless /\ home[O(c)] = c
  BY <1>1, <1>3, KnownValues
<1>6. O(c) \in Abs!Named /\ O(v) \in Abs!Known
  BY <1>5, KnownValues, ObjectsAre
<1> HIDE DEF O
<1>7. Homeless' = Homeless
  BY <1>1 DEF Homeless
<1>8. /\ AbsField = [o \in Objects \ Homeless |-> [x \in Slots |-> O(obj[home[o]][x])]]
      /\ AbsField' = [o \in Objects \ Homeless |-> [x \in Slots |-> O(obj'[home[o]][x])]]
  BY <1>1, <1>4, <1>7 DEF View, ViewField, O
<1>9. \A o \in Objects \ Homeless : home[o] \in Current /\ (home[o] = c => o = O(c))
  BY <1>5, <1>3 DEF HeapInv, SpaceInv, HomesFit, Homeless
<1>10. \A o \in Objects \ Homeless, x \in Slots :
          obj'[home[o]][x] = IF o = O(c) /\ x = s THEN v ELSE obj[home[o]][x]
  BY <1>1, <1>3, <1>5, <1>9
<1>11. AbsField'[O(c)][s] = O(v)
  BY <1>5, <1>8, <1>10
<1>12. AbsField' = [AbsField EXCEPT ![O(c)][s] = O(v)]
  <2> DEFINE F == [AbsField EXCEPT ![O(c)][s] = O(v)]
  <2>1. \A o \in Objects \ Homeless, x \in Slots :
           F[o][x] = IF o = O(c) /\ x = s THEN O(v) ELSE AbsField[o][x]
    BY <1>5, <1>8
  <2>2. \A o \in Objects \ Homeless, x \in Slots : AbsField'[o][x] = F[o][x]
    BY <1>8, <1>10, <2>1
  <2>3. F = [o \in Objects \ Homeless |-> [x \in Slots |-> F[o][x]]]
    BY <1>5, <1>8
  <2>4. AbsField' = [o \in Objects \ Homeless |-> [x \in Slots |-> AbsField'[o][x]]]
    BY <1>8
  <2> QED
    BY <2>2, <2>3, <2>4
<1>13. AbsRoot' = AbsRoot
  BY <1>1, <1>4 DEF View, ViewRoot, O
<1> QED
  BY <1>6, <1>11, <1>12, <1>13 DEF Abs!Store
\* A new object: the others are seen as before, and the box it is in names it.
LEMMA NewObject ==
    ASSUME HeapInv, HeapInv', View, View', phase = "run", phase' = "run", Room,
           NEW b, b \notin Current, b # Nil,
           \A o \in Objects : home'[o] = IF o = Identity THEN b ELSE home[o]
    PROVE  /\ Identity \in Homeless /\ Homeless' = Homeless \ {Identity}
           /\ \A p \in Current \cup {Nil} : ObjectIn(home', Vacated', target', p)
                                              = ObjectIn(home, Vacated, target, p)
           /\ ObjectIn(home', Vacated', target', b) = Identity
           /\ DOMAIN AbsField = Objects \ Homeless
           /\ DOMAIN AbsField' = (Objects \ Homeless) \cup {Identity}
<1>1. Identity \in Homeless
  BY TenuredForNew DEF HeapInv
<1>2. Identity \in Objects /\ home[Identity] = Nil
  BY <1>1 DEF Homeless
<1>4. Homeless' = Homeless \ {Identity}
  BY <1>2 DEF Homeless
<1>5. Vacated = {} /\ Vacated' = {}
  BY DEF Vacated, Moving
<1>6. \A o, x \in Objects : home'[o] = home'[x] /\ home'[o] # Nil => o = x
  BY DEF HeapInv, SpaceInv, HomesFit
<1>7. ObjectIn(home', Vacated', target', b) = Identity
  <2>1. home'[Identity] = Whereabouts(Vacated', target', b) /\ home'[Identity] # Nil
    BY <1>2, <1>5 DEF Whereabouts
  <2> QED
    BY <1>2, <1>6, <2>1, Names
<1>8. \A p \in Current \cup {Nil} : ObjectIn(home', Vacated', target', p) = ObjectIn(home, Vacated, target, p)
  <2>1. SUFFICES ASSUME NEW p \in Current
                 PROVE  ObjectIn(home', Vacated', target', p) = ObjectIn(home, Vacated, target, p)
    BY DEF ObjectIn
  <2>2. p \in From \cup To
    BY DEF Current
  <2>3. PICK o \in Objects : /\ home[o] = Whereabouts(Vacated, target, p) /\ home[o] # Nil
                             /\ ObjectIn(home, Vacated, target, p) = o /\ p # Nil
    BY <2>2, Leads
  <2>4. home'[o] = Whereabouts(Vacated', target', p) /\ home'[o] # Nil
    BY <1>2, <1>5, <2>3 DEF Whereabouts
  <2> QED
    BY <1>6, <2>3, <2>4, Names
<1>9. /\ DOMAIN AbsField = Objects \ Homeless
      /\ DOMAIN AbsField' = (Objects \ Homeless) \cup {Identity}
  BY <1>2, <1>4 DEF View, ViewField
<1> QED
  BY <1>1, <1>4, <1>7, <1>8, <1>9

\* A new object that is filled with values and named by a root is made.
LEMMA Makes ==
    ASSUME HeapInv, HeapInv', View, View', phase = "run", phase' = "run", Room,
           NEW b \in Boxes, b \notin Current, home' = [home EXCEPT ![Identity] = b],
           NEW content \in Contents \cup {Empty}, Write(b, content),
           NEW r \in Roots, NEW q \in Roots, root'[r] = b,
           root'[q] \in Values \cup {b},
           \A x \in Roots \ {r, q} : root'[x] = root[x]
    PROVE  Abs!Make
<1> DEFINE O(p) == ObjectIn(home, Vacated, target, p)
           P(p) == ObjectIn(home', Vacated', target', p)
<1>1. b # Nil /\ \A o \in Objects : home'[o] = IF o = Identity THEN b ELSE home[o]
  BY Layout DEF HeapInv, SpaceInv, SpaceTypes
<1>2. /\ Identity \in Homeless /\ Homeless' = Homeless \ {Identity}
      /\ \A p \in Current \cup {Nil} : P(p) = O(p)
      /\ P(b) = Identity
      /\ \A o \in Objects : home'[o] = IF o = Identity THEN b ELSE home[o]
      /\ DOMAIN AbsField = Objects \ Homeless
      /\ DOMAIN AbsField' = (Objects \ Homeless) \cup {Identity}
  BY <1>1, NewObject
<1>3. /\ \A v \in Values \cup {Nil} : v \in Current \cup {Nil} /\ O(v) \in Abs!Known
      /\ \A x \in Roots : root[x] \in Current \cup {Nil}
      /\ \A c \in Current, s \in Slots : obj[c][s] \in Current \cup {Nil}
      /\ \A o \in Objects \ Homeless : home[o] \in Current /\ home[o] \in Boxes
      /\ obj \in [Boxes -> [Slots -> Pointer]]
  <2>1. \A o \in Objects \ Homeless : home[o] \in Current
    BY DEF HeapInv, SpaceInv, HomesFit, Homeless
  <2> QED
    BY <2>1, AtRest, KnownValues DEF HeapInv, DataInv, DataTypes
<1>4. /\ \A x \in Roots : AbsRoot[x] = O(root[x]) /\ AbsRoot'[x] = P(root'[x])
      /\ \A o \in Objects \ Homeless, s \in Slots : AbsField[o][s] = O(obj[home[o]][s])
      /\ \A o \in Objects \ Homeless', s \in Slots : AbsField'[o][s] = P(obj'[home'[o]][s])
      /\ AbsField = [o \in Objects \ Homeless |-> [s \in Slots |-> AbsField[o][s]]]
      /\ AbsField' = [o \in Objects \ Homeless' |-> [s \in Slots |-> AbsField'[o][s]]]
  BY DEF View, ViewRoot, ViewField
<1> HIDE DEF O, P
<1>5. Identity \in Objects \ (Objects \ Homeless) /\ Identity \in Objects \ Homeless'
  BY <1>2 DEF Homeless
<1>6. obj' = [obj EXCEPT ![b] = content]
  BY DEF Write
<1>7. obj'[b] = content /\ \A c \in Current : obj'[c] = obj[c]
  BY <1>3, <1>6, AtRest
<1>8. Abs!Restrict(AbsField', DOMAIN AbsField) = AbsField
  <2>1. \A o \in Objects \ Homeless, s \in Slots : AbsField'[o][s] = AbsField[o][s]
    BY <1>2, <1>3, <1>4, <1>7
  <2>2. Objects \ Homeless \subseteq Objects \ Homeless'
    BY <1>2
  <2>3. \A o \in Objects \ Homeless : AbsField'[o] = AbsField[o]
    BY <1>4, <2>1, <2>2
  <2> QED
    BY <1>2, <1>4, <2>3 DEF Abs!Restrict
<1>9. \A s \in Slots : content[s] \in Values \cup {Nil}
  BY DEF Contents, Empty
<1>10. Abs!Range(AbsField'[Identity]) \subseteq Abs!Known
  <2>1. \A s \in Slots : AbsField'[Identity][s] \in Abs!Known
    BY <1>2, <1>3, <1>4, <1>5, <1>7, <1>9
  <2>2. DOMAIN AbsField'[Identity] = Slots
    BY <1>4, <1>5
  <2> QED
    BY <2>1, <2>2 DEF Abs!Range
<1>11. AbsRoot'[r] = Identity
  BY <1>2, <1>4
<1>12. AbsRoot'[q] \in Abs!Known \cup {Identity}
  BY <1>2, <1>3, <1>4
<1>13. \A x \in Roots \ {r, q} : AbsRoot'[x] = AbsRoot[x]
  BY <1>2, <1>3, <1>4
<1> QED
  BY <1>2, <1>5, <1>8, <1>10, <1>11, <1>12, <1>13 DEF Abs!Make
\* So objects are made in the nursery,
LEMMA AllocMakes ==
    ASSUME HeapInv, HeapInv', View, View', phase = "run",
           NEW r \in InReach, NEW content \in Contents, Alloc(r, content)
    PROVE  Abs!Make
<1>1. PICK b \in EdenBoxes :
        /\ Born(b) /\ Write(b, content)
        /\ root' = [root EXCEPT ![r] = b]
        /\ UNCHANGED collector
  BY DEF Alloc
<1>2. UNCHANGED <<phase, keeps>>
  BY <1>1 DEF collector
<1>3. b \notin Current /\ b \in Boxes
  BY <1>1, <1>2, BornSpaces, Layout
<1>4. Room /\ home' = [home EXCEPT ![Identity] = b]
  BY <1>1 DEF Born
<1>5. r \in Roots /\ root'[r] = b /\ \A x \in Roots \ {r} : root'[x] = root[x]
  BY <1>1, RootsAre DEF InReach, Registers, HeapInv, DataInv, DataTypes
<1> QED
  BY <1>1, <1>2, <1>3, <1>4, <1>5, Makes

\* or born old.
LEMMA AllocOldMakes ==
    ASSUME HeapInv, HeapInv', View, View', phase = "run",
           NEW r \in InReach, NEW content \in Contents, AllocOld(r, content)
    PROVE  Abs!Make
<1>1. PICK b : b = FreeTenured
  OBVIOUS
<1>2. /\ Room /\ Write(b, content)
      /\ home' = [home EXCEPT ![Identity] = b]
      /\ root' = [root EXCEPT ![r] = b]
      /\ phase' = phase
  BY <1>1 DEF AllocOld, collector
<1>3. b \in Old \ live
  BY <1>1, <1>2, TenuredForNew DEF HeapInv
<1>4. b \notin Current /\ b \in Boxes
  BY <1>3, AtRest, Apart, Layout DEF HeapInv, SpaceInv
<1>5. r \in Roots /\ root'[r] = b /\ \A x \in Roots \ {r} : root'[x] = root[x]
  BY <1>2, RootsAre DEF InReach, Registers, HeapInv, DataInv, DataTypes
<1> QED
  BY <1>2, <1>4, <1>5, Makes

\* A call names the callee; one that makes an instance names that too.
LEMMA CallMoves ==
    ASSUME HeapInv, HeapInv', View, View', phase = "run",
           NEW f \in Values, NEW by, Call(f, by)
    PROVE  Abs!Move \/ Abs!Make
<1>1. {"inner", "made"} \subseteq Roots /\ root \in [Roots -> Pointer] /\ f \in Pointer
  BY RootsAre, AtRest DEF HeapInv, DataInv, DataTypes
<1>2. UNCHANGED <<phase, keeps>>
  BY DEF Call, collector
<1>3. CASE by # "new"
  <2>1. root' = [root EXCEPT !["inner"] = f] /\ UNCHANGED <<home, obj>>
    BY <1>3 DEF Call, heap
  <2>2. Vacated = {} /\ Vacated' = {}
    BY <1>2, AtRest DEF Vacated, Moving
  <2>3. ObjectIn(home, Vacated, target, f) \in Abs!Known
    BY KnownValues
  <2>4. /\ root' \in [Roots -> Pointer] /\ root'["inner"] = f
        /\ \A x \in Roots \ {"inner"} : root'[x] = root[x]
    BY <1>1, <2>1
  <2> QED
    BY <1>1, <2>1, <2>2, <2>3, <2>4, MovesRoots
<1>4. CASE by = "new"
  <2>1. PICK b \in EdenBoxes :
          /\ Born(b) /\ Write(b, Empty)
          /\ root' = [root EXCEPT !["inner"] = f, !["made"] = b]
    BY <1>4 DEF Call
  <2>2. b \notin Current /\ b \in Boxes
    BY <1>2, <2>1, BornSpaces, Layout
  <2>3. Room /\ home' = [home EXCEPT ![Identity] = b]
    BY <2>1 DEF Born
  <2>4. /\ root'["made"] = b /\ root'["inner"] = f
        /\ \A x \in Roots \ {"made", "inner"} : root'[x] = root[x]
    BY <1>1, <2>1
  <2> QED
    BY <1>1, <1>2, <2>1, <2>2, <2>3, <2>4, Makes
<1> QED
  BY <1>3, <1>4
\* An error that is raised gets its stacktrace attached.
LEMMA RaiseAttaches ==
    ASSUME HeapInv, HeapInv', View, View', phase = "run", NEW e \in Values, Raise(e)
    PROVE  Abs!Attach
<1>1. PICK b \in EdenBoxes :
        /\ e # Nil /\ Born(b)
        /\ obj' = [obj EXCEPT ![b] = Empty, ![e][Trace] = b]
        /\ UNCHANGED <<program, collector>>
  BY DEF Raise
<1>2. UNCHANGED <<phase, keeps, root>>
  BY <1>1 DEF collector, program
<1>3. b \notin Current /\ b \in Boxes /\ b # Nil
  BY <1>1, <1>2, BornSpaces, Layout
<1>4. Room /\ \A o \in Objects : home'[o] = IF o = Identity THEN b ELSE home[o]
  BY <1>1 DEF Born, HeapInv, SpaceInv, SpaceTypes
<1> DEFINE O(p) == ObjectIn(home, Vacated, target, p)
           P(p) == ObjectIn(home', Vacated', target', p)
<1>5. /\ Identity \in Homeless /\ Homeless' = Homeless \ {Identity}
      /\ \A p \in Current \cup {Nil} : P(p) = O(p)
      /\ P(b) = Identity
      /\ DOMAIN AbsField = Objects \ Homeless
      /\ DOMAIN AbsField' = (Objects \ Homeless) \cup {Identity}
  BY <1>2, <1>3, <1>4, NewObject
<1>6. /\ e \in Current /\ Trace \in Slots
      /\ \A x \in Roots : root[x] \in Current \cup {Nil}
      /\ \A c \in Current, s \in Slots : obj[c][s] \in Current \cup {Nil}
      /\ \A o \in Objects \ Homeless : home[o] \in Current /\ home[o] \in Boxes
      /\ obj \in [Boxes -> [Slots -> Pointer]]
  <2>1. \A o \in Objects \ Homeless : home[o] \in Current
    BY DEF HeapInv, SpaceInv, HomesFit, Homeless
  <2>2. Trace \in Slots
    BY HeapAssumption DEF Slots
  <2> QED
    BY <1>1, <2>1, <2>2, AtRest DEF HeapInv, DataInv, DataTypes
<1>7. O(e) = OwnerIn(home, e) /\ O(e) \in Objects \ Homeless /\ home[O(e)] = e
  BY <1>1, <1>6, KnownValues
<1>8. O(e) \in Abs!Named
  BY <1>7, KnownValues, ObjectsAre
<1>9. O(Nil) = Nil
  BY DEF ObjectIn
<1>10. /\ \A x \in Roots : AbsRoot[x] = O(root[x]) /\ AbsRoot'[x] = P(root'[x])
       /\ AbsRoot = [x \in Roots |-> AbsRoot[x]] /\ AbsRoot' = [x \in Roots |-> AbsRoot'[x]]
       /\ \A o \in Objects \ Homeless, s \in Slots : AbsField[o][s] = O(obj[home[o]][s])
       /\ \A o \in Objects \ Homeless', s \in Slots : AbsField'[o][s] = P(obj'[home'[o]][s])
       /\ AbsField = [o \in Objects \ Homeless |-> [s \in Slots |-> AbsField[o][s]]]
       /\ AbsField' = [o \in Objects \ Homeless' |-> [s \in Slots |-> AbsField'[o][s]]]
  BY DEF View, ViewRoot, ViewField
<1> HIDE DEF O, P
<1>11. /\ obj'[b] = Empty
       /\ \A c \in Current, s \in Slots :
            obj'[c][s] = IF c = e /\ s = Trace THEN b ELSE obj[c][s]
  BY <1>1, <1>3, <1>6, AtRest
<1>12. \A o \in Objects \ Homeless : home[o] = e => o = O(e)
  BY <1>6, <1>7, AtRest DEF HeapInv, SpaceInv, HomesFit, Homeless
<1> DEFINE F == [AbsField EXCEPT ![O(e)][Trace] = Identity]
<1>13. Abs!Restrict(AbsField', DOMAIN AbsField) = F
  <2>1. \A o \in Objects \ Homeless, s \in Slots :
           F[o][s] = IF o = O(e) /\ s = Trace THEN Identity ELSE AbsField[o][s]
    BY <1>7, <1>10
  <2>2. \A o \in Objects \ Homeless, s \in Slots : AbsField'[o][s] = F[o][s]
    <3>1. SUFFICES ASSUME NEW o \in Objects \ Homeless, NEW s \in Slots
                   PROVE  AbsField'[o][s] = F[o][s]
      OBVIOUS
    <3>2. AbsField'[o][s] = P(obj'[home[o]][s]) /\ home[o] \in Current
      BY <1>4, <1>5, <1>6, <1>10
    <3>3. CASE o = O(e) /\ s = Trace
      BY <1>5, <1>7, <1>11, <2>1, <3>2, <3>3
    <3>4. CASE ~ (o = O(e) /\ s = Trace)
      BY <1>5, <1>6, <1>10, <1>11, <1>12, <2>1, <3>2, <3>4
    <3> QED
      BY <3>3, <3>4
  <2>3. F = [o \in Objects \ Homeless |-> [s \in Slots |-> F[o][s]]]
    BY <1>7, <1>10
  <2> HIDE DEF F
  <2>4. Objects \ Homeless \subseteq Objects \ Homeless'
    BY <1>5
  <2>5. \A o \in Objects \ Homeless : AbsField'[o] = [s \in Slots |-> AbsField'[o][s]]
    BY <1>10, <2>4
  <2>6. Abs!Restrict(AbsField', Objects \ Homeless) = [o \in Objects \ Homeless |-> AbsField'[o]]
    BY <1>5 DEF Abs!Restrict
  <2>7. \A o \in Objects \ Homeless : AbsField'[o] = F[o]
    BY <2>2, <2>3, <2>5
  <2> QED
    BY <1>5, <2>3, <2>6, <2>7
<1>14. Abs!Range(AbsField'[Identity]) = {Nil}
  <2>1. Identity \in Objects \ Homeless'
    BY <1>5 DEF Homeless
  <2>2. home'[Identity] = b
    BY <1>4, <2>1
  <2>3. \A s \in Slots : AbsField'[Identity][s] = Nil
    <3>1. \A s \in Slots : Empty[s] = Nil
      BY DEF Empty
    <3>2. P(Nil) = Nil
      BY <1>5, <1>9
    <3> QED
      BY <1>10, <1>11, <2>1, <2>2, <3>1, <3>2
  <2>4. DOMAIN AbsField'[Identity] = Slots
    BY <1>10, <2>1
  <2> QED
    BY <1>6, <2>3, <2>4 DEF Abs!Range
<1>15. AbsRoot' = AbsRoot
  BY <1>2, <1>5, <1>6, <1>10
<1>16. Identity \in Objects \ DOMAIN AbsField
  BY <1>5 DEF Homeless
<1>17. DOMAIN AbsField' = DOMAIN AbsField \cup {Identity}
  BY <1>5
<1> QED
  BY <1>6, <1>8, <1>13, <1>14, <1>15, <1>16, <1>17 DEF Abs!Attach
-----------------------------------------------------------------------------
(* The end of a collection is where memory is reclaimed *)

\* Giving up all boxes but some that hold what the roots name and what they name
\* themselves reclaims nothing that can be reached.
LEMMA Reclaims ==
    ASSUME HeapInv, HeapInv', View, View', NEW Keep, Keep \subseteq From \cup To,
           \A o \in Objects : home'[o] = IF home[o] \in Keep THEN home[o] ELSE Nil,
           \A b \in Keep : obj'[b] = obj[b],
           \A p \in Keep : /\ Whereabouts(Vacated, target, p) = p
                           /\ Whereabouts(Vacated', target', p) = p,
           \A r \in Roots : root[r] \in Keep \cup {Nil} /\ root'[r] \in {root[r], Nil},
           \A b \in Keep, s \in Slots : obj[b][s] \in Keep \cup {Nil}
    PROVE  /\ Abs!Reclaim
           /\ Objects \ Homeless' = {o \in Objects : home[o] \in Keep}
           /\ \A p \in Keep \cup {Nil} : ObjectIn(home', Vacated', target', p)
                                           = ObjectIn(home, Vacated, target, p)
           /\ \A r \in Roots : AbsRoot[r] \in (Objects \ Homeless') \cup {Nil}
           /\ \A o \in Objects \ Homeless', s \in Slots :
                AbsField[o][s] \in (Objects \ Homeless') \cup {Nil}
<1> DEFINE O(p) == ObjectIn(home, Vacated, target, p)
           P(p) == ObjectIn(home', Vacated', target', p)
           Staying == {o \in Objects : home[o] \in Keep}
<1>1. Nil \notin Keep
  BY Apart DEF HeapInv, SpaceInv
<1>2. Staying = Objects \ Homeless' /\ Staying \subseteq Objects \ Homeless
  BY <1>1 DEF Homeless
<1>3. \A p \in Keep : P(p) = O(p) /\ O(p) \in Staying
  <2>1. SUFFICES ASSUME NEW p \in Keep PROVE P(p) = O(p) /\ O(p) \in Staying
    OBVIOUS
  <2>2. PICK o \in Objects : /\ home[o] = Whereabouts(Vacated, target, p) /\ home[o] # Nil
                             /\ O(p) = o /\ p # Nil
    BY <2>1, Leads
  <2>3. home[o] = p
    BY <2>1, <2>2
  <2>4. home'[o] = Whereabouts(Vacated', target', p) /\ home'[o] # Nil
    BY <2>1, <2>2, <2>3
  <2>5. \A x, y \in Objects : home'[x] = home'[y] /\ home'[x] # Nil => x = y
    BY DEF HeapInv, SpaceInv, HomesFit
  <2>6. P(p) = o
    BY <2>2, <2>4, <2>5, Names
  <2> QED
    BY <2>1, <2>2, <2>3, <2>6
<1>4. P(Nil) = Nil /\ O(Nil) = Nil
  BY DEF ObjectIn
<1>5. /\ \A x \in Roots : AbsRoot[x] = O(root[x]) /\ AbsRoot'[x] = P(root'[x])
      /\ \A o \in Objects \ Homeless, s \in Slots : AbsField[o][s] = O(obj[home[o]][s])
      /\ \A o \in Objects \ Homeless', s \in Slots : AbsField'[o][s] = P(obj'[home'[o]][s])
      /\ AbsField = [o \in Objects \ Homeless |-> [s \in Slots |-> AbsField[o][s]]]
      /\ AbsField' = [o \in Objects \ Homeless' |-> [s \in Slots |-> AbsField'[o][s]]]
  BY DEF View, ViewRoot, ViewField
<1> HIDE DEF O, P
<1>6. \A r \in Roots : AbsRoot[r] \in Staying \cup {Nil} /\ AbsRoot'[r] \in {AbsRoot[r], Nil}
  BY <1>3, <1>4, <1>5
<1>7. \A o \in Staying, s \in Slots : /\ AbsField[o][s] \in Staying \cup {Nil}
                                   /\ AbsField'[o][s] = AbsField[o][s]
  BY <1>2, <1>3, <1>4, <1>5
<1>8. DOMAIN AbsField = Objects \ Homeless /\ DOMAIN AbsField' = Staying
  BY <1>2, <1>5
<1>9. Abs!Reached \subseteq Staying
  <2>1. Abs!Closed(Staying)
    BY <1>7 DEF Abs!Closed
  <2>2. {AbsRoot[r] : r \in Roots} \subseteq Staying \cup {Nil}
    BY <1>6
  <2>3. Staying \in SUBSET Objects
    OBVIOUS
  <2> HIDE DEF Staying
  <2> QED
    BY <2>1, <2>2, <2>3 DEF Abs!Reached
<1>10. AbsField' = Abs!Restrict(AbsField, DOMAIN AbsField')
  <2>1. \A o \in Staying : AbsField'[o] = AbsField[o]
    <3>1. SUFFICES ASSUME NEW o \in Staying PROVE AbsField'[o] = AbsField[o]
      OBVIOUS
    <3>2. /\ AbsField[o] = [s \in Slots |-> AbsField[o][s]]
          /\ AbsField'[o] = [s \in Slots |-> AbsField'[o][s]]
      BY <1>2, <1>5, <3>1
    <3> QED
      BY <1>7, <3>1, <3>2
  <2>2. AbsField' = [o \in Staying |-> AbsField'[o]]
    BY <1>2, <1>5
  <2> HIDE DEF Staying
  <2> QED
    BY <1>8, <2>1, <2>2 DEF Abs!Restrict
<1>11. Abs!Reclaim
  BY <1>2, <1>6, <1>8, <1>9, <1>10 DEF Abs!Reclaim
<1> QED
  BY <1>2, <1>3, <1>4, <1>6, <1>7, <1>11 DEF O, P

\* A minor collection reclaims what it did not move.
LEMMA ResetNurseryReclaims ==
    ASSUME HeapInv, HeapInv', View, View', ResetNursery
    PROVE  Abs!Reclaim
<1> USE DEF HeapInv
<1>1. /\ phase = "scan" /\ left = <<>> /\ recalled = {} /\ gray = {}
      /\ home' = [o \in Objects |-> IF home[o] \in Young \ arriving THEN Nil ELSE home[o]]
      /\ obj' = [b \in Boxes |-> IF b \in Young \ arriving THEN Empty ELSE obj[b]]
      /\ phase' \in {"run", "roots"}
      /\ root' = root \/ root' = [root EXCEPT !["entered"] = Nil]
  BY DEF ResetNursery
<1>2. Moving /\ Vacated = marked /\ Vacated' = {} /\ marked \subseteq From
  BY <1>1 DEF Vacated, Moving, SpaceInv, SpacesFit
<1>3. /\ From \subseteq Young /\ To \subseteq Boxes /\ From \cap To = {} /\ Nil \notin To
      /\ To \cap Young = arriving /\ arriving \subseteq To
  BY Apart DEF SpaceInv, To
<1>4. \A o \in Objects : home'[o] = IF home[o] \in To THEN home[o] ELSE Nil
  <2>1. SUFFICES ASSUME NEW o \in Objects
                 PROVE  home'[o] = IF home[o] \in To THEN home[o] ELSE Nil
    OBVIOUS
  <2>2. home[o] \in From \cup To \cup {Nil}
    BY DEF SpaceInv, HomesFit, Current
  <2> QED
    BY <1>1, <1>3, <2>2, Layout
<1>5. \A b \in To : obj'[b] = obj[b]
  BY <1>1, <1>3
<1>6. \A p \in To : Whereabouts(Vacated, target, p) = p /\ Whereabouts(Vacated', target', p) = p
  BY <1>2, <1>3 DEF Whereabouts
<1>7. \A r \in Roots : root[r] \in To \cup {Nil} /\ root'[r] \in {root[r], Nil}
  BY <1>1, <1>2, RootsAre DEF WorkInv, WorkFits, DataInv, RootsFit, DataTypes
<1>8. \A b \in To, s \in Slots : obj[b][s] \in To \cup {Nil}
  <2>1. ToSet(left) = {}
    BY <1>1 DEF ToSet
  <2>2. \A b \in To, s \in Slots : ~Unscanned(b, s)
    BY <1>1, <2>1 DEF Unscanned
  <2> QED
    BY <1>2, <2>2 DEF DataInv, ScannedFits
<1> QED
  BY <1>4, <1>5, <1>6, <1>7, <1>8, Reclaims

\* A major one reclaims what it did not mark.
LEMMA SweepReclaims ==
    ASSUME HeapInv, HeapInv', View, View', Sweep
    PROVE  /\ Abs!Reclaim
           /\ Objects \ Homeless' = {o \in Objects : home[o] \in marked}
           /\ \A p \in marked \cup {Nil} : ObjectIn(home', Vacated', target', p)
                                             = ObjectIn(home, Vacated, target, p)
           /\ \A r \in Roots : AbsRoot[r] \in (Objects \ Homeless') \cup {Nil}
           /\ \A o \in Objects \ Homeless', s \in Slots :
                AbsField[o][s] \in (Objects \ Homeless') \cup {Nil}
<1> USE DEF HeapInv
<1>1. /\ phase = "mark" /\ gray = {} /\ phase' = "run" /\ UNCHANGED root
      /\ home' = [o \in Objects |-> IF home[o] \in live \ marked THEN Nil ELSE home[o]]
      /\ obj' = [b \in Boxes |-> IF b \in live \ marked THEN Empty ELSE obj[b]]
  BY DEF Sweep
<1>2. Marking /\ Vacated = {} /\ Vacated' = {} /\ marked \subseteq live
  BY <1>1 DEF Vacated, Moving, Marking, SpaceInv, SpacesFit
<1>3. /\ From = {} /\ To = live /\ Current = live /\ Nil \notin live /\ live \subseteq Boxes
  BY <1>2, NothingYoung, Layout
<1>4. \A o \in Objects : home'[o] = IF home[o] \in marked THEN home[o] ELSE Nil
  BY <1>1, <1>2, <1>3 DEF SpaceInv, HomesFit
<1>5. \A b \in marked : obj'[b] = obj[b]
  BY <1>1, <1>2, <1>3
<1>6. \A p \in marked : Whereabouts(Vacated, target, p) = p /\ Whereabouts(Vacated', target', p) = p
  BY <1>2 DEF Whereabouts
<1>7. \A r \in Roots : root[r] \in marked \cup {Nil} /\ root'[r] \in {root[r], Nil}
  BY <1>1 DEF DataInv, MarksFit
<1>8. \A b \in marked, s \in Slots : obj[b][s] \in marked \cup {Nil}
  BY <1>1 DEF DataInv, MarksFit
<1>9. marked \subseteq From \cup To
  BY <1>2, <1>3
<1> QED
  BY <1>4, <1>5, <1>6, <1>7, <1>8, <1>9, Reclaims
-----------------------------------------------------------------------------
(* The collector's steps in between are not noticed *)

\* Marking moves and writes nothing.
LEMMA MarkingUnseen ==
    ASSUME View, View', MarkRoots \/ MarkChildren
    PROVE  AbsRoot' = AbsRoot /\ AbsField' = AbsField
<1>1. UNCHANGED <<home, obj, root, target>> /\ {phase, phase'} \subseteq {"roots", "mark"}
  BY DEF MarkRoots, MarkChildren, Reach, program
<1>2. Vacated' = Vacated
  BY <1>1 DEF Vacated, Moving
<1> QED
  BY <1>1, <1>2, QuietUnseen

\* Nor does going on to the next object.
LEMMA PickingUnseen ==
    ASSUME View, View', Recall \/ Scan
    PROVE  AbsRoot' = AbsRoot /\ AbsField' = AbsField
<1>1. /\ UNCHANGED <<home, obj, root, target, marked>>
      /\ {phase, phase'} \subseteq {"forward", "scan"}
  BY DEF Recall, Scan, program, heap
<1>2. Vacated' = Vacated
  BY <1>1 DEF Vacated, Moving
<1> QED
  BY <1>1, <1>2, QuietUnseen

\* Every step of the heap is one of the abstract heap's, or none.
LEMMA StepsSimulate ==
    ASSUME HeapInv, HeapInv', View, View', [Next]_vars
    PROVE  [Abs!Next]_(Abs!vars)
<1>1. SUFFICES Abs!Next \/ (AbsRoot' = AbsRoot /\ AbsField' = AbsField)
  BY DEF Abs!vars
<1> USE DEF Abs!Next
<1>2. CASE phase = "run" /\ Instruction
  <2>1. CASE \E r \in InReach, content \in Contents : Alloc(r, content) \/ AllocOld(r, content)
    BY <1>2, <2>1, AllocMakes, AllocOldMakes
  <2>2. CASE \E c \in Values, s \in Slots, v \in Values : Store(c, s, v)
    BY <1>2, <2>2, StoreStores
  <2>3. CASE \E r \in InReach, v \in Loadable : Load(r, v)
    BY <1>2, <2>3, LoadMoves
  <2>4. CASE \E v \in Values : Raise(v) \/ \E by \in Callers : Call(v, by)
    BY <1>2, <2>4, RaiseAttaches, CallMoves
  <2>5. CASE Return
    BY <1>2, <2>5, ReturnMoves
  <2> QED
    BY <1>2, <2>1, <2>2, <2>3, <2>4, <2>5 DEF Instruction
<1>3. CASE phase = "run" /\ Safepoint
  BY <1>3, SafepointMoves
<1>4. CASE ForwardRoot
  BY <1>4, ForwardRootUnseen
<1>5. CASE ForwardSlot
  BY <1>5, ForwardSlotUnseen
<1>6. CASE Recall \/ Scan
  BY <1>6, PickingUnseen
<1>7. CASE MarkRoots \/ MarkChildren
  BY <1>7, MarkingUnseen
<1>8. CASE ResetNursery
  BY <1>8, ResetNurseryReclaims
<1>9. CASE Sweep
  BY <1>9, SweepReclaims
<1>10. CASE UNCHANGED vars
  <2>1. UNCHANGED <<home, obj, root, target, marked, phase>>
    BY <1>10 DEF vars, heap, program, collector
  <2>2. Vacated' = Vacated
    BY <2>1 DEF Vacated, Moving
  <2> QED
    BY <2>1, <2>2, QuietUnseen
<1> QED
  BY <1>2, <1>3, <1>4, <1>5, <1>6, <1>7, <1>8, <1>9, <1>10
     DEF Next, Program, Collector

\* The heap begins with one object, named by one root.
LEMMA InitSimulates ==
    ASSUME Init, HeapInv, View
    PROVE  Abs!Init
<1>1. /\ root = [r \in Roots |-> IF r = "outer" THEN 1 ELSE Nil]
      /\ home = [o \in Objects |-> IF o = 1 THEN 1 ELSE Nil]
      /\ obj = [b \in Boxes |-> Empty] /\ phase = "run"
  BY DEF Init
<1>2. 1 \in Objects /\ 1 \in Boxes /\ 1 # Nil
  BY Layout DEF Nil
<1>3. Objects \ Homeless = {1} /\ home[1] = 1
  BY <1>1, <1>2 DEF Homeless
<1>4. Vacated = {}
  BY <1>1 DEF Vacated, Moving
<1>5. ObjectIn(home, Vacated, target, Nil) = Nil
  BY DEF ObjectIn
<1>6. ObjectIn(home, Vacated, target, 1) = 1
  <2>1. OwnerIn(home, 1) = 1
    BY <1>1, <1>2 DEF OwnerIn
  <2> QED
    BY <1>2, <1>4, <2>1 DEF ObjectIn, Whereabouts
<1>7. AbsRoot \in [Roots -> {Nil, 1}]
  BY <1>1, <1>5, <1>6 DEF View, ViewRoot
<1>8. AbsField = [x \in {1} |-> [s \in Slots |-> Nil]]
  <2>1. \A s \in Slots : obj[home[1]][s] = Nil
    BY <1>1, <1>2, <1>3 DEF Empty
  <2>2. AbsField = [o \in {1} |-> [s \in Slots |-> ObjectIn(home, Vacated, target, obj[home[o]][s])]]
    BY <1>3 DEF View, ViewField
  <2> QED
    BY <1>5, <2>1, <2>2
<1> QED
  BY <1>2, <1>7, <1>8 DEF Abs!Init

\* No collection is ever noticed: the heap, with its generations, its moving and
\* its sweeping, implements one that has none of them.
THEOREM CollectionsStayInvisible ==
    ASSUME ~RaiseKept
    PROVE  Spec => CollectionsAreInvisible
<1>1. Init => Abs!Init
  BY InitFits, Viewed, InitSimulates
<1>2. HeapInv /\ HeapInv' /\ View /\ View' /\ [Next]_vars => [Abs!Next]_(Abs!vars)
  BY StepsSimulate
<1>3. Spec => []View
  BY HeapInvariant, Viewed, PTL
<1> QED
  BY <1>1, <1>2, <1>3, HeapInvariant, PTL DEF Spec, CollectionsAreInvisible, Abs!Spec
-----------------------------------------------------------------------------
(* What a collection does: it ends, and a major one leaves nothing behind *)

\* What is marked can be reached.
MarkedReached == phase = "mark" => \A o \in Objects : home[o] \in marked => o \in Abs!Reached

\* What can be reached can be reached again, and no more, when nothing is noticed.
LEMMA ReachedStays ==
    ASSUME AbsRoot' = AbsRoot, AbsField' = AbsField
    PROVE  Abs!Reached' = Abs!Reached
BY DEF Abs!Reached, Abs!Closed

\* The object a root names can be reached,
LEMMA RootsReached ==
    ASSUME NEW r \in Roots, AbsRoot[r] \in Objects, AbsRoot[r] # Nil
    PROVE  AbsRoot[r] \in Abs!Reached
BY DEF Abs!Reached

\* and so can what the fields of an object name that can.
LEMMA FieldsReached ==
    ASSUME NEW o \in Abs!Reached, o \in DOMAIN AbsField, NEW s \in Slots,
           AbsField[o][s] \in Objects, AbsField[o][s] # Nil
    PROVE  AbsField[o][s] \in Abs!Reached
BY DEF Abs!Reached, Abs!Closed

\* Marking the roots marks what can be reached.
LEMMA MarkRootsReached ==
    ASSUME HeapInv, View, View', MarkRoots
    PROVE  MarkedReached'
<1> USE DEF HeapInv
<1>1. /\ phase = "roots" /\ marked' = marked \cup (({root[r] : r \in Roots} \cap live) \ marked)
      /\ home' = home
  BY DEF MarkRoots, Reach
<1>2. marked = {} /\ Vacated = {}
  BY <1>1 DEF SpaceInv, SpacesFit, Vacated, Moving
<1>3. AbsRoot' = AbsRoot /\ AbsField' = AbsField
  BY MarkingUnseen
<1>4. Abs!Reached' = Abs!Reached
  BY <1>3, ReachedStays
<1>5. \A o \in Objects : home[o] \in marked' => o \in Abs!Reached
  <2>1. SUFFICES ASSUME NEW o \in Objects, home[o] \in marked' PROVE o \in Abs!Reached
    OBVIOUS
  <2>2. PICK r \in Roots : home[o] = root[r] /\ root[r] \in live
    BY <1>1, <1>2, <2>1
  <2>3. root[r] # Nil
    BY <2>2, Layout DEF SpaceInv, SpaceTypes
  <2>4. ObjectIn(home, Vacated, target, root[r]) = o
    BY <1>2, <2>2, <2>3, Names DEF SpaceInv, HomesFit, Whereabouts
  <2>5. AbsRoot[r] = o
    BY <2>4 DEF View, ViewRoot
  <2> QED
    BY <2>5, RootsReached, ObjectsAre
<1> QED
  BY <1>1, <1>4, <1>5 DEF MarkedReached

\* So does marking the children of what was marked.
LEMMA MarkChildrenReached ==
    ASSUME HeapInv, View, View', MarkedReached, MarkChildren
    PROVE  MarkedReached'
<1> USE DEF HeapInv
<1>1. /\ phase = "mark" /\ home' = home
      /\ marked' = marked \cup (({obj[b][s] : b \in gray, s \in Slots} \cap live) \ marked)
  BY DEF MarkChildren, Reach
<1>2. Vacated = {} /\ gray \subseteq marked /\ marked \subseteq live
  BY <1>1 DEF SpaceInv, SpacesFit, WorkInv, WorkFits, Vacated, Moving
<1>3. AbsRoot' = AbsRoot /\ AbsField' = AbsField
  BY MarkingUnseen
<1>4. Abs!Reached' = Abs!Reached
  BY <1>3, ReachedStays
<1>5. \A o \in Objects : home[o] \in marked' => o \in Abs!Reached
  <2>1. SUFFICES ASSUME NEW o \in Objects, home[o] \in marked', home[o] \notin marked
                 PROVE  o \in Abs!Reached
    BY <1>1 DEF MarkedReached
  <2>2. PICK b \in gray, s \in Slots : home[o] = obj[b][s] /\ obj[b][s] \in live
    BY <1>1, <2>1
  <2>3. obj[b][s] # Nil /\ b # Nil /\ b \in Current
    BY <1>2, <2>2, Layout DEF SpaceInv, SpaceTypes, Current, To
  <2>4. PICK x \in Objects : home[x] = b
    BY <2>3 DEF SpaceInv, HomesFit
  <2>5. x \in Abs!Reached /\ x \in Objects \ Homeless
    BY <1>1, <1>2, <2>3, <2>4 DEF MarkedReached, Homeless
  <2>6. ObjectIn(home, Vacated, target, obj[b][s]) = o
    BY <1>2, <2>2, <2>3, Names DEF SpaceInv, HomesFit, Whereabouts
  <2>7. x \in DOMAIN AbsField /\ AbsField[x][s] = o
    BY <2>4, <2>5, <2>6 DEF View, ViewField
  <2> QED
    BY <2>5, <2>7, FieldsReached, ObjectsAre
<1> QED
  BY <1>1, <1>4, <1>5 DEF MarkedReached

\* No other step is about to leave the phase "mark" unfinished.
LEMMA ReachedKept ==
    ASSUME HeapInv, View, View', MarkedReached, [Next]_vars
    PROVE  MarkedReached'
<1>1. CASE MarkRoots
  BY <1>1, MarkRootsReached
<1>2. CASE MarkChildren
  BY <1>2, MarkChildrenReached
<1>3. CASE phase' # "mark"
  BY <1>3 DEF MarkedReached
<1>4. CASE UNCHANGED vars
  <2>1. UNCHANGED <<home, obj, root, target, marked, phase>>
    BY <1>4 DEF vars, heap, program, collector
  <2>2. Vacated' = Vacated
    BY <2>1 DEF Vacated, Moving
  <2>3. AbsRoot' = AbsRoot /\ AbsField' = AbsField
    BY <2>1, <2>2, QuietUnseen
  <2>4. Abs!Reached' = Abs!Reached
    BY <2>3, ReachedStays
  <2> QED
    BY <2>1, <2>4 DEF MarkedReached
<1>5. Next => MarkRoots \/ MarkChildren \/ phase' # "mark"
  <2>1. phase = "run" /\ Instruction => phase' # "mark"
    BY DEF Instruction, Alloc, AllocOld, Store, Load, Raise, Call, Return, collector
  <2>2. phase = "run" /\ Safepoint => phase' # "mark"
    BY DEF Safepoint, CollectMinor, CollectGarbage, EnterOld, EnterYoung, Begin, collector
  <2>3. ForwardRoot \/ Recall \/ Scan \/ ForwardSlot \/ ResetNursery \/ Sweep => phase' # "mark"
    BY DEF ForwardRoot, Recall, Scan, ForwardSlot, ResetNursery, Sweep
  <2> QED
    BY <2>1, <2>2, <2>3 DEF Next, Program, Collector
<1> QED
  BY <1>1, <1>2, <1>3, <1>4, <1>5

\* What is swept cannot be reached, what is not can.
LEMMA SweepExact ==
    ASSUME HeapInv, HeapInv', View, View', MarkedReached, Sweep
    PROVE  Objects \ Homeless' = Abs!Reached'
<1> DEFINE Staying == {o \in Objects : home[o] \in marked}
<1>1. Objects \ Homeless' = Staying
  BY SweepReclaims
<1>2. Staying \subseteq Abs!Reached
  BY DEF Sweep, MarkedReached
<1>3. AbsField' = Abs!Restrict(AbsField, DOMAIN AbsField') /\ DOMAIN AbsField' = Staying
  BY <1>1, SweepReclaims DEF Abs!Reclaim, View, ViewField
<1>4. AbsRoot' = AbsRoot
  <2>1. /\ \A p \in marked \cup {Nil} : ObjectIn(home', Vacated', target', p)
                                          = ObjectIn(home, Vacated, target, p)
        /\ UNCHANGED root /\ \A r \in Roots : root[r] \in marked \cup {Nil}
    BY SweepReclaims DEF Sweep, HeapInv, DataInv, MarksFit
  <2>2. ViewRoot' = ViewRoot
    BY <2>1 DEF ViewRoot
  <2> QED
    BY <2>2 DEF View
<1>5. Staying \subseteq DOMAIN AbsField /\ \A o \in Staying : AbsField'[o] = AbsField[o]
  <2>1. Staying \subseteq DOMAIN AbsField
    BY <1>3, SweepReclaims DEF Abs!Reclaim
  <2> QED
    BY <1>3, <2>1 DEF Abs!Restrict
<1>6. /\ \A r \in Roots : AbsRoot[r] \in Staying \cup {Nil}
      /\ \A o \in Staying, s \in Slots : AbsField[o][s] \in Staying \cup {Nil}
  BY <1>1, SweepReclaims
<1>7. Staying \subseteq Objects
  OBVIOUS
<1> HIDE DEF Staying
<1>8. Abs!Reached' \subseteq Staying
  <2>1. \A x \in Staying \cap DOMAIN AbsField', s \in Slots : AbsField'[x][s] \in Staying \cup {Nil}
    BY <1>5, <1>6
  <2>2. {AbsRoot'[r] : r \in Roots} \subseteq Staying \cup {Nil}
    BY <1>4, <1>6
  <2> QED
    BY <1>7, <2>1, <2>2 DEF Abs!Reached, Abs!Closed
<1>9. Staying \subseteq Abs!Reached'
  <2>1. SUFFICES ASSUME NEW o \in Staying, NEW os \in SUBSET Objects,
                        {AbsRoot'[r] : r \in Roots} \subseteq os \cup {Nil},
                        \A x \in os \cap DOMAIN AbsField', s \in Slots :
                            AbsField'[x][s] \in os \cup {Nil}
                 PROVE  o \in os
    BY <1>7 DEF Abs!Reached, Abs!Closed
  <2> DEFINE both == os \cap Staying
  <2>2. Abs!Closed(both)
    BY <1>3, <1>5, <1>6, <2>1 DEF Abs!Closed
  <2>3. {AbsRoot[r] : r \in Roots} \subseteq both \cup {Nil}
    BY <1>4, <1>6, <2>1
  <2>4. o \in Abs!Reached
    BY <1>2, <2>1
  <2>5. both \in SUBSET Objects /\ both \subseteq os
    BY <1>7
  <2> HIDE DEF both
  <2> QED
    BY <2>2, <2>3, <2>4, <2>5 DEF Abs!Reached
<1> QED
  BY <1>1, <1>8, <1>9
\* The step from "mark" to "run" is the sweep.
LEMMA MajorExact ==
    ASSUME HeapInv, HeapInv', View, View', MarkedReached, [Next]_vars
    PROVE  [phase = "mark" /\ phase' = "run" => Objects \ Homeless' = Abs!Reached']_vars
<1>1. SUFFICES ASSUME Next, phase = "mark", phase' = "run"
               PROVE  Objects \ Homeless' = Abs!Reached'
  OBVIOUS
<1>2. Sweep
  BY <1>1 DEF Next, Program, Collector, ForwardRoot, Recall, Scan, ForwardSlot, ResetNursery,
              MarkRoots, MarkChildren
<1> QED
  BY <1>2, SweepExact
-----------------------------------------------------------------------------
(* Every collection ends *)

\* The sets the measure counts are finite.
LEMMA Counted ==
    ASSUME HeapInv
    PROVE  /\ IsFiniteSet(ToMove) /\ IsFiniteSet(gray) /\ IsFiniteSet(recalled)
           /\ IsFiniteSet(todo) /\ IsFiniteSet(live \ marked) /\ IsFiniteSet(live)
           /\ Len(left) \in Nat /\ PerObject \in Nat /\ PerObject = Len(SlotOrder) + 2
<1> USE DEF HeapInv
<1>1. IsFiniteSet(Boxes) /\ Boxes \subseteq Nat
  <2>1. \A a, b \in Int : IsFiniteSet(a .. b)
    BY FS_Interval
  <2>2. 1 \in Int /\ Eden + Survivor + Tenured \in Int
    BY Sizes
  <2> QED
    BY <2>1, <2>2, Layout DEF Boxes
<1>2. IsFiniteSet(Roots)
  <2>1. Roots = ((((({} \cup {"r1"}) \cup {"r2"}) \cup {"outer"}) \cup {"inner"}) \cup {"made"}) \cup {"entered"}
    BY RootsAre
  <2> QED
    BY <2>1, FS_EmptySet, FS_AddElement
<1>3. IsFiniteSet(Objects)
  BY Layout
<1>4. /\ gray \in SUBSET Boxes /\ recalled \in SUBSET Boxes /\ todo \in SUBSET Roots
      /\ live \in SUBSET Boxes /\ live \ marked \in SUBSET Boxes /\ ToMove \in SUBSET Objects
  BY Layout DEF WorkInv, WorkTypes, SpaceInv, SpaceTypes, ToMove
<1>5. /\ IsFiniteSet(ToMove) /\ IsFiniteSet(gray) /\ IsFiniteSet(recalled)
      /\ IsFiniteSet(todo) /\ IsFiniteSet(live \ marked) /\ IsFiniteSet(live)
  BY <1>1, <1>2, <1>3, <1>4, FS_Subset
<1>6. Len(left) \in Nat
  BY DEF WorkInv, WorkTypes
<1>7. Len(SlotOrder) \in Nat
  BY HeapAssumption
<1> QED
  BY <1>5, <1>6, <1>7 DEF PerObject

\* What is left to do while objects move: so many of them, so many to scan.
LEMMA Lighter ==
    ASSUME NEW P \in Nat, NEW t \in Nat, NEW u \in Nat, NEW g \in Nat, NEW h \in Nat,
           NEW l \in Nat, NEW k \in Nat,
           \/ u = t /\ h = g /\ k < l
           \/ u + 1 = t /\ h <= g + 1 /\ k < l
           \/ u = t /\ h + 1 = g /\ k < l + P
    PROVE  (P + 1) * u + P * h + k < (P + 1) * t + P * g + l
<1>1. \A a, b \in Nat : a <= b => P * a <= P * b
  OBVIOUS
<1>2. \A a \in Nat : P * (a + 1) = P * a + P /\ (P + 1) * a = P * a + a
  OBVIOUS
<1>3. \A a \in Nat : P * a \in Nat /\ (P + 1) * a \in Nat
  OBVIOUS
<1>4. CASE u = t /\ h = g /\ k < l
  BY <1>3, <1>4
<1>5. CASE u + 1 = t /\ h <= g + 1 /\ k < l
  <2>1. P * h <= P * g + P
    BY <1>1, <1>2, <1>5
  <2>2. (P + 1) * t = (P + 1) * u + P + 1
    BY <1>2, <1>3, <1>5
  <2>3. P * h \in Nat /\ P * g \in Nat /\ (P + 1) * t \in Nat /\ (P + 1) * u \in Nat
    BY <1>3
  <2> QED
    BY <1>5, <2>1, <2>2, <2>3
<1>6. CASE u = t /\ h + 1 = g /\ k < l + P
  <2>1. P * g = P * h + P
    BY <1>2, <1>6
  <2>2. P * h \in Nat /\ P * g \in Nat /\ (P + 1) * t \in Nat
    BY <1>3
  <2> QED
    BY <1>6, <2>1, <2>2
<1> QED
  BY <1>4, <1>5, <1>6

\* A step that forwards: nothing is left to move that was not, and nothing new is
\* to be scanned but what has moved.
LEMMA ForwardCounts ==
    ASSUME HeapInv, HeapInv', Moving, NEW p \in Pointer, NEW q \in Pointer,
           NEW holders \in SUBSET live, Forwards(p, q, holders)
    PROVE  \/ Cardinality(ToMove') = Cardinality(ToMove) /\ gray' = gray
           \/ /\ Cardinality(ToMove') + 1 = Cardinality(ToMove)
              /\ Cardinality(gray') <= Cardinality(gray) + 1
<1> USE DEF HeapInv
<1>1. Stays(p, q) \/ Arrives(p, q) \/ Promoted(p, q)
  BY Outcomes DEF Forwards
<1>2. CASE Stays(p, q)
  BY <1>2 DEF Stays, ToMove
<1>3. CASE Goes(p, q)
  <2>1. /\ p \in Young \ arriving /\ p \in Current /\ q \notin Current /\ q \in To'
        /\ From \subseteq Young /\ To \cap Young = arriving /\ To' \cap Young = arriving'
        /\ To' = To \cup {q} /\ Nil \notin Young
    <3>1. From \subseteq Young /\ To \cap Young = arriving /\ Nil \notin Young /\ From \cap To = {}
      BY Apart, Layout DEF SpaceInv
    <3>2. To' \cap Young = arriving'
      BY Layout DEF SpaceInv, SpaceTypes, To
    <3>3. To' = To \cup {q}
      BY <1>3, ForwardedBoxes
    <3>4. p \in From \ marked /\ q \in Boxes \ (From \cup To)
      BY <1>3 DEF Goes
    <3> QED
      BY <3>1, <3>2, <3>3, <3>4 DEF Current
  <2>2. PICK o \in Objects : home[o] = p
    BY <2>1 DEF SpaceInv, HomesFit
  <2>3. \A x \in Objects : home[x] = p => x = o
    BY <2>1, <2>2, Apart DEF SpaceInv, HomesFit
  <2>4. \A x \in Objects : home'[x] = IF x = o THEN q ELSE home[x]
    BY <1>3, <2>2, <2>3 DEF Goes
  <2>5. \A x \in Objects : home[x] # q \/ q = Nil
    BY <2>1 DEF SpaceInv, HomesFit
  <2>6. ToMove' = ToMove \ {o} /\ o \in ToMove
    <3>1. o \in ToMove
      BY <2>1, <2>2 DEF ToMove
    <3>2. o \notin ToMove'
      BY <2>1, <2>4 DEF ToMove
    <3>3. \A x \in Objects \ {o} : x \in ToMove' <=> x \in ToMove
      BY <2>1, <2>4, <2>5 DEF ToMove
    <3> QED
      BY <3>1, <3>2, <3>3 DEF ToMove
  <2>7. Cardinality(ToMove') = Cardinality(ToMove) - 1
    BY <2>6, Counted, FS_RemoveElement
  <2>8. Cardinality(gray') <= Cardinality(gray) + 1
    <3>1. gray' = gray \cup {q}
      BY <1>3 DEF Goes
    <3>2. IsFiniteSet(gray) /\ Cardinality(gray) \in Nat
      BY Counted, FS_CardinalityType
    <3>3. Cardinality(gray \cup {q}) = IF q \in gray THEN Cardinality(gray) ELSE Cardinality(gray) + 1
      BY <3>2, FS_AddElement
    <3> QED
      BY <3>1, <3>2, <3>3
  <2>9. Cardinality(ToMove) \in Nat /\ Cardinality(ToMove') \in Nat
    BY <2>6, Counted, FS_CardinalityType, FS_RemoveElement
  <2> QED
    BY <2>7, <2>8, <2>9
<1> QED
  BY <1>1, <1>2, <1>3 DEF Arrives, Promoted

\* What forwarding a slot leaves of the object that is scanned.
LEMMA SlotDone ==
    ASSUME HeapInv, ForwardSlot
    PROVE  Len(left') < Len(left)
<1>1. left \in Seq(Slots) /\ left # <<>> /\ left' = Tail(left)
  BY DEF ForwardSlot, HeapInv, WorkInv, WorkTypes
<1> QED
  BY <1>1

\* What has to be done while objects move.
Weighs ==
    /\ Work = (PerObject + 1) * Cardinality(ToMove)
              + PerObject * (Cardinality(gray) + Cardinality(recalled))
              + (Len(left) + Cardinality(todo))
    /\ Cardinality(ToMove) \in Nat /\ Cardinality(gray) \in Nat
    /\ Cardinality(recalled) \in Nat /\ Cardinality(todo) \in Nat
    /\ Len(left) \in Nat /\ PerObject \in Nat

\* That is its measure then.
LEMMA WorkMoving == HeapInv /\ Moving => Weighs
<1> SUFFICES ASSUME HeapInv, Moving PROVE Weighs
  OBVIOUS
<1>1. /\ Cardinality(ToMove) \in Nat /\ Cardinality(gray) \in Nat
      /\ Cardinality(recalled) \in Nat /\ Cardinality(todo) \in Nat
      /\ Len(left) \in Nat /\ PerObject \in Nat
  BY Counted, FS_CardinalityType
<1>2. \A a, b \in Nat : a * b \in Nat
  OBVIOUS
<1>3. /\ (PerObject + 1) * Cardinality(ToMove) \in Nat
      /\ PerObject * (Cardinality(gray) + Cardinality(recalled)) \in Nat
  BY <1>1, <1>2
<1>4. Work = (PerObject + 1) * Cardinality(ToMove)
             + PerObject * (Cardinality(gray) + Cardinality(recalled))
             + Len(left) + Cardinality(todo)
  BY DEF Work, Moving
<1> QED
  BY <1>1, <1>3, <1>4 DEF Weighs

\* Forwarding a root or a slot, and picking an object, leave less to do.
LEMMA MovingEnds ==
    ASSUME HeapInv, HeapInv', ForwardRoot \/ Scan \/ ForwardSlot
    PROVE  phase' = phase /\ Work' < Work
<1> DEFINE T == Cardinality(ToMove)
           U == Cardinality(ToMove')
           G == Cardinality(gray) + Cardinality(recalled)
           H == Cardinality(gray') + Cardinality(recalled')
           L == Len(left) + Cardinality(todo)
           K == Len(left') + Cardinality(todo')
<1>1. phase' = phase /\ Moving /\ Moving'
  BY DEF ForwardRoot, Scan, ForwardSlot, Moving
<1>2. Weighs /\ Weighs'
  BY <1>1, WorkMoving, PTL
<1>3. /\ Cardinality(ToMove) \in Nat /\ Cardinality(gray) \in Nat
      /\ Cardinality(recalled) \in Nat /\ Cardinality(todo) \in Nat
      /\ Cardinality(ToMove') \in Nat /\ Cardinality(gray') \in Nat
      /\ Cardinality(recalled') \in Nat /\ Cardinality(todo') \in Nat
      /\ Len(left) \in Nat /\ Len(left') \in Nat /\ PerObject \in Nat
  BY <1>2, Zenon DEF Weighs
<1>4. Work = (PerObject + 1) * T + PerObject * G + L
  BY <1>2, Zenon DEF Weighs
<1>5. Work' = (PerObject + 1) * U + PerObject * H + K
  BY <1>2, Zenon DEF Weighs
<1>6. /\ T \in Nat /\ U \in Nat /\ G \in Nat /\ H \in Nat /\ L \in Nat /\ K \in Nat
  BY <1>3
<1>7. \/ U = T /\ H = G /\ K < L
      \/ U + 1 = T /\ H <= G + 1 /\ K < L
      \/ U = T /\ H + 1 = G /\ K < L + PerObject
  <2> USE DEF HeapInv
  <2>1. CASE ForwardRoot
    <3>1. PICK r \in todo, q \in Pointer :
             root[r] \in Pointer /\ Forwards(root[r], q, {}) /\ todo' = todo \ {r}
      BY <2>1, ForwardRootIs
    <3>2. \/ U = T /\ gray' = gray
          \/ U + 1 = T /\ Cardinality(gray') <= Cardinality(gray) + 1
      BY <1>1, <3>1, ForwardCounts
    <3>3. Cardinality(todo') = Cardinality(todo) - 1
      BY <3>1, Counted, FS_RemoveElement
    <3>4. recalled' = recalled /\ left' = left
      BY <2>1 DEF ForwardRoot
    <3> QED
      BY <1>3, <3>2, <3>3, <3>4
  <2>2. CASE ForwardSlot
    <3>1. PICK s \in Slots, q \in Pointer, holders \in SUBSET live :
             obj[at][s] \in Pointer /\ Forwards(obj[at][s], q, holders)
      BY <2>2, ForwardSlotIs
    <3>2. \/ U = T /\ gray' = gray
          \/ U + 1 = T /\ Cardinality(gray') <= Cardinality(gray) + 1
      BY <1>1, <3>1, ForwardCounts
    <3>3. Len(left') < Len(left)
      BY <2>2, SlotDone
    <3>4. recalled' = recalled /\ todo' = todo
      BY <2>2 DEF ForwardSlot
    <3> QED
      BY <1>3, <3>2, <3>3, <3>4
  <2>3. CASE Scan
    <3>1. ToMove' = ToMove /\ todo' = todo
      BY <2>3 DEF Scan, heap, ToMove
    <3>2. left = <<>> /\ left' = SlotOrder
      BY <2>3 DEF Scan
    <3>3. Len(left) = 0 /\ Len(left') + 2 = PerObject
      BY <3>2, HeapAssumption DEF PerObject
    <3>4. \/ recalled' = recalled \ {at'} /\ at' \in recalled /\ gray' = gray
          \/ gray' = gray \ {at'} /\ at' \in gray /\ recalled' = recalled
      <4>1. gray \subseteq Nat /\ recalled \subseteq Nat
        BY Layout DEF WorkInv, WorkTypes
      <4> QED
        BY <2>3, <4>1, MinIn DEF Scan
    <3>5. H + 1 = G
      <4>1. CASE recalled' = recalled \ {at'} /\ at' \in recalled /\ gray' = gray
        <5>1. Cardinality(recalled') = Cardinality(recalled) - 1
          BY <4>1, Counted, FS_RemoveElement
        <5> QED
          BY <1>3, <4>1, <5>1
      <4>2. CASE gray' = gray \ {at'} /\ at' \in gray /\ recalled' = recalled
        <5>1. Cardinality(gray') = Cardinality(gray) - 1
          BY <4>2, Counted, FS_RemoveElement
        <5> QED
          BY <1>3, <4>2, <5>1
      <4> QED
        BY <3>4, <4>1, <4>2
    <3>6. U = T
      BY <3>1
    <3>7. K < L + PerObject
      BY <1>3, <3>1, <3>3
    <3> QED
      BY <3>5, <3>6, <3>7
  <2> QED
    BY <2>1, <2>2, <2>3
<1> HIDE DEF T, U, G, H, L, K
<1>8. (PerObject + 1) * U + PerObject * H + K < (PerObject + 1) * T + PerObject * G + L
  BY <1>3, <1>6, <1>7, Lighter
<1> QED
  BY <1>1, <1>4, <1>5, <1>8

\* Marking leaves less to mark.
LEMMA MarkingEnds ==
    ASSUME HeapInv, MarkChildren
    PROVE  phase' = phase /\ Work' < Work
<1> USE DEF HeapInv
<1>1. /\ phase = "mark" /\ phase' = phase /\ gray # {} /\ live' = live
  BY DEF MarkChildren, Reach
<1>2. PICK fresh \in SUBSET (live \ marked) : gray' = fresh /\ marked' = marked \cup fresh
  BY DEF MarkChildren, Reach
<1>3. IsFiniteSet(live \ marked) /\ IsFiniteSet(gray)
  BY Counted
<1>4. live' \ marked' = (live \ marked) \ fresh /\ (live \ marked) \cap fresh = fresh
  BY <1>1, <1>2
<1> DEFINE M == Cardinality(live \ marked)
           N == Cardinality((live \ marked) \ fresh)
           F == Cardinality(fresh)
           G == Cardinality(gray)
<1>5. M \in Nat /\ F \in Nat /\ G \in Nat /\ N \in Nat /\ F <= M
  BY <1>2, <1>3, FS_CardinalityType, FS_Subset, FS_Difference
<1>6. N = M - F
  <2>1. N = M - Cardinality((live \ marked) \cap fresh)
    BY <1>3, FS_Difference
  <2> QED
    BY <1>4, <2>1
<1>7. G # 0
  BY <1>1, <1>3, FS_EmptySet
<1>8. Work = 2 * M + G /\ Work' = 2 * N + F
  BY <1>1, <1>2, <1>4 DEF Work
<1> HIDE DEF M, N, F, G
<1>9. 2 * N + F < 2 * M + G
  BY <1>5, <1>6, <1>7
<1> QED
  BY <1>1, <1>8, <1>9

\* Every step of a collection is a step towards its end.
LEMMA StepsEnd ==
    ASSUME HeapInv, HeapInv', [Next]_vars
    PROVE  [phase # "run" => \/ Stage(phase') < Stage(phase)
                             \/ (phase' = phase /\ Work' < Work)]_vars
<1>1. SUFFICES ASSUME Next, phase # "run"
               PROVE  Stage(phase') < Stage(phase) \/ (phase' = phase /\ Work' < Work)
  OBVIOUS
<1>2. CASE ForwardRoot \/ Scan \/ ForwardSlot
  BY <1>2, MovingEnds
<1>3. CASE MarkChildren
  BY <1>3, MarkingEnds
<1>4. /\ Stage("forward") = 4 /\ Stage("scan") = 3 /\ Stage("roots") = 2
      /\ Stage("mark") = 1 /\ Stage("run") = 0
  BY DEF Stage
<1>5. CASE Recall
  BY <1>4, <1>5 DEF Recall
<1>6. CASE ResetNursery
  <2>1. phase = "scan" /\ phase' \in {"run", "roots"}
    BY <1>6 DEF ResetNursery
  <2> QED
    BY <1>4, <2>1
<1>7. CASE MarkRoots
  BY <1>4, <1>7 DEF MarkRoots
<1>8. CASE Sweep
  BY <1>4, <1>8 DEF Sweep
<1> QED
  BY <1>1, <1>2, <1>3, <1>5, <1>6, <1>7, <1>8 DEF Next, Program, Collector

\* A collection, once begun, comes to its end, whatever cycles the objects are
\* in, and a major one leaves exactly what can be reached.
THEOREM CollectionsFinish ==
    ASSUME ~RaiseKept
    PROVE  Spec => CollectionsDoTheirWork
<1>1. Init => MarkedReached
  BY DEF Init, MarkedReached
<1>2. HeapInv /\ View /\ View' /\ MarkedReached /\ [Next]_vars => MarkedReached'
  BY ReachedKept
<1>3. Spec => []View
  BY HeapInvariant, Viewed, PTL
<1>4. Spec => []MarkedReached
  BY <1>1, <1>2, <1>3, HeapInvariant, PTL DEF Spec
<1>5. HeapInv /\ HeapInv' /\ View /\ View' /\ MarkedReached /\ [Next]_vars
        => [phase = "mark" /\ phase' = "run" => Objects \ Homeless' = Abs!Reached']_vars
  BY MajorExact
<1>6. Spec => MajorReclaims
  BY <1>3, <1>4, <1>5, HeapInvariant, PTL DEF Spec, MajorReclaims
<1>7. HeapInv /\ HeapInv' /\ [Next]_vars
        => [phase # "run" => \/ Stage(phase') < Stage(phase)
                             \/ (phase' = phase /\ Work' < Work)]_vars
  BY StepsEnd
<1>8. Spec => CollectionsEnd
  BY <1>7, HeapInvariant, PTL DEF Spec, CollectionsEnd
<1> QED
  BY <1>6, <1>8, PTL DEF CollectionsDoTheirWork
=============================================================================
