-------------------------- MODULE PackageSyncProofs --------------------------
(* Proofs about PackageSync: commands take turns, a failure changes nothing,  *)
(* and what killed commands left is put right, for any number of commands,    *)
(* packages, kills and faults.                                                *)
EXTENDS PackageSync, SequenceTheorems, FiniteSetTheorems, WellFoundedInduction, TLAPS

-----------------------------------------------------------------------------
(* Where a command is *)

\* Before it has the lock; with its own moves under way; between two moves.
Before == {"start"} \cup LockPlaces
Between == {"noteOut", "moveIn", "noteIn"}
Moving == {"move"} \cup Between

\* Undoing its own moves, or what killed commands left.
Undoing(p) == pc[p] \in {"undo", "putBack"} /\ cmd[p].of = p
Mending(p) ==
    \/ pc[p] \in {"recover", "sweep", "clear"}
    \/ pc[p] \in {"undo", "putBack"} /\ cmd[p].of # p

\* Without a transaction of its own yet, or for good.
Without(p) == pc[p] \in Before \cup {"plan", "stage", "clean"} \/ Mending(p)

\* With a plan, and nothing of it saved yet.
Planned(p) ==
    \/ pc[p] \in {"stage", "begin", "hooks", "rolledBack"} \cup Moving
    \/ Undoing(p)
    \/ pc[p] \in {"finish", "release"} /\ cmd[p].failed

-----------------------------------------------------------------------------
(* Types *)

File == [Packages -> Versions \cup {None}]
Disk == (SUBSET Packages) \X File \X File \X Tree
Memory ==
    [op : {"install", "uninstall", "restore", "clean"}, dry : BOOLEAN,
     declared : SUBSET Packages, target : File, todo : SUBSET Packages,
     done : Seq(Entry), visit : SUBSET Commands, of : Commands \cup {None},
     left : Seq(Entry), failed : BOOLEAN, before : {<<>>} \cup Disk]

Types ==
    /\ LockTypeOK
    /\ pc \in [Commands -> {"start"} \cup LockPlaces \cup WorkPlaces \cup Ended]
    /\ manifest \in SUBSET Packages
    /\ lockfile \in File
    /\ record \in File
    /\ libs \in Tree
    /\ staging \in [Commands -> Root \cup {None}]
    /\ jobs \in Jobs
    /\ theirs \in SUBSET Packages
    /\ cmd \in [Commands -> Memory]
    /\ kills \in 0 .. MaxKills
    /\ faults \in 0 .. MaxFaults
    /\ overlap \in BOOLEAN
    /\ unlucky \in BOOLEAN

\* Whose the lock is.
Owned(p) ==
    pc[p] = "write" \/ (Working(p) /\ ~cmd[p].dry)
        => p \in robbed \/ (lockFile # None /\ lockFile.by = p)

\* At work, and with the packages in hand: a failure has not ended it.
InHand(p) == Working(p) /\ pc[p] # "raise"

\* A log names no package twice.
Distinct(log) == \A i, j \in DOMAIN log : log[i].pkg = log[j].pkg => i = j

\* What a command holds in memory, by where it is.
Places(p) ==
    /\ Without(p) => staging[p] = None
    /\ Without(p) \/ pc[p] = "begin" => cmd[p].done = <<>> /\ ~cmd[p].failed
    /\ Mending(p) => p \notin cmd[p].visit
    /\ pc[p] \in Before \cup {"recover"} => cmd[p].visit = {}
    /\ pc[p] \in {"undo", "putBack", "clear"} => cmd[p].of \in Commands
    /\ pc[p] = "putBack" => cmd[p].left # <<>>
    /\ pc[p] \in Moving \cup {"hooks", "record", "lock", "manifest"} => ~cmd[p].failed
    /\ pc[p] \in {"hooks", "record", "lock", "manifest"} => cmd[p].todo = {}
    /\ Undoing(p) \/ pc[p] = "rolledBack" => cmd[p].failed

Log(p) ==
    /\ Distinct(cmd[p].done)
    /\ pc[p] = "move" => \A i \in DOMAIN cmd[p].done : cmd[p].done[i].pkg \notin cmd[p].todo
    /\ pc[p] \in Between =>
          /\ cmd[p].todo # {} /\ cmd[p].done # <<>>
          /\ cmd[p].done[Len(cmd[p].done)].pkg = Turn(p)
          /\ cmd[p].done[Len(cmd[p].done)].new <=> pc[p] = "noteIn"
          /\ \A i \in DOMAIN cmd[p].done :
                i # Len(cmd[p].done) => cmd[p].done[i].pkg \notin cmd[p].todo
    /\ pc[p] \in {"moveIn", "noteIn"} => cmd[p].target[Turn(p)] # None
    /\ staging[p] # None =>
          /\ Distinct(staging[p].done)
          /\ staging[p].state = "staging" => staging[p].done = <<>>

\* What others put there is there, and nobody is about to move it.
Safe(k) ==
    /\ libs[k] = Hand
    /\ record[k] = None
    /\ \A p \in Commands :
          /\ pc[p] \in {"stage", "begin", "clean"} \cup Moving => k \notin cmd[p].todo
          /\ \A i \in DOMAIN cmd[p].done : cmd[p].done[i].pkg # k
          /\ \A i \in DOMAIN cmd[p].left : cmd[p].left[i].pkg # k
          /\ staging[p] # None => \A i \in DOMAIN staging[p].done : staging[p].done[i].pkg # k
          /\ pc[p] \in {"stage", "begin", "hooks", "record"} \cup Moving => cmd[p].target[k] = None

-----------------------------------------------------------------------------
(* While commands have taken turns *)

Alone == \A p, q \in Commands : Working(p) /\ Working(q) => p = q
OneLeft == \A q, r \in Commands : staging[q] # None /\ staging[r] # None => q = r

\* What a command at work may still find in the staging directory.
Found(p) ==
    InHand(p) =>
        /\ \A q \in Commands : staging[q] # None =>
              /\ ~Mending(p) => q = p
              /\ pc[p] = "sweep" => q \in cmd[p].visit
              /\ Mending(p) /\ pc[p] \in {"undo", "putBack", "clear"}
                    => q \in cmd[p].visit \cup {cmd[p].of}
        /\ Mending(p) => \A q \in cmd[p].visit : staging[q] # None
        /\ Mending(p) /\ pc[p] \in {"undo", "putBack", "clear"} => cmd[p].of \notin cmd[p].visit

\* What .zuri/libs was when the command made its plan.
Was(p) == cmd[p].before[4]

\* A log tells what has been moved since.
Tells(p, log) ==
    /\ \A k \in Packages :
          (\A i \in DOMAIN log : log[i].pkg # k) => libs[k] = Was(p)[k]
    /\ \A i \in DOMAIN log :
          /\ log[i].old <=> Was(p)[log[i].pkg] # None
          /\ log[i].old => staging[p].old[log[i].pkg] = Was(p)[log[i].pkg]
          /\ ~log[i].new => libs[log[i].pkg] = None

IsPrefixOf(s, t) == Len(s) <= Len(t) /\ \A i \in DOMAIN s : s[i] = t[i]

\* Its own transaction.
Own(p) ==
    /\ Planned(p) => cmd[p].before = <<manifest, lockfile, record, Was(p)>>
    /\ \/ pc[p] \in {"stage", "begin", "rolledBack"}
       \/ pc[p] \in {"finish", "release"} /\ cmd[p].failed
       => libs = Was(p)
    /\ pc[p] \in Moving \cup {"begin", "hooks", "rolledBack"} \/ Undoing(p) =>
          /\ staging[p] # None
          /\ \A k \in Packages : staging[p].old[k] \in {None, Was(p)[k]}
    /\ pc[p] \in Moving \cup {"hooks"} => Tells(p, cmd[p].done)
    /\ Undoing(p) => IsPrefixOf(cmd[p].left, cmd[p].done) /\ Tells(p, cmd[p].left)
    /\ Undoing(p) /\ pc[p] = "putBack" => libs[cmd[p].left[Len(cmd[p].left)].pkg] = None

\* What its journal says.
Journalled(p) ==
    /\ pc[p] = "begin" => staging[p].state = "staging"
    /\ pc[p] \in {"move", "moveIn"} => staging[p].done = cmd[p].done
    /\ pc[p] = "noteOut" => staging[p].done = SubSeq(cmd[p].done, 1, Len(cmd[p].done) - 1)
    /\ pc[p] = "noteIn" => staging[p].done = [cmd[p].done EXCEPT ![Len(cmd[p].done)].new = FALSE]
    /\ Undoing(p) /\ cmd[p].todo # {} => staging[p].done = cmd[p].done
    /\ pc[p] \in Moving \/ (Undoing(p) /\ cmd[p].todo # {}) => staging[p].state = "swapping"
    /\ pc[p] \in {"lock", "manifest", "finish", "release"} /\ staging[p] # None
          => staging[p].state # "swapping"
    /\ pc[p] \in {"hooks", "record"} => staging[p].state # "swapping"

\* What it undoes of another's.
Others(p) ==
    Mending(p) /\ pc[p] \in {"undo", "putBack"} =>
        /\ staging[cmd[p].of] # None
        /\ staging[cmd[p].of].state = "swapping"
        /\ IsPrefixOf(cmd[p].left, staging[cmd[p].of].done)

-----------------------------------------------------------------------------
(* Putting right *)

Zuris == Packages \ theirs
Fine(k) == libs[k] \in {None, record[k]}
AllFine == \A k \in Zuris : Fine(k)

Swapping(q) == staging[q] # None /\ staging[q].state = "swapping"

\* What undoing the journal of a killed command puts right.
Mendable(q) ==
    /\ \A k \in Zuris : staging[q].old[k] \in {None, record[k]}
    /\ \A k \in Zuris : (\A i \in DOMAIN staging[q].done : staging[q].done[i].pkg # k) => Fine(k)
    /\ \A i \in DOMAIN staging[q].done :
          \/ staging[q].done[i].new
          \/ Fine(staging[q].done[i].pkg)
          \/ staging[q].done[i].old /\ staging[q].old[staging[q].done[i].pkg] # None

Left == \A q \in Commands : Swapping(q) /\ ~InHand(q) => Mendable(q)

Quiet ==
    /\ \A q \in Commands : InHand(q) => Mending(q)
    /\ \A q \in Commands : ~Swapping(q)
    => AllFine

Mended(p) ==
    /\ Mending(p) /\ pc[p] \in {"undo", "putBack"} =>
          \A i \in DOMAIN staging[cmd[p].of].done :
              i > Len(cmd[p].left) => Fine(staging[cmd[p].of].done[i].pkg)
    /\ Mending(p) /\ pc[p] = "putBack" =>
          (cmd[p].left[Len(cmd[p].left)].new => libs[cmd[p].left[Len(cmd[p].left)].pkg] = None)
    /\ pc[p] \in {"clear", "plan", "clean", "lock", "manifest", "finish", "release"} => AllFine

\* What a command makes of the packages: what it may go back to, what it has dealt
\* with, what it has staged, what it has cleaned.
GoesBack(p) == Planned(p) => \A k \in Zuris : Was(p)[k] \in {None, record[k]}
Settles(p) ==
    pc[p] \in {"stage", "begin", "hooks", "record"} \cup Moving =>
        \A k \in Zuris : k \in cmd[p].todo \/ libs[k] \in {None, cmd[p].target[k]}
Stocked(p) ==
    /\ pc[p] \in {"begin", "move", "noteOut", "moveIn"} =>
          \A k \in cmd[p].todo : staging[p].new[k] = cmd[p].target[k]
    /\ pc[p] = "noteIn" =>
          /\ libs[Turn(p)] = cmd[p].target[Turn(p)]
          /\ \A k \in cmd[p].todo \ {Turn(p)} : staging[p].new[k] = cmd[p].target[k]
Cleans(p) ==
    pc[p] = "clean" => \A k \in Zuris : k \in cmd[p].todo \/ libs[k] = None
Makes(p) == GoesBack(p) /\ Settles(p) /\ Stocked(p) /\ Cleans(p)

SoloInv ==
    ~overlap =>
        /\ Alone /\ OneLeft
        /\ \A p \in Commands : Found(p) /\ Own(p) /\ Journalled(p) /\ Others(p)
MendInv ==
    ~overlap /\ ~unlucky =>
        /\ Left /\ Quiet
        /\ \A p \in Commands : Mended(p) /\ Makes(p)
AllOwned == \A p \in Commands : Owned(p)
AllPlaces == \A p \in Commands : Places(p)
AllLogs == \A p \in Commands : Log(p)
AllSafe == \A k \in theirs : Safe(k)

-----------------------------------------------------------------------------
(* The packages in order, logs and memory *)

\* The foremost of some packages is one of them.
LEMMA ForemostIn ==
    ASSUME NEW S \in SUBSET Packages, S # {}
    PROVE  Foremost(S) \in S
<1> DEFINE N == {n \in DOMAIN Order : Order[n] \in S}
<1>1. Order \in Seq(Packages) /\ DOMAIN Order = 1 .. Len(Order) /\ Len(Order) \in Nat
  BY JobsAssumption, LenProperties
<1>2. \A k \in Packages : \E n \in DOMAIN Order : Order[n] = k
  BY DEF Packages, Range
<1>3. N \in SUBSET Nat /\ N # {}
  BY <1>1, <1>2
<1> HIDE DEF N
<1>4. PICK n \in N : \A m \in N : ~ (<<m, n>> \in OpToRel(<, Nat))
  BY <1>3, NatLessThanWellFounded, WFMin
<1>5. \A m \in N : n <= m
  <2>1. SUFFICES ASSUME NEW m \in N PROVE n <= m
    OBVIOUS
  <2>2. ~ (m < n)
    BY <1>3, <1>4 DEF OpToRel
  <2> QED
    BY <1>3, <2>2
<1>6. n \in DOMAIN Order /\ Order[n] \in S /\ n \in Nat
  BY <1>3 DEF N
<1>7. \A m \in 1 .. n - 1 : Order[m] \notin S
  <2>1. SUFFICES ASSUME NEW m \in 1 .. n - 1, Order[m] \in S PROVE FALSE
    OBVIOUS
  <2>2. m \in N
    BY <1>1, <1>6, <2>1 DEF N
  <2> QED
    BY <1>5, <1>6, <2>2
<1> QED
  BY <1>6, <1>7 DEF Foremost

\* Whose turn it is is still to do.
LEMMA TurnIn ==
    ASSUME NEW p, cmd[p].todo \in SUBSET Packages, cmd[p].todo # {}
    PROVE  Turn(p) \in cmd[p].todo
<1> DEFINE toGo == {k \in cmd[p].todo : cmd[p].target[k] = None}
           S == IF cmd[p].op # "clean" /\ toGo # {} THEN toGo ELSE cmd[p].todo
<1>1. S \in SUBSET Packages /\ S # {} /\ S \subseteq cmd[p].todo
  OBVIOUS
<1>2. Turn(p) = Foremost(S)
  BY DEF Turn
<1> HIDE DEF S
<1> QED
  BY <1>1, <1>2, ForemostIn

\* What a log is made of.
LEMMA LogIs ==
    ASSUME NEW log \in Seq(Entry)
    PROVE  /\ Len(log) \in Nat /\ DOMAIN log = 1 .. Len(log)
           /\ \A i \in DOMAIN log : log[i] \in Entry
           /\ log # <<>> => Len(log) \in DOMAIN log /\ Len(log) > 0
BY LenProperties, EmptySeq, ElementOfSeq

\* All but the newest entry, and that one.
LEMMA FrontIs ==
    ASSUME NEW log \in Seq(Entry), log # <<>>
    PROVE  /\ Front(log) \in Seq(Entry)
           /\ Len(Front(log)) = Len(log) - 1
           /\ DOMAIN Front(log) = 1 .. Len(log) - 1
           /\ \A i \in DOMAIN Front(log) : Front(log)[i] = log[i]
           /\ Last(log) = log[Len(log)]
           /\ Front(log) = SubSeq(log, 1, Len(log) - 1)
<1> DEFINE n == Len(log)
<1>1. n \in Nat /\ n > 0 /\ \A i \in 1 .. n : log[i] \in Entry
  BY LogIs
<1>2. Front(log) = SubSeq(log, 1, n - 1) /\ Last(log) = log[n]
  BY DEF Front, Last
<1> HIDE DEF n
<1>3. \A i \in 1 .. n - 1 : log[i] \in Entry
  BY <1>1
<1>4. /\ SubSeq(log, 1, n - 1) \in Seq(Entry)
      /\ Len(SubSeq(log, 1, n - 1)) = IF 1 <= n - 1 THEN n - 1 - 1 + 1 ELSE 0
      /\ \A i \in 1 .. n - 1 - 1 + 1 : SubSeq(log, 1, n - 1)[i] = log[1 + i - 1]
  <2>1. 1 \in Int /\ n - 1 \in Int
    BY <1>1
  <2> QED
    BY <1>3, <2>1, SubSeqProperties
<1>5. Len(Front(log)) = n - 1
  BY <1>1, <1>2, <1>4
<1>6. DOMAIN Front(log) = 1 .. n - 1
  BY <1>2, <1>4, <1>5, LenProperties
<1> QED
  BY <1>1, <1>2, <1>4, <1>5, <1>6 DEF n

\* A log with one more entry.
LEMMA AppendIs ==
    ASSUME NEW log \in Seq(Entry), NEW e \in Entry
    PROVE  /\ Append(log, e) \in Seq(Entry)
           /\ Len(Append(log, e)) = Len(log) + 1
           /\ DOMAIN Append(log, e) = 1 .. Len(log) + 1
           /\ \A i \in DOMAIN log : Append(log, e)[i] = log[i]
           /\ Append(log, e)[Len(log) + 1] = e
           /\ Append(log, e) # <<>>
           /\ Append(log, e)[Len(Append(log, e))] = e
<1>1. Append(log, e) \in Seq(Entry) /\ Len(Append(log, e)) = Len(log) + 1
  BY AppendProperties
<1>2. Len(log) \in Nat /\ DOMAIN log = 1 .. Len(log)
  BY LogIs
<1>3. /\ \A i \in 1 .. Len(log) : Append(log, e)[i] = log[i]
      /\ Append(log, e)[Len(log) + 1] = e
  BY AppendProperties
<1>4. Append(log, e) # <<>>
  BY <1>1, <1>2, EmptySeq
<1> QED
  BY <1>1, <1>2, <1>3, <1>4, LenProperties

\* A log whose newest entry is told whether the new package is in place.
LEMMA MarkIs ==
    ASSUME NEW log \in Seq(Entry), log # <<>>, NEW b \in BOOLEAN,
           NEW marked, marked = [log EXCEPT ![Len(log)].new = b]
    PROVE  /\ marked \in Seq(Entry)
           /\ Len(marked) = Len(log) /\ DOMAIN marked = DOMAIN log
           /\ \A i \in DOMAIN log : marked[i].pkg = log[i].pkg /\ marked[i].old = log[i].old
           /\ \A i \in DOMAIN log : i # Len(log) => marked[i] = log[i]
           /\ marked[Len(log)].new = b
           /\ marked # <<>>
<1> DEFINE n == Len(log)
           e == [log[n] EXCEPT !.new = b]
<1>1. n \in 1 .. Len(log) /\ log[n] \in Entry /\ DOMAIN log = 1 .. Len(log)
  BY LogIs
<1>2. e \in Entry /\ e.pkg = log[n].pkg /\ e.old = log[n].old /\ e.new = b
  BY <1>1 DEF Entry
<1>3. marked = [log EXCEPT ![n] = e]
  OBVIOUS
<1> HIDE DEF n, e
<1>4. /\ marked \in Seq(Entry) /\ Len(marked) = Len(log)
      /\ \A j \in 1 .. Len(log) : marked[j] = IF j = n THEN e ELSE log[j]
  BY <1>1, <1>2, <1>3, ExceptSeq
<1>5. DOMAIN marked = DOMAIN log
  BY <1>1, <1>4, LogIs
<1>6. marked # <<>>
  BY <1>1, <1>4, EmptySeq
<1> QED
  BY <1>1, <1>2, <1>4, <1>5, <1>6 DEF n

\* What a command holds in memory when one thing of it changes.
LEMMA MemoryWith ==
    ASSUME NEW m \in Memory
    PROVE  /\ \A x \in SUBSET Packages : [m EXCEPT !.todo = x] \in Memory
           /\ \A x \in Seq(Entry) : [m EXCEPT !.done = x] \in Memory
           /\ \A x \in Seq(Entry) : [m EXCEPT !.left = x] \in Memory
           /\ \A x \in SUBSET Commands : [m EXCEPT !.visit = x] \in Memory
           /\ \A x \in Commands \cup {None} : [m EXCEPT !.of = x] \in Memory
           /\ \A x \in BOOLEAN : [m EXCEPT !.failed = x] \in Memory
           /\ \A x \in {<<>>} \cup Disk : [m EXCEPT !.before = x] \in Memory
           /\ \A x \in File : [m EXCEPT !.target = x] \in Memory
BY DEF Memory

\* A command that has nothing in memory.
LEMMA BlankIs == Blank \in Memory /\ Nothing \in File /\ Nothing \in Tree
<1>1. <<>> \in Seq(Entry)
  BY EmptySeq
<1>2. Nothing \in File /\ Nothing \in Tree
  BY DEF Nothing, File, Tree
<1> QED
  BY <1>1, <1>2 DEF Blank, Memory
-----------------------------------------------------------------------------
(* Types *)

\* At the start everything has its type.
LEMMA TypesInit == Init => Types
<1> SUFFICES ASSUME Init PROVE Types
  OBVIOUS
<1> USE DEF Init
<1>1. LockTypeOK /\ pc \in [Commands -> {"start"} \cup LockPlaces \cup WorkPlaces \cup Ended]
  BY DEF LockInit, LockTypeOK
<1>2. lockfile \in File /\ record \in File /\ manifest \in SUBSET Packages
  BY JobsAssumption DEF File
<1>3. libs \in Tree
  BY <1>2 DEF File, Tree
<1>4. /\ staging \in [Commands -> Root \cup {None}] /\ jobs \in Jobs
      /\ theirs \in SUBSET Packages /\ overlap \in BOOLEAN /\ unlucky \in BOOLEAN
  OBVIOUS
<1>5. cmd \in [Commands -> Memory]
  BY BlankIs
<1>6. kills \in 0 .. MaxKills /\ faults \in 0 .. MaxFaults
  BY JobsAssumption
<1> QED
  BY <1>1, <1>2, <1>3, <1>4, <1>5, <1>6 DEF Types

\* What a command does about the lock.
LEMMA LockTypes ==
    ASSUME Types, NEW p \in Commands, Acquire(p) \/ LetGo(p), overlap' \in BOOLEAN
    PROVE  Types'
<1> DEFINE AnyPlace == {"start"} \cup LockPlaces \cup WorkPlaces \cup Ended
<1>1. /\ lockFile \in LockFile \cup {None} /\ seen \in [Commands -> Commands \cup {None}]
      /\ robbed \subseteq Commands /\ pc \in [Commands -> AnyPlace]
  BY DEF Types, LockTypeOK
<1>2. \E place \in AnyPlace : Goto(p, place)
  <2> USE DEF AnyPlace, LockPlaces, WorkPlaces, Ended
  <2>1. CASE Acquire(p)
    BY <2>1 DEF Acquire, Wait, Try, Exists, Read, Judge, Break, Write
  <2>2. CASE LetGo(p)
    BY <2>2 DEF LetGo, Release
  <2> QED
    BY <2>1, <2>2
<1>3. pc' \in [Commands -> AnyPlace]
  BY <1>1, <1>2 DEF Goto
<1>4. lockFile' \in LockFile \cup {None}
  <2>1. \/ lockFile' = lockFile \/ lockFile' = None \/ lockFile' = [by |-> p, written |-> FALSE]
        \/ lockFile # None /\ lockFile' = [lockFile EXCEPT !.written = TRUE]
    BY DEF Acquire, Wait, Try, Exists, Read, Judge, Break, Write, LetGo, Release
  <2>2. \A f \in LockFile : [f EXCEPT !.written = TRUE] \in LockFile
    BY DEF LockFile
  <2>3. [by |-> p, written |-> FALSE] \in LockFile
    BY DEF LockFile
  <2> QED
    BY <1>1, <2>1, <2>2, <2>3
<1>5. seen' \in [Commands -> Commands \cup {None}]
  <2>1. \/ seen' = seen \/ seen' = [seen EXCEPT ![p] = None]
        \/ lockFile # None /\ seen' = [seen EXCEPT ![p] = lockFile.by]
    BY DEF Acquire, Wait, Try, Exists, Read, Judge, Break, Write, LetGo, Release
  <2> QED
    BY <1>1, <2>1 DEF LockFile
<1>6. robbed' \subseteq Commands
  <2>1. robbed' = robbed \/ (lockFile # None /\ robbed' = robbed \cup {lockFile.by})
    BY DEF Acquire, Wait, Try, Exists, Read, Judge, Break, Write, LetGo, Release
  <2> QED
    BY <1>1, <2>1 DEF LockFile
<1>7. cmd' \in [Commands -> Memory]
  <2>1. cmd' = cmd \/ cmd' = [cmd EXCEPT ![p] = Blank]
    BY DEF Acquire, LetGo
  <2> QED
    BY <2>1, BlankIs DEF Types
<1>8. UNCHANGED <<disk, bounds>>
  BY DEF Acquire, LetGo
<1> QED
  BY <1>3, <1>4, <1>5, <1>6, <1>7, <1>8 DEF Types, LockTypeOK, disk, bounds

\* A step that leaves the lock and the bounds alone keeps the types if what it
\* writes has its type.
LEMMA WorkTypes ==
    ASSUME Types, NEW p \in Commands, NEW place \in WorkPlaces \cup LockPlaces \cup Ended,
           Goto(p, place), UNCHANGED <<lockFile, seen, robbed, jobs, theirs, kills>>,
           manifest' \in SUBSET Packages, lockfile' \in File, record' \in File, libs' \in Tree,
           staging' \in [Commands -> Root \cup {None}], cmd' \in [Commands -> Memory],
           faults' \in 0 .. MaxFaults, overlap' \in BOOLEAN, unlucky' \in BOOLEAN
    PROVE  Types'
<1>1. LockTypeOK'
  BY DEF LockTypeOK, Types
<1>2. pc' \in [Commands -> {"start"} \cup LockPlaces \cup WorkPlaces \cup Ended]
  BY DEF Types, Goto
<1> QED
  BY <1>1, <1>2 DEF Types
\* The trees after one package of them has changed.
LEMMA TreeWith ==
    ASSUME NEW t \in Tree, NEW k \in Packages
    PROVE  /\ [t EXCEPT ![k] = None] \in Tree
           /\ \A x \in Versions \cup {None, Hand} : [t EXCEPT ![k] = x] \in Tree
BY DEF Tree

\* A transaction directory when one thing of it changes.
LEMMA RootWith ==
    ASSUME NEW r \in Root
    PROVE  /\ \A x \in Tree : [r EXCEPT !.old = x] \in Root
           /\ \A x \in Tree : [r EXCEPT !.new = x] \in Root
           /\ \A x \in States, y \in Seq(Entry) : [r EXCEPT !.state = x, !.done = y] \in Root
           /\ r.old \in Tree /\ r.new \in Tree /\ r.done \in Seq(Entry) /\ r.state \in States
           /\ r # None
<1>1. /\ \A x \in Tree : [r EXCEPT !.old = x] \in Root
      /\ \A x \in Tree : [r EXCEPT !.new = x] \in Root
  BY DEF Root
<1>2. \A x \in States, y \in Seq(Entry) : [r EXCEPT !.state = x, !.done = y] \in Root
  <2>1. SUFFICES ASSUME NEW x \in States, NEW y \in Seq(Entry)
                 PROVE  [r EXCEPT !.state = x, !.done = y] \in Root
    OBVIOUS
  <2> DEFINE s == [r EXCEPT !.state = x]
  <2>2. s \in Root
    BY DEF Root
  <2>3. [s EXCEPT !.done = y] \in Root
    <3> HIDE DEF s
    <3> QED
      BY <2>2 DEF Root
  <2> QED
    BY <2>3
<1>3. r.old \in Tree /\ r.new \in Tree /\ r.done \in Seq(Entry) /\ r.state \in States /\ r # None
  BY RootAssumption DEF Root
<1> QED
  BY <1>1, <1>2, <1>3

\* What a command holds when it has read the files.
LEMMA OpenTypes ==
    ASSUME Types, NEW p \in Commands, Open(p), overlap' \in BOOLEAN
    PROVE  Types'
<1>1. cmd \in [Commands -> Memory] /\ manifest \in SUBSET Packages /\ jobs[p] # None
      /\ jobs \in Jobs
  BY DEF Types, Open
<1> DEFINE job == jobs[p]
<1>2. job \in [op : {"install", "uninstall", "restore", "clean"}, pkg : Packages, dry : BOOLEAN]
  BY <1>1, JobsAssumption
<1> HIDE DEF job
<1>3. Declared(job) \in SUBSET Packages
  BY <1>1, <1>2 DEF Declared
<1>4. cmd' \in [Commands -> Memory]
  <2>1. CASE cmd' = cmd
    BY <1>1, <2>1
  <2>2. CASE \E target \in File :
                cmd' = [cmd EXCEPT ![p] =
                         [Blank EXCEPT !.op = job.op, !.dry = job.dry,
                                       !.declared = Declared(job), !.target = target]]
    <3>1. PICK target \in File :
                cmd' = [cmd EXCEPT ![p] =
                         [Blank EXCEPT !.op = job.op, !.dry = job.dry,
                                       !.declared = Declared(job), !.target = target]]
      BY <2>2
    <3> DEFINE m1 == [Blank EXCEPT !.op = job.op]
               m2 == [m1 EXCEPT !.dry = job.dry]
               m3 == [m2 EXCEPT !.declared = Declared(job)]
               m4 == [m3 EXCEPT !.target = target]
    <3>2. m1 \in Memory
      BY <1>2, BlankIs DEF Memory
    <3>3. m2 \in Memory
      <4> HIDE DEF m1
      <4> QED
        BY <1>2, <3>2 DEF Memory
    <3>4. m3 \in Memory
      <4> HIDE DEF m2
      <4> QED
        BY <1>3, <3>3 DEF Memory
    <3>5. m4 \in Memory
      <4> HIDE DEF m3
      <4> QED
        BY <3>4, MemoryWith
    <3>6. cmd' = [cmd EXCEPT ![p] = m4]
      BY <3>1
    <3> HIDE DEF m4
    <3> QED
      BY <1>1, <3>5, <3>6
  <2> QED
    BY <2>1, <2>2 DEF Open, job, Resolutions, File
<1>5. \E place \in WorkPlaces \cup LockPlaces \cup Ended : Goto(p, place)
  <2>1. Goto(p, "failed") \/ Goto(p, IF job.dry THEN "recover" ELSE "try")
    BY DEF Open, job
  <2> QED
    BY <2>1 DEF WorkPlaces, LockPlaces, Ended
<1>6. UNCHANGED <<lockFile, seen, robbed, disk, bounds>>
  BY DEF Open
<1>7. PICK place \in WorkPlaces \cup LockPlaces \cup Ended : Goto(p, place)
  BY <1>5
<1>8. /\ UNCHANGED <<lockFile, seen, robbed, jobs, theirs, kills>>
      /\ manifest' \in SUBSET Packages /\ lockfile' \in File /\ record' \in File
      /\ libs' \in Tree /\ staging' \in [Commands -> Root \cup {None}]
      /\ faults' \in 0 .. MaxFaults /\ unlucky' \in BOOLEAN
  BY <1>6 DEF Types, disk, bounds
<1> QED
  BY <1>4, <1>7, <1>8, WorkTypes
\* The places are places.
LEMMA PlacesAre ==
    /\ {"sweep", "undo", "clear", "plan", "rolledBack", "putBack", "failed", "done", "release",
        "clean", "stage", "begin", "move", "noteOut", "moveIn", "noteIn", "hooks", "record",
        "lock", "manifest", "finish", "killed", "recover", "raise"}
           \subseteq WorkPlaces \cup LockPlaces \cup Ended
    /\ States = {"staging", "swapping", "committed", "rolled-back"}
BY DEF WorkPlaces, LockPlaces, Ended, States

\* What a command that undoes holds and leaves.
LEMMA UndoTypes ==
    ASSUME Types, NEW p \in Commands,
           Recover(p) \/ Sweep(p) \/ Undo(p) \/ PutBack(p) \/ Clear(p) \/ GivesUp(p),
           Places(p), overlap' \in BOOLEAN
    PROVE  Types'
<1> DEFINE m == cmd[p]
<1>1. /\ cmd \in [Commands -> Memory] /\ m \in Memory /\ libs \in Tree
      /\ staging \in [Commands -> Root \cup {None}]
      /\ manifest \in SUBSET Packages /\ lockfile \in File /\ record \in File
      /\ faults \in 0 .. MaxFaults /\ unlucky \in BOOLEAN
      /\ m.left \in Seq(Entry) /\ m.visit \in SUBSET Commands
  BY DEF Types, Memory
<1>2. CASE Recover(p)
  <2>1. [m EXCEPT !.visit = {q \in Commands : staging[q] # None}] \in Memory
    BY <1>1, MemoryWith
  <2>2. cmd' = [cmd EXCEPT ![p] = [m EXCEPT !.visit = {q \in Commands : staging[q] # None}]]
    BY <1>2 DEF Recover
  <2>3. cmd' \in [Commands -> Memory]
    BY <1>1, <2>1, <2>2
  <2> QED
    BY <1>1, <1>2, <2>3, WorkTypes, PlacesAre DEF Recover, disk, bounds
<1>3. CASE Sweep(p)
  <2>1. cmd' \in [Commands -> Memory]
    <3>1. CASE cmd' = cmd
      BY <1>1, <3>1
    <3>2. CASE \E r \in Commands, l \in Seq(Entry) :
                  cmd' = [cmd EXCEPT ![p].visit = @ \ {r}, ![p].of = r, ![p].left = l]
      <4>1. PICK r \in Commands, l \in Seq(Entry) :
                  cmd' = [cmd EXCEPT ![p].visit = @ \ {r}, ![p].of = r, ![p].left = l]
        BY <3>2
      <4> DEFINE m1 == [m EXCEPT !.visit = @ \ {r}]
                 m2 == [m1 EXCEPT !.of = r]
                 m3 == [m2 EXCEPT !.left = l]
      <4>2. m1 \in Memory
        BY <1>1, MemoryWith
      <4>3. m2 \in Memory
        <5> HIDE DEF m1
        <5> QED
          BY <4>2, MemoryWith
      <4>4. m3 \in Memory
        <5> HIDE DEF m2
        <5> QED
          BY <4>3, MemoryWith
      <4>5. cmd' = [cmd EXCEPT ![p] = m3]
        BY <4>1
      <4> HIDE DEF m3
      <4> QED
        BY <1>1, <4>4, <4>5
    <3>3. \A r \in Commands : staging[r] # None => staging[r].done \in Seq(Entry)
      BY <1>1, RootWith
    <3>4. <<>> \in Seq(Entry)
      BY EmptySeq
    <3> QED
      BY <1>1, <1>3, <3>1, <3>2, <3>3, <3>4, Zenon DEF Sweep
  <2>2. \E place \in {"plan", "undo", "clear"} : Goto(p, place)
    BY <1>3, Zenon DEF Sweep
  <2>3. PICK place \in {"plan", "undo", "clear"} : Goto(p, place)
    BY <2>2
  <2>4. place \in WorkPlaces \cup LockPlaces \cup Ended
    BY <2>3, PlacesAre
  <2> QED
    BY <1>1, <1>3, <2>1, <2>3, <2>4, WorkTypes, Zenon DEF Sweep, disk, bounds
<1>4. CASE Undo(p)
  <2>1. libs' \in Tree
    <3>1. CASE m.left = <<>>
      BY <1>1, <1>4, <3>1 DEF Undo
    <3>2. CASE m.left # <<>>
      <4>1. Last(m.left).pkg \in Packages
        BY <1>1, <3>2, FrontIs, LogIs DEF Entry
      <4> QED
        BY <1>1, <1>4, <3>2, <4>1, TreeWith DEF Undo
    <3> QED
      BY <3>1, <3>2
  <2>2. \E place \in {"rolledBack", "clear", "putBack"} : Goto(p, place)
    BY <1>4 DEF Undo
  <2>3. PICK place \in {"rolledBack", "clear", "putBack"} : Goto(p, place)
    BY <2>2
  <2>4. place \in WorkPlaces \cup LockPlaces \cup Ended
    BY <2>3, PlacesAre
  <2> QED
    BY <1>1, <1>4, <2>1, <2>3, <2>4, WorkTypes DEF Undo, bounds
<1>5. CASE PutBack(p)
  <2> DEFINE r == m.of
             k == Last(m.left).pkg
  <2>1. r \in Commands /\ m.left # <<>> /\ k \in Packages
    BY <1>1, <1>5, FrontIs, LogIs DEF PutBack, Entry, Places
  <2>2. \/ libs' = libs /\ staging' = staging
        \/ /\ staging[r] # None
           /\ libs' = [libs EXCEPT ![k] = staging[r].old[k]]
           /\ staging' = [staging EXCEPT ![r].old[k] = None]
    BY <1>5, <2>1, JobsAssumption DEF PutBack
  <2>3. libs' \in Tree /\ staging' \in [Commands -> Root \cup {None}]
    <3>1. CASE libs' = libs /\ staging' = staging
      BY <1>1, <3>1
    <3>2. CASE /\ staging[r] # None
               /\ libs' = [libs EXCEPT ![k] = staging[r].old[k]]
               /\ staging' = [staging EXCEPT ![r].old[k] = None]
      <4> DEFINE s == staging[r]
      <4>1. s \in Root
        BY <1>1, <2>1, <3>2
      <4>2. s.old \in Tree
        BY <4>1, RootWith
      <4>3. s.old[k] \in Versions \cup {None, Hand} /\ [s.old EXCEPT ![k] = None] \in Tree
        BY <2>1, <4>2, TreeWith DEF Tree
      <4>4. libs' \in Tree
        BY <1>1, <2>1, <3>2, <4>3, TreeWith
      <4>5. [s EXCEPT !.old = [s.old EXCEPT ![k] = None]] \in Root
        BY <4>1, <4>3, RootWith, Zenon
      <4>6. staging' = [staging EXCEPT ![r] = [s EXCEPT !.old = [s.old EXCEPT ![k] = None]]]
        BY <3>2
      <4> HIDE DEF s
      <4> QED
        BY <1>1, <2>1, <4>4, <4>5, <4>6
    <3> QED
      BY <2>2, <3>1, <3>2
  <2>4. cmd' \in [Commands -> Memory]
    <3>1. [m EXCEPT !.left = Front(m.left)] \in Memory
      BY <1>1, <2>1, FrontIs, MemoryWith
    <3>2. cmd' = [cmd EXCEPT ![p] = [m EXCEPT !.left = Front(m.left)]]
      BY <1>5 DEF PutBack
    <3> QED
      BY <1>1, <3>1, <3>2
  <2> QED
    BY <1>1, <1>5, <2>3, <2>4, WorkTypes, PlacesAre DEF PutBack, bounds
<1>6. CASE Clear(p)
  <2>1. cmd' \in [Commands -> Memory]
    <3>1. [m EXCEPT !.of = None] \in Memory
      BY <1>1, MemoryWith
    <3>2. cmd' = [cmd EXCEPT ![p] = [m EXCEPT !.of = None]]
      BY <1>6 DEF Clear
    <3> QED
      BY <1>1, <3>1, <3>2
  <2>2. staging' \in [Commands -> Root \cup {None}]
    BY <1>1, <1>6 DEF Clear
  <2> QED
    BY <1>1, <1>6, <2>1, <2>2, WorkTypes, PlacesAre DEF Clear, bounds
<1>7. CASE GivesUp(p)
  <2>1. faults' \in 0 .. MaxFaults /\ unlucky' \in BOOLEAN
    BY <1>1, <1>7, JobsAssumption DEF GivesUp
  <2> QED
    BY <1>1, <1>7, <2>1, WorkTypes, PlacesAre DEF GivesUp, disk
<1> QED
  BY <1>2, <1>3, <1>4, <1>5, <1>6, <1>7
\* What a command holds when its transaction has failed.
LEMMA FailIs ==
    ASSUME Types, NEW p \in Commands, NEW place, Fail(p, place)
    PROVE  /\ cmd' \in [Commands -> Memory] /\ Goto(p, place)
           /\ \A q \in Commands \ {p} : cmd'[q] = cmd[q]
           /\ cmd'[p].failed /\ cmd'[p].of = p /\ cmd'[p].left = cmd[p].done
           /\ cmd'[p].todo = cmd[p].todo /\ cmd'[p].done = cmd[p].done
           /\ cmd'[p].before = cmd[p].before /\ cmd'[p].visit = cmd[p].visit
           /\ cmd'[p].target = cmd[p].target /\ cmd'[p].op = cmd[p].op
           /\ cmd'[p].dry = cmd[p].dry
<1> DEFINE m == cmd[p]
           m1 == [m EXCEPT !.failed = TRUE]
           m2 == [m1 EXCEPT !.of = p]
           m3 == [m2 EXCEPT !.left = m.done]
<1>1. cmd \in [Commands -> Memory] /\ m \in Memory /\ m.done \in Seq(Entry)
  BY DEF Types, Memory
<1>2. m1 \in Memory
  BY <1>1, MemoryWith
<1>3. m2 \in Memory
  <2> HIDE DEF m1
  <2> QED
    BY <1>2, MemoryWith
<1>4. m3 \in Memory
  <2> HIDE DEF m2
  <2> QED
    BY <1>1, <1>3, MemoryWith
<1>5. cmd' = [cmd EXCEPT ![p] = m3] /\ Goto(p, place)
  BY DEF Fail
<1>6. cmd' \in [Commands -> Memory] /\ cmd'[p] = m3 /\ \A q \in Commands \ {p} : cmd'[q] = cmd[q]
  <2> HIDE DEF m3
  <2> QED
    BY <1>1, <1>4, <1>5
<1>7. /\ m3.failed /\ m3.of = p /\ m3.left = m.done /\ m3.todo = m.todo /\ m3.done = m.done
      /\ m3.before = m.before /\ m3.visit = m.visit /\ m3.target = m.target /\ m3.op = m.op
      /\ m3.dry = m.dry
  BY <1>1 DEF Memory
<1> HIDE DEF m3
<1> QED
  BY <1>5, <1>6, <1>7

\* Writing the journal.
LEMMA JournalIs ==
    ASSUME Types, NEW p \in Commands, NEW state \in States, NEW done \in Seq(Entry),
           Journal(p, state, done)
    PROVE  /\ staging' \in [Commands -> Root \cup {None}]
           /\ \A q \in Commands \ {p} : staging'[q] = staging[q]
           /\ staging'[p] # None /\ staging'[p].state = state /\ staging'[p].done = done
           /\ staging[p] # None =>
                 staging'[p].old = staging[p].old /\ staging'[p].new = staging[p].new
<1>1. staging \in [Commands -> Root \cup {None}]
  BY DEF Types
<1> DEFINE r == [state |-> state, done |-> done, dirs |-> FALSE, old |-> Nothing, new |-> Nothing]
           s == [staging[p] EXCEPT !.state = state, !.done = done]
<1>2. r \in Root /\ r.state = state /\ r.done = done
  BY BlankIs DEF Root
<1>3. staging[p] # None => /\ s \in Root /\ s.state = state /\ s.done = done
                           /\ s.old = staging[p].old /\ s.new = staging[p].new
  <2>1. SUFFICES ASSUME staging[p] # None
                 PROVE  /\ s \in Root /\ s.state = state /\ s.done = done
                        /\ s.old = staging[p].old /\ s.new = staging[p].new
    OBVIOUS
  <2>2. staging[p] \in Root
    BY <1>1, <2>1
  <2>3. s \in Root
    BY <2>2, RootWith
  <2>4. /\ s.state = state /\ s.done = done
        /\ s.old = staging[p].old /\ s.new = staging[p].new
    BY <2>2 DEF Root
  <2> QED
    BY <2>3, <2>4
<1>4. staging' = [staging EXCEPT ![p] = IF staging[p] = None THEN r ELSE s]
  BY DEF Journal
<1> HIDE DEF r, s
<1>5. \A x \in Root : x # None
  BY RootAssumption
<1> QED
  BY <1>1, <1>2, <1>3, <1>4, <1>5

\* What a plan, the staging of it and a clean come to.
LEMMA PlanTypes ==
    ASSUME Types, NEW p \in Commands, Plan(p) \/ Stage(p) \/ StageFails(p) \/ Clean(p),
           overlap' \in BOOLEAN
    PROVE  Types'
<1> DEFINE m == cmd[p]
<1>1. /\ cmd \in [Commands -> Memory] /\ m \in Memory /\ libs \in Tree
      /\ staging \in [Commands -> Root \cup {None}]
      /\ manifest \in SUBSET Packages /\ lockfile \in File /\ record \in File
      /\ faults \in 0 .. MaxFaults /\ unlucky \in BOOLEAN
      /\ m.todo \in SUBSET Packages /\ m.target \in File /\ m.done \in Seq(Entry)
  BY DEF Types, Memory
<1>2. CASE Plan(p)
  <2> DEFINE refused == m.op # "clean" /\ InTheWay(p)
             now == <<manifest, lockfile, record, libs>>
             m1 == [m EXCEPT !.todo = Steps(p)]
             m2 == [m1 EXCEPT !.failed = refused]
             m3 == [m2 EXCEPT !.before = now]
  <2>1. Steps(p) \in SUBSET Packages /\ refused \in BOOLEAN /\ now \in Disk
    BY <1>1 DEF Steps, Removals, Changes, Wanted, InTheWay, Disk
  <2>2. m1 \in Memory
    BY <1>1, <2>1, MemoryWith
  <2>3. m2 \in Memory
    <3> HIDE DEF m1, refused
    <3> QED
      BY <2>1, <2>2, MemoryWith
  <2>4. m3 \in Memory
    <3> HIDE DEF m2, now
    <3> QED
      BY <2>1, <2>3, MemoryWith
  <2>5. cmd' = [cmd EXCEPT ![p] = IF m.dry THEN Blank ELSE m3]
    BY <1>2 DEF Plan
  <2>6. cmd' \in [Commands -> Memory]
    <3> HIDE DEF m3
    <3> QED
      BY <1>1, <2>4, <2>5, BlankIs
  <2>7. \E place \in {"failed", "done", "release", "clean", "stage"} : Goto(p, place)
    BY <1>2 DEF Plan
  <2>8. PICK place \in {"failed", "done", "release", "clean", "stage"} : Goto(p, place)
    BY <2>7
  <2>9. place \in WorkPlaces \cup LockPlaces \cup Ended
    BY <2>8, PlacesAre
  <2> QED
    BY <1>1, <1>2, <2>6, <2>8, <2>9, WorkTypes DEF Plan, disk, bounds
<1>3. CASE Stage(p)
  <2> DEFINE new == [k \in Packages |-> IF k \in m.todo THEN m.target[k] ELSE None]
             r == [state |-> "staging", done |-> <<>>, dirs |-> TRUE, old |-> Nothing, new |-> new]
  <2>1. new \in Tree
    BY <1>1 DEF Tree, File
  <2>2. r \in Root
    <3> HIDE DEF new
    <3> QED
      BY <2>1, BlankIs, EmptySeq DEF Root, States
  <2>3. staging' = [staging EXCEPT ![p] = r]
    BY <1>3 DEF Stage
  <2>4. staging' \in [Commands -> Root \cup {None}]
    <3> HIDE DEF r
    <3> QED
      BY <1>1, <2>2, <2>3
  <2> QED
    BY <1>1, <1>3, <2>4, WorkTypes, PlacesAre DEF Stage, bounds
<1>4. CASE StageFails(p)
  <2>1. cmd' \in [Commands -> Memory] /\ Goto(p, "release")
    BY <1>4, FailIs DEF StageFails
  <2>2. faults' \in 0 .. MaxFaults /\ UNCHANGED <<jobs, theirs, kills, unlucky>>
    BY <1>1, <1>4, JobsAssumption DEF StageFails, Fault
  <2> QED
    BY <1>1, <1>4, <2>1, <2>2, WorkTypes, PlacesAre DEF StageFails, disk
<1>5. CASE Clean(p)
  <2>1. CASE m.todo # {}
    <3>1. Turn(p) \in Packages
      BY <1>1, <2>1, TurnIn
    <3>2. libs' \in Tree
      BY <1>1, <1>5, <2>1, <3>1, TreeWith, Zenon DEF Clean
    <3>3. cmd' \in [Commands -> Memory]
      <4>1. [m EXCEPT !.todo = m.todo \ {Turn(p)}] \in Memory
        BY <1>1, MemoryWith
      <4>2. cmd' = [cmd EXCEPT ![p] = [m EXCEPT !.todo = m.todo \ {Turn(p)}]]
        BY <1>5, <2>1 DEF Clean
      <4> QED
        BY <1>1, <4>1, <4>2
    <3>4. UNCHANGED <<pc, record, lockFile, seen, robbed, manifest, lockfile, staging, bounds>>
      BY <1>5, <2>1 DEF Clean
    <3> QED
      BY <3>2, <3>3, <3>4 DEF Types, LockTypeOK, bounds
  <2>2. CASE m.todo = {}
    BY <1>1, <1>5, <2>2, WorkTypes, PlacesAre, BlankIs DEF Clean, bounds
  <2> QED
    BY <2>1, <2>2
<1> QED
  BY <1>2, <1>3, <1>4, <1>5
\* What moving the next package out of the way does.
LEMMA MoveOutIs ==
    ASSUME Types, NEW p \in Commands, MoveOut(p)
    PROVE  LET k == Turn(p)
               there == libs[k] # None
           IN /\ k \in cmd[p].todo /\ k \in Packages
              /\ cmd' \in [Commands -> Memory]
              /\ cmd' = [cmd EXCEPT ![p] = cmd'[p]]
              /\ /\ cmd'[p].of = cmd[p].of /\ cmd'[p].left = cmd[p].left
                 /\ cmd'[p].visit = cmd[p].visit /\ cmd'[p].failed = cmd[p].failed
                 /\ cmd'[p].before = cmd[p].before /\ cmd'[p].target = cmd[p].target
                 /\ cmd'[p].op = cmd[p].op /\ cmd'[p].dry = cmd[p].dry
              /\ there => staging[p] # None
              /\ \/ /\ ~there /\ cmd[p].target[k] = None
                    /\ cmd'[p].todo = cmd[p].todo \ {k} /\ cmd'[p].done = cmd[p].done
                    /\ UNCHANGED <<pc, libs, staging>>
                 \/ /\ there \/ cmd[p].target[k] # None
                    /\ cmd'[p].todo = cmd[p].todo
                    /\ cmd'[p].done = Append(cmd[p].done, [pkg |-> k, old |-> there, new |-> FALSE])
                    /\ libs' = [libs EXCEPT ![k] = None]
                    /\ staging' = IF there THEN [staging EXCEPT ![p].old[k] = libs[k]] ELSE staging
                    /\ Goto(p, "noteOut")
<1> DEFINE m == cmd[p]
           k == Turn(p)
           there == libs[k] # None
           e == [pkg |-> k, old |-> there, new |-> FALSE]
           m1 == [m EXCEPT !.todo = m.todo \ {k}]
           m2 == [m EXCEPT !.done = Append(m.done, e)]
<1>1. /\ cmd \in [Commands -> Memory] /\ m \in Memory
      /\ m.todo \in SUBSET Packages /\ m.done \in Seq(Entry)
  BY DEF Types, Memory
<1>2. k \in m.todo /\ k \in Packages
  <2>1. m.todo # {}
    BY DEF MoveOut
  <2> QED
    BY <1>1, <2>1, TurnIn
<1>3. there => staging[p] # None
  BY DEF MoveOut, HasDirs
<1>4. CASE ~there /\ m.target[k] = None
  <2>1. cmd' = [cmd EXCEPT ![p] = m1] /\ UNCHANGED <<pc, libs, staging>>
    BY <1>4 DEF MoveOut
  <2>2. m1 \in Memory
    BY <1>1, MemoryWith
  <2>3. /\ m1.todo = m.todo \ {k} /\ m1.done = m.done
        /\ m1.of = m.of /\ m1.left = m.left /\ m1.visit = m.visit /\ m1.failed = m.failed
        /\ m1.before = m.before /\ m1.target = m.target /\ m1.op = m.op /\ m1.dry = m.dry
    BY <1>1 DEF Memory
  <2> HIDE DEF m1
  <2>4. cmd' \in [Commands -> Memory] /\ cmd'[p] = m1
    BY <1>1, <2>1, <2>2
  <2> QED
    BY <1>2, <1>3, <1>4, <2>1, <2>3, <2>4
<1>5. CASE there \/ m.target[k] # None
  <2>1. cmd' = [cmd EXCEPT ![p] = m2]
    BY <1>5 DEF MoveOut
  <2>2. e \in Entry
    BY <1>2 DEF Entry
  <2>3. Append(m.done, e) \in Seq(Entry)
    <3> HIDE DEF e
    <3> QED
      BY <1>1, <2>2, AppendIs
  <2>4. m2 \in Memory
    BY <1>1, <2>3, MemoryWith
  <2>5. /\ m2.todo = m.todo /\ m2.done = Append(m.done, e)
        /\ m2.of = m.of /\ m2.left = m.left /\ m2.visit = m.visit /\ m2.failed = m.failed
        /\ m2.before = m.before /\ m2.target = m.target /\ m2.op = m.op /\ m2.dry = m.dry
    BY <1>1 DEF Memory
  <2>6. /\ libs' = [libs EXCEPT ![k] = None]
        /\ staging' = IF there THEN [staging EXCEPT ![p].old[k] = libs[k]] ELSE staging
        /\ Goto(p, "noteOut")
    BY <1>5 DEF MoveOut
  <2> HIDE DEF m2
  <2>7. cmd' \in [Commands -> Memory] /\ cmd'[p] = m2
    BY <1>1, <2>1, <2>4
  <2> QED
    BY <1>2, <1>3, <1>5, <2>1, <2>5, <2>6, <2>7
<1> QED
  BY <1>4, <1>5

\* What a move leaves where the old package was put.
LEMMA PutAway ==
    ASSUME Types, NEW p \in Commands, staging[p] # None, NEW k \in Packages,
           staging' = [staging EXCEPT ![p].old[k] = libs[k]]
    PROVE  /\ staging' \in [Commands -> Root \cup {None}] /\ staging'[p] # None
           /\ \A q \in Commands \ {p} : staging'[q] = staging[q]
           /\ staging'[p].old = [staging[p].old EXCEPT ![k] = libs[k]]
           /\ staging'[p].new = staging[p].new /\ staging'[p].done = staging[p].done
           /\ staging'[p].state = staging[p].state
<1> DEFINE r == staging[p]
           s == [r EXCEPT !.old = [r.old EXCEPT ![k] = libs[k]]]
<1>1. staging \in [Commands -> Root \cup {None}] /\ r \in Root /\ libs \in Tree
  BY DEF Types
<1>2. libs[k] \in Versions \cup {None, Hand}
  BY <1>1 DEF Tree
<1>3. [r.old EXCEPT ![k] = libs[k]] \in Tree
  BY <1>1, <1>2, RootWith, TreeWith
<1>4. s \in Root
  BY <1>1, <1>3, RootWith
<1>5. s.old = [r.old EXCEPT ![k] = libs[k]] /\ s.new = r.new /\ s.done = r.done /\ s.state = r.state
  BY <1>1 DEF Root
<1>6. staging' = [staging EXCEPT ![p] = s]
  OBVIOUS
<1> HIDE DEF s
<1> QED
  BY <1>1, <1>4, <1>5, <1>6, RootWith

\* What moving a staged package in does.
LEMMA MoveInIs ==
    ASSUME Types, NEW p \in Commands, MoveIn(p), cmd[p].done # <<>>, cmd[p].todo # {}
    PROVE  LET k == Turn(p) IN
           /\ k \in cmd[p].todo /\ k \in Packages
           /\ cmd' \in [Commands -> Memory] /\ cmd' = [cmd EXCEPT ![p] = cmd'[p]]
           /\ /\ cmd'[p].of = cmd[p].of /\ cmd'[p].left = cmd[p].left
              /\ cmd'[p].visit = cmd[p].visit /\ cmd'[p].failed = cmd[p].failed
              /\ cmd'[p].before = cmd[p].before /\ cmd'[p].target = cmd[p].target
              /\ cmd'[p].op = cmd[p].op /\ cmd'[p].dry = cmd[p].dry
           /\ cmd'[p].todo = cmd[p].todo
           /\ cmd'[p].done = [cmd[p].done EXCEPT ![Len(cmd[p].done)].new = TRUE]
           /\ libs[k] = None /\ libs' = [libs EXCEPT ![k] = staging[p].new[k]]
           /\ libs' \in Tree /\ staging' \in [Commands -> Root \cup {None}]
           /\ staging[p] # None /\ staging'[p] # None
           /\ \A q \in Commands \ {p} : staging'[q] = staging[q]
           /\ staging'[p].new = [staging[p].new EXCEPT ![k] = None]
           /\ staging'[p].old = staging[p].old /\ staging'[p].done = staging[p].done
           /\ staging'[p].state = staging[p].state
           /\ Goto(p, "noteIn")
<1> DEFINE m == cmd[p]
           k == Turn(p)
           done == [m.done EXCEPT ![Len(m.done)].new = TRUE]
           m1 == [m EXCEPT !.done = done]
           r == staging[p]
           s == [r EXCEPT !.new = [r.new EXCEPT ![k] = None]]
<1>1. /\ cmd \in [Commands -> Memory] /\ m \in Memory /\ libs \in Tree
      /\ m.todo \in SUBSET Packages /\ m.done \in Seq(Entry)
      /\ staging \in [Commands -> Root \cup {None}] /\ r # None /\ r \in Root
  BY DEF Types, Memory, MoveIn, HasDirs
<1>2. k \in m.todo /\ k \in Packages
  BY <1>1, TurnIn
<1>3. done \in Seq(Entry)
  BY <1>1, MarkIs
<1>4. m1 \in Memory
  <2> HIDE DEF done
  <2> QED
    BY <1>1, <1>3, MemoryWith
<1>5. /\ m1.done = done /\ m1.todo = m.todo
      /\ m1.of = m.of /\ m1.left = m.left /\ m1.visit = m.visit /\ m1.failed = m.failed
      /\ m1.before = m.before /\ m1.target = m.target /\ m1.op = m.op /\ m1.dry = m.dry
  <2> HIDE DEF done
  <2> QED
    BY <1>1 DEF Memory
<1>6. cmd' = [cmd EXCEPT ![p] = m1]
  BY DEF MoveIn
<1>7. cmd' \in [Commands -> Memory] /\ cmd'[p] = m1
  <2> HIDE DEF m1
  <2> QED
    BY <1>1, <1>4, <1>6
<1>8. libs[k] = None /\ libs' = [libs EXCEPT ![k] = r.new[k]] /\ Goto(p, "noteIn")
  BY DEF MoveIn
<1>9. r.new \in Tree /\ r.new[k] \in Versions \cup {None, Hand}
  <2>1. r.new \in Tree
    BY <1>1, RootWith
  <2> QED
    BY <1>2, <2>1 DEF Tree
<1>10. libs' \in Tree
  BY <1>1, <1>2, <1>8, <1>9, TreeWith
<1>11. s \in Root
  BY <1>1, <1>2, <1>9, RootWith, TreeWith
<1>12. s.new = [r.new EXCEPT ![k] = None] /\ s.old = r.old /\ s.done = r.done /\ s.state = r.state
  BY <1>1 DEF Root
<1>13. staging' = [staging EXCEPT ![p] = s]
  BY DEF MoveIn
<1>14. /\ staging' \in [Commands -> Root \cup {None}] /\ staging'[p] = s /\ s # None
       /\ \A q \in Commands \ {p} : staging'[q] = staging[q]
  <2> HIDE DEF s
  <2> QED
    BY <1>1, <1>11, <1>13, RootWith
<1> HIDE DEF s, m1, done
<1>15. cmd' = [cmd EXCEPT ![p] = cmd'[p]]
  BY <1>6, <1>7
<1>16. cmd'[p].done = [cmd[p].done EXCEPT ![Len(cmd[p].done)].new = TRUE]
  BY <1>5, <1>7 DEF done
<1> QED
  BY <1>1, <1>2, <1>5, <1>7, <1>8, <1>10, <1>12, <1>14, <1>15, <1>16

\* What noting a move does: the journal is written, and a package may be done with.
LEMMA NoteIs ==
    ASSUME Types, NEW p \in Commands, NoteOut(p) \/ NoteIn(p)
    PROVE  LET ends == pc[p] = "noteIn" \/ cmd[p].target[Turn(p)] = None IN
           /\ cmd' \in [Commands -> Memory] /\ cmd' = [cmd EXCEPT ![p] = cmd'[p]]
           /\ /\ cmd'[p].of = cmd[p].of /\ cmd'[p].left = cmd[p].left
              /\ cmd'[p].visit = cmd[p].visit /\ cmd'[p].failed = cmd[p].failed
              /\ cmd'[p].before = cmd[p].before /\ cmd'[p].target = cmd[p].target
              /\ cmd'[p].op = cmd[p].op /\ cmd'[p].dry = cmd[p].dry
           /\ cmd'[p].done = cmd[p].done
           /\ cmd'[p].todo = IF ends THEN cmd[p].todo \ {Turn(p)} ELSE cmd[p].todo
           /\ Goto(p, IF ends THEN "move" ELSE "moveIn")
           /\ ~ends => cmd' = cmd
           /\ Journal(p, "swapping", cmd[p].done)
           /\ UNCHANGED <<libs, manifest, lockfile, record>>
<1> DEFINE m == cmd[p]
           k == Turn(p)
           ends == pc[p] = "noteIn" \/ m.target[k] = None
           m1 == [m EXCEPT !.todo = m.todo \ {k}]
<1>1. cmd \in [Commands -> Memory] /\ m \in Memory /\ m.todo \in SUBSET Packages
  BY DEF Types, Memory
<1>2. m1 \in Memory
  BY <1>1, MemoryWith
<1>3. /\ m1.todo = m.todo \ {k} /\ m1.done = m.done
      /\ m1.of = m.of /\ m1.left = m.left /\ m1.visit = m.visit /\ m1.failed = m.failed
      /\ m1.before = m.before /\ m1.target = m.target /\ m1.op = m.op /\ m1.dry = m.dry
  BY <1>1 DEF Memory
<1>4. cmd' = IF ends THEN [cmd EXCEPT ![p] = m1] ELSE cmd
  BY DEF NoteOut, NoteIn
<1>5. /\ Goto(p, IF ends THEN "move" ELSE "moveIn")
      /\ Journal(p, "swapping", m.done) /\ UNCHANGED <<libs, manifest, lockfile, record>>
  BY DEF NoteOut, NoteIn
<1> HIDE DEF m1
<1>6. /\ cmd' \in [Commands -> Memory] /\ cmd' = [cmd EXCEPT ![p] = cmd'[p]]
      /\ cmd'[p] = IF ends THEN m1 ELSE m
  BY <1>1, <1>2, <1>4
<1> QED
  BY <1>3, <1>4, <1>5, <1>6
\* What a transaction does keeps the types.
LEMMA TransactionTypes ==
    ASSUME Types, NEW p \in Commands, Places(p), Log(p), overlap' \in BOOLEAN,
           \/ Begin(p) \/ MoveOut(p) \/ NoteOut(p) \/ MoveIn(p) \/ NoteIn(p) \/ MoveFails(p)
           \/ Commit(p) \/ Hooks(p) \/ RolledBack(p)
           \/ SaveRecord(p) \/ SaveLock(p) \/ SaveManifest(p) \/ Finish(p) \/ FinishFails(p)
    PROVE  Types'
<1>1. /\ cmd \in [Commands -> Memory] /\ cmd[p] \in Memory /\ libs \in Tree
      /\ staging \in [Commands -> Root \cup {None}]
      /\ manifest \in SUBSET Packages /\ lockfile \in File /\ record \in File
      /\ faults \in 0 .. MaxFaults /\ unlucky \in BOOLEAN
      /\ cmd[p].done \in Seq(Entry) /\ <<>> \in Seq(Entry)
      /\ cmd[p].target \in File /\ cmd[p].declared \in SUBSET Packages
  BY EmptySeq DEF Types, Memory
<1>2. CASE Begin(p)
  <2>1. staging' \in [Commands -> Root \cup {None}]
    BY <1>1, <1>2, JournalIs, PlacesAre DEF Begin
  <2> QED
    BY <1>1, <1>2, <2>1, WorkTypes, PlacesAre DEF Begin, bounds
<1>3. CASE MoveOut(p)
  <2> DEFINE k == Turn(p)
  <2>1. /\ k \in Packages /\ cmd' \in [Commands -> Memory]
        /\ libs[k] # None => staging[p] # None
        /\ \/ UNCHANGED <<pc, libs, staging>>
           \/ /\ libs' = [libs EXCEPT ![k] = None]
              /\ staging' = IF libs[k] # None THEN [staging EXCEPT ![p].old[k] = libs[k]] ELSE staging
              /\ Goto(p, "noteOut")
    BY <1>3, MoveOutIs
  <2>2. UNCHANGED <<lockFile, seen, robbed, manifest, lockfile, record, bounds>>
    BY <1>3 DEF MoveOut
  <2>3. CASE UNCHANGED <<pc, libs, staging>>
    BY <2>1, <2>2, <2>3 DEF Types, LockTypeOK, bounds
  <2>4. CASE /\ libs' = [libs EXCEPT ![k] = None]
             /\ staging' = IF libs[k] # None THEN [staging EXCEPT ![p].old[k] = libs[k]] ELSE staging
             /\ Goto(p, "noteOut")
    <3>1. libs' \in Tree
      BY <1>1, <2>1, <2>4, TreeWith
    <3>2. staging' \in [Commands -> Root \cup {None}]
      BY <1>1, <2>1, <2>4, PutAway
    <3> QED
      BY <1>1, <2>1, <2>2, <2>4, <3>1, <3>2, WorkTypes, PlacesAre DEF bounds
  <2> QED
    BY <2>1, <2>3, <2>4
<1>4. CASE NoteOut(p) \/ NoteIn(p)
  <2>1. cmd' \in [Commands -> Memory] /\ Journal(p, "swapping", cmd[p].done)
    BY <1>4, NoteIs
  <2>2. staging' \in [Commands -> Root \cup {None}]
    BY <1>1, <2>1, JournalIs, PlacesAre
  <2>3. \E place \in {"move", "moveIn"} : Goto(p, place)
    BY <1>4 DEF NoteOut, NoteIn
  <2>4. PICK place \in {"move", "moveIn"} : Goto(p, place)
    BY <2>3
  <2>5. place \in WorkPlaces \cup LockPlaces \cup Ended
    BY <2>4, PlacesAre
  <2> QED
    BY <1>1, <1>4, <2>1, <2>2, <2>4, <2>5, WorkTypes DEF NoteOut, NoteIn, bounds
<1>5. CASE MoveIn(p)
  <2>1. cmd[p].done # <<>> /\ cmd[p].todo # {}
    BY <1>5 DEF MoveIn, Log, Between
  <2>2. cmd' \in [Commands -> Memory] /\ libs' \in Tree /\ staging' \in [Commands -> Root \cup {None}]
    BY <1>5, <2>1, MoveInIs
  <2> QED
    BY <1>1, <1>5, <2>2, WorkTypes, PlacesAre DEF MoveIn, bounds
<1>6. CASE MoveFails(p)
  <2>1. cmd' \in [Commands -> Memory] /\ Goto(p, "undo")
    BY <1>6, FailIs DEF MoveFails
  <2>2. faults' \in 0 .. MaxFaults /\ UNCHANGED <<jobs, theirs, kills, unlucky>>
    BY <1>1, <1>6, JobsAssumption DEF MoveFails, Fault, bounds
  <2> QED
    BY <1>1, <1>6, <2>1, <2>2, WorkTypes, PlacesAre DEF MoveFails, disk
<1>7. CASE Commit(p)
  <2>1. staging' \in [Commands -> Root \cup {None}]
    BY <1>1, <1>7, JournalIs, PlacesAre DEF Commit
  <2> QED
    BY <1>1, <1>7, <2>1, WorkTypes, PlacesAre DEF Commit, bounds
<1>8. CASE Hooks(p)
  <2>1. CASE Goto(p, "record") /\ UNCHANGED <<cmd, bounds>>
    BY <1>1, <1>8, <2>1, WorkTypes, PlacesAre DEF Hooks, bounds, disk
  <2>2. CASE Fault /\ Fail(p, "undo")
    <3>1. cmd' \in [Commands -> Memory] /\ Goto(p, "undo")
      BY <2>2, FailIs
    <3>2. faults' \in 0 .. MaxFaults /\ UNCHANGED <<jobs, theirs, kills, unlucky>>
      BY <1>1, <2>2, JobsAssumption DEF Fault
    <3> QED
      BY <1>1, <1>8, <3>1, <3>2, WorkTypes, PlacesAre DEF Hooks, disk
  <2> QED
    BY <1>8, <2>1, <2>2 DEF Hooks
<1>9. CASE RolledBack(p)
  <2>1. staging' \in [Commands -> Root \cup {None}]
    BY <1>1, <1>9, JournalIs, PlacesAre DEF RolledBack
  <2>2. \E place \in {"finish", "release"} : Goto(p, place)
    BY <1>9 DEF RolledBack
  <2>3. PICK place \in {"finish", "release"} : Goto(p, place)
    BY <2>2
  <2>4. place \in WorkPlaces \cup LockPlaces \cup Ended
    BY <2>3, PlacesAre
  <2> QED
    BY <1>1, <1>9, <2>1, <2>3, <2>4, WorkTypes DEF RolledBack, bounds
<1>10. CASE SaveRecord(p)
  BY <1>1, <1>10, WorkTypes, PlacesAre DEF SaveRecord, bounds
<1>11. CASE SaveLock(p)
  <2>1. PICK place \in {"finish", "manifest"} : Goto(p, place)
    BY <1>11 DEF SaveLock
  <2>2. place \in WorkPlaces \cup LockPlaces \cup Ended
    BY <2>1, PlacesAre
  <2> QED
    BY <1>1, <1>11, <2>1, <2>2, WorkTypes DEF SaveLock, bounds
<1>12. CASE SaveManifest(p)
  BY <1>1, <1>12, WorkTypes, PlacesAre DEF SaveManifest, bounds
<1>13. CASE Finish(p)
  <2>1. staging' \in [Commands -> Root \cup {None}]
    BY <1>1, <1>13 DEF Finish
  <2> QED
    BY <1>1, <1>13, <2>1, WorkTypes, PlacesAre DEF Finish, bounds
<1>14. CASE FinishFails(p)
  <2>1. faults' \in 0 .. MaxFaults /\ UNCHANGED <<jobs, theirs, kills, unlucky>>
    BY <1>1, <1>14, JobsAssumption DEF FinishFails, Fault
  <2> QED
    BY <1>1, <1>14, <2>1, WorkTypes, PlacesAre DEF FinishFails, disk
<1> QED
  BY <1>2, <1>3, <1>4, <1>5, <1>6, <1>7, <1>8, <1>9, <1>10, <1>11, <1>12, <1>13, <1>14

\* What a failure that nothing catches does: the command is at its end, with what it
\* has in memory, and everything is left as it is; a dry run has no lock to give back.
LEMMA RaisesIs ==
    ASSUME Types, NEW p \in Commands, Raises(p)
    PROVE  /\ pc[p] \in WorkPlaces \ {"release", "raise"} /\ Uncaught(p)
           /\ \/ ~cmd[p].dry /\ pc'[p] = "raise" /\ cmd' = cmd
              \/ cmd[p].dry /\ pc'[p] = "failed" /\ cmd'[p] = Blank
           /\ \A q \in Commands \ {p} : pc'[q] = pc[q] /\ cmd'[q] = cmd[q]
           /\ UNCHANGED <<lockFile, seen, robbed, manifest, lockfile, record, libs, staging,
                          jobs, theirs, kills>>
           /\ faults' \in 0 .. MaxFaults /\ unlucky' = (unlucky \/ Unrecorded(p))
           /\ unlucky' \in BOOLEAN /\ cmd' \in [Commands -> Memory]
<1>1. pc \in [Commands -> {"start"} \cup LockPlaces \cup WorkPlaces \cup Ended]
      /\ cmd \in [Commands -> Memory] /\ faults \in 0 .. MaxFaults /\ unlucky \in BOOLEAN
  BY DEF Types
<1>2. pc[p] \in WorkPlaces \ {"release", "raise"} /\ Uncaught(p)
  BY DEF Raises, Uncaught, WorkPlaces
<1>3. pc' = [pc EXCEPT ![p] = IF cmd[p].dry THEN "failed" ELSE "raise"]
  BY DEF Raises, Goto
<1>4. cmd' = [cmd EXCEPT ![p] = IF cmd[p].dry THEN Blank ELSE cmd[p]]
  BY DEF Raises
<1>5. cmd[p].dry \in BOOLEAN /\ cmd[p] \in Memory
  BY <1>1 DEF Memory
<1>6. /\ \/ ~cmd[p].dry /\ pc'[p] = "raise" /\ cmd' = cmd
         \/ cmd[p].dry /\ pc'[p] = "failed" /\ cmd'[p] = Blank
      /\ \A q \in Commands \ {p} : pc'[q] = pc[q] /\ cmd'[q] = cmd[q]
      /\ cmd' \in [Commands -> Memory]
  BY <1>1, <1>3, <1>4, <1>5, BlankIs
<1>7. faults' \in 0 .. MaxFaults
  BY <1>1, JobsAssumption DEF Raises
<1>8. unlucky' = (unlucky \/ Unrecorded(p)) /\ unlucky' \in BOOLEAN
  BY <1>1 DEF Raises, Unrecorded
<1>9. UNCHANGED <<lockFile, seen, robbed, manifest, lockfile, record, libs, staging,
                  jobs, theirs, kills>>
  BY DEF Raises, disk
<1> QED
  BY <1>2, <1>6, <1>7, <1>8, <1>9

LEMMA RaisesTypes ==
    ASSUME Types, NEW p \in Commands, Raises(p), overlap' \in BOOLEAN
    PROVE  Types'
<1>1. /\ manifest' \in SUBSET Packages /\ lockfile' \in File /\ record' \in File
      /\ libs' \in Tree /\ staging' \in [Commands -> Root \cup {None}]
      /\ cmd' \in [Commands -> Memory]
      /\ faults' \in 0 .. MaxFaults /\ unlucky' \in BOOLEAN
      /\ UNCHANGED <<lockFile, seen, robbed, jobs, theirs, kills>>
  BY RaisesIs DEF Types
<1>2. \E place \in {"failed", "raise"} : Goto(p, place)
  BY DEF Raises
<1>3. PICK place \in {"failed", "raise"} : Goto(p, place)
  BY <1>2
<1>4. place \in WorkPlaces \cup LockPlaces \cup Ended
  BY <1>3, PlacesAre
<1> QED
  BY <1>1, <1>3, <1>4, WorkTypes

\* A recovery that gives up on a directory goes on to delete it.
LEMMA GivesUpIs ==
    ASSUME Types, NEW p \in Commands, GivesUp(p)
    PROVE  /\ pc[p] \in {"undo", "putBack"} /\ cmd[p].of # p /\ pc'[p] = "clear"
           /\ \A q \in Commands \ {p} : pc'[q] = pc[q]
           /\ cmd' = cmd /\ unlucky' = TRUE
           /\ UNCHANGED <<lockFile, seen, robbed, manifest, lockfile, record, libs, staging,
                          jobs, theirs, kills>>
BY DEF Types, GivesUp, Goto, disk

\* A kill leaves nothing in memory.
LEMMA KillTypes ==
    ASSUME Types, NEW p \in Commands, Kill(p), overlap' \in BOOLEAN
    PROVE  Types'
<1>1. cmd' \in [Commands -> Memory] /\ cmd'[p] = Blank
  BY BlankIs DEF Types, Kill
<1>2. seen' \in [Commands -> Commands \cup {None}]
  BY DEF Types, LockTypeOK, Kill
<1>3. pc' \in [Commands -> {"start"} \cup LockPlaces \cup WorkPlaces \cup Ended]
  BY DEF Types, Kill, Goto, Ended
<1>4. kills' \in 0 .. MaxKills
  BY JobsAssumption DEF Types, Kill
<1>5. unlucky' \in BOOLEAN
  BY DEF Types, Kill, Unrecorded
<1>6. UNCHANGED <<lockFile, robbed, manifest, lockfile, record, libs, staging, jobs, theirs, faults>>
  BY DEF Kill, disk
<1> QED
  BY <1>1, <1>2, <1>3, <1>4, <1>5, <1>6 DEF Types, LockTypeOK

\* Every step keeps the types.
LEMMA TypesKept == Types /\ (\A p \in Commands : Places(p) /\ Log(p)) /\ [Next]_vars => Types'
<1> SUFFICES ASSUME Types, \A p \in Commands : Places(p) /\ Log(p), [Next]_vars PROVE Types'
  OBVIOUS
<1>1. CASE UNCHANGED vars
  BY <1>1 DEF Types, vars, lockVars, disk, bounds, LockTypeOK
<1>2. CASE Next
  <2>1. overlap' \in BOOLEAN
    BY <1>2 DEF Next, Types, Overlaps
  <2>2. PICK p \in Commands : Step(p) \/ Kill(p)
    BY <1>2 DEF Next
  <2>3. Places(p) /\ Log(p)
    OBVIOUS
  <2>4. CASE Kill(p) \/ Raises(p)
    BY <2>1, <2>4, KillTypes, RaisesTypes
  <2>5. CASE Open(p)
    BY <2>1, <2>5, OpenTypes
  <2>6. CASE Acquire(p) \/ LetGo(p)
    BY <2>1, <2>6, LockTypes
  <2>7. CASE Recover(p) \/ Sweep(p) \/ Undo(p) \/ PutBack(p) \/ Clear(p) \/ GivesUp(p)
    BY <2>1, <2>3, <2>7, UndoTypes
  <2>8. CASE Plan(p) \/ Stage(p) \/ StageFails(p) \/ Clean(p)
    BY <2>1, <2>8, PlanTypes
  <2>9. CASE \/ Begin(p) \/ MoveOut(p) \/ NoteOut(p) \/ MoveIn(p) \/ NoteIn(p) \/ MoveFails(p)
             \/ Commit(p) \/ Hooks(p) \/ RolledBack(p)
             \/ SaveRecord(p) \/ SaveLock(p) \/ SaveManifest(p) \/ Finish(p) \/ FinishFails(p)
    BY <2>1, <2>3, <2>9, TransactionTypes
  <2> QED
    BY <2>2, <2>4, <2>5, <2>6, <2>7, <2>8, <2>9 DEF Step
<1> QED
  BY <1>1, <1>2
-----------------------------------------------------------------------------
(* Steps *)

\* A step of a command is at one place and leaves the others' places alone.
LEMMA Goes ==
    ASSUME Types, NEW p \in Commands, Step(p) \/ Kill(p)
    PROVE  /\ pc'[p] \in LockPlaces \cup WorkPlaces \cup Ended
           /\ \A q \in Commands \ {p} : pc'[q] = pc[q]
<1>1. pc \in [Commands -> {"start"} \cup LockPlaces \cup WorkPlaces \cup Ended]
  BY DEF Types
<1>2. CASE pc' = pc
  <2>1. pc[p] \in LockPlaces \cup WorkPlaces \cup Ended
    <3>1. pc[p] # "start"
      BY <1>2, <1>1, Zenon DEF Step, Kill, Raises, Open, Acquire, Wait, Try, Exists, Read, Judge,
        Break,
          Write, LetGo, Release, Recover, Sweep, Undo, PutBack, Clear, GivesUp, Plan, Stage,
          StageFails, Begin, MoveOut,
          NoteOut, MoveIn, NoteIn, MoveFails, Commit, Hooks, RolledBack, SaveRecord, SaveLock,
          SaveManifest, Finish, FinishFails, Clean, Goto, Fail, LockPlaces, WorkPlaces
    <3> QED
      BY <1>1, <3>1
  <2> QED
    BY <1>2, <2>1
<1>3. CASE \E place \in LockPlaces \cup WorkPlaces \cup Ended : Goto(p, place)
  BY <1>1, <1>3 DEF Goto
<1>4. CASE Acquire(p)
  <2>1. \E place \in LockPlaces \cup WorkPlaces \cup Ended : Goto(p, place)
    BY <1>4 DEF Acquire, Wait, Try, Exists, Read, Judge, Break, Write, LockPlaces, WorkPlaces, Ended
  <2> QED
    BY <1>3, <2>1
<1>5. CASE Open(p) \/ LetGo(p) \/ Kill(p) \/ Raises(p)
  <2>1. \E place \in LockPlaces \cup WorkPlaces \cup Ended : Goto(p, place)
    BY <1>5 DEF Open, LetGo, Release, Kill, Raises, LockPlaces, WorkPlaces, Ended
  <2> QED
    BY <1>3, <2>1
<1>6. CASE Recover(p) \/ Sweep(p) \/ Undo(p) \/ PutBack(p) \/ Clear(p) \/ GivesUp(p)
  <2>1. \E place \in LockPlaces \cup WorkPlaces \cup Ended : Goto(p, place)
    BY <1>6, PlacesAre, Zenon DEF Recover, Sweep, Undo, PutBack, Clear, GivesUp
  <2> QED
    BY <1>3, <2>1
<1>7. CASE Plan(p) \/ Stage(p) \/ StageFails(p) \/ Begin(p)
  <2>1. \E place \in LockPlaces \cup WorkPlaces \cup Ended : Goto(p, place)
    BY <1>7, PlacesAre DEF Plan, Stage, StageFails, Begin, Fail
  <2> QED
    BY <1>3, <2>1
<1>8. CASE MoveOut(p) \/ NoteOut(p) \/ MoveIn(p) \/ NoteIn(p) \/ MoveFails(p)
  <2>1. pc' = pc \/ \E place \in LockPlaces \cup WorkPlaces \cup Ended : Goto(p, place)
    BY <1>8, PlacesAre DEF MoveOut, NoteOut, MoveIn, NoteIn, MoveFails, Fail
  <2> QED
    BY <1>2, <1>3, <2>1
<1>9. CASE Commit(p) \/ Hooks(p) \/ RolledBack(p) \/ Clean(p)
  <2>1. pc' = pc \/ \E place \in LockPlaces \cup WorkPlaces \cup Ended : Goto(p, place)
    BY <1>9, PlacesAre DEF Commit, Hooks, RolledBack, Clean, Fail
  <2> QED
    BY <1>2, <1>3, <2>1
<1>10. CASE SaveRecord(p) \/ SaveLock(p) \/ SaveManifest(p) \/ Finish(p) \/ FinishFails(p)
  <2>1. \E place \in LockPlaces \cup WorkPlaces \cup Ended : Goto(p, place)
    BY <1>10, PlacesAre DEF SaveRecord, SaveLock, SaveManifest, Finish, FinishFails
  <2> QED
    BY <1>3, <2>1
<1> QED
  BY <1>4, <1>5, <1>6, <1>7, <1>8, <1>9, <1>10 DEF Step

\* It leaves the others' memory alone.
LEMMA Remembers ==
    ASSUME Types, NEW p \in Commands, Step(p) \/ Kill(p), NEW q \in Commands, q # p
    PROVE  cmd'[q] = cmd[q]
<1>1. cmd \in [Commands -> Memory]
  BY DEF Types
<1>2. CASE cmd' = cmd
  BY <1>2
<1>3. CASE \E m : cmd' = [cmd EXCEPT ![p] = m]
  BY <1>1, <1>3
<1>4. CASE Open(p) \/ Acquire(p) \/ LetGo(p) \/ Kill(p) \/ Raises(p)
  BY <1>1, <1>4 DEF Open, Acquire, LetGo, Kill, Raises
<1>5. CASE Recover(p) \/ Sweep(p) \/ Undo(p) \/ PutBack(p) \/ Clear(p) \/ GivesUp(p)
  BY <1>1, <1>5, Zenon DEF Recover, Sweep, Undo, PutBack, Clear, GivesUp
<1>6. CASE Plan(p) \/ Stage(p) \/ StageFails(p) \/ Begin(p)
  BY <1>1, <1>6 DEF Plan, Stage, StageFails, Begin, Fail
<1>7. CASE MoveOut(p) \/ NoteOut(p) \/ MoveIn(p) \/ NoteIn(p) \/ MoveFails(p)
  BY <1>1, <1>7 DEF MoveOut, NoteOut, MoveIn, NoteIn, MoveFails, Fail
<1>8. CASE Commit(p) \/ Hooks(p) \/ RolledBack(p) \/ Clean(p)
  BY <1>1, <1>8 DEF Commit, Hooks, RolledBack, Clean, Fail
<1>9. CASE SaveRecord(p) \/ SaveLock(p) \/ SaveManifest(p) \/ Finish(p) \/ FinishFails(p)
  BY <1>9 DEF SaveRecord, SaveLock, SaveManifest, Finish, FinishFails
<1> QED
  BY <1>4, <1>5, <1>6, <1>7, <1>8, <1>9 DEF Step

\* It touches the others' directories only to put back from one, or to clear it.
LEMMA Touches ==
    ASSUME Types, NEW p \in Commands, Step(p) \/ Kill(p), NEW q \in Commands, q # p
    PROVE  \/ staging'[q] = staging[q]
           \/ pc[p] = "clear" /\ cmd[p].of = q /\ staging'[q] = None
           \/ /\ pc[p] = "putBack" /\ cmd[p].of = q /\ staging[q] # None /\ staging'[q] # None
              /\ staging'[q].done = staging[q].done /\ staging'[q].state = staging[q].state
              /\ staging'[q].new = staging[q].new
<1>1. staging \in [Commands -> Root \cup {None}]
  BY DEF Types
<1>2. CASE Open(p) \/ Acquire(p) \/ LetGo(p) \/ Kill(p) \/ Raises(p)
  BY <1>2 DEF Open, Acquire, LetGo, Kill, Raises, disk
<1>3. CASE Recover(p) \/ Sweep(p) \/ Undo(p) \/ GivesUp(p)
  BY <1>3, Zenon DEF Recover, Sweep, Undo, GivesUp, disk
<1>4. CASE Clear(p)
  BY <1>1, <1>4 DEF Clear
<1>5. CASE PutBack(p)
  <2>1. CASE staging' = staging
    BY <2>1
  <2>2. CASE staging' # staging
    <3> DEFINE r == cmd[p].of
               k == Last(cmd[p].left).pkg
    <3>1. staging[r] # None /\ staging' = [staging EXCEPT ![r].old[k] = None] /\ pc[p] = "putBack"
      BY <1>5, <2>2 DEF PutBack
    <3>2. CASE r = q
      <4> DEFINE s == [staging[q] EXCEPT !.old = [staging[q].old EXCEPT ![k] = None]]
      <4>1. staging[q] \in Root /\ staging' = [staging EXCEPT ![q] = s]
        BY <1>1, <3>1, <3>2
      <4>2. s.done = staging[q].done /\ s.state = staging[q].state /\ s.new = staging[q].new
        BY <4>1 DEF Root
      <4>3. s # None
        <5>1. DOMAIN s = {"state", "done", "new", "old", "dirs"}
          BY <4>1 DEF Root
        <5>2. CASE k \in Packages
          <6>1. [staging[q].old EXCEPT ![k] = None] \in Tree
            BY <4>1, <5>2, RootWith, TreeWith
          <6> QED
            BY <4>1, <6>1, RootWith
        <5>3. CASE k \notin Packages
          <6>1. DOMAIN staging[q].old = Packages
            BY <4>1, RootWith DEF Tree
          <6>2. [staging[q].old EXCEPT ![k] = None] = staging[q].old
            BY <4>1, <5>3, RootWith DEF Tree
          <6>3. staging[q].old \in Tree
            BY <4>1, RootWith
          <6> QED
            BY <4>1, <6>2, <6>3, RootWith
        <5> QED
          BY <5>2, <5>3
      <4> HIDE DEF s
      <4> QED
        BY <1>1, <3>1, <3>2, <4>1, <4>2, <4>3
    <3>3. CASE r # q
      BY <1>1, <3>1, <3>3
    <3> QED
      BY <3>2, <3>3
  <2> QED
    BY <2>1, <2>2
<1>6. CASE Plan(p) \/ Stage(p) \/ StageFails(p) \/ Clean(p)
  BY <1>1, <1>6 DEF Plan, Stage, StageFails, Clean, disk
<1>7. CASE Begin(p) \/ NoteOut(p) \/ NoteIn(p) \/ Commit(p) \/ RolledBack(p)
  BY <1>1, <1>7 DEF Begin, NoteOut, NoteIn, Commit, RolledBack, Journal
<1>8. CASE MoveOut(p) \/ MoveIn(p) \/ MoveFails(p) \/ Hooks(p)
  BY <1>1, <1>8 DEF MoveOut, MoveIn, MoveFails, Hooks, disk
<1>9. CASE SaveRecord(p) \/ SaveLock(p) \/ SaveManifest(p) \/ Finish(p) \/ FinishFails(p)
  BY <1>1, <1>9 DEF SaveRecord, SaveLock, SaveManifest, Finish, FinishFails, disk
<1> QED
  BY <1>2, <1>3, <1>4, <1>5, <1>6, <1>7, <1>8, <1>9 DEF Step
-----------------------------------------------------------------------------
(* Places and logs *)

\* What a command remembers of its files.
LEMMA OpenIs ==
    ASSUME Types, NEW p \in Commands, Open(p)
    PROVE  /\ pc[p] = "start" /\ UNCHANGED <<lockFile, seen, robbed, disk, bounds>>
           /\ \/ Goto(p, "failed") /\ cmd' = cmd
              \/ /\ Goto(p, IF cmd'[p].dry THEN "recover" ELSE "try")
                 /\ cmd'[p].done = <<>> /\ cmd'[p].left = <<>> /\ cmd'[p].todo = {}
                 /\ cmd'[p].visit = {} /\ cmd'[p].of = None /\ ~cmd'[p].failed
<1> DEFINE job == jobs[p]
<1>1. pc[p] = "start" /\ UNCHANGED <<lockFile, seen, robbed, disk, bounds>>
  BY DEF Open
<1>2. CASE Goto(p, "failed") /\ cmd' = cmd
  BY <1>1, <1>2
<1>3. CASE ~(Goto(p, "failed") /\ cmd' = cmd)
  <2>1. PICK target : cmd' = [cmd EXCEPT ![p] = [Blank EXCEPT !.op = job.op, !.dry = job.dry,
                                          !.declared = Declared(job), !.target = target]]
    BY <1>3 DEF Open
  <2>2. Goto(p, IF job.dry THEN "recover" ELSE "try")
    BY <1>3 DEF Open
  <2> DEFINE m == [Blank EXCEPT !.op = job.op, !.dry = job.dry,
                                !.declared = Declared(job), !.target = target]
  <2>3. /\ m.done = <<>> /\ m.left = <<>> /\ m.todo = {} /\ m.visit = {} /\ m.of = None
        /\ m.failed = FALSE /\ m.dry = job.dry
    BY DEF Blank
  <2> HIDE DEF m
  <2>4. cmd'[p] = m
    BY <2>1 DEF m, Types
  <2> QED
    BY <1>1, <2>2, <2>3, <2>4
<1> QED
  BY <1>2, <1>3

\* What a command remembers of a directory that it finds.
LEMMA SweepIs ==
    ASSUME Types, NEW p \in Commands, Sweep(p)
    PROVE  LET r == cmd'[p].of
               caught == staging[r] # None /\ staging[r].state = "swapping"
           IN /\ pc[p] = "sweep" /\ UNCHANGED <<lockFile, seen, robbed, disk, bounds>>
              /\ \/ cmd[p].visit = {} /\ Goto(p, "plan") /\ cmd' = cmd
                 \/ /\ r \in cmd[p].visit
                    /\ Goto(p, IF caught THEN "undo" ELSE "clear")
                    /\ cmd'[p].visit = cmd[p].visit \ {r}
                    /\ cmd'[p].left = IF caught THEN staging[r].done ELSE <<>>
                    /\ cmd'[p].done = cmd[p].done /\ cmd'[p].failed = cmd[p].failed
                    /\ cmd'[p].todo = cmd[p].todo /\ cmd'[p].target = cmd[p].target
                    /\ cmd'[p].op = cmd[p].op /\ cmd'[p].dry = cmd[p].dry
                    /\ cmd'[p].before = cmd[p].before
<1> DEFINE Caught(r) == staging[r] # None /\ staging[r].state = "swapping"
           With(r) == [cmd[p] EXCEPT !.visit = cmd[p].visit \ {r}, !.of = r,
                                     !.left = IF Caught(r) THEN staging[r].done ELSE <<>>]
<1>1. pc[p] = "sweep" /\ UNCHANGED <<lockFile, seen, robbed, disk, bounds>>
  BY Zenon DEF Sweep
<1>2. CASE cmd[p].visit = {} /\ Goto(p, "plan") /\ cmd' = cmd
  BY <1>1, <1>2
<1>3. CASE ~(cmd[p].visit = {} /\ Goto(p, "plan") /\ cmd' = cmd)
  <2>1. PICK r \in cmd[p].visit : /\ cmd' = [cmd EXCEPT ![p] = With(r)]
                                  /\ Goto(p, IF Caught(r) THEN "undo" ELSE "clear")
    BY <1>3, Zenon DEF Sweep
  <2>2. cmd[p] \in Memory
    BY DEF Types
  <2>3. /\ With(r).visit = cmd[p].visit \ {r} /\ With(r).of = r
        /\ With(r).left = IF Caught(r) THEN staging[r].done ELSE <<>>
        /\ With(r).done = cmd[p].done /\ With(r).failed = cmd[p].failed
        /\ With(r).todo = cmd[p].todo /\ With(r).target = cmd[p].target
        /\ With(r).op = cmd[p].op /\ With(r).dry = cmd[p].dry
        /\ With(r).before = cmd[p].before
    <3> HIDE DEF Caught
    <3> QED
      BY <2>2 DEF Memory
  <2> HIDE DEF With
  <2>4. cmd'[p] = With(r)
    BY <2>1 DEF Types
  <2> QED
    BY <1>1, <2>1, <2>3, <2>4
<1> QED
  BY <1>2, <1>3

\* What a step does to its own command's part of Places.
LEMMA PlacesOwn ==
    ASSUME Types, NEW p \in Commands, Places(p), Log(p), Step(p) \/ Kill(p)
    PROVE  Places(p)'
<1> DEFINE m == cmd[p]
<1>1. /\ cmd \in [Commands -> Memory] /\ m \in Memory
      /\ pc \in [Commands -> {"start"} \cup LockPlaces \cup WorkPlaces \cup Ended]
      /\ staging \in [Commands -> Root \cup {None}]
      /\ m.done \in Seq(Entry) /\ m.left \in Seq(Entry) /\ m.visit \in SUBSET Commands
  BY DEF Types, Memory
<1> USE DEF Places, Without, Mending, Undoing, Before, Moving, Between, LockPlaces
<1>2. CASE Open(p)
  <2>1. /\ pc[p] = "start" /\ staging' = staging
        /\ pc'[p] \in {"recover", "try", "failed"}
        /\ pc'[p] # "failed" =>
              cmd'[p].done = <<>> /\ cmd'[p].visit = {} /\ ~cmd'[p].failed
    BY <1>1, <1>2, OpenIs DEF Goto, disk
  <2> QED
    BY <1>1, <2>1
<1>3. CASE Acquire(p)
  <2>1. cmd' = cmd /\ staging' = staging
    BY <1>3 DEF Acquire, disk
  <2>2. /\ pc[p] \in LockPlaces
        /\ pc'[p] \in LockPlaces \cup {"recover", "failed"}
    BY <1>1, <1>3 DEF Acquire, Wait, Try, Exists, Read, Judge, Break, Write, Goto
  <2> QED
    BY <2>1, <2>2
<1>4. CASE LetGo(p) \/ Kill(p) \/ Raises(p)
  <2>1. pc'[p] \in {"done", "failed", "killed", "raise"}
    BY <1>1, <1>4, RaisesIs DEF LetGo, Release, Kill, Goto
  <2> QED
    BY <2>1
<1>5. CASE Recover(p)
  <2>1. /\ pc[p] = "recover" /\ pc'[p] = "sweep" /\ staging' = staging
        /\ cmd'[p].visit = {q \in Commands : staging[q] # None}
        /\ cmd'[p].done = m.done /\ cmd'[p].failed = m.failed
    BY <1>1, <1>5 DEF Recover, Goto, Memory, disk
  <2> QED
    BY <2>1
<1>6. CASE Sweep(p)
  <2>1. /\ pc[p] = "sweep" /\ staging' = staging
        /\ cmd'[p].done = m.done /\ cmd'[p].failed = m.failed /\ cmd'[p].visit \subseteq m.visit
        /\ \/ pc'[p] = "plan"
           \/ pc'[p] \in {"undo", "clear"} /\ cmd'[p].of \in m.visit
    BY <1>1, <1>6, SweepIs DEF Goto, disk
  <2> QED
    BY <1>1, <2>1
<1>7. CASE Undo(p)
  <2>1. /\ pc[p] = "undo" /\ staging' = staging /\ cmd' = cmd
        /\ \/ pc'[p] = "rolledBack" /\ m.of = p
           \/ pc'[p] = "clear" /\ m.of # p
           \/ pc'[p] = "putBack" /\ m.left # <<>>
    BY <1>1, <1>7 DEF Undo, Goto
  <2> QED
    BY <1>1, <2>1
<1>8. CASE PutBack(p)
  <2>1. /\ pc[p] = "putBack" /\ pc'[p] = "undo"
        /\ cmd'[p].done = m.done /\ cmd'[p].failed = m.failed /\ cmd'[p].visit = m.visit
        /\ cmd'[p].of = m.of
    BY <1>1, <1>8 DEF PutBack, Goto, Memory
  <2>2. m.of # p => staging'[p] = staging[p]
    BY <1>1, <1>8 DEF PutBack
  <2> QED
    BY <2>1, <2>2
<1>9. CASE Clear(p)
  <2>1. /\ pc[p] = "clear" /\ pc'[p] = "sweep"
        /\ cmd'[p].done = m.done /\ cmd'[p].failed = m.failed /\ cmd'[p].visit = m.visit
        /\ staging'[p] \in {None, staging[p]}
    BY <1>1, <1>9 DEF Clear, Goto, Memory
  <2> QED
    BY <2>1
<1>10. CASE Plan(p)
  <2>1. /\ pc[p] = "plan" /\ staging' = staging
        /\ pc'[p] \in {"failed", "done", "release", "clean", "stage"}
        /\ pc'[p] \in {"clean", "stage"} => cmd'[p].done = m.done /\ ~cmd'[p].failed
    BY <1>1, <1>10 DEF Plan, Goto, Memory, disk
  <2> QED
    BY <2>1
<1>11. CASE Stage(p)
  <2>1. pc[p] = "stage" /\ pc'[p] = "begin" /\ cmd' = cmd
    BY <1>1, <1>11 DEF Stage, Goto
  <2> QED
    BY <2>1
<1>12. CASE StageFails(p)
  <2>1. pc'[p] = "release"
    BY <1>1, <1>12 DEF StageFails, Fail, Goto
  <2> QED
    BY <2>1
<1>13. CASE Begin(p)
  <2>1. pc[p] = "begin" /\ pc'[p] = "move" /\ cmd' = cmd
    BY <1>1, <1>13 DEF Begin, Goto
  <2> QED
    BY <2>1
<1>14. CASE MoveOut(p)
  <2>1. pc[p] = "move" /\ pc'[p] \in {"move", "noteOut"} /\ cmd'[p].failed = m.failed
    BY <1>1, <1>14, MoveOutIs DEF MoveOut, Goto
  <2> QED
    BY <2>1
<1>15. CASE NoteOut(p) \/ NoteIn(p)
  <2>1. pc[p] \in {"noteOut", "noteIn"} /\ pc'[p] \in {"move", "moveIn"} /\ cmd'[p].failed = m.failed
    BY <1>1, <1>15, NoteIs, Zenon DEF NoteOut, NoteIn, Goto
  <2> QED
    BY <2>1
<1>16. CASE MoveIn(p)
  <2>1. m.done # <<>> /\ m.todo # {}
    BY <1>16 DEF MoveIn, Log
  <2>2. pc[p] = "moveIn" /\ pc'[p] = "noteIn" /\ cmd'[p].failed = m.failed
    BY <1>1, <1>16, <2>1, MoveInIs DEF MoveIn, Goto
  <2> QED
    BY <2>2
<1>17. CASE MoveFails(p) \/ (Hooks(p) /\ Fail(p, "undo"))
  <2>1. Fail(p, "undo")
    BY <1>17 DEF MoveFails
  <2>2. pc'[p] = "undo" /\ cmd'[p].of = p /\ cmd'[p].failed
    BY <1>1, <2>1, FailIs DEF Goto
  <2> QED
    BY <2>2
<1>18. CASE Commit(p)
  <2>1. pc[p] = "move" /\ pc'[p] = "hooks" /\ cmd' = cmd /\ m.todo = {}
    BY <1>1, <1>18 DEF Commit, Goto
  <2> QED
    BY <2>1
<1>19. CASE Hooks(p) /\ ~Fail(p, "undo")
  <2>1. pc[p] = "hooks" /\ pc'[p] = "record" /\ cmd' = cmd
    BY <1>1, <1>19 DEF Hooks, Goto
  <2> QED
    BY <2>1
<1>20. CASE RolledBack(p) \/ SaveManifest(p) \/ Finish(p) \/ FinishFails(p)
  <2>1. pc'[p] \in {"finish", "release"}
    BY <1>1, <1>20 DEF RolledBack, SaveManifest, Finish, FinishFails, Goto
  <2> QED
    BY <2>1
<1>21. CASE SaveRecord(p) \/ SaveLock(p)
  <2>1. pc[p] \in {"record", "lock"} /\ pc'[p] \in {"lock", "manifest", "finish"} /\ cmd' = cmd
    BY <1>1, <1>21 DEF SaveRecord, SaveLock, Goto
  <2> QED
    BY <2>1
<1>22. CASE Clean(p)
  <2>1. /\ pc[p] = "clean" /\ pc'[p] \in {"clean", "release"} /\ staging' = staging
        /\ cmd'[p].done = m.done /\ cmd'[p].failed = m.failed
    BY <1>1, <1>22 DEF Clean, Goto, Memory
  <2> QED
    BY <2>1
<1>23. CASE GivesUp(p)
  <2>1. /\ pc[p] \in {"undo", "putBack"} /\ m.of # p /\ pc'[p] = "clear"
        /\ cmd' = cmd /\ staging' = staging
    BY <1>23, GivesUpIs
  <2> QED
    BY <2>1
<1> QED
  BY <1>2, <1>3, <1>4, <1>5, <1>6, <1>7, <1>8, <1>9, <1>10, <1>11, <1>12, <1>13, <1>14, <1>15,
     <1>16, <1>17, <1>18, <1>19, <1>20, <1>21, <1>22, <1>23 DEF Step

\* What a command holds fits where it is, after every step.
LEMMA PlacesKept ==
    ASSUME Types, \A q \in Commands : Places(q), \A q \in Commands : Log(q),
           NEW p \in Commands, Step(p) \/ Kill(p)
    PROVE  \A q \in Commands : Places(q)'
<1>1. SUFFICES ASSUME NEW q \in Commands PROVE Places(q)'
  OBVIOUS
<1>2. CASE q = p
  BY <1>2, PlacesOwn
<1>3. CASE q # p
  <2>1. pc'[q] = pc[q] /\ cmd'[q] = cmd[q]
    BY <1>3, Goes, Remembers
  <2>2. staging[q] = None => staging'[q] = None
    BY <1>3, Touches
  <2> QED
    BY <2>1, <2>2 DEF Places, Without, Mending, Undoing, Before, Moving
<1> QED
  BY <1>2, <1>3
\* Whose turn it is depends on what is to do, and on what of it has only to go.
LEMMA TurnKept ==
    ASSUME NEW p, cmd'[p].todo = cmd[p].todo, cmd'[p].target = cmd[p].target, cmd'[p].op = cmd[p].op
    PROVE  Turn(p)' = Turn(p)
BY DEF Turn

\* A log stays without repetitions when a package that is not in it is added.
LEMMA DistinctAppend ==
    ASSUME NEW log \in Seq(Entry), NEW e \in Entry, Distinct(log),
           \A i \in DOMAIN log : log[i].pkg # e.pkg
    PROVE  Distinct(Append(log, e))
<1> DEFINE n == Len(log)
           more == Append(log, e)
<1>1. /\ n \in Nat /\ DOMAIN log = 1 .. n /\ DOMAIN more = 1 .. n + 1
      /\ \A i \in 1 .. n : more[i] = log[i]
      /\ more[n + 1] = e
  BY LogIs, AppendIs
<1> HIDE DEF n, more
<1>2. \A i \in 1 .. n + 1 : i \in 1 .. n \/ i = n + 1
  BY <1>1
<1> QED
  BY <1>1, <1>2 DEF Distinct, more

\* What a step does to its own command's logs, memory's first.
LEMMA DoneOwn ==
    ASSUME Types, NEW p \in Commands, Places(p), Log(p), Step(p) \/ Kill(p)
    PROVE  /\ cmd'[p].done \in Seq(Entry)
           /\ \/ cmd'[p].done = <<>>
              \/ cmd'[p].done = cmd[p].done
              \/ MoveOut(p) \/ MoveIn(p)
<1>1. cmd \in [Commands -> Memory] /\ cmd[p] \in Memory /\ cmd[p].done \in Seq(Entry)
  BY DEF Types, Memory
<1>2. \/ cmd'[p].done = <<>>
      \/ cmd'[p].done = cmd[p].done
      \/ MoveOut(p) \/ MoveIn(p)
  <2>1. CASE Open(p)
    BY <2>1, OpenIs
  <2>2. CASE Acquire(p) \/ LetGo(p) \/ Kill(p) \/ Raises(p)
    BY <1>1, <2>2 DEF Acquire, LetGo, Kill, Raises, Blank
  <2>3. CASE Sweep(p)
    BY <2>3, SweepIs
  <2>4. CASE Recover(p) \/ Undo(p) \/ PutBack(p) \/ Clear(p) \/ GivesUp(p)
    BY <1>1, <2>4 DEF Recover, Undo, PutBack, Clear, GivesUp, Memory
  <2>5. CASE Plan(p)
    <3> DEFINE m == [cmd[p] EXCEPT !.todo = Steps(p),
                                   !.failed = cmd[p].op # "clean" /\ InTheWay(p),
                                   !.before = <<manifest, lockfile, record, libs>>]
    <3>1. m.done = cmd[p].done
      BY <1>1 DEF Memory
    <3>2. cmd' = [cmd EXCEPT ![p] = IF cmd[p].dry THEN Blank ELSE m]
      BY <2>5 DEF Plan
    <3> HIDE DEF m
    <3> QED
      BY <1>1, <3>1, <3>2 DEF Blank
  <2>6. CASE StageFails(p) \/ MoveFails(p)
    BY <2>6, FailIs DEF StageFails, MoveFails
  <2>7. CASE Hooks(p)
    BY <2>7, FailIs DEF Hooks
  <2>8. CASE NoteOut(p) \/ NoteIn(p)
    BY <2>8, NoteIs
  <2>9. CASE Stage(p) \/ Begin(p) \/ Commit(p) \/ RolledBack(p) \/ SaveRecord(p) \/ SaveLock(p)
             \/ SaveManifest(p) \/ Finish(p) \/ FinishFails(p)
    BY <2>9 DEF Stage, Begin, Commit, RolledBack, SaveRecord, SaveLock, SaveManifest, Finish,
      FinishFails
  <2>10. CASE Clean(p)
    BY <1>1, <2>10 DEF Clean, Memory
  <2> QED
    BY <2>1, <2>2, <2>3, <2>4, <2>5, <2>6, <2>7, <2>8, <2>9, <2>10 DEF Step
<1>3. cmd'[p].done \in Seq(Entry)
  <2>1. CASE MoveOut(p)
    <3>1. cmd' \in [Commands -> Memory]
      BY <2>1, MoveOutIs
    <3> QED
      BY <3>1 DEF Memory
  <2>2. CASE MoveIn(p)
    <3>1. cmd[p].done # <<>> /\ cmd[p].todo # {}
      BY <2>2 DEF MoveIn, Log, Between
    <3>2. cmd' \in [Commands -> Memory]
      BY <2>2, <3>1, MoveInIs
    <3> QED
      BY <3>2 DEF Memory
  <2> QED
    BY <1>1, <1>2, <2>1, <2>2, EmptySeq
<1> QED
  BY <1>2, <1>3

\* What a step does to its own command's journal.
LEMMA JournalOwn ==
    ASSUME Types, NEW p \in Commands, Places(p), Log(p), Step(p) \/ Kill(p)
    PROVE  \/ staging'[p] = None
           \/ /\ staging[p] # None /\ staging'[p].done = staging[p].done
              /\ staging'[p].state = staging[p].state
           \/ staging'[p].done = <<>>
           \/ staging'[p].state # "staging" /\ staging'[p].done = cmd[p].done
<1>1. staging \in [Commands -> Root \cup {None}] /\ cmd[p].done \in Seq(Entry)
      /\ <<>> \in Seq(Entry)
  BY EmptySeq DEF Types, Memory
<1>2. CASE staging' = staging
  BY <1>2
<1>3. CASE PutBack(p)
  <2>1. CASE staging' # staging
    <3> DEFINE r == cmd[p].of
               k == Last(cmd[p].left).pkg
    <3>1. staging[r] # None /\ staging' = [staging EXCEPT ![r].old[k] = None]
      BY <1>3, <2>1 DEF PutBack
    <3>2. CASE r = p
      <4> DEFINE s == [staging[p] EXCEPT !.old = [staging[p].old EXCEPT ![k] = None]]
      <4>1. staging[p] \in Root /\ staging' = [staging EXCEPT ![p] = s]
        BY <1>1, <3>1, <3>2
      <4>2. s.done = staging[p].done /\ s.state = staging[p].state
        BY <4>1 DEF Root
      <4> HIDE DEF s
      <4> QED
        BY <1>1, <3>1, <3>2, <4>1, <4>2
    <3>3. CASE r # p
      BY <1>1, <3>1, <3>3
    <3> QED
      BY <3>2, <3>3
  <2> QED
    BY <1>2, <2>1
<1>4. CASE Clear(p) \/ Finish(p)
  BY <1>1, <1>4 DEF Clear, Finish
<1>5. CASE Stage(p)
  BY <1>1, <1>5 DEF Stage
<1>6. CASE Begin(p)
  <2>1. staging'[p].done = <<>>
    BY <1>1, <1>6, JournalIs, PlacesAre DEF Begin
  <2> QED
    BY <2>1
<1>7. CASE NoteOut(p) \/ NoteIn(p)
  <2>1. Journal(p, "swapping", cmd[p].done)
    BY <1>7, NoteIs
  <2> QED
    BY <1>1, <2>1, JournalIs, PlacesAre
<1>8. CASE Commit(p)
  BY <1>1, <1>8, JournalIs, PlacesAre DEF Commit
<1>9. CASE RolledBack(p)
  <2>1. staging'[p].done = <<>>
    BY <1>1, <1>9, JournalIs, PlacesAre DEF RolledBack
  <2> QED
    BY <2>1
<1>10. CASE MoveOut(p)
  <2>1. CASE staging' # staging
    <3>1. staging[p] # None /\ Turn(p) \in Packages
          /\ staging' = [staging EXCEPT ![p].old[Turn(p)] = libs[Turn(p)]]
      BY <1>10, <2>1, MoveOutIs
    <3> QED
      BY <3>1, PutAway
  <2> QED
    BY <1>2, <2>1
<1>11. CASE MoveIn(p)
  <2>1. cmd[p].done # <<>> /\ cmd[p].todo # {}
    BY <1>11 DEF MoveIn, Log, Between
  <2> QED
    BY <1>11, <2>1, MoveInIs
<1>12. CASE \/ Open(p) \/ Acquire(p) \/ LetGo(p) \/ Recover(p) \/ Sweep(p) \/ Undo(p) \/ Plan(p)
            \/ StageFails(p) \/ MoveFails(p) \/ Hooks(p) \/ SaveRecord(p) \/ SaveLock(p)
            \/ SaveManifest(p) \/ FinishFails(p) \/ Clean(p) \/ Kill(p) \/ Raises(p) \/ GivesUp(p)
  <2>1. staging' = staging
    BY <1>12 DEF Open, Acquire, LetGo, Recover, Sweep, Undo, Plan, StageFails, MoveFails, Hooks,
        SaveRecord, SaveLock, SaveManifest, FinishFails, Clean, Kill, Raises, GivesUp, disk
  <2> QED
    BY <1>2, <2>1
<1> QED
  BY <1>3, <1>4, <1>5, <1>6, <1>7, <1>8, <1>9, <1>10, <1>11, <1>12 DEF Step
\* A step keeps its own command's logs in order.
LEMMA LogOwn ==
    ASSUME Types, NEW p \in Commands, Places(p), Log(p), Step(p) \/ Kill(p)
    PROVE  Log(p)'
<1> DEFINE m == cmd[p]
           k == Turn(p)
           n == Len(m.done)
           e(there) == [pkg |-> k, old |-> there, new |-> FALSE]
<1>1. /\ cmd \in [Commands -> Memory] /\ m \in Memory /\ m.todo \in SUBSET Packages
      /\ m.done \in Seq(Entry) /\ n \in Nat /\ DOMAIN m.done = 1 .. n
      /\ pc \in [Commands -> {"start"} \cup LockPlaces \cup WorkPlaces \cup Ended]
  BY LogIs DEF Types, Memory
<1>2. CASE MoveOut(p)
  <2>1. /\ k \in m.todo /\ k \in Packages
        /\ cmd'[p].target = m.target /\ cmd'[p].op = m.op
        /\ \/ /\ cmd'[p].todo = m.todo \ {k} /\ cmd'[p].done = m.done
              /\ UNCHANGED <<pc, libs, staging>>
           \/ /\ cmd'[p].todo = m.todo
              /\ cmd'[p].done = Append(m.done, e(libs[k] # None))
              /\ pc'[p] = "noteOut"
    BY <1>1, <1>2, MoveOutIs DEF Goto
  <2>2. pc[p] = "move" /\ \A i \in DOMAIN m.done : m.done[i].pkg \notin m.todo
    BY <1>2 DEF MoveOut, Log
  <2>3. CASE cmd'[p].todo = m.todo \ {k} /\ cmd'[p].done = m.done /\ UNCHANGED <<pc, libs, staging>>
    BY <2>2, <2>3 DEF Log, Between
  <2>4. CASE /\ cmd'[p].todo = m.todo
             /\ cmd'[p].done = Append(m.done, e(libs[k] # None))
             /\ pc'[p] = "noteOut"
    <3> DEFINE f == e(libs[k] # None)
               more == Append(m.done, f)
    <3>1. f \in Entry /\ f.pkg = k /\ f.new = FALSE
      BY <2>1 DEF Entry
    <3> HIDE DEF f, k
    <3>2. /\ Len(more) = n + 1 /\ DOMAIN more = 1 .. n + 1
          /\ \A i \in DOMAIN m.done : more[i] = m.done[i]
          /\ more[n + 1] = f /\ more # <<>>
      BY <1>1, <3>1, AppendIs
    <3>3. Distinct(more)
      <4>1. \A i \in DOMAIN m.done : m.done[i].pkg # f.pkg
        BY <2>1, <2>2, <3>1
      <4> QED
        BY <1>1, <3>1, <4>1, DistinctAppend DEF Log
    <3>4. cmd'[p].done = more
      BY <2>4 DEF f, k
    <3>5. Turn(p)' = k
      BY <2>1, <2>4, TurnKept DEF k
    <3> HIDE DEF more
    <3>6. \A i \in DOMAIN more : i # Len(more) => more[i].pkg \notin m.todo
      BY <1>1, <2>2, <3>2
    <3>7. m.todo # {}
      BY <2>1
    <3>8. staging'[p] # None =>
              /\ Distinct(staging'[p].done)
              /\ staging'[p].state = "staging" => staging'[p].done = <<>>
      <4>1. staging' = staging \/ (staging[p] # None
                /\ staging' = [staging EXCEPT ![p].old[Turn(p)] = libs[Turn(p)]])
        BY <1>2, MoveOutIs
      <4> QED
        BY <2>1, <4>1, PutAway DEF Log, k
    <3> QED
      BY <2>4, <3>1, <3>2, <3>3, <3>4, <3>5, <3>6, <3>7, <3>8 DEF Log, Between
  <2> QED
    BY <2>1, <2>3, <2>4
<1>3. CASE NoteOut(p) \/ NoteIn(p)
  <2> DEFINE ends == pc[p] = "noteIn" \/ m.target[k] = None
  <2>1. /\ cmd'[p].done = m.done
        /\ cmd'[p].todo = IF ends THEN m.todo \ {k} ELSE m.todo
        /\ cmd'[p].target = m.target /\ cmd'[p].op = m.op
        /\ pc'[p] = IF ends THEN "move" ELSE "moveIn"
        /\ Journal(p, "swapping", m.done)
    BY <1>1, <1>3, NoteIs DEF Goto
  <2>2. /\ pc[p] \in {"noteOut", "noteIn"} /\ m.done # <<>> /\ m.todo # {}
        /\ m.done[n].pkg = k
        /\ m.done[n].new <=> pc[p] = "noteIn"
        /\ \A i \in DOMAIN m.done : i # n => m.done[i].pkg \notin m.todo
        /\ Distinct(m.done)
    BY <1>3 DEF NoteOut, NoteIn, Log, Between
  <2>3. staging'[p].state = "swapping" /\ staging'[p].done = m.done
    BY <1>1, <2>1, JournalIs, PlacesAre
  <2>4. ~ends => Turn(p)' = k
    BY <2>1, TurnKept
  <2>5. Distinct(cmd'[p].done)
    BY <2>1, <2>2
  <2>6. pc'[p] = "move" => \A i \in DOMAIN cmd'[p].done : cmd'[p].done[i].pkg \notin cmd'[p].todo
    BY <2>1, <2>2
  <2>7. pc'[p] \in Between =>
          /\ cmd'[p].todo # {} /\ cmd'[p].done # <<>>
          /\ cmd'[p].done[Len(cmd'[p].done)].pkg = Turn(p)'
          /\ cmd'[p].done[Len(cmd'[p].done)].new <=> pc'[p] = "noteIn"
          /\ \A i \in DOMAIN cmd'[p].done :
                i # Len(cmd'[p].done) => cmd'[p].done[i].pkg \notin cmd'[p].todo
    BY <2>1, <2>2, <2>4 DEF Between
  <2>8. pc'[p] \in {"moveIn", "noteIn"} => cmd'[p].target[Turn(p)'] # None
    BY <2>1, <2>4
  <2> QED
    BY <2>2, <2>3, <2>5, <2>6, <2>7, <2>8 DEF Log
<1>4. CASE MoveIn(p)
  <2>1. /\ pc[p] = "moveIn" /\ m.done # <<>> /\ m.todo # {}
        /\ m.done[n].pkg = k /\ Distinct(m.done) /\ m.target[k] # None
        /\ \A i \in DOMAIN m.done : i # n => m.done[i].pkg \notin m.todo
    BY <1>4 DEF MoveIn, Log, Between
  <2>2. /\ cmd'[p].todo = m.todo /\ cmd'[p].target = m.target /\ cmd'[p].op = m.op
        /\ cmd'[p].done = [m.done EXCEPT ![n].new = TRUE]
        /\ pc'[p] = "noteIn" /\ staging[p] # None
        /\ staging'[p].done = staging[p].done /\ staging'[p].state = staging[p].state
    BY <1>1, <1>4, <2>1, MoveInIs, Zenon DEF Goto
  <2>3. Turn(p)' = k
    BY <2>2, TurnKept
  <2> DEFINE marked == cmd'[p].done
  <2>4. /\ Len(marked) = n /\ DOMAIN marked = DOMAIN m.done /\ marked # <<>>
        /\ \A i \in DOMAIN m.done : marked[i].pkg = m.done[i].pkg
        /\ marked[n].new = TRUE
    BY <1>1, <2>1, <2>2, MarkIs
  <2> HIDE DEF marked, n, k
  <2>5. n \in DOMAIN m.done
    BY <1>1, <2>1, LogIs DEF n
  <2>6. Distinct(marked)
    BY <2>1, <2>4 DEF Distinct
  <2>7. /\ marked[Len(marked)].pkg = k /\ marked[Len(marked)].new
        /\ \A i \in DOMAIN marked : i # Len(marked) => marked[i].pkg \notin m.todo
    BY <2>1, <2>4, <2>5
  <2> QED
    BY <2>1, <2>2, <2>3, <2>4, <2>6, <2>7 DEF Log, Between, marked
<1>5. CASE ~(MoveOut(p) \/ NoteOut(p) \/ NoteIn(p) \/ MoveIn(p))
  <2>0. Raises(p) => pc'[p] \in {"raise", "failed"} /\ pc'[p] # pc[p]
    BY RaisesIs DEF WorkPlaces
  <2>1. pc'[p] \notin Between \/ pc' = pc
    BY <1>1, <1>5, <2>0, Zenon DEF Between, Step, Kill, Open, Acquire, Wait, Try, Exists, Read,
          Judge, Break, Write, LetGo, Release, Recover, Sweep, Undo, PutBack, Clear, GivesUp,
          Plan, Stage, StageFails, Begin, MoveFails, Commit, Hooks, RolledBack, SaveRecord,
          SaveLock, SaveManifest, Finish, FinishFails, Clean, Goto, Fail
  <2>2. pc'[p] \in Moving => Begin(p)
    <3>1. pc' = pc => Clean(p)
      BY <1>1, <1>5, <2>0, Zenon DEF Step, Kill, Open, Acquire, Wait, Try, Exists, Read, Judge,
          Break, Write, LetGo, Release, Recover, Sweep, Undo, PutBack, Clear, GivesUp, Plan,
          Stage, StageFails, Begin, MoveFails, Commit, Hooks, RolledBack, SaveRecord, SaveLock,
          SaveManifest, Finish, FinishFails, Goto, Fail, WorkPlaces, LockPlaces
    <3>2. Clean(p) => pc'[p] \in {"clean", "release"}
      BY <1>1 DEF Clean, Goto
    <3>3. pc'[p] = "move" => Begin(p)
      BY <1>1, <1>5, <2>0, <3>1, <3>2, Zenon DEF Step, Kill, Open, Acquire, Wait, Try, Exists,
          Read, Judge, Break, Write, LetGo, Release, Recover, Sweep, Undo, PutBack, Clear,
          GivesUp, Plan, Stage, StageFails, MoveFails, Commit, Hooks, RolledBack, SaveRecord,
          SaveLock, SaveManifest, Finish, FinishFails, Goto, Fail
    <3> QED
      BY <2>1, <3>1, <3>2, <3>3 DEF Moving, Between
  <2>3. pc'[p] \in Moving => pc'[p] = "move" /\ cmd'[p].done = <<>>
    <3>1. Begin(p) => pc'[p] = "move" /\ cmd'[p].done = <<>>
      BY <1>1 DEF Begin, Goto, Places
    <3> QED
      BY <2>2, <3>1
  <2>4. Distinct(cmd'[p].done)
    BY <1>5, DoneOwn DEF Distinct, Log
  <2>5. staging'[p] # None =>
          /\ Distinct(staging'[p].done)
          /\ staging'[p].state = "staging" => staging'[p].done = <<>>
    BY JournalOwn DEF Distinct, Log
  <2> QED
    BY <2>3, <2>4, <2>5 DEF Log, Moving, Between
<1> QED
  BY <1>2, <1>3, <1>4, <1>5

\* Every step keeps the logs in order.
LEMMA LogsKept ==
    ASSUME Types, \A q \in Commands : Places(q), \A q \in Commands : Log(q),
           NEW p \in Commands, Step(p) \/ Kill(p)
    PROVE  \A q \in Commands : Log(q)'
<1>1. SUFFICES ASSUME NEW q \in Commands PROVE Log(q)'
  OBVIOUS
<1>2. CASE q = p
  BY <1>2, LogOwn
<1>3. CASE q # p
  <2>1. pc'[q] = pc[q] /\ cmd'[q] = cmd[q]
    BY <1>3, Goes, Remembers
  <2>2. staging'[q] # None => /\ staging[q] # None /\ staging'[q].done = staging[q].done
                              /\ staging'[q].state = staging[q].state
    BY <1>3, Touches
  <2>3. Turn(q)' = Turn(q)
    BY <2>1, TurnKept
  <2> QED
    BY <2>1, <2>2, <2>3 DEF Log
<1> QED
  BY <1>2, <1>3
\* A log without repetitions is no longer than there are packages.
LEMMA LogFits ==
    ASSUME NEW log \in Seq(Entry), Distinct(log)
    PROVE  Len(log) <= Len(Order)
<1> DEFINE n == Len(log)
           N == Len(Order)
           At(i) == CHOOSE j \in 1 .. N : Order[j] = log[i].pkg
           f == [i \in 1 .. n |-> At(i)]
<1>1. /\ n \in Nat /\ DOMAIN log = 1 .. n /\ \A i \in 1 .. n : log[i].pkg \in Packages
      /\ \A i, j \in 1 .. n : log[i].pkg = log[j].pkg => i = j
  BY LogIs DEF Entry, Distinct
<1>2. N \in Nat /\ DOMAIN Order = 1 .. N
  BY JobsAssumption, LenProperties
<1>3. \A k \in Packages : \E j \in 1 .. N : Order[j] = k
  BY <1>2 DEF Packages, Range
<1>4. \A i \in 1 .. n : At(i) \in 1 .. N /\ Order[At(i)] = log[i].pkg
  BY <1>1, <1>3
<1> HIDE DEF n, N, At
<1>5. f \in [1 .. n -> 1 .. N]
  BY <1>4
<1>6. \A i, j \in 1 .. n : f[i] = f[j] => i = j
  BY <1>1, <1>4
<1> HIDE DEF f
<1>7. f \in Injection(1 .. n, 1 .. N)
  BY <1>5, <1>6 DEF Injection, IsInjective
<1>8. IsFiniteSet(1 .. N) /\ Cardinality(1 .. N) = IF 1 > N THEN 0 ELSE N - 1 + 1
  <2>1. 1 \in Int /\ N \in Int
    BY <1>2
  <2> QED
    BY <2>1, FS_Interval, Zenon
<1>9. Cardinality(1 .. n) = IF 1 > n THEN 0 ELSE n - 1 + 1
  <2>1. 1 \in Int /\ n \in Int
    BY <1>1
  <2> QED
    BY <2>1, FS_Interval, Zenon
<1>10. Cardinality(1 .. n) <= Cardinality(1 .. N)
  BY <1>7, <1>8, FS_Injection
<1>11. Cardinality(1 .. n) = n /\ Cardinality(1 .. N) = N
  BY <1>1, <1>2, <1>8, <1>9
<1> QED
  BY <1>10, <1>11 DEF n, N

-----------------------------------------------------------------------------
(* The first invariant: types, places and logs *)

SoundInv == Types /\ (\A p \in Commands : Places(p)) /\ (\A p \in Commands : Log(p))

LEMMA SoundInit == Init => SoundInv
<1> SUFFICES ASSUME Init PROVE SoundInv
  OBVIOUS
<1>1. Types
  BY TypesInit
<1>2. \A p \in Commands : /\ pc[p] = "start" /\ staging[p] = None /\ cmd[p].done = <<>>
                          /\ cmd[p].visit = {} /\ ~cmd[p].failed
  BY DEF Init, LockInit, Blank
<1>3. \A p \in Commands : Places(p)
  BY <1>2 DEF Places, Mending, Undoing, Moving, Between
<1>4. \A p \in Commands : Log(p)
  <2>1. DOMAIN <<>> = {}
    OBVIOUS
  <2> QED
    BY <1>2, <2>1 DEF Log, Distinct, Between
<1> QED
  BY <1>1, <1>3, <1>4 DEF SoundInv

\* It is inductive.
LEMMA SoundNext == SoundInv /\ [Next]_vars => SoundInv'
<1> SUFFICES ASSUME SoundInv, [Next]_vars PROVE SoundInv'
  OBVIOUS
<1>1. Types'
  BY TypesKept DEF SoundInv
<1>2. CASE UNCHANGED vars
  <2>1. UNCHANGED <<pc, cmd, staging>> /\ \A p : Turn(p)' = Turn(p)
    BY <1>2 DEF vars, lockVars, disk, Turn
  <2>2. \A p \in Commands : Places(p)'
    BY <2>1 DEF SoundInv, Places, Without, Mending, Undoing
  <2>3. \A p \in Commands : Log(p)'
    BY <2>1 DEF SoundInv, Log
  <2> QED
    BY <1>1, <2>2, <2>3 DEF SoundInv
<1>3. CASE Next
  <2>1. PICK p \in Commands : Step(p) \/ Kill(p)
    BY <1>3 DEF Next
  <2>2. /\ Types /\ \A q \in Commands : Places(q)
        /\ \A q \in Commands : Log(q)
    BY DEF SoundInv
  <2>3. \A q \in Commands : Places(q)'
    BY <2>1, <2>2, PlacesKept
  <2>4. \A q \in Commands : Log(q)'
    BY <2>1, <2>2, LogsKept
  <2> QED
    BY <1>1, <2>3, <2>4 DEF SoundInv
<1> QED
  BY <1>2, <1>3

\* It is an invariant.
LEMMA SoundHolds == Spec => []SoundInv
<1> QED
  BY SoundInit, SoundNext, PTL DEF Spec

\* The type invariant: in particular no journal ever names a package twice, or one
\* that is not a package, and a journal that says "staging" is empty.
THEOREM PackageTypes == Spec => []TypeOK
<1>1. SoundInv => TypeOK
  <2> SUFFICES ASSUME SoundInv PROVE TypeOK
    OBVIOUS
  <2>1. /\ LockTypeOK /\ manifest \subseteq Packages /\ libs \in Tree
        /\ pc \in [Commands -> {"start"} \cup LockPlaces \cup WorkPlaces \cup Ended]
        /\ lockfile \in File /\ record \in File
        /\ staging \in [Commands -> Root \cup {None}] /\ cmd \in [Commands -> Memory]
        /\ kills \in 0 .. MaxKills /\ faults \in 0 .. MaxFaults
    BY DEF SoundInv, Types
  <2>2. \A p \in Commands : /\ staging[p] # None =>
                                  /\ staging[p] \in Root
                                  /\ Len(staging[p].done) <= Len(Order)
                                  /\ staging[p].state = "staging" => staging[p].done = <<>>
                            /\ Len(cmd[p].done) <= Len(Order) /\ cmd[p].todo \subseteq Packages
                            /\ pc[p] \in {"undo", "putBack", "clear"} => cmd[p].of \in Commands
    <3> SUFFICES ASSUME NEW p \in Commands
                 PROVE  /\ staging[p] # None =>
                              /\ staging[p] \in Root
                              /\ Len(staging[p].done) <= Len(Order)
                              /\ staging[p].state = "staging" => staging[p].done = <<>>
                        /\ Len(cmd[p].done) <= Len(Order) /\ cmd[p].todo \subseteq Packages
                        /\ pc[p] \in {"undo", "putBack", "clear"} => cmd[p].of \in Commands
      OBVIOUS
    <3>1. cmd[p].done \in Seq(Entry) /\ cmd[p].todo \subseteq Packages
      BY <2>1 DEF Memory
    <3>2. Log(p) /\ Places(p)
      BY DEF SoundInv
    <3>3. Len(cmd[p].done) <= Len(Order)
      BY <3>1, <3>2, LogFits DEF Log
    <3>4. staging[p] # None =>
              /\ staging[p] \in Root
              /\ Len(staging[p].done) <= Len(Order)
              /\ staging[p].state = "staging" => staging[p].done = <<>>
      <4>1. staging[p] # None => staging[p] \in Root /\ staging[p].done \in Seq(Entry)
        BY <2>1, RootWith
      <4> QED
        BY <3>2, <4>1, LogFits DEF Log
    <3> QED
      BY <3>1, <3>2, <3>3, <3>4 DEF Places
  <2>3. kills <= MaxKills /\ faults <= MaxFaults
    BY <2>1, JobsAssumption
  <2> QED
    BY <2>1, <2>2, <2>3 DEF TypeOK, File
<1> QED
  BY <1>1, SoundHolds, PTL

-----------------------------------------------------------------------------
(* Taking turns *)

\* A command that writes its id, or works, has the lock file, or lost it to one
\* that took it for dead.
LEMMA OwnedNext == SoundInv /\ AllOwned /\ [Next]_vars => AllOwned'
<1> SUFFICES ASSUME SoundInv, AllOwned, [Next]_vars PROVE AllOwned'
  OBVIOUS
<1>1. CASE UNCHANGED vars
  BY <1>1 DEF AllOwned, Owned, Working, vars, lockVars
<1>2. CASE Next
  <2>1. PICK p \in Commands : Step(p) \/ Kill(p)
    BY <1>2 DEF Next
  <2>2. Types
    BY DEF SoundInv
  <2>3. /\ pc \in [Commands -> {"start"} \cup LockPlaces \cup WorkPlaces \cup Ended]
        /\ cmd \in [Commands -> Memory]
        /\ lockFile \in LockFile \cup {None}
        /\ None \notin LockFile
    BY <2>2, NoneAssumption DEF Types, LockTypeOK
  <2>4. CASE UNCHANGED <<lockFile, robbed>>
    <3>1. \A q \in Commands : (pc'[q] = "write" \/ (Working(q)' /\ ~cmd'[q].dry))
                                => pc[q] = "write" \/ (Working(q) /\ ~cmd[q].dry)
      <4>1. \A q \in Commands \ {p} : pc'[q] = pc[q] /\ cmd'[q] = cmd[q]
        BY <2>1, <2>2, Goes, Remembers
      <4>2. (pc'[p] = "write" \/ (Working(p)' /\ ~cmd'[p].dry))
                => pc[p] = "write" \/ (Working(p) /\ ~cmd[p].dry)
        <5>1. CASE Open(p)
          <6>1. \/ pc'[p] = "failed"
                \/ pc'[p] = IF cmd'[p].dry THEN "recover" ELSE "try"
            BY <2>2, <2>3, <5>1, OpenIs DEF Goto
          <6> QED
            BY <6>1 DEF Working, WorkPlaces
        <5>2. CASE Acquire(p)
          <6>1. pc[p] = "write" \/ pc'[p] \in {"exists", "failed", "read", "judge", "break", "try"}
            <7>1. [by |-> p, written |-> FALSE] \in LockFile
              BY DEF LockFile
            <7>2. CASE Try(p)
              BY <2>3, <2>4, <7>1, <7>2 DEF Try, Goto
            <7>3. CASE Exists(p) \/ Read(p) \/ Judge(p) \/ Break(p) \/ Write(p)
              BY <2>3, <7>3 DEF Exists, Read, Judge, Break, Write, Goto
            <7> QED
              BY <5>2, <7>2, <7>3 DEF Acquire, Wait
          <6> QED
            BY <6>1 DEF Working, WorkPlaces
        <5>3. CASE LetGo(p) \/ Kill(p) \/ Raises(p)
          <6>1. CASE LetGo(p) \/ Kill(p)
            BY <2>3, <6>1 DEF LetGo, Release, Kill, Goto, Working, WorkPlaces
          <6>2. CASE Raises(p)
            BY <2>2, <6>2, RaisesIs DEF Working, WorkPlaces
          <6> QED
            BY <5>3, <6>1, <6>2
        <5>4. CASE ~(Open(p) \/ Acquire(p) \/ LetGo(p) \/ Kill(p) \/ Raises(p))
          <6>1. Working(p)
            BY <2>1, <5>4, Zenon DEF Step, Recover, Sweep, Undo, PutBack, Clear, GivesUp, Plan,
              Stage,
                StageFails, Begin, MoveOut, NoteOut, MoveIn, NoteIn, MoveFails, Commit, Hooks,
                RolledBack, SaveRecord,
                SaveLock, SaveManifest, Finish, FinishFails, Clean, Working, WorkPlaces
          <6>2. pc'[p] # "write"
            <7>1. pc[p] # "write"
              BY <6>1 DEF Working, WorkPlaces
            <7>2. CASE Recover(p) \/ Sweep(p) \/ Undo(p) \/ PutBack(p) \/ Clear(p) \/ GivesUp(p)
              BY <2>3, <7>2, Zenon DEF Recover, Sweep, Undo, PutBack, Clear, GivesUp, Goto
            <7>3. CASE Plan(p) \/ Stage(p) \/ StageFails(p) \/ Begin(p)
              BY <2>3, <7>3 DEF Plan, Stage, StageFails, Begin, Fail, Goto
            <7>4. CASE MoveOut(p) \/ NoteOut(p) \/ MoveIn(p) \/ NoteIn(p) \/ MoveFails(p)
              BY <2>3, <7>1, <7>4 DEF MoveOut, NoteOut, MoveIn, NoteIn, MoveFails, Fail, Goto
            <7>5. CASE Commit(p) \/ Hooks(p) \/ RolledBack(p) \/ Clean(p)
              BY <2>3, <7>1, <7>5 DEF Commit, Hooks, RolledBack, Clean, Fail, Goto
            <7>6. CASE SaveRecord(p) \/ SaveLock(p) \/ SaveManifest(p) \/ Finish(p) \/ FinishFails(p)
              BY <2>3, <7>6 DEF SaveRecord, SaveLock, SaveManifest, Finish, FinishFails, Goto
            <7> QED
              BY <2>1, <5>4, <7>2, <7>3, <7>4, <7>5, <7>6 DEF Step
          <6>3. Working(p)' => cmd'[p].dry = cmd[p].dry
            <7>1. CASE Sweep(p)
              BY <2>2, <7>1, SweepIs
            <7>2. CASE Plan(p)
              <8> DEFINE m == [cmd[p] EXCEPT !.todo = Steps(p),
                                 !.failed = cmd[p].op # "clean" /\ InTheWay(p),
                                 !.before = <<manifest, lockfile, record, libs>>]
              <8>1. m.dry = cmd[p].dry
                BY <2>3 DEF Memory
              <8>2. cmd' = [cmd EXCEPT ![p] = IF cmd[p].dry THEN Blank ELSE m]
                BY <7>2 DEF Plan
              <8>3. cmd[p].dry => pc'[p] \in {"failed", "done"}
                BY <2>3, <7>2 DEF Plan, Goto
              <8> HIDE DEF m
              <8> QED
                BY <2>3, <8>1, <8>2, <8>3 DEF Working, WorkPlaces
            <7>3. CASE StageFails(p) \/ MoveFails(p) \/ Hooks(p)
              BY <2>2, <7>3, FailIs DEF StageFails, MoveFails, Hooks
            <7>4. CASE MoveOut(p) \/ NoteOut(p) \/ NoteIn(p)
              BY <2>2, <7>4, MoveOutIs, NoteIs
            <7>5. CASE MoveIn(p)
              <8>1. cmd[p].done # <<>> /\ cmd[p].todo # {}
                BY <7>5 DEF MoveIn, SoundInv, Log, Between
              <8> QED
                BY <2>2, <7>5, <8>1, MoveInIs
            <7>6. CASE Recover(p) \/ Undo(p) \/ PutBack(p) \/ Clear(p) \/ GivesUp(p) \/ Clean(p)
              BY <2>3, <7>6 DEF Recover, Undo, PutBack, Clear, GivesUp, Clean, Memory
            <7>7. CASE Stage(p) \/ Begin(p) \/ Commit(p) \/ RolledBack(p) \/ SaveRecord(p) \/ SaveLock(p)
                       \/ SaveManifest(p) \/ Finish(p) \/ FinishFails(p)
              BY <7>7 DEF Stage, Begin, Commit, RolledBack, SaveRecord, SaveLock, SaveManifest,
                Finish, FinishFails
            <7> QED
              BY <2>1, <5>4, <7>1, <7>2, <7>3, <7>4, <7>5, <7>6, <7>7 DEF Step
          <6> QED
            BY <6>1, <6>2, <6>3
        <5> QED
          BY <5>1, <5>2, <5>3, <5>4
      <4> QED
        BY <4>1, <4>2 DEF Working
    <3> QED
      BY <2>4, <3>1 DEF AllOwned, Owned, Working
  <2>5. CASE ~UNCHANGED <<lockFile, robbed>>
    <3>1. Acquire(p) \/ LetGo(p)
      BY <2>1, <2>5, Zenon DEF Step, Kill, Raises, Open, Recover, Sweep, Undo, PutBack, Clear,
        GivesUp,
          Plan, Stage, StageFails, Begin, MoveOut, NoteOut, MoveIn, NoteIn, MoveFails, Commit,
          Hooks, RolledBack, SaveRecord,
          SaveLock, SaveManifest, Finish, FinishFails, Clean
    <3>2. \A q \in Commands \ {p} : pc'[q] = pc[q] /\ cmd'[q] = cmd[q]
      BY <2>1, <2>2, Goes, Remembers
    <3>3. \A q \in Commands : pc[q] = "write" \/ Working(q) => Alive(q)
      BY DEF Working, WorkPlaces, Alive, Ended
    <3>4. CASE Try(p)
      <4>1. lockFile = None /\ lockFile' = [by |-> p, written |-> FALSE] /\ robbed' = robbed
        BY <2>5, <3>4 DEF Try
      <4>2. lockFile' \in LockFile /\ lockFile'.by = p
        BY <4>1 DEF LockFile
      <4>3. \A q \in Commands \ {p} : Owned(q)'
        BY <3>2, <4>1 DEF AllOwned, Owned, Working
      <4>4. Owned(p)'
        BY <2>3, <4>2 DEF Owned
      <4> QED
        BY <4>3, <4>4 DEF AllOwned
    <3>5. CASE Break(p)
      <4>1. /\ pc'[p] = "try"
            /\ robbed' = IF lockFile # None /\ Alive(lockFile.by) THEN robbed \cup {lockFile.by} ELSE robbed
        BY <2>3, <3>5 DEF Break, Goto
      <4>2. Owned(p)'
        BY <4>1 DEF Owned, Working, WorkPlaces
      <4>3. \A q \in Commands \ {p} : Owned(q)'
        BY <3>2, <3>3, <4>1 DEF AllOwned, Owned, Working
      <4> QED
        BY <4>2, <4>3 DEF AllOwned
    <3>6. CASE Write(p)
      <4>1. /\ lockFile # None /\ lockFile.by = p /\ lockFile' = [lockFile EXCEPT !.written = TRUE]
            /\ robbed' = robbed
        BY <2>5, <3>6 DEF Write
      <4>2. lockFile' \in LockFile /\ lockFile'.by = p
        BY <2>3, <4>1 DEF LockFile
      <4> QED
        BY <2>3, <3>2, <4>1, <4>2 DEF AllOwned, Owned, Working
    <3>7. CASE LetGo(p)
      <4>1. /\ pc'[p] \in {"failed", "done"}
            /\ robbed' = IF lockFile # None /\ lockFile.by # p /\ Alive(lockFile.by)
                         THEN robbed \cup {lockFile.by} ELSE robbed
        BY <2>3, <3>7 DEF LetGo, Release, Goto
      <4>2. Owned(p)'
        BY <4>1 DEF Owned, Working, WorkPlaces
      <4>3. \A q \in Commands \ {p} : Owned(q)'
        BY <3>2, <3>3, <4>1 DEF AllOwned, Owned, Working
      <4> QED
        BY <4>2, <4>3 DEF AllOwned
    <3>8. ~(Exists(p) \/ Read(p) \/ Judge(p))
      BY <2>5 DEF Exists, Read, Judge
    <3> QED
      BY <3>1, <3>4, <3>5, <3>6, <3>7, <3>8 DEF Acquire, Wait
  <2> QED
    BY <2>4, <2>5
<1> QED
  BY <1>1, <1>2

\* "Two commands working on the same project take turns", however many there
\* are, whoever is killed and whatever is found stale: two are at work at once
\* only if the lock of one of them was deleted while it lived.
THEOREM CommandsTakeTurns == Spec => []TakeTurns
<1>1. Init => AllOwned
  BY DEF Init, LockInit, AllOwned, Owned, Working, WorkPlaces
<1>2. Spec => []AllOwned
  BY <1>1, OwnedNext, SoundHolds, PTL DEF Spec
<1>3. AllOwned => TakeTurns
  BY DEF AllOwned, Owned, TakeTurns
<1> QED
  BY <1>2, <1>3, PTL
-----------------------------------------------------------------------------
(* What others put there *)

\* What a command remembers of its plan.
LEMMA PlanIs ==
    ASSUME Types, NEW p \in Commands, Plan(p)
    PROVE  LET refused == cmd[p].op # "clean" /\ InTheWay(p) IN
           /\ pc[p] = "plan" /\ UNCHANGED <<lockFile, seen, robbed, disk, bounds>>
           /\ \/ cmd[p].dry /\ pc'[p] \in {"failed", "done"} /\ cmd'[p] = Blank
              \/ /\ ~cmd[p].dry
                 /\ pc'[p] = IF refused THEN "release"
                             ELSE IF cmd[p].op = "clean" THEN "clean" ELSE "stage"
                 /\ cmd'[p].todo = Steps(p) /\ cmd'[p].failed = refused
                 /\ cmd'[p].before = <<manifest, lockfile, record, libs>>
                 /\ cmd'[p].done = cmd[p].done /\ cmd'[p].target = cmd[p].target
                 /\ cmd'[p].op = cmd[p].op /\ cmd'[p].left = cmd[p].left
                 /\ cmd'[p].visit = cmd[p].visit /\ cmd'[p].of = cmd[p].of
<1> DEFINE refused == cmd[p].op # "clean" /\ InTheWay(p)
           m == [cmd[p] EXCEPT !.todo = Steps(p), !.failed = refused,
                               !.before = <<manifest, lockfile, record, libs>>]
<1>1. cmd \in [Commands -> Memory] /\ cmd[p] \in Memory
      /\ pc \in [Commands -> {"start"} \cup LockPlaces \cup WorkPlaces \cup Ended]
  BY DEF Types
<1>2. /\ m.todo = Steps(p) /\ m.failed = refused
      /\ m.before = <<manifest, lockfile, record, libs>>
      /\ m.done = cmd[p].done /\ m.target = cmd[p].target /\ m.op = cmd[p].op
      /\ m.left = cmd[p].left /\ m.visit = cmd[p].visit /\ m.of = cmd[p].of
  BY <1>1 DEF Memory
<1>3. /\ cmd' = [cmd EXCEPT ![p] = IF cmd[p].dry THEN Blank ELSE m]
      /\ pc[p] = "plan" /\ UNCHANGED <<lockFile, seen, robbed, disk, bounds>>
      /\ pc'[p] = IF cmd[p].dry THEN (IF refused THEN "failed" ELSE "done")
                  ELSE IF refused THEN "release"
                  ELSE IF cmd[p].op = "clean" THEN "clean" ELSE "stage"
  BY <1>1 DEF Plan, Goto
<1> HIDE DEF m, refused
<1>4. cmd'[p] = IF cmd[p].dry THEN Blank ELSE m
  BY <1>1, <1>3
<1> QED
  BY <1>2, <1>3, <1>4 DEF refused

\* What a command goes on remembering.
LEMMA Recalls ==
    ASSUME Types, NEW p \in Commands, Log(p), Step(p),
           ~Open(p), ~LetGo(p), ~Plan(p), ~Raises(p)
    PROVE  /\ cmd'[p].target = cmd[p].target /\ cmd'[p].op = cmd[p].op
           /\ cmd'[p].before = cmd[p].before
           /\ cmd'[p].todo \subseteq cmd[p].todo
<1>1. cmd \in [Commands -> Memory] /\ cmd[p] \in Memory
  BY DEF Types
<1>2. CASE Sweep(p)
  BY <1>2, SweepIs
<1>3. CASE StageFails(p) \/ MoveFails(p)
  BY <1>3, FailIs DEF StageFails, MoveFails
<1>4. CASE Hooks(p)
  BY <1>4, FailIs DEF Hooks
<1>5. CASE MoveOut(p)
  BY <1>5, MoveOutIs
<1>6. CASE NoteOut(p) \/ NoteIn(p)
  BY <1>6, NoteIs
<1>7. CASE MoveIn(p)
  <2>1. cmd[p].done # <<>> /\ cmd[p].todo # {}
    BY <1>7 DEF MoveIn, Log, Between
  <2> QED
    BY <1>7, <2>1, MoveInIs
<1>8. CASE Recover(p) \/ Undo(p) \/ PutBack(p) \/ Clear(p) \/ GivesUp(p) \/ Clean(p)
  <2>1. CASE Recover(p)
    BY <1>1, <2>1 DEF Recover, Memory
  <2>2. CASE Undo(p)
    BY <2>2 DEF Undo
  <2>3. CASE PutBack(p)
    BY <1>1, <2>3 DEF PutBack, Memory
  <2>4. CASE Clear(p)
    BY <1>1, <2>4 DEF Clear, Memory
  <2>5. CASE Clean(p)
    BY <1>1, <2>5 DEF Clean, Memory
  <2>6. CASE GivesUp(p)
    BY <2>6 DEF GivesUp
  <2> QED
    BY <1>8, <2>1, <2>2, <2>3, <2>4, <2>5, <2>6
<1>9. CASE Acquire(p) \/ Stage(p) \/ Begin(p) \/ Commit(p) \/ RolledBack(p) \/ SaveRecord(p)
           \/ SaveLock(p) \/ SaveManifest(p) \/ Finish(p) \/ FinishFails(p)
  BY <1>9 DEF Acquire, Stage, Begin, Commit, RolledBack, SaveRecord, SaveLock, SaveManifest,
    Finish, FinishFails
<1> QED
  BY <1>2, <1>3, <1>4, <1>5, <1>6, <1>7, <1>8, <1>9 DEF Step

\* What a command means to undo.
LEMMA Undoes ==
    ASSUME Types, NEW p \in Commands, Places(p), Log(p), Step(p) \/ Kill(p)
    PROVE  /\ cmd'[p].left \in Seq(Entry)
           /\ \/ cmd'[p].left = <<>>
              \/ cmd'[p].left = cmd[p].left
              \/ cmd'[p].left = cmd[p].done
              \/ pc[p] = "putBack" /\ cmd'[p].left = Front(cmd[p].left)
              \/ \E q \in Commands : staging[q] # None /\ cmd'[p].left = staging[q].done
<1>1. /\ cmd \in [Commands -> Memory] /\ cmd[p] \in Memory
      /\ cmd[p].left \in Seq(Entry) /\ cmd[p].done \in Seq(Entry) /\ <<>> \in Seq(Entry)
      /\ cmd[p].visit \in SUBSET Commands
      /\ staging \in [Commands -> Root \cup {None}]
  BY EmptySeq DEF Types, Memory
<1>2. \/ cmd'[p].left = <<>>
      \/ cmd'[p].left = cmd[p].left
      \/ cmd'[p].left = cmd[p].done
      \/ pc[p] = "putBack" /\ cmd'[p].left = Front(cmd[p].left)
      \/ \E q \in Commands : staging[q] # None /\ cmd'[p].left = staging[q].done
  <2>1. CASE Open(p)
    BY <2>1, OpenIs
  <2>2. CASE Acquire(p) \/ LetGo(p) \/ Kill(p) \/ Raises(p)
    BY <1>1, <2>2 DEF Acquire, LetGo, Kill, Raises, Blank
  <2>3. CASE Sweep(p)
    BY <1>1, <2>3, SweepIs
  <2>4. CASE Recover(p) \/ Undo(p) \/ Clear(p) \/ GivesUp(p) \/ Clean(p)
    BY <1>1, <2>4 DEF Recover, Undo, Clear, GivesUp, Clean, Memory
  <2>5. CASE PutBack(p)
    BY <1>1, <2>5 DEF PutBack, Memory
  <2>6. CASE Plan(p)
    BY <2>6, PlanIs DEF Blank
  <2>7. CASE StageFails(p) \/ MoveFails(p)
    BY <2>7, FailIs DEF StageFails, MoveFails
  <2>8. CASE Hooks(p)
    BY <2>8, FailIs DEF Hooks
  <2>9. CASE MoveOut(p)
    BY <2>9, MoveOutIs
  <2>10. CASE NoteOut(p) \/ NoteIn(p)
    BY <2>10, NoteIs
  <2>11. CASE MoveIn(p)
    <3>1. cmd[p].done # <<>> /\ cmd[p].todo # {}
      BY <2>11 DEF MoveIn, Log, Between
    <3> QED
      BY <2>11, <3>1, MoveInIs
  <2>12. CASE Stage(p) \/ Begin(p) \/ Commit(p) \/ RolledBack(p) \/ SaveRecord(p) \/ SaveLock(p)
             \/ SaveManifest(p) \/ Finish(p) \/ FinishFails(p)
    BY <2>12 DEF Stage, Begin, Commit, RolledBack, SaveRecord, SaveLock, SaveManifest, Finish,
      FinishFails
  <2> QED
    BY <2>1, <2>2, <2>3, <2>4, <2>5, <2>6, <2>7, <2>8, <2>9, <2>10, <2>11, <2>12 DEF Step
<1>3. pc[p] = "putBack" => Front(cmd[p].left) \in Seq(Entry)
  BY <1>1, FrontIs DEF Places
<1>4. \A q \in Commands : staging[q] # None => staging[q].done \in Seq(Entry)
  BY <1>1, RootWith
<1> QED
  BY <1>1, <1>2, <1>3, <1>4

\* What a step writes to .zuri/libs and to the record.
LEMMA LibsOwn ==
    ASSUME Types, NEW p \in Commands, Places(p), Log(p), Step(p) \/ Kill(p)
    PROVE  /\ \/ libs' = libs
              \/ /\ pc[p] \in {"undo", "putBack"} /\ cmd[p].left # <<>>
                 /\ \E x : libs' = [libs EXCEPT ![cmd[p].left[Len(cmd[p].left)].pkg] = x]
              \/ /\ pc[p] \in {"move", "moveIn", "clean"} /\ Turn(p) \in cmd[p].todo
                 /\ \E x : libs' = [libs EXCEPT ![Turn(p)] = x]
           /\ \/ record' = record
              \/ SaveRecord(p) /\ record' = cmd[p].target
              \/ Clean(p) /\ record' = Nothing
<1>1. /\ cmd[p] \in Memory /\ cmd[p].left \in Seq(Entry) /\ cmd[p].todo \in SUBSET Packages
  BY DEF Types, Memory
<1>2. cmd[p].left # <<>> => Last(cmd[p].left) = cmd[p].left[Len(cmd[p].left)]
  BY <1>1, FrontIs
<1>3. cmd[p].todo # {} => Turn(p) \in cmd[p].todo
  BY <1>1, TurnIn
<1>4. CASE Undo(p)
  BY <1>2, <1>4 DEF Undo
<1>5. CASE PutBack(p)
  BY <1>2, <1>5 DEF PutBack, Places
<1>6. CASE MoveOut(p)
  <2>1. libs' = libs \/ libs' = [libs EXCEPT ![Turn(p)] = None]
    BY <1>6 DEF MoveOut
  <2>2. pc[p] = "move" /\ cmd[p].todo # {} /\ record' = record
    BY <1>6 DEF MoveOut
  <2> QED
    BY <1>3, <2>1, <2>2
<1>7. CASE MoveIn(p)
  <2>1. /\ libs' = [libs EXCEPT ![Turn(p)] = staging[p].new[Turn(p)]]
        /\ pc[p] = "moveIn" /\ cmd[p].todo # {} /\ record' = record
    BY <1>7 DEF MoveIn, Log, Between
  <2> QED
    BY <1>3, <2>1
<1>8. CASE Clean(p)
  BY <1>3, <1>8 DEF Clean
<1>9. CASE ~(Undo(p) \/ PutBack(p) \/ MoveOut(p) \/ MoveIn(p) \/ Clean(p))
  BY <1>9, Zenon DEF Step, Kill, Raises, GivesUp, Open, Acquire, LetGo, Recover, Sweep, Clear,
      Plan, Stage, StageFails, Begin, NoteOut, NoteIn, MoveFails, Commit, Hooks, RolledBack,
      SaveRecord, SaveLock,
      SaveManifest, Finish, FinishFails, disk
<1> QED
  BY <1>4, <1>5, <1>6, <1>7, <1>8, <1>9

\* A package that others put there stays there, and out of every plan: a plan it is
\* in the way of is refused, and what the record does not name is not removed.
LEMMA SafeNext == SoundInv /\ AllSafe /\ [Next]_vars => AllSafe'
<1> SUFFICES ASSUME SoundInv, AllSafe, [Next]_vars PROVE AllSafe'
  OBVIOUS
<1>1. CASE UNCHANGED vars
  BY <1>1 DEF AllSafe, Safe, vars, lockVars, disk, bounds
<1>2. CASE Next
  <2>1. PICK p \in Commands : Step(p) \/ Kill(p)
    BY <1>2 DEF Next
  <2>2. Types /\ Places(p) /\ Log(p)
    BY DEF SoundInv
  <2>3. /\ libs \in Tree /\ record \in File /\ cmd \in [Commands -> Memory]
        /\ theirs \in SUBSET Packages
        /\ staging \in [Commands -> Root \cup {None}]
        /\ pc \in [Commands -> {"start"} \cup LockPlaces \cup WorkPlaces \cup Ended]
    BY <2>2 DEF Types
  <2>4. theirs' = theirs
    BY <2>1, Zenon DEF Step, Kill, Raises, GivesUp, Open, Acquire, LetGo, Recover, Sweep, Undo,
      PutBack, Clear, Plan, Stage, StageFails, Begin, MoveOut, NoteOut, MoveIn, NoteIn,
      MoveFails, Commit, Hooks, RolledBack,
      SaveRecord, SaveLock, SaveManifest, Finish, FinishFails, Clean, Fault, bounds
  <2>5. SUFFICES ASSUME NEW k \in theirs PROVE Safe(k)'
    BY <2>4 DEF AllSafe
  <2>6. k \in Packages /\ Safe(k)
    BY <2>3 DEF AllSafe
  <2>7. libs'[k] = Hand
    <3>1. CASE libs' = libs
      BY <2>6, <3>1 DEF Safe
    <3>2. CASE /\ pc[p] \in {"undo", "putBack"} /\ cmd[p].left # <<>>
               /\ \E x : libs' = [libs EXCEPT ![cmd[p].left[Len(cmd[p].left)].pkg] = x]
      <4>1. cmd[p].left[Len(cmd[p].left)].pkg # k
        <5>1. cmd[p].left \in Seq(Entry)
          BY <2>3 DEF Memory
        <5>2. Len(cmd[p].left) \in DOMAIN cmd[p].left
          BY <3>2, <5>1, LogIs
        <5> QED
          BY <2>6, <5>2 DEF Safe
      <4> QED
        BY <2>3, <2>6, <3>2, <4>1 DEF Safe, Tree
    <3>3. CASE /\ pc[p] \in {"move", "moveIn", "clean"} /\ Turn(p) \in cmd[p].todo
               /\ \E x : libs' = [libs EXCEPT ![Turn(p)] = x]
      <4>1. Turn(p) # k
        BY <2>6, <3>3 DEF Safe, Moving, Between
      <4> QED
        BY <2>3, <2>6, <3>3, <4>1 DEF Safe, Tree
    <3> QED
      BY <2>1, <2>2, <3>1, <3>2, <3>3, LibsOwn
  <2>8. record'[k] = None
    <3>1. CASE record' = record
      BY <2>6, <3>1 DEF Safe
    <3>2. CASE SaveRecord(p) /\ record' = cmd[p].target
      BY <2>6, <3>2 DEF Safe, SaveRecord
    <3>3. CASE record' = Nothing
      BY <2>6, <3>3 DEF Nothing
    <3> QED
      BY <2>1, <2>2, <3>1, <3>2, <3>3, LibsOwn
  <2>9. SUFFICES ASSUME NEW q \in Commands
                 PROVE  /\ pc'[q] \in {"stage", "begin", "clean"} \cup Moving => k \notin cmd'[q].todo
                        /\ \A i \in DOMAIN cmd'[q].done : cmd'[q].done[i].pkg # k
                        /\ \A i \in DOMAIN cmd'[q].left : cmd'[q].left[i].pkg # k
                        /\ staging'[q] # None =>
                              \A i \in DOMAIN staging'[q].done : staging'[q].done[i].pkg # k
                        /\ pc'[q] \in {"stage", "begin", "hooks", "record"} \cup Moving
                              => cmd'[q].target[k] = None
    BY <2>7, <2>8 DEF Safe
  <2>10. CASE q # p
    <3>1. pc'[q] = pc[q] /\ cmd'[q] = cmd[q]
      BY <2>1, <2>2, <2>10, Goes, Remembers
    <3>2. staging'[q] # None => staging[q] # None /\ staging'[q].done = staging[q].done
      BY <2>1, <2>2, <2>10, Touches
    <3> QED
      BY <2>6, <3>1, <3>2 DEF Safe
  <2>11. CASE q = p
    <3>1. \A i \in DOMAIN cmd'[p].done : cmd'[p].done[i].pkg # k
      <4>1. cmd[p].done \in Seq(Entry)
        BY <2>3 DEF Memory
      <4>2. CASE cmd'[p].done = <<>> \/ cmd'[p].done = cmd[p].done
        BY <2>6, <4>2 DEF Safe
      <4>3. CASE MoveOut(p) /\ cmd'[p].done # cmd[p].done
        <5>1. /\ Turn(p) \in cmd[p].todo /\ Turn(p) \in Packages
              /\ \E b \in BOOLEAN : cmd'[p].done
                    = Append(cmd[p].done, [pkg |-> Turn(p), old |-> b, new |-> FALSE])
          BY <2>2, <4>3, MoveOutIs
        <5>2. PICK b \in BOOLEAN : cmd'[p].done
                    = Append(cmd[p].done, [pkg |-> Turn(p), old |-> b, new |-> FALSE])
          BY <5>1
        <5> DEFINE e == [pkg |-> Turn(p), old |-> b, new |-> FALSE]
                   n == Len(cmd[p].done)
        <5>3. e \in Entry /\ e.pkg = Turn(p)
          BY <5>1 DEF Entry
        <5>4. Turn(p) # k
          BY <2>6, <4>3, <5>1 DEF Safe, MoveOut, Moving
        <5> HIDE DEF e
        <5>5. /\ DOMAIN Append(cmd[p].done, e) = 1 .. n + 1 /\ n \in Nat /\ DOMAIN cmd[p].done = 1 .. n
              /\ \A i \in DOMAIN cmd[p].done : Append(cmd[p].done, e)[i] = cmd[p].done[i]
              /\ Append(cmd[p].done, e)[n + 1] = e
          BY <4>1, <5>3, AppendIs, LogIs
        <5>6. cmd'[p].done = Append(cmd[p].done, e)
          BY <5>2 DEF e
        <5> HIDE DEF n
        <5>7. \A i \in 1 .. n + 1 : i \in 1 .. n \/ i = n + 1
          BY <5>5
        <5> QED
          BY <2>6, <5>3, <5>4, <5>5, <5>6, <5>7 DEF Safe
      <4>4. CASE MoveIn(p)
        <5>1. cmd[p].done # <<>> /\ cmd[p].todo # {}
          BY <2>2, <4>4 DEF MoveIn, Log, Between
        <5>2. cmd'[p].done = [cmd[p].done EXCEPT ![Len(cmd[p].done)].new = TRUE]
          BY <2>2, <4>4, <5>1, MoveInIs
        <5> QED
          BY <2>6, <4>1, <5>1, <5>2, MarkIs DEF Safe
      <4> QED
        BY <2>1, <2>2, <4>2, <4>3, <4>4, DoneOwn
    <3>2. \A i \in DOMAIN cmd'[p].left : cmd'[p].left[i].pkg # k
      <4>1. cmd[p].left \in Seq(Entry)
        BY <2>3 DEF Memory
      <4>2. CASE pc[p] = "putBack" /\ cmd'[p].left = Front(cmd[p].left)
        <5>1. cmd[p].left # <<>>
          BY <2>2, <4>2 DEF Places
        <5>2. /\ DOMAIN Front(cmd[p].left) = 1 .. Len(cmd[p].left) - 1
              /\ \A i \in DOMAIN Front(cmd[p].left) : Front(cmd[p].left)[i] = cmd[p].left[i]
              /\ Len(cmd[p].left) \in Nat /\ DOMAIN cmd[p].left = 1 .. Len(cmd[p].left)
          BY <4>1, <5>1, FrontIs, LogIs
        <5>3. \A i \in 1 .. Len(cmd[p].left) - 1 : i \in 1 .. Len(cmd[p].left)
          BY <5>2
        <5> QED
          BY <2>6, <4>2, <5>2, <5>3 DEF Safe
      <4>3. CASE ~(pc[p] = "putBack" /\ cmd'[p].left = Front(cmd[p].left))
        BY <2>1, <2>2, <2>6, <4>3, Undoes DEF Safe
      <4> QED
        BY <4>2, <4>3
    <3>3. staging'[p] # None => \A i \in DOMAIN staging'[p].done : staging'[p].done[i].pkg # k
      BY <2>1, <2>2, <2>6, JournalOwn DEF Safe
    <3>4. CASE Plan(p)
      <4>1. /\ pc'[p] \in {"failed", "done", "release", "clean", "stage"}
            /\ pc'[p] \in {"clean", "stage"} => cmd'[p].todo = Steps(p) /\ cmd'[p].target = cmd[p].target
            /\ pc'[p] = "stage" => ~InTheWay(p)
        BY <2>2, <3>4, PlanIs
      <4>2. Hand # None /\ libs[k] = Hand /\ record[k] = None
        BY <2>6, JobsAssumption DEF Safe
      <4>3. pc'[p] = "clean" => cmd[p].op = "clean"
        BY <2>2, <3>4, PlanIs
      <4>4. pc'[p] = "stage" => cmd[p].op # "clean"
        BY <2>2, <3>4, PlanIs
      <4>5. pc'[p] = "stage" => k \notin Wanted(p)
        BY <4>1, <4>2 DEF InTheWay
      <4>6. pc'[p] \in {"clean", "stage"} => k \notin Steps(p)
        BY <4>2, <4>3, <4>4, <4>5 DEF Steps, Removals, Changes
      <4>7. pc'[p] = "stage" => cmd[p].target[k] = None
        BY <2>6, <4>5 DEF Wanted
      <4> QED
        BY <2>11, <3>1, <3>2, <3>3, <4>1, <4>6, <4>7 DEF Moving, Between
    <3>5. CASE Open(p) \/ LetGo(p) \/ Kill(p) \/ Raises(p)
      <4>1. pc'[p] \in {"try", "recover", "failed", "done", "killed", "raise"}
        BY <2>2, <2>3, <3>5, OpenIs, RaisesIs DEF LetGo, Release, Kill, Goto
      <4> QED
        BY <2>11, <3>1, <3>2, <3>3, <4>1 DEF Moving, Between
    <3>6. CASE ~(Plan(p) \/ Open(p) \/ LetGo(p) \/ Kill(p) \/ Raises(p))
      <4>1. /\ cmd'[p].target = cmd[p].target /\ cmd'[p].todo \subseteq cmd[p].todo
        BY <2>1, <2>2, <3>6, Recalls
      <4>2. /\ pc'[p] \in {"stage", "begin", "clean"} \cup Moving
                  => pc[p] \in {"stage", "begin", "clean"} \cup Moving
            /\ pc'[p] \in {"stage", "begin", "hooks", "record"} \cup Moving
                  => pc[p] \in {"stage", "begin", "hooks", "record"} \cup Moving
        <5> USE DEF Moving, Between
        <5>1. CASE Acquire(p)
          BY <2>3, <5>1 DEF Acquire, Wait, Try, Exists, Read, Judge, Break, Write, Goto
        <5>2. CASE Recover(p) \/ Sweep(p) \/ Undo(p) \/ PutBack(p) \/ Clear(p) \/ GivesUp(p)
          BY <2>3, <5>2, Zenon DEF Recover, Sweep, Undo, PutBack, Clear, GivesUp, Goto
        <5>3. CASE Stage(p) \/ StageFails(p) \/ Begin(p) \/ Clean(p)
          BY <2>3, <5>3 DEF Stage, StageFails, Begin, Clean, Fail, Goto
        <5>4. CASE MoveOut(p) \/ NoteOut(p) \/ MoveIn(p) \/ NoteIn(p) \/ MoveFails(p)
          BY <2>3, <5>4 DEF MoveOut, NoteOut, MoveIn, NoteIn, MoveFails, Fail, Goto
        <5>5. CASE Commit(p) \/ Hooks(p) \/ RolledBack(p)
          BY <2>3, <5>5 DEF Commit, Hooks, RolledBack, Fail, Goto
        <5>6. CASE SaveRecord(p) \/ SaveLock(p) \/ SaveManifest(p) \/ Finish(p) \/ FinishFails(p)
          BY <2>3, <5>6 DEF SaveRecord, SaveLock, SaveManifest, Finish, FinishFails, Goto
        <5> QED
          BY <2>1, <3>6, <5>1, <5>2, <5>3, <5>4, <5>5, <5>6 DEF Step
      <4> QED
        BY <2>6, <2>11, <3>1, <3>2, <3>3, <4>1, <4>2 DEF Safe
    <3> QED
      BY <3>4, <3>5, <3>6
  <2> QED
    BY <2>10, <2>11
<1> QED
  BY <1>1, <1>2

\* At the start nobody has a plan.
LEMMA SafeInit == Init => AllSafe
<1> SUFFICES ASSUME Init, NEW k \in theirs PROVE Safe(k)
  BY DEF AllSafe
<1>1. k \in Packages /\ libs[k] = Hand /\ record[k] = None
  BY DEF Init
<1>2. DOMAIN <<>> = {}
  OBVIOUS
<1>3. \A p \in Commands : pc[p] = "start" /\ cmd[p].done = <<>> /\ cmd[p].left = <<>> /\ staging[p] = None
  BY DEF Init, LockInit, Blank
<1> QED
  BY <1>1, <1>2, <1>3 DEF Safe, Moving, Between
-----------------------------------------------------------------------------
(* While commands take turns *)

\* ... back with the old, if it is still where it was put.
LEMMA PutBackIs ==
    ASSUME Types, NEW p \in Commands, Places(p), PutBack(p)
    PROVE  LET r == cmd[p].of
               e == cmd[p].left[Len(cmd[p].left)]
               k == e.pkg
           IN /\ pc[p] = "putBack" /\ pc'[p] = "undo" /\ r \in Commands /\ cmd[p].left # <<>>
              /\ cmd[p].left \in Seq(Entry) /\ e \in Entry /\ k \in Packages
              /\ Len(cmd[p].left) \in DOMAIN cmd[p].left
              /\ UNCHANGED <<manifest, lockfile, record, theirs>>
              /\ cmd'[p].left = Front(cmd[p].left) /\ cmd'[p].of = r
              /\ cmd'[p].before = cmd[p].before /\ cmd'[p].done = cmd[p].done
              /\ cmd'[p].todo = cmd[p].todo /\ cmd'[p].target = cmd[p].target
              /\ cmd'[p].failed = cmd[p].failed
              /\ \A q \in Commands : q # r => staging'[q] = staging[q]
              /\ staging[r] # None =>
                    /\ staging'[r] # None /\ staging'[r].done = staging[r].done
                    /\ staging'[r].state = staging[r].state /\ staging'[r].new = staging[r].new
                    /\ \A j \in Packages : j # k => staging'[r].old[j] = staging[r].old[j]
              /\ \A j \in Packages : j # k => libs'[j] = libs[j]
              /\ \/ /\ e.old /\ staging[r] # None /\ staging[r].old[k] # None
                    /\ libs'[k] = staging[r].old[k] /\ staging'[r].old[k] = None
                 \/ /\ ~(e.old /\ staging[r] # None /\ staging[r].old[k] # None)
                    /\ UNCHANGED <<libs, staging>>
<1> DEFINE r == cmd[p].of
           left == cmd[p].left
           e == left[Len(left)]
           k == e.pkg
<1>1. /\ pc \in [Commands -> {"start"} \cup LockPlaces \cup WorkPlaces \cup Ended]
      /\ cmd \in [Commands -> Memory] /\ cmd[p] \in Memory /\ libs \in Tree
      /\ left \in Seq(Entry) /\ staging \in [Commands -> Root \cup {None}]
  BY DEF Types, Memory
<1>2. /\ pc[p] = "putBack" /\ pc'[p] = "undo" /\ r \in Commands /\ left # <<>>
      /\ UNCHANGED <<manifest, lockfile, record, theirs>>
      /\ cmd' = [cmd EXCEPT ![p].left = Front(@)]
  BY <1>1 DEF PutBack, Places, Goto, bounds
<1>3. /\ cmd'[p].left = Front(left) /\ cmd'[p].of = r
      /\ cmd'[p].before = cmd[p].before /\ cmd'[p].done = cmd[p].done
      /\ cmd'[p].todo = cmd[p].todo /\ cmd'[p].target = cmd[p].target
      /\ cmd'[p].failed = cmd[p].failed
  BY <1>1, <1>2 DEF Memory
<1>4. e \in Entry /\ k \in Packages /\ Len(left) \in DOMAIN left /\ Last(left) = e
  BY <1>1, <1>2, LogIs, FrontIs DEF Entry
<1>5. /\ e.old /\ staging[r] # None /\ staging[r].old[k] # None
            => /\ libs' = [libs EXCEPT ![k] = staging[r].old[k]]
               /\ staging' = [staging EXCEPT ![r].old[k] = None]
      /\ ~(e.old /\ staging[r] # None /\ staging[r].old[k] # None) => UNCHANGED <<libs, staging>>
  BY <1>4, Zenon DEF PutBack
<1> HIDE DEF k, e, left, r
<1>6. CASE e.old /\ staging[r] # None /\ staging[r].old[k] # None
  <2> DEFINE root == [staging[r] EXCEPT !.old[k] = None]
  <2>1. staging[r] \in Root /\ staging[r].old \in Tree
    BY <1>1, <1>2, <1>6, RootWith
  <2>2. [staging[r].old EXCEPT ![k] = None] \in Tree
    BY <1>4, <2>1, TreeWith
  <2>3. root = [staging[r] EXCEPT !.old = [staging[r].old EXCEPT ![k] = None]]
    OBVIOUS
  <2>4. root # None
    BY <2>1, <2>2, <2>3, RootWith
  <2>5. /\ root.old = [staging[r].old EXCEPT ![k] = None]
        /\ root.new = staging[r].new /\ root.done = staging[r].done /\ root.state = staging[r].state
    BY <2>1, <2>3 DEF Root
  <2>6. staging' = [staging EXCEPT ![r] = root]
    BY <1>5, <1>6
  <2> HIDE DEF root
  <2>7. staging'[r] = root /\ \A q \in Commands : q # r => staging'[q] = staging[q]
    BY <1>1, <1>2, <2>6
  <2>8. /\ root.old[k] = None
        /\ \A j \in Packages : j # k => root.old[j] = staging[r].old[j]
    BY <1>4, <2>1, <2>5 DEF Tree
  <2>9. libs'[k] = staging[r].old[k] /\ \A j \in Packages : j # k => libs'[j] = libs[j]
    BY <1>1, <1>4, <1>5, <1>6 DEF Tree
  <2> QED
    BY <1>1, <1>2, <1>3, <1>4, <1>6, <2>4, <2>5, <2>7, <2>8, <2>9, Zenon DEF k, e, left, r
<1>7. CASE ~(e.old /\ staging[r] # None /\ staging[r].old[k] # None)
  BY <1>1, <1>2, <1>3, <1>4, <1>5, <1>7, Zenon DEF k, e, left, r
<1> QED
  BY <1>6, <1>7, Zenon

\* A command that is not at work, or that an uncaught failure ends, has no transaction
\* to speak of.
LEMMA Idle ==
    \A q \in Commands : ~InHand(q) => Found(q) /\ Own(q) /\ Journalled(q) /\ Others(q)
BY DEF InHand, Working, WorkPlaces, Found, Own, Journalled, Others, Planned, Undoing, Mending,
  Moving, Between

\* A command with a transaction of its own does not come back to what others left.
LEMMA StaysOwn ==
    ASSUME Types, NEW p \in Commands, Step(p),
           ~(Open(p) \/ Acquire(p) \/ LetGo(p) \/ Raises(p) \/ Recover(p) \/ Sweep(p) \/ Undo(p)
             \/ PutBack(p) \/ Clear(p) \/ GivesUp(p))
    PROVE  /\ InHand(p) /\ ~Mending(p)
           /\ pc'[p] \notin {"recover", "sweep", "clear", "putBack"}
           /\ pc'[p] = "undo" => cmd'[p].of = p
<1>1. /\ pc \in [Commands -> {"start"} \cup LockPlaces \cup WorkPlaces \cup Ended]
      /\ cmd \in [Commands -> Memory] /\ cmd[p] \in Memory
  BY DEF Types
<1> USE DEF InHand, Working, WorkPlaces, Mending
<1>2. CASE Plan(p) \/ Stage(p) \/ Begin(p) \/ Clean(p)
  BY <1>1, <1>2, PlanIs DEF Stage, Begin, Clean, Goto
<1>3. CASE StageFails(p)
  BY <1>1, <1>3, FailIs DEF StageFails, Goto
<1>4. CASE MoveFails(p)
  BY <1>1, <1>4, FailIs DEF MoveFails, Goto
<1>5. CASE MoveOut(p) \/ NoteOut(p) \/ MoveIn(p) \/ NoteIn(p)
  BY <1>1, <1>5 DEF MoveOut, NoteOut, MoveIn, NoteIn, Goto
<1>6. CASE Hooks(p)
  <2>1. pc[p] = "hooks" /\ (Goto(p, "record") \/ Fail(p, "undo"))
    BY <1>6 DEF Hooks
  <2>2. CASE Goto(p, "record")
    BY <1>1, <2>1, <2>2 DEF Goto
  <2>3. CASE Fail(p, "undo")
    BY <1>1, <2>1, <2>3, FailIs DEF Goto
  <2> QED
    BY <2>1, <2>2, <2>3
<1>7. CASE Commit(p) \/ RolledBack(p) \/ SaveRecord(p) \/ SaveLock(p) \/ SaveManifest(p) \/ Finish(p) \/ FinishFails(p)
  BY <1>1, <1>7 DEF Commit, RolledBack, SaveRecord, SaveLock, SaveManifest, Finish, FinishFails,
    Goto
<1> QED
  BY <1>2, <1>3, <1>4, <1>5, <1>6, <1>7 DEF Step

\* What a command still has to look at is there, and not what it is looking at.
LEMMA VisitOwn ==
    ASSUME Types, NEW p \in Commands, Places(p), Log(p), Found(p), Step(p) \/ Kill(p), InHand(p)'
    PROVE  /\ Mending(p)' => \A q \in cmd'[p].visit : staging'[q] # None
           /\ Mending(p)' /\ pc'[p] \in {"undo", "putBack", "clear"} => cmd'[p].of \notin cmd'[p].visit
<1>1. /\ pc \in [Commands -> {"start"} \cup LockPlaces \cup WorkPlaces \cup Ended]
      /\ cmd \in [Commands -> Memory] /\ cmd[p] \in Memory /\ cmd[p].visit \subseteq Commands
      /\ staging \in [Commands -> Root \cup {None}]
  BY DEF Types, Memory
<1> USE DEF Found, InHand, Working, WorkPlaces, Mending
<1>2. CASE Open(p) \/ Acquire(p)
  <2>1. ~Working(p)' \/ (pc'[p] = "recover" /\ cmd'[p].visit = {})
    <3>1. CASE Open(p)
      BY <1>1, <3>1, OpenIs DEF Goto
    <3>2. CASE Acquire(p)
      <4>1. /\ pc[p] \in LockPlaces /\ cmd' = cmd
            /\ pc'[p] \in LockPlaces \cup {"failed", "recover"}
        BY <1>1, <3>2 DEF Acquire, Wait, Try, Exists, Read, Judge, Break, Write, Goto, LockPlaces
      <4>2. cmd[p].visit = {}
        BY <4>1 DEF Places, Before
      <4> QED
        BY <4>1, <4>2 DEF LockPlaces
    <3> QED
      BY <1>2, <3>1, <3>2
  <2> QED
    BY <2>1
<1>3. CASE LetGo(p) \/ Kill(p) \/ Raises(p)
  BY <1>1, <1>3, RaisesIs DEF LetGo, Release, Kill, Goto
<1>4. CASE Recover(p)
  BY <1>1, <1>4 DEF Recover, Goto, Memory, disk
<1>5. CASE Sweep(p)
  <2>1. pc[p] = "sweep" /\ staging' = staging
    BY <1>5, SweepIs DEF disk
  <2>2. CASE cmd[p].visit = {} /\ Goto(p, "plan") /\ cmd' = cmd
    BY <1>1, <2>2 DEF Goto
  <2>3. CASE cmd'[p].of \in cmd[p].visit /\ cmd'[p].visit = cmd[p].visit \ {cmd'[p].of}
    BY <2>1, <2>3
  <2> QED
    BY <1>5, <2>2, <2>3, SweepIs
<1>6. CASE Undo(p)
  <2>1. /\ pc[p] = "undo" /\ cmd' = cmd /\ staging' = staging
        /\ pc'[p] \in {"putBack", "rolledBack", "clear"}
        /\ cmd[p].of = p => pc'[p] # "clear"
    BY <1>1, <1>6 DEF Undo, Goto
  <2> QED
    BY <2>1
<1>7. CASE PutBack(p)
  <2>1. /\ pc[p] = "putBack" /\ pc'[p] = "undo" /\ cmd'[p].of = cmd[p].of
        /\ \A q \in Commands : q # cmd[p].of => staging'[q] = staging[q]
    BY <1>7, PutBackIs
  <2>2. cmd'[p].visit = cmd[p].visit
    BY <1>1, <1>7 DEF PutBack, Memory
  <2> QED
    BY <1>1, <2>1, <2>2, Zenon
<1>8. CASE Clear(p)
  <2>1. /\ pc[p] = "clear" /\ pc'[p] = "sweep" /\ cmd'[p].visit = cmd[p].visit
        /\ staging' = [staging EXCEPT ![cmd[p].of] = None]
    BY <1>1, <1>8 DEF Clear, Goto, Memory
  <2> QED
    BY <1>1, <2>1
<1>9. CASE ~(Open(p) \/ Acquire(p) \/ LetGo(p) \/ Kill(p) \/ Raises(p) \/ Recover(p) \/ Sweep(p) \/ Undo(p)
             \/ PutBack(p) \/ Clear(p) \/ GivesUp(p))
  BY <1>9, StaysOwn
<1>10. CASE GivesUp(p)
  <2>1. /\ pc[p] \in {"undo", "putBack"} /\ cmd[p].of # p /\ pc'[p] = "clear"
        /\ cmd' = cmd /\ staging' = staging
    BY <1>10, GivesUpIs
  <2> QED
    BY <2>1
<1> QED
  BY <1>2, <1>3, <1>4, <1>5, <1>6, <1>7, <1>8, <1>9, <1>10

\* What a command at work finds of others it has seen, and is its own otherwise.
LEMMA FoundOwn ==
    ASSUME Types, NEW p \in Commands, Places(p), Log(p), Found(p), Step(p) \/ Kill(p)
    PROVE  Found(p)'
<1>1. /\ pc \in [Commands -> {"start"} \cup LockPlaces \cup WorkPlaces \cup Ended]
      /\ cmd \in [Commands -> Memory] /\ cmd[p] \in Memory
      /\ staging \in [Commands -> Root \cup {None}]
  BY DEF Types
<1> USE DEF Found, InHand, Working, WorkPlaces, Mending
<1>2. SUFFICES ASSUME InHand(p)', NEW q \in Commands, staging'[q] # None
               PROVE  /\ ~Mending(p)' => q = p
                      /\ pc'[p] = "sweep" => q \in cmd'[p].visit
                      /\ Mending(p)' /\ pc'[p] \in {"undo", "putBack", "clear"}
                            => q \in cmd'[p].visit \cup {cmd'[p].of}
  BY VisitOwn DEF Found
<1>3. q # p => staging[q] # None
  BY <1>2, Touches
<1>4. CASE Open(p) \/ Acquire(p)
  <2>1. pc'[p] = "recover" \/ ~Working(p)'
    <3>1. CASE Open(p)
      BY <1>1, <3>1, OpenIs DEF Goto
    <3>2. CASE Acquire(p)
      BY <1>1, <3>2 DEF Acquire, Wait, Try, Exists, Read, Judge, Break, Write, Goto
    <3> QED
      BY <1>4, <3>1, <3>2
  <2> QED
    BY <1>2, <2>1
<1>5. CASE LetGo(p) \/ Kill(p) \/ Raises(p)
  <2>1. pc'[p] \in {"done", "failed", "killed", "raise"}
    BY <1>1, <1>5, RaisesIs DEF LetGo, Release, Kill, Goto
  <2> QED
    BY <1>2, <2>1
<1>6. CASE Recover(p)
  <2>1. pc'[p] = "sweep" /\ cmd'[p].visit = {r \in Commands : staging[r] # None}
        /\ staging' = staging
    BY <1>1, <1>6 DEF Recover, Goto, Memory, disk
  <2> QED
    BY <1>2, <2>1
<1>7. CASE Sweep(p)
  <2>1. pc[p] = "sweep" /\ staging' = staging
    BY <1>7, SweepIs DEF disk
  <2>2. q \in cmd[p].visit
    BY <1>2, <2>1
  <2>3. CASE cmd[p].visit = {} /\ Goto(p, "plan") /\ cmd' = cmd
    BY <2>2, <2>3
  <2>4. CASE /\ cmd'[p].of \in cmd[p].visit /\ cmd'[p].visit = cmd[p].visit \ {cmd'[p].of}
             /\ \E place \in {"undo", "clear"} : Goto(p, place)
    <3>1. pc'[p] \in {"undo", "clear"}
      BY <1>1, <2>4 DEF Goto
    <3>2. cmd'[p].of # p
      BY <2>1, <2>4 DEF Places
    <3> QED
      BY <2>2, <2>4, <3>1, <3>2
  <2> QED
    BY <1>7, <2>3, <2>4, SweepIs
<1>8. CASE Undo(p) \/ PutBack(p)
  <2>1. cmd'[p].of = cmd[p].of /\ cmd'[p].visit = cmd[p].visit
    <3>1. CASE Undo(p)
      BY <3>1 DEF Undo
    <3>2. CASE PutBack(p)
      BY <1>1, <3>2 DEF PutBack, Memory
    <3> QED
      BY <1>8, <3>1, <3>2
  <2>2. /\ pc[p] \in {"undo", "putBack"}
        /\ pc'[p] \in {"undo", "putBack"} \/ pc'[p] = (IF cmd[p].of = p THEN "rolledBack" ELSE "clear")
    BY <1>1, <1>8 DEF Undo, PutBack, Goto
  <2>3. q = p \/ staging[q] # None
    BY <1>3
  <2>4. cmd[p].of # p => q # p
    BY <1>1, <1>2, <1>8, <2>2 DEF Places, Without, Undo, PutBack
  <2> QED
    BY <2>1, <2>2, <2>3, <2>4
<1>9. CASE Clear(p)
  <2>1. /\ pc[p] = "clear" /\ pc'[p] = "sweep" /\ cmd'[p].visit = cmd[p].visit
        /\ staging' = [staging EXCEPT ![cmd[p].of] = None]
    BY <1>1, <1>9 DEF Clear, Goto, Memory
  <2>2. cmd[p].of \in Commands
    BY <2>1 DEF Places
  <2>3. q # cmd[p].of /\ staging[q] # None
    BY <1>1, <1>2, <2>1, <2>2
  <2> QED
    BY <2>1, <2>3
<1>10. CASE ~(Open(p) \/ Acquire(p) \/ LetGo(p) \/ Kill(p) \/ Raises(p) \/ Recover(p) \/ Sweep(p) \/ Undo(p)
              \/ PutBack(p) \/ Clear(p) \/ GivesUp(p))
  <2>1. /\ InHand(p) /\ ~Mending(p)
        /\ pc'[p] \notin {"recover", "sweep", "clear", "putBack"}
        /\ pc'[p] = "undo" => cmd'[p].of = p
    BY <1>10, StaysOwn
  <2>2. q = p
    BY <1>3, <2>1
  <2> QED
    BY <2>1, <2>2
<1>11. CASE GivesUp(p)
  <2>1. /\ pc[p] \in {"undo", "putBack"} /\ cmd[p].of # p /\ pc'[p] = "clear"
        /\ cmd' = cmd /\ staging' = staging
    BY <1>11, GivesUpIs
  <2> QED
    BY <1>2, <2>1
<1> QED
  BY <1>4, <1>5, <1>6, <1>7, <1>8, <1>9, <1>10, <1>11

\* There is never more than one transaction directory.
LEMMA OneLeftKept ==
    ASSUME Types, NEW p \in Commands, Places(p), Log(p), Found(p), OneLeft, Step(p) \/ Kill(p)
    PROVE  OneLeft'
<1>1. /\ pc \in [Commands -> {"start"} \cup LockPlaces \cup WorkPlaces \cup Ended]
      /\ staging \in [Commands -> Root \cup {None}]
  BY DEF Types
<1>2. \A q \in Commands : q # p /\ staging'[q] # None => staging[q] # None
  BY Touches
<1>3. CASE staging'[p] # None => staging[p] # None
  BY <1>2, <1>3 DEF OneLeft
<1>4. CASE staging'[p] # None /\ staging[p] = None
  <2>1. InHand(p) /\ ~Mending(p)
    <3> USE DEF InHand, Working, WorkPlaces, Mending
    <3>1. CASE Stage(p) \/ Begin(p) \/ NoteOut(p) \/ NoteIn(p) \/ Commit(p) \/ RolledBack(p)
      BY <3>1 DEF Stage, Begin, NoteOut, NoteIn, Commit, RolledBack
    <3>2. CASE MoveOut(p) \/ MoveIn(p)
      BY <3>2 DEF MoveOut, MoveIn
    <3>3. CASE PutBack(p) \/ Clear(p) \/ Finish(p)
      <4>1. CASE PutBack(p)
        BY <1>1, <1>4, <4>1 DEF PutBack
      <4>2. CASE Clear(p)
        BY <1>1, <1>4, <4>2 DEF Clear
      <4>3. CASE Finish(p)
        BY <4>3 DEF Finish
      <4> QED
        BY <3>3, <4>1, <4>2, <4>3
    <3>4. CASE ~(Stage(p) \/ Begin(p) \/ NoteOut(p) \/ NoteIn(p) \/ Commit(p) \/ RolledBack(p)
                 \/ MoveOut(p) \/ MoveIn(p) \/ PutBack(p) \/ Clear(p) \/ Finish(p))
      <4>1. staging' = staging
        BY <3>4 DEF Step, Kill, Raises, GivesUp, Open, Acquire, LetGo, Recover, Sweep, Undo,
          Plan, StageFails,
          MoveFails, Hooks, SaveRecord, SaveLock, SaveManifest, FinishFails, Clean, disk
      <4> QED
        BY <1>4, <4>1
    <3> QED
      BY <3>1, <3>2, <3>3, <3>4
  <2>2. \A q \in Commands : staging[q] # None => q = p
    BY <2>1 DEF Found
  <2> QED
    BY <1>2, <2>2 DEF OneLeft
<1> QED
  BY <1>3, <1>4
\* What .zuri/libs was when the plan was made, and what the record and the files are.
LEMMA WasIs ==
    ASSUME Types, NEW p \in Commands, cmd[p].before = <<manifest, lockfile, record, Was(p)>>
    PROVE  Was(p) \in Tree
<1>1. cmd[p].before \in {<<>>} \cup Disk
  BY DEF Types, Memory
<1>2. <<manifest, lockfile, record, Was(p)>> # <<>>
  OBVIOUS
<1>3. <<manifest, lockfile, record, Was(p)>> \in Disk
  BY <1>1, <1>2
<1> QED
  BY <1>3 DEF Disk

\* Steps of a command that has no transaction of its own, or has done with it.
LEMMA OwnNone ==
    ASSUME Types, NEW p \in Commands, Places(p),
           \/ Open(p) \/ Acquire(p) \/ LetGo(p) \/ Kill(p) \/ Raises(p)
           \/ Recover(p) \/ Sweep(p) \/ Clear(p) \/ GivesUp(p) \/ Clean(p)
    PROVE  Own(p)' /\ Journalled(p)'
<1>1. /\ pc \in [Commands -> {"start"} \cup LockPlaces \cup WorkPlaces \cup Ended]
      /\ cmd \in [Commands -> Memory] /\ cmd[p] \in Memory
      /\ staging \in [Commands -> Root \cup {None}]
  BY DEF Types
<1>2. CASE /\ pc'[p] \in {"try", "exists", "read", "judge", "break", "write", "recover", "sweep",
                          "clear", "plan", "clean", "done", "failed", "killed", "raise"}
  BY <1>2 DEF Own, Journalled, Planned, Undoing, Moving, Between
<1>3. CASE Open(p) \/ Acquire(p) \/ LetGo(p) \/ Kill(p) \/ Raises(p) \/ Recover(p) \/ Clear(p)
           \/ GivesUp(p)
  <2>1. CASE Open(p)
    BY <1>1, <1>2, <2>1, OpenIs DEF Goto
  <2>2. CASE Acquire(p)
    BY <1>1, <1>2, <2>2 DEF Acquire, Wait, Try, Exists, Read, Judge, Break, Write, Goto
  <2>3. CASE LetGo(p) \/ Kill(p) \/ Recover(p) \/ Clear(p)
    BY <1>1, <1>2, <2>3 DEF LetGo, Release, Kill, Recover, Clear, Goto
  <2>4. CASE Raises(p) \/ GivesUp(p)
    BY <1>2, <2>4, RaisesIs, GivesUpIs
  <2> QED
    BY <1>3, <2>1, <2>2, <2>3, <2>4
<1>4. CASE Sweep(p)
  <2>1. CASE pc'[p] = "undo" /\ cmd'[p].of # p
    BY <2>1 DEF Own, Journalled, Planned, Undoing, Moving, Between
  <2>2. /\ pc[p] = "sweep"
        /\ \/ Goto(p, "plan")
           \/ cmd'[p].of \in cmd[p].visit /\ (Goto(p, "undo") \/ Goto(p, "clear"))
    BY <1>4, SweepIs
  <2>3. p \notin cmd[p].visit
    BY <2>2 DEF Places, Mending
  <2>4. pc'[p] \in {"plan", "clear"} \/ (pc'[p] = "undo" /\ cmd'[p].of # p)
    BY <1>1, <2>2, <2>3 DEF Goto
  <2> QED
    BY <1>2, <2>1, <2>4
<1>5. CASE Clean(p)
  <2>1. pc[p] = "clean" /\ staging' = staging /\ cmd'[p].failed = cmd[p].failed
        /\ (pc' = pc \/ Goto(p, "release"))
    BY <1>1, <1>5 DEF Clean, Memory
  <2>2. ~cmd[p].failed /\ staging[p] = None
    BY <2>1 DEF Places, Without
  <2>3. CASE pc'[p] = "release"
    BY <2>1, <2>2, <2>3 DEF Own, Journalled, Planned, Undoing, Moving, Between
  <2> QED
    BY <1>1, <1>2, <2>1, <2>3 DEF Goto
<1> QED
  BY <1>3, <1>4, <1>5

\* A plan is made of what is there, and nothing of that changes before the swap.
LEMMA OwnPlanned ==
    ASSUME Types, NEW p \in Commands, Places(p), Own(p), Journalled(p),
           Plan(p) \/ Stage(p) \/ StageFails(p) \/ Begin(p)
    PROVE  Own(p)' /\ Journalled(p)'
<1>1. /\ pc \in [Commands -> {"start"} \cup LockPlaces \cup WorkPlaces \cup Ended]
      /\ cmd \in [Commands -> Memory] /\ cmd[p] \in Memory
      /\ staging \in [Commands -> Root \cup {None}]
  BY DEF Types
<1> USE DEF Planned, Undoing, Moving, Between
<1>2. CASE Plan(p)
  <2>1. /\ pc[p] = "plan" /\ UNCHANGED disk
        /\ \/ pc'[p] \in {"failed", "done", "clean"}
           \/ /\ pc'[p] \in {"release", "stage"}
              /\ cmd'[p].before = <<manifest, lockfile, record, libs>>
    BY <1>2, PlanIs
  <2>2. staging[p] = None
    BY <2>1 DEF Places, Without
  <2>3. CASE pc'[p] \in {"failed", "done", "clean"}
    BY <2>3 DEF Own, Journalled
  <2>4. CASE pc'[p] \in {"release", "stage"} /\ cmd'[p].before = <<manifest, lockfile, record, libs>>
    <3>1. Was(p)' = libs
      BY <2>4 DEF Was
    <3> QED
      BY <2>1, <2>2, <2>4, <3>1 DEF Own, Journalled, disk
  <2> QED
    BY <2>1, <2>3, <2>4
<1>3. CASE Stage(p)
  <2>1. /\ pc[p] = "stage" /\ pc'[p] = "begin" /\ cmd' = cmd
        /\ UNCHANGED <<manifest, lockfile, record, libs>>
        /\ staging'[p] # None /\ staging'[p].state = "staging" /\ staging'[p].old = Nothing
    <3>1. staging'[p] = [state |-> "staging", done |-> <<>>, dirs |-> TRUE, old |-> Nothing,
                         new |-> [k \in Packages |-> IF k \in cmd[p].todo THEN cmd[p].target[k]
                                                                   ELSE None]]
      BY <1>1, <1>3 DEF Stage
    <3>2. staging' \in [Commands -> Root \cup {None}] /\ staging'[p] \in Root
      <4>1. cmd[p].target \in File /\ <<>> \in Seq(Entry)
        BY <1>1, EmptySeq DEF Memory
      <4>2. [k \in Packages |-> IF k \in cmd[p].todo THEN cmd[p].target[k] ELSE None] \in Tree
        BY <4>1 DEF File, Tree
      <4>3. staging'[p] \in Root
        BY <3>1, <4>1, <4>2, BlankIs, PlacesAre DEF Root
      <4> QED
        BY <1>1, <1>3, <3>1, <4>3 DEF Stage
    <3> QED
      BY <1>1, <1>3, <3>1, <3>2, RootAssumption DEF Stage, Goto
  <2>2. Was(p)' = Was(p)
    BY <2>1 DEF Was
  <2>3. \A k \in Packages : staging'[p].old[k] \in {None, Was(p)[k]}
    BY <2>1 DEF Nothing
  <2> QED
    BY <2>1, <2>2, <2>3 DEF Own, Journalled
<1>4. CASE StageFails(p)
  <2>1. /\ pc[p] \in {"stage", "begin"} /\ pc'[p] = "release" /\ UNCHANGED disk
        /\ cmd'[p].before = cmd[p].before
    BY <1>1, <1>4, FailIs DEF StageFails, Goto
  <2>2. staging[p] # None => staging[p].state = "staging"
    BY <2>1 DEF Places, Without, Journalled
  <2>3. Was(p)' = Was(p)
    BY <2>1 DEF Was
  <2> QED
    BY <2>1, <2>2, <2>3 DEF Own, Journalled, disk
<1>5. CASE Begin(p)
  <2>1. /\ pc[p] = "begin" /\ pc'[p] = "move" /\ cmd' = cmd
        /\ UNCHANGED <<manifest, lockfile, record, libs>> /\ Journal(p, "swapping", <<>>)
    BY <1>1, <1>5 DEF Begin, Goto
  <2>2. /\ staging'[p] # None /\ staging'[p].done = <<>> /\ staging'[p].state = "swapping"
        /\ staging[p] # None => staging'[p].old = staging[p].old
    BY <2>1, JournalIs, EmptySeq, PlacesAre
  <2>3. Was(p)' = Was(p)
    BY <2>1 DEF Was
  <2>4. cmd[p].done = <<>>
    BY <2>1 DEF Places
  <2>5. Tells(p, cmd[p].done)'
    <3>1. DOMAIN <<>> = {}
      OBVIOUS
    <3> QED
      BY <2>1, <2>3, <2>4, <3>1 DEF Tells, Own
  <2> QED
    BY <2>1, <2>2, <2>3, <2>4, <2>5 DEF Own, Journalled
<1> QED
  BY <1>2, <1>3, <1>4, <1>5
\* What there is to know of a step that moves a package: of the command before and after.
LEMMA OwnMoveOut ==
    ASSUME Types, NEW p \in Commands, Places(p), Log(p), Own(p), Journalled(p), MoveOut(p)
    PROVE  Own(p)' /\ Journalled(p)'
<1> DEFINE k == Turn(p)
           there == libs[k] # None
           e == [pkg |-> k, old |-> there, new |-> FALSE]
           log == cmd[p].done
           n == Len(log)
<1>1. /\ pc \in [Commands -> {"start"} \cup LockPlaces \cup WorkPlaces \cup Ended]
      /\ cmd \in [Commands -> Memory] /\ cmd[p] \in Memory /\ libs \in Tree
      /\ staging \in [Commands -> Root \cup {None}] /\ log \in Seq(Entry)
  BY DEF Types, Memory
<1>2. /\ pc[p] = "move" /\ UNCHANGED <<manifest, lockfile, record>>
      /\ k \in cmd[p].todo /\ k \in Packages /\ cmd'[p].before = cmd[p].before
      /\ there => staging[p] # None
  BY MoveOutIs DEF MoveOut
<1>3. Was(p)' = Was(p)
  BY <1>2 DEF Was
<1>4. /\ cmd[p].before = <<manifest, lockfile, record, Was(p)>>
      /\ staging[p] # None /\ Tells(p, log) /\ staging[p].done = log
      /\ staging[p].state = "swapping"
      /\ \A j \in Packages : staging[p].old[j] \in {None, Was(p)[j]}
  BY <1>2 DEF Own, Journalled, Planned, Moving
<1> USE DEF Planned, Undoing, Moving, Between
<1>5. CASE UNCHANGED <<pc, libs, staging>> /\ cmd'[p].done = log
  <2>1. Tells(p, cmd[p].done)'
    BY <1>3, <1>4, <1>5 DEF Tells
  <2> QED
    BY <1>2, <1>3, <1>4, <1>5, <2>1 DEF Own, Journalled
<1>6. CASE /\ cmd'[p].done = Append(log, e)
           /\ libs' = [libs EXCEPT ![k] = None]
           /\ staging' = IF there THEN [staging EXCEPT ![p].old[k] = libs[k]] ELSE staging
           /\ Goto(p, "noteOut")
  <2>1. /\ pc'[p] = "noteOut" /\ libs'[k] = None
        /\ \A j \in Packages \ {k} : libs'[j] = libs[j]
    BY <1>1, <1>2, <1>6 DEF Goto, Tree
  <2>2. /\ staging'[p] # None /\ staging'[p].done = log /\ staging'[p].state = "swapping"
        /\ there => staging'[p].old[k] = libs[k]
        /\ \A j \in Packages \ {k} : staging'[p].old[j] = staging[p].old[j]
        /\ ~there => staging'[p].old[k] = staging[p].old[k]
    <3>1. CASE there
      <4>1. staging' = [staging EXCEPT ![p].old[k] = libs[k]] /\ staging[p] # None
        BY <1>2, <1>6, <3>1
      <4>2. staging'[p].old = [staging[p].old EXCEPT ![k] = libs[k]]
            /\ staging'[p] # None /\ staging'[p].done = staging[p].done
            /\ staging'[p].state = staging[p].state
        BY <1>2, <4>1, PutAway
      <4>3. staging[p].old \in Tree
        BY <1>1, <4>1, RootWith
      <4> QED
        BY <1>2, <1>4, <3>1, <4>2, <4>3 DEF Tree
    <3>2. CASE ~there
      BY <1>4, <1>6, <3>2
    <3> QED
      BY <3>1, <3>2
  <2>3. e \in Entry /\ e.pkg = k /\ e.old = there /\ ~e.new
    BY <1>2 DEF Entry
  <2>4. \A i \in DOMAIN log : log[i].pkg # k /\ log[i].pkg \in Packages
    BY <1>1, <1>2, LogIs DEF Log, Entry
  <2>5. libs[k] = Was(p)[k]
    BY <1>2, <1>4, <2>4 DEF Tells
  <2> HIDE DEF e
  <2>6. /\ DOMAIN Append(log, e) = 1 .. n + 1 /\ n \in Nat /\ DOMAIN log = 1 .. n
        /\ \A i \in DOMAIN log : Append(log, e)[i] = log[i]
        /\ Append(log, e)[n + 1] = e /\ Len(Append(log, e)) = n + 1
    BY <1>1, <2>3, AppendIs, LogIs
  <2> HIDE DEF n, log, k, there
  <2>7. \A i \in 1 .. n + 1 : i \in 1 .. n \/ i = n + 1
    BY <2>6
  <2>8. n + 1 \in 1 .. n + 1 /\ \A i \in 1 .. n : i \in 1 .. n + 1
    BY <2>6
  <2>9. Tells(p, cmd[p].done)'
    <3>1. ASSUME NEW j \in Packages, \A i \in 1 .. n + 1 : Append(log, e)[i].pkg # j
          PROVE  libs'[j] = Was(p)[j]
      <4>1. j # k /\ \A i \in DOMAIN log : log[i].pkg # j
        BY <2>3, <2>6, <2>8, <3>1
      <4> QED
        BY <1>4, <2>1, <4>1 DEF Tells
    <3>2. ASSUME NEW i \in 1 .. n
          PROVE  /\ log[i].old <=> Was(p)[log[i].pkg] # None
                 /\ log[i].old => staging'[p].old[log[i].pkg] = Was(p)[log[i].pkg]
                 /\ ~log[i].new => libs'[log[i].pkg] = None
      BY <1>4, <2>1, <2>2, <2>4, <2>6 DEF Tells
    <3>3. /\ e.old <=> Was(p)[e.pkg] # None
          /\ e.old => staging'[p].old[e.pkg] = Was(p)[e.pkg]
          /\ ~e.new => libs'[e.pkg] = None
      BY <2>1, <2>2, <2>3, <2>5 DEF there
    <3>4. cmd'[p].done = Append(log, e)
      BY <1>6
    <3> QED
      BY <1>3, <2>6, <2>7, <3>1, <3>2, <3>3, <3>4 DEF Tells
  <2>10. \A j \in Packages : staging'[p].old[j] \in {None, Was(p)[j]}
    BY <1>4, <2>2, <2>5
  <2>11. SubSeq(Append(log, e), 1, Len(Append(log, e)) - 1) = log
    <3>1. log \in Seq(Entry) /\ Append(log, e) \in Seq(Entry) /\ Append(log, e) # <<>>
      BY <1>1, <2>3, AppendIs DEF log
    <3>2. /\ SubSeq(Append(log, e), 1, Len(Append(log, e)) - 1) = Front(Append(log, e))
          /\ Front(Append(log, e)) \in Seq(Entry) /\ Len(Front(Append(log, e))) = n + 1 - 1
          /\ DOMAIN Front(Append(log, e)) = 1 .. n + 1 - 1
          /\ \A i \in DOMAIN Front(Append(log, e)) : Front(Append(log, e))[i] = Append(log, e)[i]
      <4> DEFINE s == Append(log, e)
      <4>1. s \in Seq(Entry) /\ s # <<>> /\ Len(s) = n + 1
        BY <2>6, <3>1
      <4> HIDE DEF s
      <4>2. /\ SubSeq(s, 1, Len(s) - 1) = Front(s)
            /\ Front(s) \in Seq(Entry) /\ Len(Front(s)) = Len(s) - 1
            /\ DOMAIN Front(s) = 1 .. Len(s) - 1
            /\ \A i \in DOMAIN Front(s) : Front(s)[i] = s[i]
        BY <4>1, FrontIs
      <4>3. /\ SubSeq(s, 1, Len(s) - 1) = Front(s)
            /\ Front(s) \in Seq(Entry) /\ Len(Front(s)) = n + 1 - 1
            /\ DOMAIN Front(s) = 1 .. n + 1 - 1
            /\ \A i \in DOMAIN Front(s) : Front(s)[i] = s[i]
        <5>1. Len(s) - 1 = n + 1 - 1
          BY <2>6, <4>1
        <5> QED
          BY <4>2, <5>1, Zenon
      <4> QED
        BY <4>3 DEF s
    <3>3. n + 1 - 1 = n
      BY <2>6
    <3>4. /\ Len(Front(Append(log, e))) = Len(log)
          /\ \A i \in 1 .. Len(log) : Front(Append(log, e))[i] = log[i]
      BY <2>6, <3>2, <3>3 DEF n
    <3> QED
      BY <3>1, <3>2, <3>4, SeqEqual
  <2>12. cmd'[p].done = Append(log, e)
    BY <1>6
  <2> QED
    BY <1>2, <1>3, <1>4, <2>1, <2>2, <2>9, <2>10, <2>11, <2>12 DEF Own, Journalled
<1> QED
  BY <1>2, <1>5, <1>6, MoveOutIs

\* The staged package comes into its place.
LEMMA OwnMoveIn ==
    ASSUME Types, NEW p \in Commands, Places(p), Log(p), Own(p), Journalled(p), MoveIn(p)
    PROVE  Own(p)' /\ Journalled(p)'
<1> DEFINE k == Turn(p)
           log == cmd[p].done
           n == Len(log)
           marked == [log EXCEPT ![n].new = TRUE]
<1>1. /\ pc \in [Commands -> {"start"} \cup LockPlaces \cup WorkPlaces \cup Ended]
      /\ cmd \in [Commands -> Memory] /\ cmd[p] \in Memory /\ libs \in Tree
      /\ staging \in [Commands -> Root \cup {None}] /\ log \in Seq(Entry)
  BY DEF Types, Memory
<1>2. pc[p] = "moveIn" /\ UNCHANGED <<manifest, lockfile, record>>
  BY DEF MoveIn
<1>3. /\ cmd[p].done # <<>> /\ cmd[p].todo # {} /\ log[n].pkg = k /\ Distinct(log)
      /\ log[n].new <=> FALSE
  BY <1>2 DEF Log, Between
<1>4. /\ k \in Packages /\ cmd'[p].before = cmd[p].before
      /\ cmd'[p].done = marked /\ libs' = [libs EXCEPT ![k] = staging[p].new[k]]
      /\ staging'[p] # None /\ staging'[p].old = staging[p].old
      /\ staging'[p].done = staging[p].done /\ pc'[p] = "noteIn"
      /\ staging'[p].state = staging[p].state
  BY <1>1, <1>3, MoveInIs, Zenon DEF Goto
<1>5. Was(p)' = Was(p)
  BY <1>4 DEF Was
<1> USE DEF Planned, Undoing, Moving, Between
<1>6. /\ cmd[p].before = <<manifest, lockfile, record, Was(p)>>
      /\ staging[p] # None /\ Tells(p, log) /\ staging[p].done = log
      /\ staging[p].state = "swapping"
      /\ \A j \in Packages : staging[p].old[j] \in {None, Was(p)[j]}
  BY <1>2 DEF Own, Journalled
<1>7. /\ marked \in Seq(Entry) /\ Len(marked) = n /\ DOMAIN marked = DOMAIN log
      /\ \A i \in DOMAIN log : marked[i].pkg = log[i].pkg /\ marked[i].old = log[i].old
      /\ \A i \in DOMAIN log : i # n => marked[i] = log[i]
      /\ marked[n].new = TRUE /\ n \in DOMAIN log /\ marked # <<>>
      /\ \A i \in DOMAIN log : log[i] \in Entry
  <2>1. marked = [log EXCEPT ![Len(log)].new = TRUE] /\ n = Len(log)
    OBVIOUS
  <2>2. n \in DOMAIN log /\ \A i \in DOMAIN log : log[i] \in Entry
    BY <1>1, <1>3, LogIs
  <2> HIDE DEF marked, n
  <2>3. TRUE \in BOOLEAN /\ log # <<>>
    BY <1>3
  <2>4. ASSUME NEW b \in BOOLEAN, marked = [log EXCEPT ![Len(log)].new = b]
        PROVE  /\ marked \in Seq(Entry)
               /\ Len(marked) = Len(log) /\ DOMAIN marked = DOMAIN log
               /\ \A i \in DOMAIN log : marked[i].pkg = log[i].pkg /\ marked[i].old = log[i].old
               /\ \A i \in DOMAIN log : i # Len(log) => marked[i] = log[i]
               /\ marked[Len(log)].new = b /\ marked # <<>>
    BY <1>1, <2>3, <2>4, MarkIs
  <2> HIDE DEF log
  <2> QED
    BY <2>1, <2>2, <2>3, <2>4
<1>8. log = [marked EXCEPT ![Len(marked)].new = FALSE]
  <2> DEFINE back == [marked EXCEPT ![Len(marked)].new = FALSE]
  <2>1. /\ back \in Seq(Entry) /\ Len(back) = Len(marked) /\ DOMAIN back = DOMAIN marked
        /\ \A i \in DOMAIN marked : back[i].pkg = marked[i].pkg /\ back[i].old = marked[i].old
        /\ \A i \in DOMAIN marked : i # Len(marked) => back[i] = marked[i]
        /\ back[Len(marked)].new = FALSE
        /\ \A i \in DOMAIN back : back[i] \in Entry
    <3>1. back = [marked EXCEPT ![Len(marked)].new = FALSE]
      OBVIOUS
    <3> HIDE DEF back, marked, n
    <3>2. FALSE \in BOOLEAN
      OBVIOUS
    <3>3. /\ back \in Seq(Entry) /\ Len(back) = Len(marked) /\ DOMAIN back = DOMAIN marked
          /\ \A i \in DOMAIN marked : back[i].pkg = marked[i].pkg /\ back[i].old = marked[i].old
          /\ \A i \in DOMAIN marked : i # Len(marked) => back[i] = marked[i]
          /\ back[Len(marked)].new = FALSE
      <4>1. ASSUME NEW b \in BOOLEAN, back = [marked EXCEPT ![Len(marked)].new = b]
            PROVE  /\ back \in Seq(Entry) /\ Len(back) = Len(marked) /\ DOMAIN back = DOMAIN marked
                   /\ \A i \in DOMAIN marked :
                         back[i].pkg = marked[i].pkg /\ back[i].old = marked[i].old
                   /\ \A i \in DOMAIN marked : i # Len(marked) => back[i] = marked[i]
                   /\ back[Len(marked)].new = b
        BY <1>7, <4>1, MarkIs
      <4> QED
        BY <3>1, <3>2, <4>1
    <3> QED
      BY <3>3, LogIs
  <2>2. log[n].new = FALSE
    BY <1>3, <1>7 DEF Entry
  <2> HIDE DEF back, marked, n
  <2>3. log[n] = back[n]
    <3>1. log[n].pkg = back[n].pkg /\ log[n].old = back[n].old /\ log[n].new = back[n].new
      BY <1>7, <2>1, <2>2
    <3>2. log[n] \in Entry /\ back[n] \in Entry
      BY <1>7, <2>1
    <3> QED
      BY <3>1, <3>2 DEF Entry
  <2>4. \A i \in DOMAIN log : back[i] = log[i]
    BY <1>7, <2>1, <2>3
  <2>5. DOMAIN log = 1 .. Len(log)
    BY <1>1, LogIs
  <2>6. Len(back) = Len(log)
    BY <1>7, <2>1 DEF n
  <2> QED
    BY <1>1, <2>1, <2>4, <2>5, <2>6, SeqEqual DEF back
<1> HIDE DEF marked, n, k
<1>9. Tells(p, cmd[p].done)'
  <2>1. \A i \in DOMAIN log : i # n => log[i].pkg # k
    BY <1>3, <1>7 DEF Distinct
  <2>2. \A j \in Packages \ {k} : libs'[j] = libs[j]
    BY <1>1, <1>4 DEF Tree
  <2>3. ASSUME NEW j \in Packages, \A i \in DOMAIN log : marked[i].pkg # j
        PROVE  libs'[j] = Was(p)[j]
    <3>1. j # k /\ \A i \in DOMAIN log : log[i].pkg # j
      BY <1>3, <1>7, <2>3
    <3> QED
      BY <1>6, <2>2, <3>1 DEF Tells
  <2>4. ASSUME NEW i \in DOMAIN log
        PROVE  /\ marked[i].old <=> Was(p)[marked[i].pkg] # None
               /\ marked[i].old => staging'[p].old[marked[i].pkg] = Was(p)[marked[i].pkg]
               /\ ~marked[i].new => libs'[marked[i].pkg] = None
    <3>1. /\ marked[i].old <=> Was(p)[marked[i].pkg] # None
          /\ marked[i].old => staging'[p].old[marked[i].pkg] = Was(p)[marked[i].pkg]
      BY <1>4, <1>6, <1>7 DEF Tells
    <3>2. i # n => log[i].pkg \in Packages \ {k} /\ marked[i] = log[i]
      BY <1>7, <2>1 DEF Entry
    <3>3. ~marked[i].new => libs'[marked[i].pkg] = None
      BY <1>6, <1>7, <2>2, <3>2 DEF Tells
    <3> QED
      BY <3>1, <3>3
  <2> QED
    BY <1>4, <1>5, <1>7, <2>3, <2>4 DEF Tells
<1>10. \A j \in Packages : staging'[p].old[j] \in {None, Was(p)[j]}
  BY <1>4, <1>6
<1> QED
  BY <1>2, <1>4, <1>5, <1>6, <1>8, <1>9, <1>10 DEF Own, Journalled
\* A move is written down, or the end of them.
LEMMA OwnNotes ==
    ASSUME Types, NEW p \in Commands, Own(p), Journalled(p), NoteOut(p) \/ NoteIn(p) \/ Commit(p)
    PROVE  Own(p)' /\ Journalled(p)'
<1>1. /\ pc \in [Commands -> {"start"} \cup LockPlaces \cup WorkPlaces \cup Ended]
      /\ cmd \in [Commands -> Memory] /\ cmd[p] \in Memory /\ cmd[p].done \in Seq(Entry)
  BY DEF Types, Memory
<1> USE DEF Planned, Undoing, Moving, Between
<1>2. /\ pc[p] \in {"move", "noteOut", "noteIn"} /\ UNCHANGED <<manifest, lockfile, record, libs>>
      /\ cmd'[p].before = cmd[p].before /\ cmd'[p].done = cmd[p].done
      /\ \/ pc'[p] \in {"move", "moveIn"} /\ Journal(p, "swapping", cmd[p].done)
         \/ pc'[p] = "hooks" /\ Journal(p, "committed", cmd[p].done)
  <2>1. CASE NoteOut(p) \/ NoteIn(p)
    BY <1>1, <2>1, NoteIs, Zenon DEF NoteOut, NoteIn, Goto
  <2>2. CASE Commit(p)
    BY <1>1, <2>2 DEF Commit, Goto
  <2> QED
    BY <2>1, <2>2
<1>3. /\ cmd[p].before = <<manifest, lockfile, record, Was(p)>>
      /\ staging[p] # None /\ Tells(p, cmd[p].done)
      /\ \A j \in Packages : staging[p].old[j] \in {None, Was(p)[j]}
  BY <1>2 DEF Own
<1>4. /\ staging'[p] # None /\ staging'[p].old = staging[p].old /\ staging'[p].done = cmd[p].done
      /\ staging'[p].state = IF pc'[p] = "hooks" THEN "committed" ELSE "swapping"
  BY <1>1, <1>2, <1>3, JournalIs, PlacesAre
<1>5. Was(p)' = Was(p)
  BY <1>2 DEF Was
<1>6. Tells(p, cmd[p].done)'
  BY <1>2, <1>3, <1>4, <1>5 DEF Tells
<1> QED
  BY <1>2, <1>3, <1>4, <1>5, <1>6 DEF Own, Journalled

\* A rename or a hook fails, and all there is to undo is what has been done.
LEMMA OwnFails ==
    ASSUME Types, NEW p \in Commands, Places(p), Own(p), Journalled(p), MoveFails(p) \/ Hooks(p)
    PROVE  Own(p)' /\ Journalled(p)'
<1>1. /\ pc \in [Commands -> {"start"} \cup LockPlaces \cup WorkPlaces \cup Ended]
      /\ cmd \in [Commands -> Memory] /\ cmd[p] \in Memory /\ cmd[p].done \in Seq(Entry)
  BY DEF Types, Memory
<1> USE DEF Planned, Undoing, Moving, Between
<1>2. /\ pc[p] \in {"move", "moveIn", "hooks"} /\ UNCHANGED disk
      /\ Fail(p, "undo") \/ (pc[p] = "hooks" /\ Goto(p, "record"))
      /\ pc[p] = "hooks" => cmd[p].todo = {}
  BY DEF MoveFails, Hooks, Places
<1>3. /\ cmd[p].before = <<manifest, lockfile, record, Was(p)>>
      /\ staging[p] # None /\ Tells(p, cmd[p].done)
      /\ \A j \in Packages : staging[p].old[j] \in {None, Was(p)[j]}
  BY <1>2 DEF Own
<1>4. CASE pc[p] = "hooks" /\ Goto(p, "record")
  <2>1. pc'[p] = "record" /\ staging'[p].state # "swapping"
    BY <1>1, <1>2, <1>4 DEF Goto, Journalled, disk
  <2> QED
    BY <2>1 DEF Own, Journalled
<1>5. CASE Fail(p, "undo")
  <2>1. /\ pc'[p] = "undo" /\ cmd'[p].of = p /\ cmd'[p].left = cmd[p].done
        /\ cmd'[p].before = cmd[p].before /\ cmd'[p].done = cmd[p].done
        /\ cmd'[p].todo = cmd[p].todo
    BY <1>1, <1>5, FailIs DEF Goto
  <2>2. Was(p)' = Was(p)
    BY <2>1 DEF Was
  <2>3. Tells(p, cmd[p].left)' /\ IsPrefixOf(cmd[p].left, cmd[p].done)'
    <3>1. Len(cmd[p].done) \in Nat
      BY <1>1, LogIs
    <3> QED
      BY <1>2, <1>3, <2>1, <2>2, <3>1 DEF Tells, IsPrefixOf, disk
  <2>4. cmd[p].todo # {} => staging[p].done = cmd[p].done /\ staging[p].state = "swapping"
    BY <1>2 DEF Journalled
  <2> QED
    BY <1>2, <1>3, <2>1, <2>2, <2>3, <2>4 DEF Own, Journalled, disk
<1> QED
  BY <1>2, <1>4, <1>5

\* A log and what it is the beginning of.
LEMMA PrefixIs ==
    ASSUME NEW s \in Seq(Entry), NEW t \in Seq(Entry), IsPrefixOf(s, t)
    PROVE  /\ \A i \in DOMAIN s : i \in DOMAIN t /\ s[i] = t[i]
           /\ Distinct(t) => Distinct(s)
           /\ s # <<>> => IsPrefixOf(Front(s), t)
<1>1. /\ Len(s) \in Nat /\ DOMAIN s = 1 .. Len(s) /\ Len(t) \in Nat /\ DOMAIN t = 1 .. Len(t)
  BY LogIs
<1>2. \A i \in DOMAIN s : i \in DOMAIN t /\ s[i] = t[i]
  BY <1>1 DEF IsPrefixOf
<1>3. ASSUME s # <<>> PROVE IsPrefixOf(Front(s), t)
  <2>1. /\ Len(Front(s)) = Len(s) - 1 /\ DOMAIN Front(s) = 1 .. Len(s) - 1
        /\ \A i \in DOMAIN Front(s) : Front(s)[i] = s[i]
    BY <1>3, FrontIs
  <2>2. \A i \in 1 .. Len(s) - 1 : i \in DOMAIN s
    BY <1>1
  <2>3. Len(s) - 1 <= Len(t)
    BY <1>1 DEF IsPrefixOf
  <2> QED
    BY <1>2, <2>1, <2>2, <2>3 DEF IsPrefixOf
<1> QED
  BY <1>2, <1>3 DEF Distinct

\* The newest move that is left is undone: away with the new package, ...
LEMMA OwnUndo ==
    ASSUME Types, NEW p \in Commands, Places(p), Log(p), Own(p), Journalled(p), Undo(p)
    PROVE  Own(p)' /\ Journalled(p)'
<1> DEFINE left == cmd[p].left
           n == Len(left)
           k == left[n].pkg
<1>1. /\ pc \in [Commands -> {"start"} \cup LockPlaces \cup WorkPlaces \cup Ended]
      /\ cmd \in [Commands -> Memory] /\ cmd[p] \in Memory /\ libs \in Tree
      /\ cmd[p].done \in Seq(Entry) /\ left \in Seq(Entry)
  BY DEF Types, Memory
<1> USE DEF Planned, Undoing, Moving, Between
<1>2. /\ pc[p] = "undo" /\ UNCHANGED <<manifest, lockfile, record, staging, cmd>>
      /\ \/ left = <<>> /\ pc'[p] = (IF cmd[p].of = p THEN "rolledBack" ELSE "clear") /\ libs' = libs
         \/ left # <<>> /\ pc'[p] = "putBack"
  BY <1>1 DEF Undo, Goto
<1>3. Was(p)' = Was(p)
  BY <1>2 DEF Was
<1>4. CASE cmd[p].of # p
  BY <1>2, <1>4 DEF Own, Journalled
<1>5. CASE cmd[p].of = p
  <2>1. /\ cmd[p].before = <<manifest, lockfile, record, Was(p)>>
        /\ staging[p] # None
        /\ \A j \in Packages : staging[p].old[j] \in {None, Was(p)[j]}
        /\ IsPrefixOf(left, cmd[p].done) /\ Tells(p, left)
    BY <1>2, <1>5 DEF Own
  <2>2. CASE left = <<>>
    <3>1. Was(p) \in Tree
      BY <2>1, WasIs
    <3>2. \A j \in Packages : libs[j] = Was(p)[j]
      <4>1. DOMAIN <<>> = {}
        OBVIOUS
      <4> QED
        BY <2>1, <2>2, <4>1 DEF Tells
    <3>3. libs = Was(p)
      BY <1>1, <3>1, <3>2 DEF Tree
    <3>4. pc'[p] = "rolledBack" /\ libs' = Was(p)
      BY <1>2, <1>5, <2>2, <3>3
    <3> QED
      BY <1>2, <1>3, <2>1, <3>4 DEF Own, Journalled
  <2>3. CASE left # <<>>
    <3>1. n \in DOMAIN left /\ left[n] \in Entry /\ k \in Packages /\ Last(left) = left[n]
      BY <1>1, <2>3, LogIs, FrontIs DEF Entry
    <3>2. libs' = IF left[n].new THEN [libs EXCEPT ![k] = None] ELSE libs
      BY <2>3, <3>1 DEF Undo
    <3> HIDE DEF n
    <3>3. /\ \A j \in Packages \ {k} : libs'[j] = libs[j]
          /\ left[n].new => libs'[k] = None
          /\ ~left[n].new => libs'[k] = libs[k]
      BY <1>1, <3>1, <3>2 DEF Tree
    <3>4. \A i \in DOMAIN left : i # n => left[i].pkg \in Packages \ {k}
      <4>1. Distinct(left)
        BY <1>1, <2>1, PrefixIs DEF Log
      <4>2. \A i \in DOMAIN left : left[i].pkg \in Packages
        BY <1>1, LogIs DEF Entry
      <4> QED
        BY <3>1, <4>1, <4>2 DEF Distinct
    <3>5. libs'[k] = None
      BY <2>1, <3>1, <3>3 DEF Tells
    <3>6. Tells(p, left)'
      <4>1. ASSUME NEW j \in Packages, \A i \in DOMAIN left : left[i].pkg # j
            PROVE  libs'[j] = Was(p)[j]
        BY <2>1, <3>1, <3>3, <4>1 DEF Tells
      <4>2. \A i \in DOMAIN left : ~left[i].new => libs'[left[i].pkg] = None
        BY <2>1, <3>3, <3>4, <3>5 DEF Tells
      <4>3. \A i \in DOMAIN left :
               /\ left[i].old <=> Was(p)[left[i].pkg] # None
               /\ left[i].old => staging[p].old[left[i].pkg] = Was(p)[left[i].pkg]
        BY <2>1 DEF Tells
      <4> QED
        BY <1>2, <1>3, <4>1, <4>2, <4>3 DEF Tells
    <3>7. libs'[cmd'[p].left[Len(cmd'[p].left)].pkg] = None
      BY <1>2, <3>5 DEF n
    <3> QED
      BY <1>2, <1>3, <1>5, <2>1, <2>3, <3>6, <3>7 DEF Own, Journalled
  <2> QED
    BY <2>2, <2>3
<1> QED
  BY <1>4, <1>5
\* What is put back is what was there when the plan was made.
LEMMA OwnPutBack ==
    ASSUME Types, NEW p \in Commands, Places(p), Log(p), Own(p), Journalled(p), PutBack(p)
    PROVE  Own(p)' /\ Journalled(p)'
<1> DEFINE left == cmd[p].left
           n == Len(left)
           k == left[n].pkg
<1>1. cmd \in [Commands -> Memory] /\ cmd[p] \in Memory /\ cmd[p].done \in Seq(Entry)
  BY Zenon DEF Types, Memory
<1>2. /\ pc[p] = "putBack" /\ pc'[p] = "undo" /\ left # <<>>
      /\ left \in Seq(Entry) /\ k \in Packages /\ n \in DOMAIN left
      /\ UNCHANGED <<manifest, lockfile, record>>
      /\ cmd'[p].left = Front(left) /\ cmd'[p].of = cmd[p].of
      /\ cmd'[p].before = cmd[p].before /\ cmd'[p].done = cmd[p].done /\ cmd'[p].todo = cmd[p].todo
      /\ \A j \in Packages : j # k => libs'[j] = libs[j]
  BY PutBackIs
<1>3. Was(p)' = Was(p)
  BY <1>2 DEF Was
<1>6. ASSUME NEW r \in Commands, cmd[p].of = r
      PROVE  /\ staging[r] # None =>
                    /\ staging'[r] # None /\ staging'[r].done = staging[r].done
                    /\ staging'[r].state = staging[r].state
                    /\ \A j \in Packages : j # k => staging'[r].old[j] = staging[r].old[j]
             /\ \/ /\ left[n].old /\ staging[r] # None /\ staging[r].old[k] # None
                   /\ libs'[k] = staging[r].old[k] /\ staging'[r].old[k] = None
                \/ /\ ~(left[n].old /\ staging[r] # None /\ staging[r].old[k] # None)
                   /\ UNCHANGED <<libs, staging>>
  BY <1>6, PutBackIs, Zenon
<1> USE DEF Planned, Undoing, Moving, Between
<1>4. CASE cmd[p].of # p
  BY <1>2, <1>4 DEF Own, Journalled
<1>5. CASE cmd[p].of = p
  <2>1. /\ cmd[p].before = <<manifest, lockfile, record, Was(p)>>
        /\ staging[p] # None
        /\ \A j \in Packages : staging[p].old[j] \in {None, Was(p)[j]}
        /\ IsPrefixOf(left, cmd[p].done) /\ Tells(p, left) /\ libs[k] = None
    BY <1>2, <1>5 DEF Own
  <2>2. /\ staging'[p] # None /\ staging'[p].done = staging[p].done
        /\ staging'[p].state = staging[p].state
        /\ \A j \in Packages : j # k => staging'[p].old[j] = staging[p].old[j]
    BY <1>5, <1>6, <2>1
  <2>3. libs'[k] = Was(p)[k] /\ staging'[p].old[k] \in {None, Was(p)[k]}
    <3>1. /\ left[n].old <=> Was(p)[k] # None
          /\ left[n].old => staging[p].old[k] = Was(p)[k]
      BY <1>2, <2>1 DEF Tells
    <3>2. CASE /\ left[n].old /\ staging[p].old[k] # None
               /\ libs'[k] = staging[p].old[k] /\ staging'[p].old[k] = None
      BY <3>1, <3>2
    <3>3. CASE /\ ~(left[n].old /\ staging[p].old[k] # None)
               /\ UNCHANGED <<libs, staging>>
      BY <1>2, <2>1, <3>1, <3>3
    <3> QED
      BY <1>5, <1>6, <2>1, <3>2, <3>3, Zenon
  <2>4. \A j \in Packages : staging'[p].old[j] \in {None, Was(p)[j]}
    BY <2>1, <2>2, <2>3
  <2>5. IsPrefixOf(Front(left), cmd[p].done) /\ Distinct(left)
    BY <1>1, <1>2, <2>1, PrefixIs DEF Log
  <2>6. /\ DOMAIN Front(left) = 1 .. n - 1 /\ n \in Nat /\ DOMAIN left = 1 .. n
        /\ \A i \in DOMAIN Front(left) : Front(left)[i] = left[i]
        /\ \A i \in DOMAIN left : left[i].pkg \in Packages
    BY <1>2, FrontIs, LogIs DEF Entry
  <2> HIDE DEF n
  <2>7. \A i \in 1 .. n - 1 : i \in DOMAIN left /\ i # n
    BY <2>6
  <2>8. \A i \in DOMAIN left : i # n => i \in 1 .. n - 1
    BY <2>6
  <2>9. \A i \in 1 .. n - 1 : left[i].pkg # k /\ left[i].pkg \in Packages
    BY <1>2, <2>5, <2>6, <2>7 DEF Distinct
  <2>10. Tells(p, cmd[p].left)'
    <3>1. ASSUME NEW j \in Packages, \A i \in 1 .. n - 1 : left[i].pkg # j
          PROVE  libs'[j] = Was(p)[j]
      <4>1. CASE j = k
        BY <2>3, <4>1
      <4>2. CASE j # k
        <5>1. \A i \in DOMAIN left : left[i].pkg # j
          BY <2>8, <3>1, <4>2
        <5> QED
          BY <1>2, <2>1, <4>2, <5>1 DEF Tells
      <4> QED
        BY <4>1, <4>2
    <3>2. ASSUME NEW i \in 1 .. n - 1
          PROVE  /\ left[i].old <=> Was(p)[left[i].pkg] # None
                 /\ left[i].old => staging'[p].old[left[i].pkg] = Was(p)[left[i].pkg]
                 /\ ~left[i].new => libs'[left[i].pkg] = None
      <4>1. i \in DOMAIN left
        BY <2>7
      <4>2. /\ left[i].old <=> Was(p)[left[i].pkg] # None
            /\ left[i].old => staging[p].old[left[i].pkg] = Was(p)[left[i].pkg]
            /\ ~left[i].new => libs[left[i].pkg] = None
        BY <2>1, <4>1 DEF Tells
      <4>3. /\ staging'[p].old[left[i].pkg] = staging[p].old[left[i].pkg]
            /\ libs'[left[i].pkg] = libs[left[i].pkg]
        BY <1>2, <2>2, <2>9
      <4> QED
        BY <4>2, <4>3
    <3>3. DOMAIN cmd'[p].left = 1 .. n - 1 /\ \A i \in 1 .. n - 1 : cmd'[p].left[i] = left[i]
      BY <1>2, <2>6
    <3> HIDE DEF left
    <3> QED
      BY <1>3, <3>1, <3>2, <3>3 DEF Tells
  <2>11. IsPrefixOf(cmd[p].left, cmd[p].done)'
    BY <1>2, <2>5 DEF IsPrefixOf
  <2>12. cmd[p].todo # {} => staging[p].done = cmd[p].done /\ staging[p].state = "swapping"
    BY <1>2, <1>5 DEF Journalled
  <2> QED
    BY <1>2, <1>3, <1>5, <2>1, <2>2, <2>4, <2>10, <2>11, <2>12 DEF Own, Journalled
<1> QED
  BY <1>4, <1>5

\* The end of a transaction, undone or not.
LEMMA OwnEnds ==
    ASSUME Types, NEW p \in Commands, Places(p), Own(p), Journalled(p),
           \/ RolledBack(p) \/ SaveRecord(p) \/ SaveLock(p) \/ SaveManifest(p)
           \/ Finish(p) \/ FinishFails(p)
    PROVE  Own(p)' /\ Journalled(p)'
<1>1. /\ pc \in [Commands -> {"start"} \cup LockPlaces \cup WorkPlaces \cup Ended]
      /\ cmd \in [Commands -> Memory] /\ cmd[p] \in Memory
      /\ staging \in [Commands -> Root \cup {None}]
  BY DEF Types
<1> USE DEF Planned, Undoing, Moving, Between
<1>2. CASE RolledBack(p)
  <2>1. /\ pc[p] = "rolledBack" /\ UNCHANGED <<manifest, lockfile, record, libs>> /\ cmd' = cmd
        /\ pc'[p] \in {"finish", "release"} /\ Journal(p, "rolled-back", <<>>)
    BY <1>1, <1>2 DEF RolledBack, Goto
  <2>2. staging'[p].state = "rolled-back"
    BY <2>1, JournalIs, EmptySeq, PlacesAre
  <2>3. Was(p)' = Was(p)
    BY <2>1 DEF Was
  <2> QED
    BY <2>1, <2>2, <2>3 DEF Own, Journalled
<1>3. CASE SaveRecord(p) \/ SaveLock(p) \/ SaveManifest(p)
  <2>1. /\ pc[p] \in {"record", "lock", "manifest"} /\ pc'[p] \in {"lock", "manifest", "finish"}
        /\ staging' = staging /\ cmd' = cmd
    BY <1>1, <1>3 DEF SaveRecord, SaveLock, SaveManifest, Goto
  <2>2. ~cmd[p].failed /\ (staging[p] # None => staging[p].state # "swapping")
    BY <2>1 DEF Places, Journalled
  <2> QED
    BY <2>1, <2>2 DEF Own, Journalled
<1>4. CASE Finish(p)
  <2>1. /\ pc[p] = "finish" /\ UNCHANGED <<manifest, lockfile, record, libs>> /\ cmd' = cmd
        /\ pc'[p] = "release" /\ staging'[p] = None
    BY <1>1, <1>4 DEF Finish, Goto
  <2>2. Was(p)' = Was(p)
    BY <2>1 DEF Was
  <2> QED
    BY <2>1, <2>2 DEF Own, Journalled
<1>5. CASE FinishFails(p)
  <2>1. /\ pc[p] = "finish" /\ UNCHANGED <<manifest, lockfile, record, libs, staging>>
        /\ cmd' = cmd /\ pc'[p] = "release"
    BY <1>1, <1>5 DEF FinishFails, Goto, disk
  <2>2. Was(p)' = Was(p)
    BY <2>1 DEF Was
  <2> QED
    BY <2>1, <2>2 DEF Own, Journalled
<1> QED
  BY <1>2, <1>3, <1>4, <1>5
\* What a killed command left is undone by the journal it left.
LEMMA OthersOwn ==
    ASSUME Types, NEW p \in Commands, Places(p), Others(p), Step(p) \/ Kill(p)
    PROVE  Others(p)'
<1>1. /\ pc \in [Commands -> {"start"} \cup LockPlaces \cup WorkPlaces \cup Ended]
      /\ cmd \in [Commands -> Memory] /\ cmd[p] \in Memory /\ cmd[p].left \in Seq(Entry)
      /\ staging \in [Commands -> Root \cup {None}]
  BY DEF Types, Memory
<1>2. CASE pc'[p] \notin {"undo", "putBack"} \/ cmd'[p].of = p
  BY <1>2 DEF Others, Mending
<1>3. CASE Sweep(p)
  <2>1. UNCHANGED disk
    BY <1>3, SweepIs
  <2>2. CASE cmd[p].visit = {} /\ Goto(p, "plan") /\ cmd' = cmd
    BY <1>1, <1>2, <2>2 DEF Goto
  <2>3. ASSUME NEW r \in Commands, cmd'[p].of = r,
               Goto(p, IF staging[r] # None /\ staging[r].state = "swapping" THEN "undo" ELSE "clear"),
               cmd'[p].left = IF staging[r] # None /\ staging[r].state = "swapping"
                              THEN staging[r].done ELSE <<>>
        PROVE  Others(p)'
    <3>1. CASE staging[r] # None /\ staging[r].state = "swapping"
      <4>1. cmd'[p].left = staging'[r].done /\ staging' = staging
        BY <2>1, <2>3, <3>1 DEF disk
      <4>2. Len(staging[r].done) \in Nat
        BY <1>1, <3>1, LogIs, RootWith
      <4> QED
        BY <2>3, <3>1, <4>1, <4>2 DEF Others, IsPrefixOf
    <3>2. CASE ~(staging[r] # None /\ staging[r].state = "swapping")
      BY <1>1, <1>2, <2>3, <3>2 DEF Goto
    <3> QED
      BY <3>1, <3>2
  <2>4. cmd[p].visit \subseteq Commands
    BY <1>1 DEF Memory
  <2> QED
    BY <1>3, <2>2, <2>3, <2>4, SweepIs
<1>4. CASE Undo(p)
  <2>1. pc[p] = "undo" /\ cmd' = cmd /\ staging' = staging
    BY <1>4 DEF Undo
  <2> QED
    BY <2>1 DEF Others, Mending, IsPrefixOf
<1>5. CASE PutBack(p)
  <2>1. ASSUME NEW r \in Commands, cmd[p].of = r, r # p
        PROVE  Others(p)'
    <3>1. /\ pc[p] = "putBack" /\ cmd[p].left # <<>>
          /\ cmd'[p].left = Front(cmd[p].left) /\ cmd'[p].of = r
          /\ staging[r] # None =>
                staging'[r] # None /\ staging'[r].done = staging[r].done
                /\ staging'[r].state = staging[r].state
      BY <1>5, <2>1, PutBackIs
    <3>2. /\ staging[r] # None /\ staging[r].state = "swapping"
          /\ IsPrefixOf(cmd[p].left, staging[r].done)
      BY <2>1, <3>1 DEF Others, Mending
    <3>3. staging[r].done \in Seq(Entry)
      BY <1>1, <3>2, RootWith
    <3>4. IsPrefixOf(Front(cmd[p].left), staging[r].done)
      BY <1>1, <3>1, <3>2, <3>3, PrefixIs, Zenon
    <3> QED
      BY <3>1, <3>2, <3>4, Zenon DEF Others, IsPrefixOf
  <2>2. cmd'[p].of = cmd[p].of /\ cmd[p].of \in Commands
    BY <1>5, PutBackIs
  <2> QED
    BY <1>2, <2>1, <2>2
<1>6. CASE MoveFails(p)
  BY <1>2, <1>6, FailIs DEF MoveFails
<1>7. CASE Hooks(p)
  <2>1. Goto(p, "record") \/ Fail(p, "undo")
    BY <1>7 DEF Hooks
  <2>2. CASE Goto(p, "record")
    BY <1>1, <1>2, <2>2 DEF Goto
  <2> QED
    BY <1>2, <2>1, <2>2, FailIs
<1>8. CASE ~(Sweep(p) \/ Undo(p) \/ PutBack(p) \/ MoveFails(p) \/ Hooks(p))
  <2>1. CASE Open(p) \/ Acquire(p) \/ LetGo(p) \/ Kill(p) \/ Raises(p)
    <3>1. CASE Open(p)
      BY <1>1, <1>2, <3>1, OpenIs DEF Goto
    <3>2. CASE Acquire(p)
      BY <1>1, <1>2, <3>2 DEF Acquire, Wait, Try, Exists, Read, Judge, Break, Write, Goto
    <3>3. CASE LetGo(p) \/ Kill(p) \/ Raises(p)
      BY <1>1, <1>2, <3>3, RaisesIs DEF LetGo, Release, Kill, Goto
    <3> QED
      BY <2>1, <3>1, <3>2, <3>3
  <2>2. CASE Recover(p) \/ Clear(p) \/ GivesUp(p) \/ Plan(p) \/ Stage(p) \/ StageFails(p)
             \/ Begin(p) \/ Clean(p)
    <3>1. CASE Plan(p)
      BY <1>2, <3>1, PlanIs
    <3>2. CASE StageFails(p)
      BY <1>1, <1>2, <3>2, FailIs DEF StageFails, Goto
    <3>3. CASE Recover(p) \/ Clear(p) \/ Stage(p) \/ Begin(p) \/ Clean(p)
      BY <1>1, <1>2, <3>3 DEF Recover, Clear, Stage, Begin, Clean, Goto
    <3>4. CASE GivesUp(p)
      BY <1>2, <3>4, GivesUpIs
    <3> QED
      BY <2>2, <3>1, <3>2, <3>3, <3>4
  <2>3. CASE MoveOut(p) \/ NoteOut(p) \/ MoveIn(p) \/ NoteIn(p)
    BY <1>1, <1>2, <2>3 DEF MoveOut, NoteOut, MoveIn, NoteIn, Goto
  <2>4. CASE Commit(p) \/ RolledBack(p) \/ SaveRecord(p) \/ SaveLock(p) \/ SaveManifest(p)
             \/ Finish(p) \/ FinishFails(p)
    BY <1>1, <1>2, <2>4 DEF Commit, RolledBack, SaveRecord, SaveLock, SaveManifest, Finish,
      FinishFails, Goto
  <2> QED
    BY <1>8, <2>1, <2>2, <2>3, <2>4 DEF Step
<1> QED
  BY <1>3, <1>4, <1>5, <1>6, <1>7, <1>8

\* A command keeps to its own transaction.
LEMMA OwnKept ==
    ASSUME Types, NEW p \in Commands, Places(p), Log(p), Own(p), Journalled(p), Step(p) \/ Kill(p)
    PROVE  Own(p)' /\ Journalled(p)'
<1>1. CASE \/ Open(p) \/ Acquire(p) \/ LetGo(p) \/ Kill(p) \/ Raises(p)
           \/ Recover(p) \/ Sweep(p) \/ Clear(p) \/ GivesUp(p) \/ Clean(p)
  BY <1>1, OwnNone
<1>2. CASE Plan(p) \/ Stage(p) \/ StageFails(p) \/ Begin(p)
  BY <1>2, OwnPlanned
<1>3. CASE MoveOut(p) \/ MoveIn(p)
  BY <1>3, OwnMoveOut, OwnMoveIn
<1>4. CASE NoteOut(p) \/ NoteIn(p) \/ Commit(p)
  BY <1>4, OwnNotes
<1>5. CASE MoveFails(p) \/ Hooks(p)
  BY <1>5, OwnFails
<1>6. CASE Undo(p) \/ PutBack(p)
  BY <1>6, OwnUndo, OwnPutBack
<1>7. CASE \/ RolledBack(p) \/ SaveRecord(p) \/ SaveLock(p) \/ SaveManifest(p)
           \/ Finish(p) \/ FinishFails(p)
  BY <1>7, OwnEnds
<1> QED
  BY <1>1, <1>2, <1>3, <1>4, <1>5, <1>6, <1>7 DEF Step

\* A command that starts, waits for the lock, lets go of it after an uncaught failure
\* or is killed there touches nothing.
LEMMA Waits ==
    ASSUME Types, NEW p \in Commands, Step(p) \/ Kill(p), ~InHand(p)
    PROVE  /\ Open(p) \/ Acquire(p) \/ LetGo(p) \/ Kill(p)
           /\ UNCHANGED disk /\ theirs' = theirs
<1>1. Open(p) \/ Acquire(p) \/ LetGo(p) \/ Kill(p)
  <2> USE DEF InHand, Working, WorkPlaces
  <2>1. ~Recover(p) /\ ~Sweep(p) /\ ~Undo(p) /\ ~PutBack(p) /\ ~Clear(p) /\ ~GivesUp(p)
    BY Zenon DEF Recover, Sweep, Undo, PutBack, Clear, GivesUp
  <2>2. ~Plan(p) /\ ~Stage(p) /\ ~StageFails(p) /\ ~Begin(p) /\ ~Clean(p)
    BY DEF Plan, Stage, StageFails, Begin, Clean
  <2>3. ~MoveOut(p) /\ ~NoteOut(p) /\ ~MoveIn(p) /\ ~NoteIn(p) /\ ~MoveFails(p)
    BY DEF MoveOut, NoteOut, MoveIn, NoteIn, MoveFails
  <2>4. ~Commit(p) /\ ~Hooks(p) /\ ~RolledBack(p)
    BY DEF Commit, Hooks, RolledBack
  <2>5. ~SaveRecord(p) /\ ~SaveLock(p) /\ ~SaveManifest(p) /\ ~Finish(p) /\ ~FinishFails(p)
    BY DEF SaveRecord, SaveLock, SaveManifest, Finish, FinishFails
  <2>6. ~Raises(p)
    BY RaisesIs
  <2> QED
    BY <2>1, <2>2, <2>3, <2>4, <2>5, <2>6 DEF Step
<1> QED
  BY <1>1 DEF Open, Acquire, LetGo, Kill, bounds
\* When a command steps, another that is at work finds everything as it was.
LEMMA Bystander ==
    ASSUME Types, Alone, NEW p \in Commands, Step(p) \/ Kill(p), NEW q \in Commands, q # p,
           Working(q), Found(q), Own(q), Journalled(q), Others(q)
    PROVE  /\ UNCHANGED disk /\ theirs' = theirs /\ pc'[q] = pc[q] /\ cmd'[q] = cmd[q]
           /\ Found(q)' /\ Own(q)' /\ Journalled(q)' /\ Others(q)'
<1>1. UNCHANGED disk /\ theirs' = theirs
  BY Waits DEF Alone, InHand
<1>2. pc'[q] = pc[q] /\ cmd'[q] = cmd[q]
  BY Goes, Remembers
<1>3. /\ InHand(q)' = InHand(q) /\ Mending(q)' = Mending(q) /\ Undoing(q)' = Undoing(q)
      /\ Planned(q)' = Planned(q) /\ Was(q)' = Was(q)
  BY <1>2 DEF InHand, Working, Mending, Undoing, Planned, Was
<1>4. Found(q)'
  BY <1>1, <1>2, <1>3 DEF Found, disk
<1>5. Tells(q, cmd[q].done)' = Tells(q, cmd[q].done) /\ Tells(q, cmd[q].left)' = Tells(q, cmd[q].left)
  BY <1>1, <1>2, <1>3 DEF Tells, disk
<1>6. Own(q)'
  BY <1>1, <1>2, <1>3, <1>5 DEF Own, IsPrefixOf, disk
<1>7. Journalled(q)'
  BY <1>1, <1>2, <1>3 DEF Journalled, disk
<1>8. Others(q)'
  BY <1>1, <1>2, <1>3 DEF Others, IsPrefixOf, disk
<1> QED
  BY <1>1, <1>2, <1>4, <1>6, <1>7, <1>8

\* At the start nobody is at work.
LEMMA SoloInit == Init => SoloInv
<1> SUFFICES ASSUME Init PROVE SoloInv
  OBVIOUS
<1>1. \A p \in Commands : ~Working(p) /\ staging[p] = None
  BY DEF Init, LockInit, Working, WorkPlaces
<1>2. Alone /\ OneLeft
  BY <1>1 DEF Alone, OneLeft
<1> QED
  BY <1>1, <1>2, Idle DEF SoloInv, InHand

\* As long as no two are at work at once, every command finds its own transaction
\* as it left it.
LEMMA SoloNext == SoundInv /\ SoloInv /\ [Next]_vars => SoloInv'
<1> SUFFICES ASSUME SoundInv, SoloInv, [Next]_vars, ~overlap' PROVE
        /\ Alone' /\ OneLeft'
        /\ \A q \in Commands : Found(q)' /\ Own(q)' /\ Journalled(q)' /\ Others(q)'
  BY DEF SoloInv
<1>1. CASE UNCHANGED vars
  <2>1. /\ ~overlap
        /\ UNCHANGED <<pc, cmd, staging, libs, record, manifest, lockfile>>
    BY <1>1 DEF vars, lockVars, disk, bounds
  <2>2. Alone' /\ OneLeft'
    BY <2>1 DEF SoloInv, Alone, OneLeft, Working
  <2>3. SUFFICES ASSUME NEW q \in Commands
                 PROVE  Found(q)' /\ Own(q)' /\ Journalled(q)' /\ Others(q)'
    BY <2>2
  <2>4. Found(q) /\ Own(q) /\ Journalled(q) /\ Others(q)
    BY <2>1 DEF SoloInv
  <2>5. Found(q)' /\ Journalled(q)' /\ Others(q)'
    BY <2>1, <2>4 DEF Found, InHand, Working, Mending, Journalled, Undoing, Others, IsPrefixOf
  <2>6. Own(q)'
    BY <2>1, <2>4, Zenon DEF Own, Planned, Undoing, Was, Tells, IsPrefixOf
  <2> QED
    BY <2>5, <2>6
<1>2. CASE Next
  <2>1. PICK p \in Commands : Step(p) \/ Kill(p)
    BY <1>2 DEF Next
  <2>2. overlap' = (overlap \/ Overlaps')
    BY <1>2 DEF Next
  <2>3. Types /\ Places(p) /\ Log(p)
    BY DEF SoundInv
  <2>4. ~overlap
    BY <2>2
  <2>5. Alone /\ OneLeft /\ \A q \in Commands : Found(q) /\ Own(q) /\ Journalled(q) /\ Others(q)
    BY <2>4 DEF SoloInv
  <2>6. Alone'
    BY <2>2 DEF Alone, Overlaps
  <2>7. OneLeft'
    BY <2>1, <2>3, <2>5, OneLeftKept
  <2>8. Found(p)' /\ Own(p)' /\ Journalled(p)' /\ Others(p)'
    BY <2>1, <2>3, <2>5, FoundOwn, OwnKept, OthersOwn
  <2>9. ASSUME NEW q \in Commands, q # p
        PROVE  Found(q)' /\ Own(q)' /\ Journalled(q)' /\ Others(q)'
    <3>1. CASE Working(q)
      BY <2>1, <2>3, <2>5, <2>9, <3>1, Bystander
    <3>2. CASE ~Working(q)
      <4>1. ~Working(q)'
        BY <2>1, <2>3, <2>9, <3>2, Goes DEF Working
      <4> QED
        BY <4>1 DEF InHand, Working, WorkPlaces, Found, Own, Journalled, Others, Planned, Undoing,
          Mending, Moving, Between
    <3> QED
      BY <3>1, <3>2
  <2> QED
    BY <2>6, <2>7, <2>8, <2>9
<1> QED
  BY <1>1, <1>2

\* Every reachable state is like that.
LEMMA SoloHolds == Spec => [](SoundInv /\ SoloInv)
BY SoundHolds, SoloInit, SoloNext, PTL DEF Spec

\* "A failure anywhere, a script included, leaves the installed packages as they
\* were", and the record, the lockfile and the manifest too, of the failures that
\* apply() catches and of refused plans: whatever rename, download or hook fails and
\* wherever in its list of moves, a command that lets go of the lock ("release")
\* having failed leaves everything as it was when it made its plan.  Two escapes:
\* commands that were at work at once (overlap), and a failure that nothing catches,
\* in saving the files or in the undoing itself, which leaves by "raise".
THEOREM FailureUndone == Spec => []FailureChangesNothing
<1>1. SoundInv /\ SoloInv => FailureChangesNothing
  <2> SUFFICES ASSUME SoundInv, SoloInv, NEW p \in Commands,
                      pc[p] = "release", cmd[p].failed, ~overlap
               PROVE  cmd[p].before = <<manifest, lockfile, record, libs>>
    BY DEF FailureChangesNothing
  <2>1. Own(p)
    BY DEF SoloInv
  <2> QED
    BY <2>1 DEF Own, Planned
<1> QED
  BY <1>1, SoloHolds, PTL
-----------------------------------------------------------------------------
(* Putting right what killed commands left *)

\* What others put there stays theirs.
LEMMA TheirsStay ==
    ASSUME NEW p \in Commands, Step(p) \/ Kill(p)
    PROVE  theirs' = theirs /\ Zuris' = Zuris
<1>1. theirs' = theirs
  BY Zenon DEF Step, Kill, Raises, GivesUp, Open, Acquire, LetGo, Recover, Sweep, Undo, PutBack,
    Clear, Plan, Stage, StageFails, Begin, MoveOut, NoteOut, MoveIn, NoteIn, MoveFails, Commit,
    Hooks, RolledBack,
    SaveRecord, SaveLock, SaveManifest, Finish, FinishFails, Clean, Fault, bounds
<1> QED
  BY <1>1 DEF Zuris

\* A command with a plan to save has just made it, or had it before.
LEMMA StaysPlanned ==
    ASSUME Types, NEW p \in Commands, Places(p), Step(p) \/ Kill(p), Planned(p)'
    PROVE  Plan(p) \/ (Planned(p) /\ Step(p) /\ ~Open(p) /\ ~LetGo(p) /\ ~Raises(p))
<1> USE DEF Planned, Undoing, Moving, Between
<1>1. /\ pc \in [Commands -> {"start"} \cup LockPlaces \cup WorkPlaces \cup Ended]
      /\ cmd \in [Commands -> Memory]
  BY DEF Types
<1>2. CASE Open(p) \/ Acquire(p) \/ LetGo(p) \/ Kill(p) \/ Raises(p)
  <2>1. pc'[p] \notin {"stage", "begin", "hooks", "rolledBack", "undo", "putBack", "finish", "release"}
                      \cup Moving
    <3>1. CASE Open(p)
      BY <3>1, OpenIs, <1>1 DEF Goto
    <3>2. CASE Acquire(p)
      BY <3>2, <1>1 DEF Acquire, Wait, Try, Exists, Read, Judge, Break, Write, Goto
    <3>3. CASE LetGo(p) \/ Kill(p) \/ Raises(p)
      BY <3>3, <1>1, RaisesIs DEF LetGo, Release, Kill, Goto
    <3> QED
      BY <1>2, <3>1, <3>2, <3>3
  <2> QED
    BY <2>1
<1>11. ~Raises(p)
  <2>1. Raises(p) => pc'[p] \in {"failed", "raise"}
    BY RaisesIs
  <2> QED
    BY <2>1
<1>3. CASE Recover(p) \/ Sweep(p) \/ Clear(p) \/ GivesUp(p)
  <2>1. pc'[p] \in {"sweep", "plan", "clear"} \/ (Sweep(p) /\ pc'[p] = "undo" /\ cmd'[p].of # p)
    <3>1. CASE Recover(p) \/ Clear(p)
      BY <3>1, <1>1 DEF Recover, Clear, Goto
    <3>2. CASE Sweep(p)
      <4>1. p \notin cmd[p].visit
        BY <3>2, Zenon DEF Sweep, Places, Mending
      <4> QED
        BY <3>2, <4>1, <1>1, SweepIs DEF Goto
    <3>3. CASE GivesUp(p)
      BY <3>3, GivesUpIs
    <3> QED
      BY <1>3, <3>1, <3>2, <3>3
  <2> QED
    BY <2>1
<1>4. CASE Undo(p)
  <2>1. /\ pc[p] = "undo" /\ cmd' = cmd
        /\ pc'[p] = "putBack" \/ pc'[p] = IF cmd[p].of = p THEN "rolledBack" ELSE "clear"
    BY <1>1, <1>4 DEF Undo, Goto
  <2>2. ~Open(p) /\ ~LetGo(p) /\ ~Raises(p)
    BY <1>11, <2>1 DEF Open, LetGo, Release
  <2> QED
    BY <1>4, <2>1, <2>2 DEF Step
<1>5. CASE PutBack(p)
  <2>1. pc[p] = "putBack" /\ cmd'[p].of = cmd[p].of /\ pc'[p] = "undo"
    BY <1>5, PutBackIs, Zenon
  <2>2. ~Open(p) /\ ~LetGo(p) /\ ~Raises(p)
    BY <1>11, <2>1 DEF Open, LetGo, Release
  <2> QED
    BY <1>5, <2>1, <2>2 DEF Step
<1>6. CASE Clean(p)
  <2>1. pc'[p] \in {"clean", "release"} /\ cmd'[p].failed = cmd[p].failed /\ pc[p] = "clean"
    BY <1>1, <1>6 DEF Clean, Goto
  <2>2. ~cmd[p].failed
    BY <2>1 DEF Places, Without
  <2> QED
    BY <2>1, <2>2
<1>7. CASE Stage(p) \/ StageFails(p) \/ Begin(p)
  <2>1. pc[p] \in {"stage", "begin"}
    BY <1>7 DEF Stage, StageFails, Begin
  <2>2. ~Open(p) /\ ~LetGo(p) /\ ~Raises(p)
    BY <1>11, <2>1 DEF Open, LetGo, Release
  <2> QED
    BY <1>7, <2>1, <2>2 DEF Step
<1>8. CASE MoveOut(p) \/ NoteOut(p) \/ MoveIn(p) \/ NoteIn(p) \/ MoveFails(p) \/ Commit(p) \/ Hooks(p)
           \/ RolledBack(p)
  <2>1. pc[p] \in {"hooks", "rolledBack"} \cup Moving
    BY <1>8 DEF MoveOut, NoteOut, MoveIn, NoteIn, MoveFails, Commit, Hooks, RolledBack
  <2>2. ~Open(p) /\ ~LetGo(p) /\ ~Raises(p)
    BY <1>11, <2>1 DEF Open, LetGo, Release
  <2> QED
    BY <1>8, <2>1, <2>2 DEF Step
<1>9. CASE SaveRecord(p) \/ SaveLock(p) \/ SaveManifest(p)
  <2>1. /\ pc[p] \in {"record", "lock", "manifest"} /\ pc'[p] \in {"lock", "manifest", "finish"}
        /\ cmd' = cmd
    BY <1>1, <1>9 DEF SaveRecord, SaveLock, SaveManifest, Goto
  <2>2. ~cmd[p].failed
    BY <2>1 DEF Places
  <2> QED
    BY <2>1, <2>2
<1>10. CASE Finish(p) \/ FinishFails(p)
  <2>1. pc[p] = "finish" /\ pc'[p] = "release" /\ cmd' = cmd
    BY <1>1, <1>10 DEF Finish, FinishFails, Goto
  <2>2. ~Open(p) /\ ~LetGo(p) /\ ~Raises(p)
    BY <1>11, <2>1 DEF Open, LetGo, Release
  <2> QED
    BY <1>10, <2>1, <2>2 DEF Step
<1> QED
  BY <1>2, <1>3, <1>4, <1>5, <1>6, <1>7, <1>8, <1>9, <1>10 DEF Step

\* When a command makes its plan every package is at the version the record says, or
\* missing; and until it saves the record that is what it has to go back to.
LEMMA WasFine ==
    ASSUME Types, NEW p \in Commands, Places(p), Log(p), Own(p), Own(p)', Mended(p), Makes(p),
           Step(p) \/ Kill(p), Planned(p)', NEW k \in Zuris
    PROVE  Was(p)'[k] \in {None, record'[k]}
<1>1. CASE Plan(p)
  <2>1. pc[p] = "plan" /\ UNCHANGED disk
    BY <1>1 DEF Plan
  <2>2. ~cmd[p].dry
    <3>1. cmd[p].dry => pc'[p] \in {"failed", "done"}
      BY <1>1, PlanIs
    <3>2. pc'[p] \notin {"failed", "done"}
      BY DEF Planned, Undoing, Moving, Between
    <3> QED
      BY <3>1, <3>2
  <2>3. cmd'[p].before = <<manifest, lockfile, record, libs>>
    BY <1>1, <2>2, PlanIs
  <2>4. Fine(k)
    BY <2>1 DEF Mended, AllFine
  <2> QED
    BY <2>1, <2>3, <2>4 DEF Was, Fine, disk
<1>2. CASE Planned(p) /\ Step(p) /\ ~Open(p) /\ ~LetGo(p) /\ ~Raises(p) /\ ~Plan(p)
  <2>1. cmd'[p].before = cmd[p].before
    BY <1>2, Recalls
  <2>2. /\ cmd[p].before = <<manifest, lockfile, record, Was(p)>>
        /\ cmd'[p].before = <<manifest', lockfile', record', Was(p)'>>
    BY <1>2 DEF Own
  <2>3. record' = record /\ Was(p)' = Was(p)
    BY <2>1, <2>2
  <2>4. Was(p)[k] \in {None, record[k]}
    BY <1>2 DEF Makes, GoesBack
  <2> QED
    BY <2>3, <2>4
<1> QED
  BY <1>1, <1>2, StaysPlanned
\* A plan leaves out only packages that are as it wants them, or missing for good.
LEMMA MakesPlan ==
    ASSUME Types, NEW p \in Commands, Mended(p), Plan(p)
    PROVE  Settles(p)' /\ Stocked(p)' /\ Cleans(p)'
<1> USE DEF Moving, Between
<1>1. /\ pc[p] = "plan" /\ UNCHANGED disk /\ theirs' = theirs
      /\ pc'[p] \in {"failed", "done", "release", "clean", "stage"}
      /\ pc'[p] \in {"clean", "stage"} => cmd'[p].todo = Steps(p) /\ cmd'[p].target = cmd[p].target
      /\ (pc'[p] = "clean" => cmd[p].op = "clean")
      /\ (pc'[p] = "stage" => cmd[p].op # "clean")
  BY PlanIs DEF bounds
<1>2. libs' = libs /\ record' = record /\ Zuris' = Zuris /\ \A k \in Zuris : k \in Packages
  BY <1>1 DEF disk, Zuris
<1>3. \A k \in Zuris : libs[k] \in {None, record[k]}
  BY <1>1 DEF Mended, AllFine, Fine
<1>4. Settles(p)'
  <2>1. SUFFICES ASSUME pc'[p] = "stage", NEW k \in Zuris, k \notin Steps(p)
                 PROVE  libs[k] \in {None, cmd[p].target[k]}
    BY <1>1, <1>2 DEF Settles
  <2>2. k \notin Removals(p) /\ k \notin Changes(p)
    BY <1>1, <2>1 DEF Steps
  <2>3. CASE k \in Wanted(p)
    BY <2>2, <2>3, <1>3, <2>1 DEF Changes
  <2>4. CASE k \notin Wanted(p)
    BY <1>2, <2>2, <2>4, <1>3, <2>1 DEF Removals
  <2> QED
    BY <2>3, <2>4
<1>5. Cleans(p)'
  <2>1. SUFFICES ASSUME pc'[p] = "clean", NEW k \in Zuris, k \notin Steps(p)
                 PROVE  libs[k] = None
    BY <1>1, <1>2 DEF Cleans
  <2>2. record[k] = None
    BY <1>1, <1>2, <2>1 DEF Steps
  <2> QED
    BY <1>3, <2>2
<1>6. Stocked(p)'
  BY <1>1 DEF Stocked
<1> QED
  BY <1>4, <1>5, <1>6

\* What comes is staged.
LEMMA MakesStage ==
    ASSUME Types, NEW p \in Commands, Own(p), Settles(p), Stocked(p),
           Stage(p) \/ StageFails(p) \/ Begin(p)
    PROVE  Settles(p)' /\ Stocked(p)' /\ Cleans(p)'
<1> USE DEF Moving, Between
<1>1. /\ pc \in [Commands -> {"start"} \cup LockPlaces \cup WorkPlaces \cup Ended]
      /\ cmd \in [Commands -> Memory] /\ staging \in [Commands -> Root \cup {None}]
      /\ cmd[p] \in Memory /\ cmd[p].todo \in SUBSET Packages
  BY DEF Types, Memory
<1>2. CASE Stage(p)
  <2>1. /\ pc[p] = "stage" /\ pc'[p] = "begin" /\ UNCHANGED <<libs, cmd, theirs>>
        /\ staging'[p] = [state |-> "staging", done |-> <<>>, dirs |-> TRUE, old |-> Nothing,
             new |-> [k \in Packages |-> IF k \in cmd[p].todo THEN cmd[p].target[k] ELSE None]]
    BY <1>1, <1>2 DEF Stage, Goto, bounds
  <2>2. \A k \in cmd[p].todo : staging'[p].new[k] = cmd[p].target[k]
    BY <1>1, <2>1
  <2>3. Zuris' = Zuris
    BY <2>1 DEF Zuris
  <2> QED
    BY <2>1, <2>2, <2>3 DEF Settles, Stocked, Cleans
<1>3. CASE StageFails(p)
  <2>1. pc'[p] = "release"
    BY <1>1, <1>3 DEF StageFails, Fail, Goto
  <2> QED
    BY <2>1 DEF Settles, Stocked, Cleans
<1>4. CASE Begin(p)
  <2>1. /\ pc[p] = "begin" /\ pc'[p] = "move" /\ UNCHANGED <<libs, cmd, theirs>>
        /\ Journal(p, "swapping", <<>>)
    BY <1>1, <1>4 DEF Begin, Goto, bounds
  <2>2. staging[p] # None
    BY <2>1 DEF Own
  <2>3. staging'[p].new = staging[p].new
    BY <2>1, <2>2, JournalIs, PlacesAre, EmptySeq
  <2>4. Zuris' = Zuris
    BY <2>1 DEF Zuris
  <2> QED
    BY <2>1, <2>3, <2>4 DEF Settles, Stocked, Cleans
<1> QED
  BY <1>2, <1>3, <1>4

\* A package moved out of the way is still to come, or gone.
LEMMA MakesMoveOut ==
    ASSUME Types, NEW p \in Commands, Own(p), Settles(p), Stocked(p), MoveOut(p)
    PROVE  Settles(p)' /\ Stocked(p)' /\ Cleans(p)'
<1> DEFINE k == Turn(p)
<1> USE DEF Moving, Between
<1>1. /\ pc[p] = "move" /\ pc'[p] \in {"move", "noteOut"}
      /\ pc \in [Commands -> {"start"} \cup LockPlaces \cup WorkPlaces \cup Ended]
      /\ libs \in Tree
  BY DEF Types, MoveOut, Goto
<1>2. /\ k \in cmd[p].todo /\ k \in Packages /\ cmd'[p].target = cmd[p].target
      /\ \/ /\ libs[k] = None /\ cmd'[p].todo = cmd[p].todo \ {k}
            /\ UNCHANGED <<libs, staging>>
         \/ /\ cmd'[p].todo = cmd[p].todo /\ libs' = [libs EXCEPT ![k] = None]
            /\ staging' = IF libs[k] # None THEN [staging EXCEPT ![p].old[k] = libs[k]] ELSE staging
  BY MoveOutIs
<1>3. staging'[p].new = staging[p].new
  <2>1. staging[p] # None
    BY <1>1 DEF Own
  <2>2. CASE staging' = staging
    BY <2>2
  <2>3. CASE staging' = [staging EXCEPT ![p].old[k] = libs[k]]
    <3> HIDE DEF k
    <3> QED
      BY <1>2, <2>1, <2>3, PutAway
  <2> QED
    BY <1>2, <2>2, <2>3
<1>4. Zuris' = Zuris
  BY TheirsStay DEF Step
<1>5. \A j \in Zuris : libs'[j] \in {None, libs[j]}
  BY <1>1, <1>2 DEF Tree, Zuris
<1>6. Settles(p)'
  <2>1. SUFFICES ASSUME NEW j \in Zuris, j \notin cmd'[p].todo
                 PROVE  libs'[j] \in {None, cmd[p].target[j]}
    BY <1>2, <1>4 DEF Settles
  <2>2. j \in cmd[p].todo \/ libs[j] \in {None, cmd[p].target[j]}
    BY <1>1 DEF Settles
  <2>3. CASE j = k
    <3> HIDE DEF k
    <3> QED
      BY <1>2, <2>1, <2>3, <1>5
  <2>4. CASE j # k
    <3> HIDE DEF k
    <3> QED
      BY <1>2, <1>5, <2>1, <2>2, <2>4
  <2> QED
    BY <2>3, <2>4
<1>7. Stocked(p)'
  <2>1. \A j \in cmd'[p].todo : j \in cmd[p].todo
    BY <1>2
  <2> QED
    BY <1>1, <1>2, <1>3, <2>1 DEF Stocked
<1> QED
  BY <1>1, <1>6, <1>7 DEF Cleans
\* A staged package moved into its place is the one that was to come.
LEMMA MakesMoveIn ==
    ASSUME Types, NEW p \in Commands, Log(p), Settles(p), Stocked(p), MoveIn(p)
    PROVE  Settles(p)' /\ Stocked(p)' /\ Cleans(p)'
<1> DEFINE k == Turn(p)
<1> USE DEF Moving, Between
<1>1. /\ pc[p] = "moveIn" /\ pc'[p] = "noteIn" /\ libs \in Tree
      /\ cmd[p].done # <<>> /\ cmd[p].todo # {}
      /\ cmd[p].todo \in SUBSET Packages
  BY DEF Types, Memory, MoveIn, Goto, Log
<1>2. /\ k \in cmd[p].todo /\ k \in Packages /\ cmd'[p].target = cmd[p].target
      /\ cmd'[p].todo = cmd[p].todo /\ cmd'[p].op = cmd[p].op
      /\ libs' = [libs EXCEPT ![k] = staging[p].new[k]]
      /\ staging'[p].new = [staging[p].new EXCEPT ![k] = None]
      /\ staging[p] # None
  BY <1>1, MoveInIs
<1>3. Zuris' = Zuris
  BY TheirsStay DEF Step
<1>4. Turn(p)' = k
  BY <1>2, TurnKept
<1>5. \A j \in cmd[p].todo : staging[p].new[j] = cmd[p].target[j]
  BY <1>1 DEF Stocked
<1>6. staging[p].new \in Tree
  BY <1>2, RootWith DEF Types
<1> HIDE DEF k
<1>7. libs'[k] = cmd[p].target[k]
  BY <1>1, <1>2, <1>5 DEF Tree
<1>8. \A j \in cmd[p].todo \ {k} : staging'[p].new[j] = cmd[p].target[j]
  BY <1>1, <1>2, <1>5, <1>6 DEF Tree
<1>9. \A j \in Zuris : j \in cmd[p].todo \/ libs'[j] \in {None, cmd[p].target[j]}
  BY <1>1, <1>2 DEF Settles, Tree, Zuris
<1> QED
  BY <1>1, <1>2, <1>3, <1>4, <1>7, <1>8, <1>9 DEF Settles, Stocked, Cleans

\* What has its note is settled: a package that only had to go is gone, and one that
\* had to come is there.
LEMMA MakesNotes ==
    ASSUME Types, NEW p \in Commands, Log(p), Own(p), Settles(p), Stocked(p), NoteOut(p) \/ NoteIn(p)
    PROVE  Settles(p)' /\ Stocked(p)' /\ Cleans(p)'
<1> DEFINE k == Turn(p)
           n == Len(cmd[p].done)
           ends == pc[p] = "noteIn" \/ cmd[p].target[k] = None
<1> USE DEF Moving, Between
<1>1. /\ pc[p] \in {"noteOut", "noteIn"} /\ staging[p] # None
      /\ pc \in [Commands -> {"start"} \cup LockPlaces \cup WorkPlaces \cup Ended]
      /\ cmd[p].done \in Seq(Entry)
  BY DEF Types, Memory, NoteOut, NoteIn, Own
<1>2. /\ cmd'[p].target = cmd[p].target /\ cmd'[p].op = cmd[p].op /\ libs' = libs
      /\ cmd'[p].todo = IF ends THEN cmd[p].todo \ {k} ELSE cmd[p].todo
      /\ Goto(p, IF ends THEN "move" ELSE "moveIn")
      /\ Journal(p, "swapping", cmd[p].done)
  BY NoteIs
<1>3. pc'[p] = IF ends THEN "move" ELSE "moveIn"
  BY <1>1, <1>2 DEF Goto
<1>4. staging'[p].new = staging[p].new
  BY <1>1, <1>2, JournalIs, PlacesAre
<1>5. Zuris' = Zuris
  BY TheirsStay DEF Step
<1>6. ends => libs[k] \in {None, cmd[p].target[k]}
  <2>1. CASE pc[p] = "noteIn"
    BY <2>1 DEF Stocked
  <2>2. CASE pc[p] = "noteOut"
    <3>1. /\ cmd[p].done # <<>> /\ cmd[p].done[n].pkg = k /\ ~cmd[p].done[n].new
      BY <2>2 DEF Log
    <3>2. n \in DOMAIN cmd[p].done
      BY <1>1, <3>1, LogIs
    <3>3. Tells(p, cmd[p].done)
      BY <2>2 DEF Own
    <3> QED
      BY <3>1, <3>2, <3>3 DEF Tells
  <2> QED
    BY <1>1, <2>1, <2>2
<1> HIDE DEF k
<1>7. Settles(p)'
  <2>1. \A j \in Zuris : j \in cmd[p].todo \/ libs[j] \in {None, cmd[p].target[j]}
    BY <1>1 DEF Settles
  <2> QED
    BY <1>2, <1>5, <1>6, <2>1 DEF Settles
<1>8. Stocked(p)'
  <2>1. \A j \in cmd'[p].todo : staging[p].new[j] = cmd[p].target[j]
    <3>1. CASE pc[p] = "noteIn"
      BY <1>2, <3>1 DEF Stocked, k
    <3>2. CASE pc[p] = "noteOut"
      BY <1>2, <3>2 DEF Stocked
    <3> QED
      BY <1>1, <3>1, <3>2
  <2> QED
    BY <1>2, <1>3, <1>4, <2>1 DEF Stocked
<1> QED
  BY <1>3, <1>7, <1>8 DEF Cleans

\* Cleaning takes the packages of the record one by one.
LEMMA MakesClean ==
    ASSUME Types, NEW p \in Commands, Cleans(p), Clean(p)
    PROVE  Settles(p)' /\ Stocked(p)' /\ Cleans(p)'
<1> USE DEF Moving, Between
<1>1. /\ pc \in [Commands -> {"start"} \cup LockPlaces \cup WorkPlaces \cup Ended]
      /\ cmd \in [Commands -> Memory] /\ libs \in Tree /\ pc[p] = "clean"
      /\ cmd[p] \in Memory /\ cmd[p].todo \in SUBSET Packages
  BY DEF Types, Memory, Clean
<1>2. Zuris' = Zuris
  BY TheirsStay DEF Step
<1>3. CASE cmd[p].todo = {}
  <2>1. pc'[p] = "release"
    BY <1>1, <1>3 DEF Clean, Goto
  <2> QED
    BY <2>1 DEF Settles, Stocked, Cleans
<1>4. CASE cmd[p].todo # {}
  <2>1. /\ libs' = [libs EXCEPT ![Turn(p)] = None] /\ pc' = pc
        /\ cmd'[p].todo = cmd[p].todo \ {Turn(p)}
    <3>1. /\ libs' = [libs EXCEPT ![Turn(p)] = None] /\ pc' = pc
          /\ cmd' = [cmd EXCEPT ![p].todo = cmd[p].todo \ {Turn(p)}]
      BY <1>1, <1>4 DEF Clean
    <3>2. cmd'[p].todo = cmd[p].todo \ {Turn(p)}
      BY <1>1, <3>1 DEF Memory
    <3> QED
      BY <3>1, <3>2
  <2>2. Turn(p) \in Packages
    BY <1>1, <1>4, TurnIn
  <2>3. \A k \in Zuris : k \in cmd[p].todo \/ libs[k] = None
    BY <1>1 DEF Cleans
  <2>4. \A k \in Zuris : k \in Packages
    BY DEF Zuris
  <2>5. \A k \in Zuris : k \in cmd'[p].todo \/ libs'[k] = None
    <3>1. SUFFICES ASSUME NEW k \in Zuris PROVE k \in cmd'[p].todo \/ libs'[k] = None
      OBVIOUS
    <3>2. CASE k = Turn(p)
      BY <1>1, <2>1, <2>2, <3>2 DEF Tree
    <3>3. CASE k # Turn(p)
      <4>1. libs'[k] = libs[k]
        BY <1>1, <2>1, <2>2, <2>4, <3>3 DEF Tree
      <4> QED
        BY <2>1, <2>3, <3>3, <4>1
    <3> QED
      BY <3>2, <3>3
  <2> QED
    BY <1>1, <1>2, <2>1, <2>5 DEF Settles, Stocked, Cleans
<1> QED
  BY <1>3, <1>4

\* Nothing else makes anything of them.
LEMMA MakesRest ==
    ASSUME Types, NEW p \in Commands, Settles(p), Step(p) \/ Kill(p),
           ~(\/ Plan(p) \/ Stage(p) \/ StageFails(p) \/ Begin(p) \/ MoveOut(p) \/ MoveIn(p)
             \/ NoteOut(p) \/ NoteIn(p) \/ Clean(p))
    PROVE  Settles(p)' /\ Stocked(p)' /\ Cleans(p)'
<1> USE DEF Moving, Between
<1>1. /\ pc \in [Commands -> {"start"} \cup LockPlaces \cup WorkPlaces \cup Ended]
      /\ cmd \in [Commands -> Memory]
  BY DEF Types
<1>2. Zuris' = Zuris
  BY TheirsStay
<1>3. CASE Commit(p) \/ Hooks(p)
  <2>1. CASE Commit(p) \/ (Hooks(p) /\ pc'[p] = "record")
    <3>1. /\ pc[p] \in {"move", "hooks"} /\ libs' = libs /\ cmd' = cmd
          /\ pc'[p] \in {"hooks", "record"}
      BY <1>1, <2>1 DEF Commit, Hooks, Goto, Fail, disk
    <3> QED
      BY <1>2, <3>1 DEF Settles, Stocked, Cleans
  <2>2. CASE Hooks(p) /\ pc'[p] # "record"
    <3>1. pc'[p] = "undo"
      BY <1>1, <2>2 DEF Hooks, Goto, Fail
    <3> QED
      BY <3>1 DEF Settles, Stocked, Cleans
  <2> QED
    BY <1>3, <2>1, <2>2
<1>4. CASE ~Commit(p) /\ ~Hooks(p)
  <2>1. pc'[p] \notin {"stage", "begin", "clean", "hooks", "record"} \cup Moving
    <3>1. CASE Open(p)
      BY <3>1, OpenIs, <1>1 DEF Goto
    <3>2. CASE Acquire(p)
      BY <3>2, <1>1 DEF Acquire, Wait, Try, Exists, Read, Judge, Break, Write, Goto
    <3>3. CASE LetGo(p) \/ Kill(p) \/ Raises(p)
      BY <3>3, <1>1, RaisesIs DEF LetGo, Release, Kill, Goto
    <3>4. CASE Recover(p) \/ Sweep(p) \/ Undo(p) \/ PutBack(p) \/ Clear(p) \/ GivesUp(p)
      BY <3>4, <1>1, Zenon DEF Recover, Sweep, Undo, PutBack, Clear, GivesUp, Goto
    <3>5. CASE MoveFails(p) \/ RolledBack(p)
      BY <3>5, <1>1 DEF MoveFails, RolledBack, Fail, Goto
    <3>6. CASE SaveRecord(p) \/ SaveLock(p) \/ SaveManifest(p) \/ Finish(p) \/ FinishFails(p)
      BY <3>6, <1>1 DEF SaveRecord, SaveLock, SaveManifest, Finish, FinishFails, Goto
    <3> QED
      BY <1>4, <3>1, <3>2, <3>3, <3>4, <3>5, <3>6 DEF Step
  <2> QED
    BY <2>1 DEF Settles, Stocked, Cleans
<1> QED
  BY <1>3, <1>4

\* So every step keeps what a command makes of the packages.
LEMMA MakesOwn ==
    ASSUME Types, NEW p \in Commands, Places(p), Log(p), Own(p), Own(p)', Mended(p), Makes(p),
           Step(p) \/ Kill(p)
    PROVE  Makes(p)'
<1>1. GoesBack(p)'
  BY WasFine, TheirsStay DEF GoesBack
<1>2. Settles(p)' /\ Stocked(p)' /\ Cleans(p)'
  <2>1. Settles(p) /\ Stocked(p) /\ Cleans(p)
    BY DEF Makes
  <2>2. CASE Plan(p)
    BY <2>2, MakesPlan
  <2>3. CASE Stage(p) \/ StageFails(p) \/ Begin(p)
    BY <2>1, <2>3, MakesStage
  <2>4. CASE MoveOut(p)
    BY <2>1, <2>4, MakesMoveOut
  <2>5. CASE MoveIn(p)
    BY <2>1, <2>5, MakesMoveIn
  <2>6. CASE NoteOut(p) \/ NoteIn(p)
    BY <2>1, <2>6, MakesNotes
  <2>7. CASE Clean(p)
    BY <2>1, <2>7, MakesClean
  <2> QED
    BY <2>1, <2>2, <2>3, <2>4, <2>5, <2>6, <2>7, MakesRest
<1> QED
  BY <1>1, <1>2 DEF Makes
\* What a command undoes of a killed one's can be undone.
LEMMA Undoable ==
    ASSUME Types, NEW p \in Commands, Places(p), Alone, Others(p), Left, Mending(p),
           pc[p] \in {"undo", "putBack"}, NEW r, cmd[p].of = r
    PROVE  /\ r \in Commands /\ r # p /\ Swapping(r) /\ Mendable(r)
           /\ IsPrefixOf(cmd[p].left, staging[r].done)
           /\ staging[r] \in Root /\ staging[r].done \in Seq(Entry) /\ cmd[p].left \in Seq(Entry)
<1>1. r \in Commands /\ r # p
  BY DEF Places, Mending
<1>2. Swapping(r) /\ IsPrefixOf(cmd[p].left, staging[r].done)
  BY DEF Others, Swapping
<1>3. ~InHand(r)
  BY <1>1 DEF Alone, InHand, Working, WorkPlaces
<1>4. Mendable(r)
  BY <1>1, <1>2, <1>3 DEF Left
<1>5. staging[r] \in Root
  BY <1>1, <1>2 DEF Types, Swapping
<1>6. staging[r].done \in Seq(Entry)
  BY <1>5 DEF Root
<1>7. cmd[p].left \in Seq(Entry)
  BY DEF Types, Memory
<1> QED
  BY <1>1, <1>2, <1>4, <1>5, <1>6, <1>7

\* Where nothing half done is left, or only what is there to be deleted, every package
\* is at the version the record says, or missing.
LEMMA MendedSweep ==
    ASSUME Types, NEW p \in Commands, Places(p), Alone, OneLeft, Found(p), Quiet, Sweep(p)
    PROVE  Mended(p)'
<1> DEFINE r == cmd'[p].of
           caught == staging[r] # None /\ staging[r].state = "swapping"
<1>1. pc[p] = "sweep" /\ Mending(p) /\ InHand(p) /\ p \notin cmd[p].visit
  BY DEF Sweep, Mending, InHand, Working, WorkPlaces, Places
<1>2. /\ UNCHANGED <<disk, bounds>>
      /\ \/ cmd[p].visit = {} /\ Goto(p, "plan") /\ cmd' = cmd
         \/ /\ r \in cmd[p].visit
            /\ Goto(p, IF caught THEN "undo" ELSE "clear")
            /\ cmd'[p].left = IF caught THEN staging[r].done ELSE <<>>
  BY SweepIs
<1>3. /\ pc \in [Commands -> {"start"} \cup LockPlaces \cup WorkPlaces \cup Ended]
      /\ cmd[p].visit \in SUBSET Commands
  BY DEF Types, Memory
<1>4. \A q \in Commands : InHand(q) => Mending(q)
  BY <1>1 DEF Alone, InHand
<1>5. AllFine' = AllFine
  BY <1>2 DEF AllFine, Fine, Zuris, disk, bounds
<1>6. CASE cmd[p].visit = {}
  <2>1. pc'[p] = "plan"
    BY <1>2, <1>3, <1>6 DEF Goto
  <2>2. \A q \in Commands : staging[q] = None
    BY <1>1, <1>6 DEF Found
  <2>3. AllFine
    BY <1>4, <2>2 DEF Quiet, Swapping
  <2> QED
    BY <1>5, <2>1, <2>3 DEF Mended, Mending
<1>7. CASE r \in cmd[p].visit /\ caught
  <2>1. pc'[p] = "undo" /\ cmd'[p].left = staging[r].done /\ staging' = staging
    BY <1>2, <1>3, <1>7 DEF Goto, disk
  <2>2. staging[r] \in Root /\ r \in Commands
    BY <1>3, <1>7 DEF Types
  <2>3. staging[r].done \in Seq(Entry)
    BY <2>2 DEF Root
  <2>4. DOMAIN staging[r].done = 1 .. Len(staging[r].done) /\ Len(staging[r].done) \in Nat
    BY <2>3, LogIs
  <2>5. \A i \in DOMAIN staging[r].done : ~(i > Len(staging[r].done))
    BY <2>4
  <2> QED
    BY <2>1, <2>5 DEF Mended
<1>8. CASE r \in cmd[p].visit /\ ~caught
  <2>1. pc'[p] = "clear"
    BY <1>2, <1>3, <1>8 DEF Goto
  <2>2. staging[r] # None /\ r \in Commands
    BY <1>1, <1>3, <1>8 DEF Found
  <2>3. \A q \in Commands : ~Swapping(q)
    BY <1>8, <2>2 DEF OneLeft, Swapping
  <2>4. AllFine
    BY <1>4, <2>3 DEF Quiet
  <2> QED
    BY <1>5, <2>1, <2>4 DEF Mended
<1> QED
  BY <1>2, <1>6, <1>7, <1>8

\* Taking away what a killed command put there leaves what was right right; and when all
\* is undone, everything is.
LEMMA MendedUndo ==
    ASSUME Types, NEW p \in Commands, Places(p), Alone, Others(p), Left, Mended(p), Undo(p)
    PROVE  Mended(p)'
<1> DEFINE r == cmd[p].of
           left == cmd[p].left
           n == Len(left)
<1>1. /\ pc[p] = "undo" /\ UNCHANGED <<staging, cmd, record, theirs>>
      /\ \/ /\ left = <<>> /\ pc'[p] = (IF r = p THEN "rolledBack" ELSE "clear") /\ libs' = libs
         \/ /\ left # <<>> /\ pc'[p] = "putBack"
            /\ libs' = IF left[n].new THEN [libs EXCEPT ![left[n].pkg] = None] ELSE libs
  BY DEF Undo, Goto, Last, Types, bounds
<1>2. CASE r = p
  BY <1>1, <1>2 DEF Mended, Mending
<1>3. CASE r # p
  <2>1. Mending(p)
    BY <1>1, <1>3 DEF Mending
  <2>2. /\ r \in Commands /\ Mendable(r) /\ IsPrefixOf(left, staging[r].done)
        /\ staging[r].done \in Seq(Entry) /\ left \in Seq(Entry)
    BY <1>1, <2>1, Undoable
  <2>3. \A i \in DOMAIN staging[r].done : i > n => Fine(staging[r].done[i].pkg)
    BY <1>1, <2>1 DEF Mended
  <2>4. Zuris' = Zuris
    BY <1>1 DEF Zuris
  <2>5. CASE left = <<>>
    <3>1. pc'[p] = "clear" /\ libs' = libs
      BY <1>1, <1>3, <2>5
    <3>2. \A i \in DOMAIN staging[r].done : i > n
      BY <2>2, <2>5, LogIs, EmptySeq
    <3>3. \A k \in Zuris : Fine(k)
      BY <2>2, <2>3, <3>2 DEF Mendable
    <3>4. AllFine'
      BY <1>1, <2>4, <3>1, <3>3 DEF AllFine, Fine
    <3> QED
      BY <3>1, <3>4 DEF Mended
  <2>6. CASE left # <<>>
    <3>1. /\ pc'[p] = "putBack"
          /\ libs' = IF left[n].new THEN [libs EXCEPT ![left[n].pkg] = None] ELSE libs
      BY <1>1, <2>6
    <3>2. n \in DOMAIN left /\ left[n].pkg \in Packages /\ libs \in Tree
      BY <2>2, <2>6, LogIs DEF Entry, Types
    <3>3. left[n].new => libs'[left[n].pkg] = None
      BY <3>1, <3>2 DEF Tree
    <3>4. \A k \in Packages : libs'[k] \in {None, libs[k]}
      BY <3>1, <3>2 DEF Tree
    <3>5. \A i \in DOMAIN staging[r].done : staging[r].done[i].pkg \in Packages
      BY <2>2, LogIs DEF Entry
    <3>6. \A i \in DOMAIN staging[r].done : i > n => Fine(staging[r].done[i].pkg)'
      BY <1>1, <2>3, <3>4, <3>5, Zenon DEF Fine
    <3>7. cmd'[p].left = left /\ cmd'[p].of = r /\ staging' = staging
      BY <1>1
    <3> QED
      BY <3>1, <3>3, <3>6, <3>7 DEF Mended
  <2> QED
    BY <2>5, <2>6
<1> QED
  BY <1>2, <1>3
\* Putting the old package back puts that one right, and leaves the others.
LEMMA MendedPutBack ==
    ASSUME Types, NEW p \in Commands, Places(p), Alone, Others(p), Left, AllSafe, Mended(p),
           PutBack(p), Mending(p), NEW r \in Commands, cmd[p].of = r, \A q \in Commands : Log(q)
    PROVE  Mendable(r)' /\ Mended(p)'
<1> DEFINE left == cmd[p].left
           n == Len(left)
           k == left[n].pkg
           done == staging[r].done
           Good(j) == libs'[j] \in {None, record'[j]}
<1>1. /\ pc[p] = "putBack" /\ pc'[p] = "undo" /\ left # <<>>
      /\ left \in Seq(Entry) /\ k \in Packages /\ n \in DOMAIN left
      /\ record' = record /\ theirs' = theirs
      /\ cmd'[p].left = Front(left) /\ cmd'[p].of = r
      /\ \A j \in Packages : j # k => libs'[j] = libs[j]
  BY PutBackIs, Zenon
<1>2. /\ r \in Commands /\ r # p /\ staging[r] # None /\ Mendable(r)
      /\ IsPrefixOf(left, done) /\ done \in Seq(Entry)
  BY <1>1, Undoable DEF Swapping
<1>3. /\ staging'[r].done = done
      /\ \A j \in Packages : j # k => staging'[r].old[j] = staging[r].old[j]
      /\ \/ /\ left[n].old /\ staging[r].old[k] # None
            /\ libs'[k] = staging[r].old[k] /\ staging'[r].old[k] = None
         \/ /\ ~(left[n].old /\ staging[r].old[k] # None)
            /\ UNCHANGED <<libs, staging>>
  <2>1. ASSUME NEW q \in Commands, cmd[p].of = q, staging[q] # None
        PROVE  /\ staging'[q].done = staging[q].done
               /\ \A j \in Packages : j # k => staging'[q].old[j] = staging[q].old[j]
               /\ \/ /\ left[n].old /\ staging[q].old[k] # None
                     /\ libs'[k] = staging[q].old[k] /\ staging'[q].old[k] = None
                  \/ /\ ~(left[n].old /\ staging[q].old[k] # None)
                     /\ UNCHANGED <<libs, staging>>
    BY <2>1, PutBackIs, Zenon
  <2>2. staging[r] # None
    BY <1>2
  <2> QED
    BY <2>1, <2>2
<1>4. n \in DOMAIN done /\ done[n] = left[n]
  BY <1>1, <1>2, PrefixIs
<1>5. \A i \in DOMAIN done : i # n => done[i].pkg # k
  BY <1>2, <1>4 DEF Log, Distinct
<1>6. \A i \in DOMAIN done : done[i].pkg \in Packages
  BY <1>2, LogIs DEF Entry
<1>7. k \in Zuris
  BY <1>1, <1>2, <1>4 DEF AllSafe, Safe, Zuris
<1>8. Zuris' = Zuris /\ Zuris \subseteq Packages
  BY <1>1 DEF Zuris
<1>9. staging[r].old[k] \in {None, record[k]}
  BY <1>2, <1>7 DEF Mendable
<1>10. left[n].new => libs[k] = None
  BY <1>1 DEF Mended
<1>11. \/ left[n].new
       \/ Fine(k)
       \/ left[n].old /\ staging[r].old[k] # None
  BY <1>2, <1>4 DEF Mendable
<1>12. libs'[k] \in {None, record[k]} /\ staging'[r].old[k] \in {None, record[k]}
  BY <1>3, <1>9, <1>10, <1>11, Zenon DEF Fine
<1>13. Good(k)
  BY <1>1, <1>12
<1>14. \A j \in Packages : j # k => (Good(j) <=> Fine(j))
  BY <1>1 DEF Fine
<1>15. Mended(p)'
  <2>1. Len(Front(left)) = n - 1 /\ n \in Nat /\ DOMAIN done = 1 .. Len(done) /\ Len(done) \in Nat
    BY <1>1, <1>2, FrontIs, LogIs
  <2>2. \A i \in DOMAIN done : i > n => Fine(done[i].pkg)
    BY <1>1 DEF Mended
  <2> HIDE DEF n
  <2>3. \A i \in DOMAIN done : i > n - 1 => i = n \/ i > n
    BY <2>1
  <2>4. \A i \in DOMAIN done : i > n - 1 => Good(done[i].pkg)
    BY <1>4, <1>5, <1>6, <1>13, <1>14, <2>2, <2>3
  <2> HIDE DEF Good
  <2>5. \A i \in DOMAIN staging'[r].done : i > Len(cmd'[p].left) => Good(done[i].pkg)
    <3>1. Len(cmd'[p].left) = n - 1
      BY <1>1, <2>1
    <3>2. DOMAIN staging'[r].done = DOMAIN done
      BY <1>3, Zenon
    <3> QED
      BY <2>4, <3>1, <3>2
  <2>6. \A i \in DOMAIN staging'[r].done :
           i > Len(cmd'[p].left) => staging'[r].done[i].pkg \in Packages /\ Good(staging'[r].done[i].pkg)
    BY <1>3, <1>6, <2>5
  <2> QED
    BY <1>1, <2>6 DEF Mended, Fine, Good
<1>16. Mendable(r)'
  <2> HIDE DEF n, k, done, Good
  <2>1. \A j \in Zuris : staging'[r].old[j] \in {None, record[j]}
    <3>1. \A j \in Zuris : staging[r].old[j] \in {None, record[j]}
      BY <1>2 DEF Mendable
    <3> QED
      BY <1>3, <1>8, <1>12, <3>1
  <2>2. ASSUME NEW j \in Zuris, \A i \in DOMAIN done : done[i].pkg # j
        PROVE  Good(j)
    <3>1. Fine(j)
      BY <1>2, <2>2 DEF Mendable, done
    <3>2. j # k
      BY <1>4, <2>2 DEF k
    <3> QED
      BY <1>8, <1>14, <3>1, <3>2
  <2>3. ASSUME NEW i \in DOMAIN done
        PROVE  \/ done[i].new
               \/ Good(done[i].pkg)
               \/ done[i].old /\ staging'[r].old[done[i].pkg] # None
    <3>1. CASE i = n
      BY <1>4, <1>13, <3>1 DEF k
    <3>2. CASE i # n
      <4>1. \/ done[i].new
            \/ Fine(done[i].pkg)
            \/ done[i].old /\ staging[r].old[done[i].pkg] # None
        BY <1>2 DEF Mendable, done
      <4>2. done[i].pkg # k /\ done[i].pkg \in Packages
        BY <1>5, <1>6, <3>2
      <4> QED
        BY <1>3, <1>14, <4>1, <4>2
    <3> QED
      BY <3>1, <3>2
  <2> QED
    BY <1>1, <1>3, <1>8, <2>1, <2>2, <2>3 DEF Mendable, Fine, Good
<1> QED
  BY <1>15, <1>16

\* A command that saves nothing leaves everything as right as it was, and one that has
\* made its moves saves what it made.
LEMMA MendedEnds ==
    ASSUME Types, NEW p \in Commands, Places(p), Own(p), Mended(p), Makes(p),
           \/ Plan(p) \/ StageFails(p) \/ RolledBack(p) \/ Finish(p) \/ Clean(p)
           \/ SaveRecord(p) \/ SaveLock(p) \/ SaveManifest(p) \/ FinishFails(p)
    PROVE  Mended(p)'
<1>1. /\ pc \in [Commands -> {"start"} \cup LockPlaces \cup WorkPlaces \cup Ended]
      /\ cmd \in [Commands -> Memory] /\ libs \in Tree /\ record \in File
      /\ cmd[p] \in Memory /\ cmd[p].todo \in SUBSET Packages
  BY DEF Types, Memory
<1>2. Zuris' = Zuris /\ Zuris \subseteq Packages
  BY TheirsStay DEF Step, Zuris
<1>3. SUFFICES ASSUME pc'[p] \in {"clear", "plan", "clean", "lock", "manifest", "finish", "release"}
               PROVE  AllFine'
  <2>1. pc'[p] \notin {"undo", "putBack"}
    <3>1. CASE Plan(p) \/ StageFails(p) \/ RolledBack(p)
      BY <1>1, <3>1, PlanIs DEF StageFails, RolledBack, Fail, Goto
    <3>2. CASE Finish(p) \/ FinishFails(p) \/ Clean(p) \/ SaveRecord(p) \/ SaveLock(p) \/ SaveManifest(p)
      BY <1>1, <3>2 DEF Finish, FinishFails, Clean, SaveRecord, SaveLock, SaveManifest, Goto
    <3> QED
      BY <3>1, <3>2
  <2> QED
    BY <1>3, <2>1 DEF Mended
<1>4. CASE Plan(p) \/ Finish(p) \/ FinishFails(p) \/ SaveLock(p) \/ SaveManifest(p)
  <2>1. pc[p] \in {"plan", "finish", "lock", "manifest"} /\ UNCHANGED <<libs, record>>
    BY <1>4 DEF Plan, Finish, FinishFails, SaveLock, SaveManifest, disk
  <2>2. AllFine
    BY <2>1 DEF Mended
  <2> QED
    BY <1>2, <2>1, <2>2 DEF AllFine, Fine
<1>5. CASE StageFails(p) \/ RolledBack(p)
  <2>1. pc[p] \in {"stage", "begin", "rolledBack"} /\ UNCHANGED <<libs, record>>
    BY <1>5 DEF StageFails, RolledBack, disk
  <2>2. libs = Was(p) /\ Planned(p)
    BY <2>1 DEF Own, Planned
  <2>3. \A k \in Zuris : libs[k] \in {None, record[k]}
    BY <2>2 DEF Makes, GoesBack
  <2> QED
    BY <1>2, <2>1, <2>3 DEF AllFine, Fine
<1>6. CASE SaveRecord(p)
  <2>1. pc[p] = "record" /\ libs' = libs /\ record' = cmd[p].target /\ cmd[p].todo = {}
    BY <1>6 DEF SaveRecord, Places
  <2>2. \A k \in Zuris : libs[k] \in {None, cmd[p].target[k]}
    BY <2>1 DEF Makes, Settles
  <2> QED
    BY <1>2, <2>1, <2>2 DEF AllFine, Fine
<1>7. CASE Clean(p)
  <2>1. pc[p] = "clean"
    BY <1>7 DEF Clean
  <2>2. CASE cmd[p].todo = {}
    <3>1. libs' = libs /\ record' = Nothing
      BY <1>7, <2>2 DEF Clean
    <3>2. \A k \in Zuris : libs[k] = None
      BY <2>1, <2>2 DEF Makes, Cleans
    <3> QED
      BY <1>2, <3>1, <3>2 DEF AllFine, Fine
  <2>3. CASE cmd[p].todo # {}
    <3>1. libs' = [libs EXCEPT ![Turn(p)] = None] /\ record' = record
      BY <1>7, <2>3 DEF Clean
    <3>2. AllFine
      BY <2>1 DEF Mended
    <3> QED
      BY <1>1, <1>2, <3>1, <3>2 DEF AllFine, Fine, Tree
  <2> QED
    BY <2>2, <2>3
<1> QED
  BY <1>4, <1>5, <1>6, <1>7
\* So every step keeps what a command has put right.
LEMMA MendedOwn ==
    ASSUME Types, NEW p \in Commands, \A q \in Commands : Places(q) /\ Log(q), Alone, OneLeft,
           Found(p), Own(p), Others(p), AllSafe, Left, Quiet, Mended(p), Makes(p),
           Step(p) \/ Kill(p), ~GivesUp(p)
    PROVE  Mended(p)'
<1>1. /\ pc \in [Commands -> {"start"} \cup LockPlaces \cup WorkPlaces \cup Ended]
      /\ cmd \in [Commands -> Memory]
  BY DEF Types
<1>2. Places(p) /\ Log(p)
  OBVIOUS
<1>3. CASE Sweep(p)
  BY <1>2, <1>3, MendedSweep
<1>4. CASE Undo(p)
  BY <1>2, <1>4, MendedUndo
<1>5. CASE PutBack(p)
  <2>1. CASE Mending(p)
    <3>1. pc[p] = "putBack"
      BY <1>5, PutBackIs, <1>2
    <3>2. PICK r \in Commands : cmd[p].of = r
      BY <1>2, <3>1 DEF Places
    <3> QED
      BY <1>2, <1>5, <2>1, <3>2, MendedPutBack, Zenon
  <2>2. CASE ~Mending(p)
    <3>1. pc[p] = "putBack" /\ pc'[p] = "undo" /\ cmd'[p].of = cmd[p].of
      BY <1>2, <1>5, PutBackIs
    <3>2. cmd'[p].of = p
      BY <2>2, <3>1 DEF Mending
    <3> QED
      BY <3>1, <3>2, Zenon DEF Mended, Mending
  <2> QED
    BY <2>1, <2>2
<1>6. CASE \/ Plan(p) \/ StageFails(p) \/ RolledBack(p) \/ Finish(p) \/ Clean(p)
           \/ SaveRecord(p) \/ SaveLock(p) \/ SaveManifest(p) \/ FinishFails(p)
  BY <1>2, <1>6, MendedEnds
<1>7. CASE Open(p) \/ Acquire(p) \/ LetGo(p) \/ Kill(p) \/ Raises(p) \/ Recover(p) \/ Clear(p)
  <2>1. pc'[p] \notin {"undo", "putBack", "clear", "plan", "clean", "lock", "manifest", "finish",
                     "release"}
    <3>1. CASE Open(p)
      BY <1>1, <3>1, OpenIs DEF Goto
    <3>2. CASE Acquire(p)
      BY <1>1, <3>2 DEF Acquire, Wait, Try, Exists, Read, Judge, Break, Write, Goto
    <3>3. CASE LetGo(p) \/ Kill(p) \/ Raises(p) \/ Recover(p) \/ Clear(p)
      BY <1>1, <3>3, RaisesIs DEF LetGo, Release, Kill, Recover, Clear, Goto
    <3> QED
      BY <1>7, <3>1, <3>2, <3>3
  <2> QED
    BY <2>1 DEF Mended
<1>8. CASE \/ Stage(p) \/ Begin(p) \/ MoveOut(p) \/ NoteOut(p) \/ MoveIn(p) \/ NoteIn(p)
           \/ MoveFails(p) \/ Commit(p) \/ Hooks(p)
  <2>1. /\ pc'[p] \notin {"clear", "putBack", "plan", "clean", "lock", "manifest", "finish", "release"}
        /\ pc'[p] = "undo" => cmd'[p].of = p
    <3>1. CASE MoveFails(p) \/ Hooks(p)
      <4>1. (UNCHANGED cmd /\ Goto(p, "record")) \/ Fail(p, "undo")
        BY <3>1 DEF MoveFails, Hooks
      <4> QED
        BY <1>1, <4>1, FailIs DEF Goto
    <3>2. CASE Stage(p) \/ Begin(p) \/ Commit(p)
      BY <1>1, <3>2 DEF Stage, Begin, Commit, Goto
    <3>3. CASE MoveOut(p) \/ NoteOut(p) \/ MoveIn(p) \/ NoteIn(p)
      BY <1>1, <3>3 DEF MoveOut, NoteOut, MoveIn, NoteIn, Goto
    <3> QED
      BY <1>8, <3>1, <3>2, <3>3
  <2> QED
    BY <2>1 DEF Mended, Mending
<1> QED
  BY <1>3, <1>4, <1>5, <1>6, <1>7, <1>8 DEF Step

\* Where a kill, or a failure that nothing catches, leaves a transaction half done, its
\* journal tells how to undo it.
LEMMA KillLeaves ==
    ASSUME Types, NEW p \in Commands, Places(p), Log(p), Own(p), Journalled(p), AllSafe, Makes(p),
           ~Unrecorded(p), InHand(p), Swapping(p)
    PROVE  Mendable(p)
<1> DEFINE done == staging[p].done
<1> USE DEF Moving, Between
<1>1. /\ staging[p] \in Root /\ cmd[p].done \in Seq(Entry) /\ cmd[p].left \in Seq(Entry)
  BY DEF Types, Memory, Swapping
<1>2. done \in Seq(Entry)
  BY <1>1 DEF Root
<1>3. /\ pc[p] \in Moving \cup {"rolledBack"} \/ (Undoing(p) /\ cmd[p].todo # {})
  <2>1. ~Without(p)
    BY DEF Places, Swapping
  <2>2. pc[p] \notin {"begin", "lock", "manifest", "finish", "release", "hooks", "record"}
    BY DEF Journalled, Swapping, Unrecorded
  <2>3. pc[p] \in {"undo", "putBack"} => Undoing(p)
    BY <2>1 DEF Without, Mending, Undoing
  <2>4. Undoing(p) => cmd[p].todo # {}
    BY DEF Unrecorded, Undoing
  <2> QED
    BY <2>1, <2>2, <2>3, <2>4 DEF InHand, Working, WorkPlaces, Without, Mending
<1>4. /\ \A k \in Packages : staging[p].old[k] \in {None, Was(p)[k]}
      /\ \A k \in Zuris : Was(p)[k] \in {None, record[k]}
  BY <1>3 DEF Own, Makes, GoesBack, Planned
<1>5. Zuris \subseteq Packages
  BY DEF Zuris
<1>6. \A k \in Zuris : staging[p].old[k] \in {None, record[k]}
  BY <1>4, <1>5
<1>7. \A i \in DOMAIN done : done[i].pkg \in Zuris
  <2>1. \A i \in DOMAIN done : done[i].pkg \in Packages
    BY <1>2, LogIs DEF Entry
  <2>2. staging[p] # None
    BY DEF Swapping
  <2> QED
    BY <2>1, <2>2 DEF AllSafe, Safe, Zuris
<1>8. \A k \in Zuris : libs[k] = Was(p)[k] => Fine(k)
  BY <1>4 DEF Fine
<1>9. CASE pc[p] = "rolledBack"
  <2>1. libs = Was(p)
    BY <1>9 DEF Own
  <2>2. \A k \in Zuris : Fine(k)
    BY <1>8, <2>1
  <2> QED
    BY <1>6, <1>7, <2>2 DEF Mendable
<1>10. CASE pc[p] \in {"move", "moveIn"}
  <2>1. done = cmd[p].done /\ Tells(p, cmd[p].done)
    BY <1>10 DEF Own, Journalled
  <2>2. \A k \in Zuris : (\A i \in DOMAIN done : done[i].pkg # k) => Fine(k)
    BY <1>5, <1>8, <2>1 DEF Tells
  <2>3. \A i \in DOMAIN done : done[i].new \/ Fine(done[i].pkg)
    BY <2>1 DEF Tells, Fine
  <2> QED
    BY <1>6, <2>2, <2>3 DEF Mendable
<1>11. CASE pc[p] \in {"noteOut", "noteIn"}
  <2> DEFINE log == cmd[p].done
             n == Len(log)
  <2>1. Tells(p, log) /\ log # <<>>
    BY <1>11 DEF Own, Log
  <2>2. DOMAIN log = 1 .. n /\ n \in Nat /\ n \in DOMAIN log
    BY <1>1, <2>1, LogIs
  <2>3. CASE pc[p] = "noteOut"
    <3>1. done = SubSeq(log, 1, n - 1) /\ ~log[n].new
      BY <2>3 DEF Journalled, Log
    <3>2. DOMAIN done = 1 .. n - 1 /\ \A i \in DOMAIN done : done[i] = log[i]
      BY <1>1, <2>1, <3>1, FrontIs
    <3> HIDE DEF n, log, done
    <3>3. ASSUME NEW k \in Zuris, \A i \in DOMAIN done : done[i].pkg # k
          PROVE  Fine(k)
      <4>1. CASE log[n].pkg = k
        BY <2>1, <2>2, <3>1, <4>1 DEF Tells, Fine
      <4>2. CASE log[n].pkg # k
        <5>1. \A i \in DOMAIN log : i # n => i \in DOMAIN done
          BY <2>2, <3>2
        <5>2. \A i \in DOMAIN log : log[i].pkg # k
          BY <3>2, <3>3, <4>2, <5>1
        <5> QED
          BY <1>5, <1>8, <2>1, <5>2 DEF Tells
      <4> QED
        BY <4>1, <4>2
    <3>4. ASSUME NEW i \in DOMAIN done PROVE done[i].new \/ Fine(done[i].pkg)
      <4>1. i \in DOMAIN log /\ done[i] = log[i]
        BY <2>2, <3>2
      <4> QED
        BY <2>1, <4>1 DEF Tells, Fine
    <3> QED
      BY <1>6, <3>3, <3>4 DEF Mendable, done
  <2>4. CASE pc[p] = "noteIn"
    <3>1. done = [log EXCEPT ![n].new = FALSE]
      BY <2>4 DEF Journalled
    <3>2. log[n].old
      BY <2>4 DEF Unrecorded, Last
    <3>3. /\ DOMAIN done = DOMAIN log
          /\ \A i \in DOMAIN log : done[i].pkg = log[i].pkg /\ done[i].old = log[i].old
          /\ \A i \in DOMAIN log : i # n => done[i] = log[i]
      BY <1>1, <2>1, <3>1, MarkIs
    <3> HIDE DEF n, log, done
    <3>4. ASSUME NEW k \in Zuris, \A i \in DOMAIN done : done[i].pkg # k
          PROVE  Fine(k)
      <4>1. \A i \in DOMAIN log : log[i].pkg # k
        BY <3>3, <3>4
      <4> QED
        BY <1>5, <1>8, <2>1, <4>1 DEF Tells
    <3>5. ASSUME NEW i \in DOMAIN done
          PROVE  \/ done[i].new
                 \/ Fine(done[i].pkg)
                 \/ done[i].old /\ staging[p].old[done[i].pkg] # None
      <4>1. CASE i = n
        <5>1. done[i].old /\ done[i].pkg = log[i].pkg /\ i \in DOMAIN log /\ log[i].old
          BY <2>2, <3>2, <3>3, <4>1
        <5>2. staging[p].old[log[i].pkg] = Was(p)[log[i].pkg] /\ Was(p)[log[i].pkg] # None
          BY <2>1, <5>1 DEF Tells
        <5> QED
          BY <5>1, <5>2
      <4>2. CASE i # n
        <5>1. i \in DOMAIN log /\ done[i] = log[i]
          BY <3>3, <4>2
        <5> QED
          BY <2>1, <5>1 DEF Tells, Fine
      <4> QED
        BY <4>1, <4>2
    <3> QED
      BY <1>6, <3>4, <3>5 DEF Mendable, done
  <2> QED
    BY <1>11, <2>3, <2>4
<1>12. CASE Undoing(p) /\ cmd[p].todo # {}
  <2> DEFINE left == cmd[p].left
  <2>1. /\ done = cmd[p].done /\ IsPrefixOf(left, done) /\ Tells(p, left)
    BY <1>12 DEF Journalled, Own
  <2>2. Distinct(done)
    BY <2>1 DEF Log
  <2>3. \A i \in DOMAIN left : i \in DOMAIN done /\ left[i] = done[i]
    BY <1>1, <1>2, <2>1, PrefixIs
  <2> HIDE DEF left, done
  <2>4. ASSUME NEW k \in Zuris, \A i \in DOMAIN left : left[i].pkg # k
        PROVE  Fine(k)
    BY <1>5, <1>8, <2>1, <2>4 DEF Tells
  <2>5. ASSUME NEW k \in Zuris, \A i \in DOMAIN done : done[i].pkg # k
        PROVE  Fine(k)
    BY <2>3, <2>4, <2>5
  <2>6. ASSUME NEW i \in DOMAIN done
        PROVE  done[i].new \/ Fine(done[i].pkg)
    <3>1. CASE i \in DOMAIN left
      BY <2>1, <2>3, <3>1 DEF Tells, Fine
    <3>2. CASE i \notin DOMAIN left
      <4>1. \A j \in DOMAIN left : left[j].pkg # done[i].pkg
        BY <2>2, <2>3, <3>2 DEF Distinct
      <4> QED
        BY <1>7, <2>4, <4>1
    <3> QED
      BY <3>1, <3>2
  <2> QED
    BY <1>6, <2>5, <2>6 DEF Mendable, done
<1> QED
  BY <1>3, <1>9, <1>10, <1>11, <1>12
\* A command leaves off where its plan ends, where it lets go of the lock, at a failure
\* that nothing catches, or killed.
LEMMA StaysWorking ==
    ASSUME Types, NEW p \in Commands, Step(p), InHand(p), ~LetGo(p), ~Plan(p), ~Raises(p)
    PROVE  InHand(p)'
<1> USE DEF InHand, Working, WorkPlaces
<1>1. pc \in [Commands -> {"start"} \cup LockPlaces \cup WorkPlaces \cup Ended]
  BY DEF Types
<1>2. ~Open(p) /\ ~Acquire(p)
  BY DEF Open, Acquire, Wait, Try, Exists, Read, Judge, Break, Write
<1>3. CASE Recover(p) \/ Sweep(p) \/ Undo(p) \/ PutBack(p) \/ Clear(p) \/ GivesUp(p)
  BY <1>1, <1>3, Zenon DEF Recover, Sweep, Undo, PutBack, Clear, GivesUp, Goto
<1>4. CASE Stage(p) \/ StageFails(p) \/ Begin(p) \/ Clean(p)
  BY <1>1, <1>4 DEF Stage, StageFails, Begin, Clean, Fail, Goto
<1>5. CASE MoveOut(p) \/ NoteOut(p) \/ MoveIn(p) \/ NoteIn(p) \/ MoveFails(p)
  BY <1>1, <1>5 DEF MoveOut, NoteOut, MoveIn, NoteIn, MoveFails, Fail, Goto
<1>6. CASE Commit(p) \/ Hooks(p) \/ RolledBack(p)
  BY <1>1, <1>6 DEF Commit, Hooks, RolledBack, Fail, Goto
<1>7. CASE SaveRecord(p) \/ SaveLock(p) \/ SaveManifest(p) \/ Finish(p) \/ FinishFails(p)
  BY <1>1, <1>7 DEF SaveRecord, SaveLock, SaveManifest, Finish, FinishFails, Goto
<1> QED
  BY <1>2, <1>3, <1>4, <1>5, <1>6, <1>7 DEF Step

\* A command that mends takes one step of it, or is stopped.
LEMMA Mends ==
    ASSUME Types, NEW p \in Commands, Step(p) \/ Kill(p), Mending(p)
    PROVE  \/ UNCHANGED disk /\ (Recover(p) \/ Sweep(p) \/ Kill(p) \/ Raises(p) \/ GivesUp(p))
           \/ Undo(p) \/ PutBack(p) \/ Clear(p)
<1> USE DEF Mending
<1>1. ~Open(p) /\ ~Acquire(p) /\ ~LetGo(p)
  BY DEF Open, Acquire, Wait, Try, Exists, Read, Judge, Break, Write, LetGo, Release
<1>2. ~Plan(p) /\ ~Stage(p) /\ ~StageFails(p) /\ ~Begin(p) /\ ~Clean(p)
  BY DEF Plan, Stage, StageFails, Begin, Clean
<1>3. ~MoveOut(p) /\ ~NoteOut(p) /\ ~MoveIn(p) /\ ~NoteIn(p) /\ ~MoveFails(p)
  BY DEF MoveOut, NoteOut, MoveIn, NoteIn, MoveFails
<1>4. ~Commit(p) /\ ~Hooks(p) /\ ~RolledBack(p)
  BY DEF Commit, Hooks, RolledBack
<1>5. ~SaveRecord(p) /\ ~SaveLock(p) /\ ~SaveManifest(p) /\ ~Finish(p) /\ ~FinishFails(p)
  BY DEF SaveRecord, SaveLock, SaveManifest, Finish, FinishFails
<1>6. Recover(p) \/ Sweep(p) \/ Kill(p) \/ Raises(p) \/ GivesUp(p) => UNCHANGED disk
  BY Zenon DEF Recover, Sweep, Kill, Raises, GivesUp
<1> QED
  BY <1>1, <1>2, <1>3, <1>4, <1>5, <1>6 DEF Step

\* What a command that was stopped left can be undone until it is, also when the command
\* that undoes it is stopped in turn.
LEMMA LeftKept ==
    ASSUME Types, NEW p \in Commands, \A q \in Commands : Places(q) /\ Log(q), Alone, OneLeft,
           Found(p), Own(p), Journalled(p), Others(p), AllSafe, Left, Mended(p), Makes(p),
           Step(p) \/ Kill(p), Kill(p) \/ Raises(p) => ~Unrecorded(p)
    PROVE  Left'
<1>1. /\ Zuris' = Zuris /\ \A q \in Commands \ {p} : pc'[q] = pc[q]
      /\ pc \in [Commands -> {"start"} \cup LockPlaces \cup WorkPlaces \cup Ended]
      /\ libs \in Tree /\ Zuris \subseteq Packages
  BY TheirsStay, Goes DEF Types, Zuris
<1>2. Places(p) /\ Log(p)
  OBVIOUS
<1>3. ASSUME NEW q \in Commands, UNCHANGED disk PROVE (Mendable(q)' <=> Mendable(q))
  <2>1. staging' = staging /\ libs' = libs /\ record' = record
    BY <1>3 DEF disk
  <2> QED
    BY <1>1, <2>1 DEF Mendable, Fine
<1>4. SUFFICES ASSUME NEW q \in Commands, Swapping(q)', ~InHand(q)' PROVE Mendable(q)'
  BY DEF Left
<1>5. CASE ~InHand(p)
  <2>1. UNCHANGED disk
    BY <1>5, Waits
  <2>2. Swapping(q) /\ ~InHand(q)
    BY <1>1, <1>4, <1>5, <2>1 DEF Swapping, InHand, Working, disk
  <2> QED
    BY <1>3, <2>1, <2>2 DEF Left
<1>6. CASE InHand(p) /\ q = p
  <2>1. CASE Kill(p) \/ Raises(p)
    <3>1. UNCHANGED disk
      BY <2>1 DEF Kill, Raises
    <3>2. Swapping(p)
      BY <1>4, <1>6, <3>1 DEF Swapping, disk
    <3> QED
      BY <1>2, <1>3, <1>6, <2>1, <3>1, <3>2, KillLeaves
  <2>2. CASE Step(p) /\ ~Raises(p)
    <3>1. UNCHANGED disk /\ pc[p] \in {"plan", "release"}
      BY <1>4, <1>6, <2>2, StaysWorking DEF LetGo, Release, Plan, InHand
    <3>2. Swapping(p)
      BY <1>4, <1>6, <3>1 DEF Swapping, disk
    <3>3. CASE pc[p] = "plan"
      BY <1>2, <3>2, <3>3 DEF Places, Without, Swapping
    <3>4. CASE pc[p] = "release"
      BY <3>2, <3>4 DEF Journalled, Swapping
    <3> QED
      BY <3>1, <3>3, <3>4
  <2> QED
    BY <2>1, <2>2
<1>7. CASE InHand(p) /\ q # p
  <2>1. Swapping(q)
    <3>1. \/ staging'[q] = staging[q]
          \/ staging'[q] = None
          \/ staging[q] # None /\ staging'[q].state = staging[q].state
      BY <1>7, Touches
    <3> QED
      BY <1>4, <3>1 DEF Swapping
  <2>2. Mendable(q)
    BY <1>1, <1>4, <1>7, <2>1 DEF Left, InHand, Working
  <2>3. Mending(p)
    BY <1>7, <2>1 DEF Found, Swapping
  <2>4. CASE UNCHANGED disk
    BY <1>3, <2>2, <2>4
  <2>5. CASE Undo(p)
    <3>1. /\ pc[p] = "undo" /\ UNCHANGED <<staging, cmd, record>>
          /\ \/ libs' = libs
             \/ cmd[p].left # <<>> /\ libs' = [libs EXCEPT ![Last(cmd[p].left).pkg] = None]
      BY <2>5 DEF Undo
    <3>2. \A k \in Packages : libs'[k] \in {None, libs[k]}
      <4>1. CASE cmd[p].left # <<>>
        <5>1. cmd[p].left \in Seq(Entry)
          BY DEF Types, Memory
        <5>2. Last(cmd[p].left).pkg \in Packages
          BY <4>1, <5>1, FrontIs, LogIs DEF Entry
        <5> QED
          BY <1>1, <3>1, <5>2 DEF Tree
      <4>2. CASE cmd[p].left = <<>>
        BY <3>1, <4>2
      <4> QED
        BY <4>1, <4>2
    <3>3. \A k \in Packages : Fine(k) => Fine(k)'
      BY <3>1, <3>2 DEF Fine
    <3>4. \A i \in DOMAIN staging[q].done : staging[q].done[i].pkg \in Packages
      <4>1. staging[q] \in Root
        BY <2>1 DEF Swapping, Types
      <4>2. staging[q].done \in Seq(Entry)
        BY <4>1 DEF Root
      <4> QED
        BY <4>2, LogIs DEF Entry
    <3>5. \A k \in Zuris : Fine(k) => Fine(k)'
      BY <1>1, <3>3
    <3>6. \A i \in DOMAIN staging[q].done :
             Fine(staging[q].done[i].pkg) => Fine(staging[q].done[i].pkg)'
      BY <3>1, <3>3, <3>4 DEF Fine
    <3> QED
      BY <1>1, <2>2, <3>1, <3>5, <3>6 DEF Mendable
  <2>6. CASE PutBack(p)
    <3>1. pc[p] = "putBack"
      BY <2>6, PutBackIs, <1>2
    <3>2. PICK r \in Commands : cmd[p].of = r
      BY <1>2, <3>1 DEF Places
    <3>3. r = q
      BY <2>1, <2>3, <3>1, <3>2 DEF Others, OneLeft, Swapping
    <3> QED
      BY <1>2, <2>3, <2>6, <3>2, <3>3, MendedPutBack, Zenon
  <2>7. CASE Clear(p)
    <3>1. /\ staging' = [staging EXCEPT ![cmd[p].of] = None] /\ libs' = libs /\ record' = record
          /\ staging \in [Commands -> Root \cup {None}]
      BY <2>7 DEF Clear, Types
    <3>2. staging'[q] = staging[q]
      BY <1>4, <3>1 DEF Swapping
    <3> QED
      BY <1>1, <2>2, <3>1, <3>2 DEF Mendable, Fine
  <2> QED
    BY <2>3, <2>4, <2>5, <2>6, <2>7, Mends
<1> QED
  BY <1>5, <1>6, <1>7
\* Where nothing half done is left, whether or not what killed commands left is being
\* put right, every package is at the version the record says, or missing.
LEMMA QuietKept ==
    ASSUME Types, NEW p \in Commands, Places(p), Log(p), Alone, Own(p), Journalled(p), Others(p),
           Quiet, Mended(p), Makes(p), Step(p) \/ Kill(p), Kill(p) \/ Raises(p) => ~Unrecorded(p)
    PROVE  Quiet'
<1> USE DEF Moving, Between
<1>1. /\ Zuris' = Zuris /\ \A q \in Commands \ {p} : pc'[q] = pc[q] /\ cmd'[q] = cmd[q]
      /\ pc \in [Commands -> {"start"} \cup LockPlaces \cup WorkPlaces \cup Ended]
      /\ cmd \in [Commands -> Memory]
  BY TheirsStay, Goes, Remembers DEF Types
<1>2. SUFFICES ASSUME \A q \in Commands : InHand(q)' => Mending(q)',
                      \A q \in Commands : ~Swapping(q)'
               PROVE  AllFine'
  BY DEF Quiet
<1>3. AllFine /\ libs' = libs /\ record' = record => AllFine'
  BY <1>1 DEF AllFine, Fine
<1>4. CASE ~InHand(p)
  <2>1. UNCHANGED disk
    BY <1>4, Waits
  <2>2. \A q \in Commands : ~Swapping(q)
    BY <1>2, <2>1 DEF Swapping, disk
  <2>3. \A q \in Commands \ {p} : InHand(q) => Mending(q)
    BY <1>1, <1>2 DEF InHand, Working, Mending
  <2>4. AllFine
    BY <1>4, <2>2, <2>3 DEF Quiet
  <2> QED
    BY <1>3, <2>1, <2>4 DEF disk
<1>5. CASE InHand(p) /\ Mending(p)
  <2>1. \A q \in Commands : InHand(q) => Mending(q)
    BY <1>5 DEF Alone, InHand
  <2>2. CASE UNCHANGED disk
    <3>1. \A q \in Commands : ~Swapping(q)
      BY <1>2, <2>2 DEF Swapping, disk
    <3> QED
      BY <1>3, <2>1, <2>2, <3>1 DEF Quiet, disk
  <2>3. CASE Undo(p) \/ PutBack(p)
    <3>1. pc[p] \in {"undo", "putBack"}
      BY <2>3 DEF Undo, PutBack
    <3>2. PICK r \in Commands : cmd[p].of = r
      BY <3>1 DEF Places
    <3>3. staging[r] # None /\ staging[r].state = "swapping"
      BY <1>5, <3>1, <3>2 DEF Others
    <3>4. staging'[r] # None /\ staging'[r].state = staging[r].state
      <4>1. CASE Undo(p)
        BY <3>3, <4>1 DEF Undo
      <4>2. CASE PutBack(p)
        <5>1. ASSUME NEW s \in Commands, cmd[p].of = s, staging[s] # None
              PROVE  staging'[s] # None /\ staging'[s].state = staging[s].state
          BY <4>2, <5>1, PutBackIs
        <5> QED
          BY <3>2, <3>3, <5>1, Zenon
      <4> QED
        BY <2>3, <4>1, <4>2
    <3> QED
      BY <1>2, <3>3, <3>4 DEF Swapping
  <2>4. CASE Clear(p)
    <3>1. pc[p] = "clear" /\ libs' = libs /\ record' = record
      BY <2>4 DEF Clear
    <3> QED
      BY <1>3, <3>1 DEF Mended
  <2> QED
    BY <1>5, <2>2, <2>3, <2>4, Mends
<1>6. CASE InHand(p) /\ ~Mending(p) /\ Step(p) /\ ~Raises(p)
  <2>1. CASE LetGo(p) \/ Plan(p)
    <3>1. pc[p] \in {"plan", "release"} /\ libs' = libs /\ record' = record
      BY <1>6, <2>1 DEF LetGo, Release, Plan, InHand, disk
    <3> QED
      BY <1>3, <3>1 DEF Mended
  <2>2. CASE ~LetGo(p) /\ ~Plan(p)
    <3>1. InHand(p)'
      BY <1>6, <2>2, StaysWorking
    <3>2. ~Mending(p)'
      <4>1. CASE Undo(p)
        BY <1>1, <1>6, <4>1 DEF Undo, Goto, Mending
      <4>2. CASE PutBack(p)
        <5>1. pc'[p] = "undo" /\ cmd'[p].of = cmd[p].of /\ pc[p] = "putBack"
          BY <4>2, PutBackIs
        <5> QED
          BY <1>6, <5>1, Zenon DEF Mending
      <4>3. CASE ~Undo(p) /\ ~PutBack(p)
        <5>1. ~Recover(p) /\ ~Sweep(p) /\ ~Clear(p) /\ ~GivesUp(p)
          BY <1>6 DEF Recover, Sweep, Clear, GivesUp, Mending
        <5>2. ~Open(p) /\ ~Acquire(p)
          BY <1>6 DEF Open, Acquire, Wait, Try, Exists, Read, Judge, Break, Write, InHand,
            Working, WorkPlaces
        <5> QED
          BY <1>6, <2>2, <4>3, <5>1, <5>2, StaysOwn DEF Mending
      <4> QED
        BY <4>1, <4>2, <4>3
    <3> QED
      BY <1>2, <3>1, <3>2
  <2> QED
    BY <2>1, <2>2
<1>7. CASE InHand(p) /\ ~Mending(p) /\ (Kill(p) \/ Raises(p))
  <2>1. UNCHANGED disk /\ ~Unrecorded(p)
    BY <1>7 DEF Kill, Raises
  <2>2. ~Swapping(p)
    BY <1>2, <2>1 DEF Swapping, disk
  <2>3. CASE pc[p] \in {"plan", "clean", "lock", "manifest", "finish", "release"}
    BY <1>3, <2>1, <2>3 DEF Mended, disk
  <2>4. CASE pc[p] \in {"stage", "begin", "rolledBack"}
    <3>1. libs = Was(p)
      BY <2>4 DEF Own
    <3>2. \A k \in Zuris : Was(p)[k] \in {None, record[k]}
      BY <2>4 DEF Makes, GoesBack, Planned
    <3>3. AllFine
      BY <3>1, <3>2 DEF AllFine, Fine
    <3> QED
      BY <1>3, <2>1, <3>3 DEF disk
  <2>5. CASE pc[p] \in Moving
    <3>1. staging[p] # None
      BY <2>5 DEF Own
    <3>2. staging[p].state = "swapping"
      BY <2>5 DEF Journalled
    <3> QED
      BY <2>2, <3>1, <3>2 DEF Swapping
  <2>6. CASE pc[p] \in {"hooks", "record"}
    BY <2>1, <2>6 DEF Unrecorded
  <2>7. CASE Undoing(p)
    <3>1. cmd[p].todo # {}
      BY <2>1, <2>7 DEF Unrecorded, Undoing
    <3>2. staging[p] # None
      BY <2>7 DEF Own
    <3>3. staging[p].state = "swapping"
      BY <2>7, <3>1 DEF Journalled
    <3> QED
      BY <2>2, <3>2, <3>3 DEF Swapping
  <2> QED
    BY <1>7, <2>3, <2>4, <2>5, <2>6, <2>7 DEF InHand, Working, WorkPlaces, Mending,
      Undoing
<1> QED
  BY <1>4, <1>5, <1>6, <1>7

\* At the start all is right.
LEMMA MendInit == Init => MendInv
<1> SUFFICES ASSUME Init PROVE MendInv
  OBVIOUS
<1>1. \A p \in Commands : pc[p] = "start" /\ staging[p] = None
  BY DEF Init, LockInit
<1>2. AllFine
  BY DEF Init, AllFine, Fine, Zuris
<1>3. Left /\ Quiet
  BY <1>1, <1>2 DEF Left, Quiet, Swapping
<1>4. \A p \in Commands : Mended(p) /\ Makes(p)
  BY <1>1 DEF Mended, Mending, Makes, GoesBack, Planned, Undoing, Settles, Stocked, Cleans,
    Moving, Between
<1> QED
  BY <1>3, <1>4 DEF MendInv

\* As long as commands take turns, none is stopped where its journal tells too little and
\* no recovery gives up, what they left can be put right.
LEMMA MendNext == SoundInv /\ SoloInv /\ AllSafe /\ MendInv /\ [Next]_vars /\ SoloInv' => MendInv'
<1> SUFFICES ASSUME SoundInv, SoloInv, AllSafe, MendInv, [Next]_vars, SoloInv', ~overlap', ~unlucky'
             PROVE  /\ Left' /\ Quiet'
                    /\ \A q \in Commands : Mended(q)' /\ Makes(q)'
  BY DEF MendInv
<1>1. CASE UNCHANGED vars
  <2>1. /\ ~overlap /\ ~unlucky
        /\ UNCHANGED <<pc, cmd, staging, libs, record, manifest, lockfile, theirs>>
    BY <1>1 DEF vars, lockVars, disk, bounds
  <2>2. Left /\ Quiet /\ \A q \in Commands : Mended(q) /\ Makes(q)
    BY <2>1 DEF MendInv
  <2>3. Left'
    BY <2>1, <2>2 DEF Left, Swapping, InHand, Working, Mendable, Fine, Zuris
  <2>4. Quiet'
    BY <2>1, <2>2 DEF Quiet, Swapping, InHand, Working, Mending, AllFine, Fine, Zuris
  <2>5. ASSUME NEW q \in Commands PROVE Mended(q)' /\ Makes(q)'
    <3>1. Mended(q) /\ Makes(q)
      BY <2>2
    <3>2. Mended(q)'
      BY <2>1, <3>1 DEF Mended, Mending, AllFine, Fine, Zuris
    <3>3. Turn(q)' = Turn(q)
      BY <2>1 DEF Turn
    <3>4. Makes(q)'
      BY <2>1, <3>1, <3>3 DEF Makes, GoesBack, Planned, Undoing, Was, Settles, Stocked, Cleans,
        Zuris
    <3> QED
      BY <3>2, <3>4
  <2> QED
    BY <2>3, <2>4, <2>5
<1>2. CASE Next
  <2>1. PICK p \in Commands : Step(p) \/ Kill(p)
    BY <1>2 DEF Next
  <2>2. ~overlap
    BY <1>2 DEF Next
  <2>3. ~unlucky /\ (Kill(p) \/ Raises(p) => ~Unrecorded(p)) /\ ~GivesUp(p)
    <3>1. Kill(p) \/ Raises(p) => ~unlucky /\ ~Unrecorded(p)
      BY DEF Kill, Raises
    <3>3. ~GivesUp(p)
      BY DEF GivesUp
    <3>2. CASE Step(p) /\ ~Kill(p) /\ ~Raises(p)
      <4>1. unlucky' = unlucky
        BY <3>2, <3>3, Zenon DEF Step, Open, Acquire, LetGo, Recover, Sweep, Undo, PutBack,
          Clear, Plan,
          Stage, StageFails, Begin, MoveOut, NoteOut, MoveIn, NoteIn, MoveFails, Commit, Hooks,
          RolledBack,
          SaveRecord, SaveLock, SaveManifest, Finish, FinishFails, Clean, Fault, bounds
      <4> QED
        BY <3>2, <3>3, <4>1
    <3> QED
      BY <2>1, <3>1, <3>2, <3>3
  <2>4. Types /\ \A q \in Commands : Places(q) /\ Log(q)
    BY DEF SoundInv
  <2>5. Alone /\ OneLeft /\ \A q \in Commands : Found(q) /\ Own(q) /\ Journalled(q) /\ Others(q)
    BY <2>2 DEF SoloInv
  <2>6. Left /\ Quiet /\ \A q \in Commands : Mended(q) /\ Makes(q)
    BY <2>2, <2>3 DEF MendInv
  <2>7. Own(p)'
    BY DEF SoloInv
  <2>8. Left'
    BY <2>1, <2>3, <2>4, <2>5, <2>6, LeftKept
  <2>9. Quiet'
    BY <2>1, <2>3, <2>4, <2>5, <2>6, QuietKept
  <2>10. Mended(p)' /\ Makes(p)'
    BY <2>1, <2>3, <2>4, <2>5, <2>6, <2>7, MendedOwn, MakesOwn
  <2>11. ASSUME NEW q \in Commands, q # p
         PROVE  Mended(q)' /\ Makes(q)'
    <3>1. pc'[q] = pc[q] /\ cmd'[q] = cmd[q]
      BY <2>1, <2>4, <2>11, Goes, Remembers
    <3>2. CASE Working(q)
      <4>1. UNCHANGED disk /\ theirs' = theirs
        BY <2>1, <2>4, <2>5, <2>11, <3>2, Bystander
      <4>2. UNCHANGED <<staging, libs, record, theirs>>
        BY <4>1 DEF disk
      <4>3. Mended(q) /\ Makes(q)
        BY <2>6
      <4>4. Mended(q)'
        BY <3>1, <4>2, <4>3 DEF Mended, Mending, AllFine, Fine, Zuris
      <4>5. Turn(q)' = Turn(q)
        BY <3>1 DEF Turn
      <4>6. Makes(q)'
        BY <3>1, <4>2, <4>3, <4>5 DEF Makes, GoesBack, Planned, Undoing, Was, Settles, Stocked,
          Cleans, Zuris
      <4> QED
        BY <4>4, <4>6
    <3>3. CASE ~Working(q)
      <4>1. pc'[q] \notin WorkPlaces
        BY <3>1, <3>3 DEF Working
      <4> QED
        BY <4>1 DEF WorkPlaces, Mended, Mending, Makes, GoesBack, Planned, Undoing, Settles,
          Stocked, Cleans, Moving, Between
    <3> QED
      BY <3>2, <3>3
  <2> QED
    BY <2>8, <2>9, <2>10, <2>11
<1> QED
  BY <1>1, <1>2

\* "A command killed part way is put right by the next one", and a directory that zuri
\* did not install is never replaced: however many commands are killed or fail, one after
\* another, also while they put right what others left, once nobody is at work and no
\* directory of moves half made is left every package is at the version the record says,
\* or missing, and what others put there is there, and still theirs.  Two things are left
\* out: commands that were at work at once (overlap); and a command that was stopped
\* where its journal tells too little (Unrecorded), or a recovery that gave up (unlucky).
\* Of those the promise does not hold (PackageKill.cfg).
THEOREM KilledPutRight == Spec => []PutRight
<1>1. Spec => []AllSafe
  BY SafeInit, SafeNext, SoundHolds, PTL DEF Spec
<1>2. Spec => []MendInv
  BY <1>1, MendInit, MendNext, SoloHolds, PTL DEF Spec
<1>3. Types /\ AllSafe /\ MendInv => PutRight
  <2> SUFFICES ASSUME Types, AllSafe, MendInv, ~overlap, ~unlucky,
                      \A p \in Commands : ~Working(p),
                      \A p \in Commands : staging[p] # None => staging[p].state # "swapping",
                      NEW k \in Packages
               PROVE  IF k \in theirs THEN libs[k] = Hand /\ record[k] = None
                                      ELSE libs[k] \in {None, record[k]}
    BY DEF PutRight
  <2>1. CASE k \in theirs
    BY <2>1 DEF AllSafe, Safe
  <2>2. CASE k \notin theirs
    <3>1. AllFine
      BY DEF MendInv, Quiet, InHand, Swapping
    <3> QED
      BY <2>2, <3>1 DEF AllFine, Fine, Zuris
  <2> QED
    BY <2>1, <2>2
<1>4. SoundInv => Types
  BY DEF SoundInv
<1> QED
  BY <1>1, <1>2, <1>3, <1>4, SoundHolds, PTL
=============================================================================
