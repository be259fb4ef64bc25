----------------------------- MODULE PackageSync -----------------------------
(* The package commands of one project (install, uninstall, restore, clean:     *)
(* cmds/_shared/sync.zu and store.zu), several at a time, any of which may be   *)
(* killed.  Each is: read the project's files, take the lock, put right what    *)
(* killed commands left, plan, stage the new packages in a directory of its     *)
(* own, swap them into .zuri/libs one rename at a time with a journal of the    *)
(* renames made, run the hooks, and save the record, the lockfile and the       *)
(* manifest.  A step is what nobody can see half done: one rename, one          *)
(* atomic_write, one remove.                                                    *)
(*                                                                              *)
(* A package is a name with versions and no dependencies; an entry of a file is *)
(* a version or None.  A command reads its files at one moment, and removes a   *)
(* directory at one: removing it fails or succeeds as a whole.  Writing a       *)
(* journal does not fail, but for the last one of commit(), which nothing       *)
(* catches.                                                                     *)
EXTENDS CommandLock, Naturals, FiniteSets, SequencesExt

CONSTANTS
    Order,       \* the packages, in the order a transaction moves them
    Versions,
    Hand,        \* what is in .zuri/libs where zuri did not put it
    Locked,      \* the lockfiles to begin with
    Jobs,        \* what the commands may be: each an [op, pkg, dry], or None for not given
    MaxKills,    \* bound: commands killed
    MaxFaults    \* bound: renames, removes, saves, downloads and hooks that fail

Packages == Range(Order)
Nothing == [k \in Packages |-> None]

VARIABLES
    manifest,    \* project.toml: the packages declared
    lockfile,    \* project.lock: the version of each
    record,      \* .zuri/installed.toml: what zuri put into .zuri/libs
    libs,        \* .zuri/libs: what is there
    staging,     \* .zuri/staging: the transaction directory of each command
    jobs,        \* what each command is asked to do
    theirs,      \* packages somebody else put into .zuri/libs
    cmd,         \* what each command holds in memory
    kills, faults,
    overlap,     \* two commands have been at work at once (history variable)
    unlucky      \* a command was stopped where recover() cannot tell, or a
                 \* recover() gave up (history variable)

disk == <<manifest, lockfile, record, libs, staging>>
bounds == <<jobs, theirs, kills, faults, unlucky>>
vars == <<lockVars, disk, cmd, bounds, overlap>>

ASSUME JobsAssumption ==
    /\ Order \in Seq(Packages)
    /\ None \notin Versions \cup Packages \cup {Hand} /\ Hand \notin Versions
    /\ MaxKills \in Nat /\ MaxFaults \in Nat
    /\ Locked \subseteq [Packages -> Versions \cup {None}]
    /\ Jobs \subseteq [Commands -> [op : {"install", "uninstall", "restore", "clean"},
                                   pkg : Packages, dry : BOOLEAN] \cup {None}]

Tree == [Packages -> Versions \cup {None, Hand}]
Entry == [pkg : Packages, old : BOOLEAN, new : BOOLEAN]
States == {"staging", "swapping", "committed", "rolled-back"}

\* dirs: the directories for old and new packages are there.
Root == [state : States, done : Seq(Entry), new : Tree, old : Tree, dirs : BOOLEAN]

ASSUME RootAssumption == None \notin Root

Blank == [op |-> "restore", dry |-> FALSE, declared |-> {}, target |-> Nothing, todo |-> {},
          done |-> <<>>, visit |-> {}, of |-> None, left |-> <<>>, failed |-> FALSE,
          before |-> <<>>]

WorkPlaces == {"recover", "sweep", "undo", "putBack", "clear", "plan", "stage", "begin", "move",
               "noteOut", "moveIn", "noteIn", "hooks", "rolledBack", "record", "lock",
               "manifest", "finish", "clean", "release", "raise"}
Working(p) == pc[p] \in WorkPlaces

TypeOK ==
    /\ LockTypeOK
    /\ pc \in [Commands -> {"start"} \cup LockPlaces \cup WorkPlaces \cup Ended]
    /\ manifest \subseteq Packages
    /\ {lockfile, record} \subseteq [Packages -> Versions \cup {None}]
    /\ libs \in Tree
    /\ \A p \in Commands :
          /\ staging[p] # None =>
                /\ staging[p] \in Root
                /\ Len(staging[p].done) <= Len(Order)
                /\ staging[p].state = "staging" => staging[p].done = <<>>
          /\ Len(cmd[p].done) <= Len(Order) /\ cmd[p].todo \subseteq Packages
          /\ pc[p] \in {"undo", "putBack", "clear"} => cmd[p].of \in Commands
    /\ kills <= MaxKills /\ faults <= MaxFaults

Init ==
    /\ LockInit
    /\ lockfile \in Locked
    /\ manifest = {k \in Packages : lockfile[k] # None}
    /\ record = lockfile
    /\ theirs \in SUBSET (Packages \ manifest)
    /\ libs = [k \in Packages |-> IF k \in theirs THEN Hand ELSE record[k]]
    /\ staging = [p \in Commands |-> None]
    /\ jobs \in Jobs
    /\ cmd = [p \in Commands |-> Blank]
    /\ kills = 0 /\ faults = 0 /\ overlap = FALSE /\ unlucky = FALSE

--------------------------------------------------------------------------------
(* Before the lock: what the command is asked, and what it makes of the         *)
(* manifest and the lockfile as they are now.                                   *)
Resolutions(declared, free) ==
    {t \in [Packages -> Versions \cup {None}] : \A k \in Packages :
        /\ (t[k] # None) <=> k \in declared
        /\ k \in declared \ free /\ lockfile[k] # None => t[k] = lockfile[k]}

Declared(job) ==
    CASE job.op = "install" -> manifest \cup {job.pkg}
      [] job.op = "uninstall" -> manifest \ {job.pkg}
      [] OTHER -> manifest

Open(p) ==
    /\ pc[p] = "start" /\ jobs[p] # None
    /\ LET job == jobs[p] IN
          \/ /\ job.op = "uninstall" /\ job.pkg \notin manifest
             /\ Goto(p, "failed") /\ UNCHANGED cmd
          \/ /\ job.op = "uninstall" => job.pkg \in manifest
             /\ \E target \in Resolutions(Declared(job), IF job.op = "install" THEN {job.pkg}
                                                                               ELSE {}) :
                   cmd' = [cmd EXCEPT ![p] =
                             [Blank EXCEPT !.op = job.op, !.dry = job.dry,
                                           !.declared = Declared(job), !.target = target]]
             /\ Goto(p, IF job.dry THEN "recover" ELSE "try")
    /\ UNCHANGED <<lockFile, seen, robbed, disk, bounds>>

Acquire(p) == (Wait(p) \/ Write(p)) /\ UNCHANGED <<disk, cmd, bounds>>

LetGo(p) ==
    /\ Release(p, IF cmd[p].failed \/ pc[p] = "raise" THEN "failed" ELSE "done")
    /\ cmd' = [cmd EXCEPT ![p] = Blank]
    /\ UNCHANGED <<disk, bounds>>

--------------------------------------------------------------------------------
(* Undoing a transaction: one's own, or one that recover() finds.               *)
Recover(p) ==
    /\ pc[p] = "recover"
    /\ cmd' = [cmd EXCEPT ![p].visit = {q \in Commands : staging[q] # None}]
    /\ Goto(p, "sweep")
    /\ UNCHANGED <<lockFile, seen, robbed, disk, bounds>>

(* Seeded bug: a directory found there is only deleted.                         *)
SweepDeletes(p) ==
    /\ pc[p] = "sweep"
    /\ \/ /\ cmd[p].visit = {} /\ Goto(p, "plan") /\ UNCHANGED cmd
       \/ \E r \in cmd[p].visit :
             /\ cmd' = [cmd EXCEPT ![p].visit = @ \ {r}, ![p].of = r]
             /\ Goto(p, "clear")
    /\ UNCHANGED <<lockFile, seen, robbed, disk, bounds>>

Sweep(p) ==
    /\ pc[p] = "sweep"
    /\ \/ /\ cmd[p].visit = {} /\ Goto(p, "plan") /\ UNCHANGED cmd
       \/ \E r \in cmd[p].visit :
             LET caught == staging[r] # None /\ staging[r].state = "swapping"
             IN  /\ cmd' = [cmd EXCEPT ![p].visit = @ \ {r}, ![p].of = r,
                                       ![p].left = IF caught THEN staging[r].done ELSE <<>>]
                 /\ Goto(p, IF caught THEN "undo" ELSE "clear")
    /\ UNCHANGED <<lockFile, seen, robbed, disk, bounds>>

(* _undo(), newest entry first: away with the new, ...                          *)
Undo(p) ==
    /\ pc[p] = "undo"
    /\ \/ /\ cmd[p].left = <<>>
          /\ Goto(p, IF cmd[p].of = p THEN "rolledBack" ELSE "clear")
          /\ UNCHANGED libs
       \/ /\ cmd[p].left # <<>>
          /\ libs' = IF Last(cmd[p].left).new
                     THEN [libs EXCEPT ![Last(cmd[p].left).pkg] = None] ELSE libs
          /\ Goto(p, "putBack")
    /\ UNCHANGED <<lockFile, seen, robbed, manifest, lockfile, record, staging, cmd, bounds>>

(* ... back with the old, if it is still where it was put.                      *)
PutBack(p) ==
    /\ pc[p] = "putBack"
    /\ LET r == cmd[p].of
           e == Last(cmd[p].left)
           saved == IF staging[r] = None THEN None ELSE staging[r].old[e.pkg]
       IN  IF e.old /\ saved # None
           THEN /\ libs' = [libs EXCEPT ![e.pkg] = saved]
                /\ staging' = [staging EXCEPT ![r].old[e.pkg] = None]
           ELSE UNCHANGED <<libs, staging>>
    /\ cmd' = [cmd EXCEPT ![p].left = Front(@)]
    /\ Goto(p, "undo")
    /\ UNCHANGED <<lockFile, seen, robbed, manifest, lockfile, record, bounds>>

Clear(p) ==
    /\ pc[p] = "clear"
    /\ staging' = [staging EXCEPT ![cmd[p].of] = None]
    /\ cmd' = [cmd EXCEPT ![p].of = None]
    /\ Goto(p, "sweep")
    /\ UNCHANGED <<lockFile, seen, robbed, manifest, lockfile, record, libs, bounds>>

--------------------------------------------------------------------------------
(* plan(): what is there, and what has to go or come.                           *)
Wanted(p) == {k \in Packages : cmd[p].target[k] # None}

(* Seeded bug: what is there is not looked for.                                 *)
InTheWayNothing(p) == FALSE

InTheWay(p) == \E k \in Wanted(p) : record[k] = None /\ libs[k] # None
Removals(p) == {k \in Packages \ Wanted(p) : record[k] # None}
Changes(p) == {k \in Wanted(p) : record[k] # cmd[p].target[k] \/ libs[k] = None}

Steps(p) ==
    IF cmd[p].op = "clean" THEN {k \in Packages : record[k] # None}
    ELSE Removals(p) \cup Changes(p)

(* They are taken in Order, those that only have to go before the others.       *)
Foremost(S) ==
    Order[CHOOSE n \in DOMAIN Order :
             Order[n] \in S /\ \A m \in 1 .. n - 1 : Order[m] \notin S]

Turn(p) ==
    LET toGo == {k \in cmd[p].todo : cmd[p].target[k] = None}
    IN  Foremost(IF cmd[p].op # "clean" /\ toGo # {} THEN toGo ELSE cmd[p].todo)

Plan(p) ==
    /\ pc[p] = "plan"
    /\ LET refused == cmd[p].op # "clean" /\ InTheWay(p)
       IN  /\ Goto(p, IF cmd[p].dry THEN (IF refused THEN "failed" ELSE "done")
                      ELSE IF refused THEN "release"
                      ELSE IF cmd[p].op = "clean" THEN "clean" ELSE "stage")
           /\ cmd' = [cmd EXCEPT ![p] =
                 IF cmd[p].dry THEN Blank
                 ELSE [@ EXCEPT !.todo = Steps(p), !.failed = refused,
                                !.before = <<manifest, lockfile, record, libs>>]]
    /\ UNCHANGED <<lockFile, seen, robbed, disk, bounds>>

(* The transaction's directory, with every package to come unpacked in it.      *)
Stage(p) ==
    /\ pc[p] = "stage"
    /\ staging' = [staging EXCEPT ![p] =
          [state |-> "staging", done |-> <<>>, dirs |-> TRUE, old |-> Nothing,
           new |-> [k \in Packages |-> IF k \in cmd[p].todo THEN cmd[p].target[k]
                                                                   ELSE None]]]
    /\ Goto(p, "begin")
    /\ UNCHANGED <<lockFile, seen, robbed, manifest, lockfile, record, libs, cmd, bounds>>

Fail(p, place) ==
    /\ cmd' = [cmd EXCEPT ![p].failed = TRUE, ![p].of = p, ![p].left = cmd[p].done]
    /\ Goto(p, place)

Fault == faults < MaxFaults /\ faults' = faults + 1 /\ UNCHANGED <<jobs, theirs, kills, unlucky>>

(* A download or an archive is bad (abandon()), or a pre-uninstall hook fails,  *)
(* which leaves the directory behind.                                           *)
StageFails(p) ==
    /\ \/ pc[p] = "stage"
       \/ pc[p] = "begin" /\ \E k \in cmd[p].todo : cmd[p].target[k] = None
    /\ Fault
    /\ Fail(p, "release")
    /\ UNCHANGED <<lockFile, seen, robbed, disk>>

(* atomic_write of the journal; it makes the directory if that has gone.        *)
Journal(p, state, done) ==
    staging' = [staging EXCEPT ![p] =
        IF @ = None
        THEN [state |-> state, done |-> done, dirs |-> FALSE, old |-> Nothing, new |-> Nothing]
        ELSE [@ EXCEPT !.state = state, !.done = done]]

Begin(p) ==
    /\ pc[p] = "begin"
    /\ Journal(p, "swapping", <<>>)
    /\ Goto(p, "move")
    /\ UNCHANGED <<lockFile, seen, robbed, manifest, lockfile, record, libs, cmd, bounds>>

HasDirs(p) == staging[p] # None /\ staging[p].dirs

(* commit(): the next package is moved out of the way, if it is there; ...      *)
MoveOut(p) ==
    /\ pc[p] = "move" /\ cmd[p].todo # {}
    /\ LET k == Turn(p)
           there == libs[k] # None
       IN  /\ there => HasDirs(p)
           /\ IF ~there /\ cmd[p].target[k] = None
              THEN /\ cmd' = [cmd EXCEPT ![p].todo = @ \ {Turn(p)}]
                   /\ UNCHANGED <<pc, libs, staging>>
              ELSE /\ cmd' = [cmd EXCEPT ![p].done =
                                 Append(@, [pkg |-> k, old |-> there, new |-> FALSE])]
                   /\ libs' = [libs EXCEPT ![k] = None]
                   /\ staging' = IF there THEN [staging EXCEPT ![p].old[k] = libs[k]] ELSE staging
                   /\ Goto(p, "noteOut")
    /\ UNCHANGED <<lockFile, seen, robbed, manifest, lockfile, record, bounds>>

(* Seeded bug: the journal goes on saying that nothing has moved yet.           *)
NoteOutStaging(p) ==
    /\ pc[p] = "noteOut"
    /\ Journal(p, "staging", cmd[p].done)
    /\ IF cmd[p].target[Turn(p)] = None
       THEN cmd' = [cmd EXCEPT ![p].todo = @ \ {Turn(p)}] /\ Goto(p, "move")
       ELSE UNCHANGED cmd /\ Goto(p, "moveIn")
    /\ UNCHANGED <<lockFile, seen, robbed, manifest, lockfile, record, libs, bounds>>

NoteOut(p) ==
    /\ pc[p] = "noteOut"
    /\ Journal(p, "swapping", cmd[p].done)
    /\ IF cmd[p].target[Turn(p)] = None
       THEN cmd' = [cmd EXCEPT ![p].todo = @ \ {Turn(p)}] /\ Goto(p, "move")
       ELSE UNCHANGED cmd /\ Goto(p, "moveIn")
    /\ UNCHANGED <<lockFile, seen, robbed, manifest, lockfile, record, libs, bounds>>

(* Seeded bug: the entry is not told that the new package is in place.          *)
MoveInUnmarked(p) ==
    /\ pc[p] = "moveIn" /\ HasDirs(p)
    /\ LET k == Turn(p)
       IN  /\ libs[k] = None
           /\ libs' = [libs EXCEPT ![k] = staging[p].new[k]]
           /\ staging' = [staging EXCEPT ![p].new[k] = None]
    /\ Goto(p, "noteIn")
    /\ UNCHANGED <<lockFile, seen, robbed, manifest, lockfile, record, cmd, bounds>>

(* ... and the staged one into its place.                                       *)
MoveIn(p) ==
    /\ pc[p] = "moveIn" /\ HasDirs(p)
    /\ LET k == Turn(p)
       IN  /\ libs[k] = None
           /\ libs' = [libs EXCEPT ![k] = staging[p].new[k]]
           /\ staging' = [staging EXCEPT ![p].new[k] = None]
    /\ cmd' = [cmd EXCEPT ![p].done[Len(cmd[p].done)].new = TRUE]
    /\ Goto(p, "noteIn")
    /\ UNCHANGED <<lockFile, seen, robbed, manifest, lockfile, record, bounds>>

NoteIn(p) ==
    /\ pc[p] = "noteIn"
    /\ Journal(p, "swapping", cmd[p].done)
    /\ cmd' = [cmd EXCEPT ![p].todo = @ \ {Turn(p)}]
    /\ Goto(p, "move")
    /\ UNCHANGED <<lockFile, seen, robbed, manifest, lockfile, record, libs, bounds>>

(* A rename fails: it may for any reason, and does when a directory it needs is *)
(* gone or one it would replace is there.                                       *)
MustFail(p) ==
    \/ ~HasDirs(p) /\ (pc[p] = "move" => libs[Turn(p)] # None)
    \/ pc[p] = "moveIn" /\ libs[Turn(p)] # None

MoveFails(p) ==
    /\ pc[p] \in {"move", "moveIn"} /\ cmd[p].todo # {}
    /\ pc[p] = "move" => libs[Turn(p)] # None
    /\ \/ Fault
       \/ MustFail(p) /\ UNCHANGED bounds
    /\ Fail(p, "undo")
    /\ UNCHANGED <<lockFile, seen, robbed, disk>>

Commit(p) ==
    /\ pc[p] = "move" /\ cmd[p].todo = {}
    /\ Journal(p, "committed", cmd[p].done)
    /\ Goto(p, "hooks")
    /\ UNCHANGED <<lockFile, seen, robbed, manifest, lockfile, record, libs, cmd, bounds>>

(* The post-install hooks; one that fails has the transaction rolled back.      *)
Hooks(p) ==
    /\ pc[p] = "hooks"
    /\ \/ Goto(p, "record") /\ UNCHANGED <<cmd, bounds>>
       \/ Fault /\ Fail(p, "undo")
    /\ UNCHANGED <<lockFile, seen, robbed, disk>>

RolledBack(p) ==
    /\ pc[p] = "rolledBack"
    /\ Journal(p, "rolled-back", <<>>)
    /\ Goto(p, IF cmd[p].todo = {} THEN "finish" ELSE "release")
    /\ UNCHANGED <<lockFile, seen, robbed, manifest, lockfile, record, libs, cmd, bounds>>

(* installed.save(), lock.save() and, for install and uninstall,                *)
(* manifest.save().                                                             *)
SaveRecord(p) ==
    /\ pc[p] = "record"
    /\ record' = cmd[p].target
    /\ Goto(p, "lock")
    /\ UNCHANGED <<lockFile, seen, robbed, manifest, lockfile, libs, staging, cmd, bounds>>

SaveLock(p) ==
    /\ pc[p] = "lock"
    /\ lockfile' = cmd[p].target
    /\ Goto(p, IF cmd[p].op = "restore" THEN "finish" ELSE "manifest")
    /\ UNCHANGED <<lockFile, seen, robbed, manifest, record, libs, staging, cmd, bounds>>

SaveManifest(p) ==
    /\ pc[p] = "manifest"
    /\ manifest' = cmd[p].declared
    /\ Goto(p, "finish")
    /\ UNCHANGED <<lockFile, seen, robbed, lockfile, record, libs, staging, cmd, bounds>>

Finish(p) ==
    /\ pc[p] = "finish"
    /\ staging' = [staging EXCEPT ![p] = None]
    /\ Goto(p, "release")
    /\ UNCHANGED <<lockFile, seen, robbed, manifest, lockfile, record, libs, cmd, bounds>>

(* After rollback() the transaction's directory cannot be removed.              *)
FinishFails(p) ==
    /\ pc[p] = "finish" /\ cmd[p].failed
    /\ Fault
    /\ Goto(p, "release")
    /\ UNCHANGED <<lockFile, seen, robbed, disk, cmd>>

(* clean --libs removes what the record names, and then says so.                *)
Clean(p) ==
    /\ pc[p] = "clean"
    /\ \/ /\ cmd[p].todo # {}
          /\ libs' = [libs EXCEPT ![Turn(p)] = None]
          /\ cmd' = [cmd EXCEPT ![p].todo = @ \ {Turn(p)}]
          /\ UNCHANGED <<pc, record>>
       \/ /\ cmd[p].todo = {}
          /\ record' = Nothing
          /\ Goto(p, "release")
          /\ UNCHANGED <<libs, cmd>>
    /\ UNCHANGED <<lockFile, seen, robbed, manifest, lockfile, staging, bounds>>

--------------------------------------------------------------------------------
(* Where a kill leaves a journal that tells too little: a package is in its     *)
(* place and its entry does not say so yet, with nothing to put back instead;   *)
(* or the journal says committed, and the record is not saved yet.              *)
Unrecorded(p) ==
    \/ pc[p] = "noteIn" /\ ~Last(cmd[p].done).old
    \/ pc[p] \in {"hooks", "record"}
    \/ pc[p] \in {"undo", "putBack", "rolledBack"} /\ cmd[p].of = p /\ cmd[p].todo = {}

(* A failure that apply() does not catch, or that hits _undo() itself: the last *)
(* journal of commit(), tree_digest() and the saves, the removes and renames of *)
(* an undo of its own, the removal of a directory by recover() or finish(), the *)
(* removals and the save of clean.  Nothing is undone, the lock is released.    *)
Uncaught(p) ==
    \/ pc[p] = "move" /\ cmd[p].todo = {}
    \/ pc[p] \in {"record", "lock", "manifest", "clear", "clean"}
    \/ pc[p] \in {"undo", "putBack"} /\ cmd[p].of = p /\ cmd[p].left # <<>>
    \/ pc[p] = "finish" /\ ~cmd[p].failed

Raises(p) ==
    /\ Uncaught(p)
    /\ faults < MaxFaults /\ faults' = faults + 1
    /\ unlucky' = (unlucky \/ Unrecorded(p))
    /\ cmd' = [cmd EXCEPT ![p] = IF cmd[p].dry THEN Blank ELSE @]
    /\ Goto(p, IF cmd[p].dry THEN "failed" ELSE "raise")
    /\ UNCHANGED <<lockFile, seen, robbed, disk, jobs, theirs, kills>>

(* A journal that cannot be read, or an entry that cannot be undone: recover()  *)
(* swallows the error and deletes the directory, what was saved in it included. *)
GivesUp(p) ==
    /\ pc[p] \in {"undo", "putBack"} /\ cmd[p].of # p
    /\ faults < MaxFaults /\ faults' = faults + 1
    /\ unlucky' = TRUE
    /\ Goto(p, "clear")
    /\ UNCHANGED <<lockFile, seen, robbed, disk, cmd, jobs, theirs, kills>>

Kill(p) ==
    /\ kills < MaxKills /\ pc[p] \in LockPlaces \cup WorkPlaces
    /\ kills' = kills + 1
    /\ unlucky' = (unlucky \/ Unrecorded(p))
    /\ cmd' = [cmd EXCEPT ![p] = Blank]
    /\ seen' = [seen EXCEPT ![p] = None]
    /\ Goto(p, "killed")
    /\ UNCHANGED <<lockFile, robbed, disk, jobs, theirs, faults>>

Step(p) ==
    \/ Open(p) \/ Acquire(p) \/ LetGo(p)
    \/ Recover(p) \/ Sweep(p) \/ Undo(p) \/ PutBack(p) \/ Clear(p)
    \/ Plan(p) \/ Stage(p) \/ StageFails(p) \/ Begin(p)
    \/ MoveOut(p) \/ NoteOut(p) \/ MoveIn(p) \/ NoteIn(p) \/ MoveFails(p) \/ Commit(p)
    \/ Hooks(p) \/ RolledBack(p)
    \/ SaveRecord(p) \/ SaveLock(p) \/ SaveManifest(p) \/ Finish(p) \/ FinishFails(p)
    \/ Clean(p) \/ Raises(p) \/ GivesUp(p)

Overlaps == \E p, q \in Commands : p # q /\ Working(p) /\ Working(q)

Next ==
    /\ \E p \in Commands : Step(p) \/ Kill(p)
    /\ overlap' = (overlap \/ Overlaps')

Spec == Init /\ [][Next]_vars

(* A command under way goes on; an empty lock file gets old.                    *)
FairSpec ==
    /\ Spec
    /\ \A p \in Commands :
          /\ WF_vars(pc[p] # "start" /\ Step(p) /\ overlap' = (overlap \/ Overlaps'))
          /\ SF_vars(Judge(p) /\ pc'[p] = "break" /\ Acquire(p) /\ overlap' = (overlap \/ Overlaps'))

--------------------------------------------------------------------------------
(* "Two commands working on the same project take turns": two commands that     *)
(* take the lock are at work at once only if the lock of one of them was        *)
(* deleted while it lived (which three commands can bring about), never because *)
(* both created it or one was let in beside it.                                 *)
TakeTurns ==
    \A p, q \in Commands :
        p # q /\ Working(p) /\ Working(q) /\ ~cmd[p].dry /\ ~cmd[q].dry
            => robbed \cap {p, q} # {}

(* "A failure anywhere, a script included, leaves the installed packages as     *)
(* they were", and the record, the lockfile and the manifest too.  A command    *)
(* whose download, rename or hook failed, or that refuses its plan, lets go of  *)
(* the lock ("release") with every rename it made undone.  Two things are left  *)
(* out by name: commands that were at work at once (overlap), and a failure     *)
(* that nothing catches, or in the undoing (Uncaught): those leave by "raise",  *)
(* and the promise does not hold of them (AnyFailureChangesNothing).            *)
FailureChangesNothing ==
    \A p \in Commands :
        pc[p] = "release" /\ cmd[p].failed /\ ~overlap
            => cmd[p].before = <<manifest, lockfile, record, libs>>

(* The promise as it is made, of every failure after the plan.  It does not     *)
(* hold (PackageFailure.cfg): the last write of the journal (store.zu:332),     *)
(* tree_digest() or installed.save() (sync.zu:1195-1225) may raise when the     *)
(* packages have moved, and nothing rolls them back.                            *)
AnyFailureChangesNothing ==
    \A p \in Commands :
        /\ pc[p] = "raise" \/ (pc[p] = "release" /\ cmd[p].failed)
        /\ cmd[p].before # <<>> /\ ~overlap
        => cmd[p].before = <<manifest, lockfile, record, libs>>

(* "A command killed part way is put right by the next one", as far as that is  *)
(* so, and a directory that zuri did not install is never replaced: once nobody *)
(* is at work and no directory of moves half made is left, every package is at  *)
(* the version the record says, or missing (and then installed again by the     *)
(* next restore), and what others put there is there, and still theirs.  Two    *)
(* things are left out by name: commands that were at work at once (overlap),   *)
(* and a command that was stopped, by a kill or an uncaught failure, where the  *)
(* journal tells too little (Unrecorded), or a recovery that gave up (unlucky). *)
PutRight ==
    /\ ~overlap /\ ~unlucky
    /\ \A p \in Commands : ~Working(p)
    /\ \A p \in Commands : staging[p] # None => staging[p].state # "swapping"
    => \A k \in Packages :
          IF k \in theirs THEN libs[k] = Hand /\ record[k] = None
                          ELSE libs[k] \in {None, record[k]}

(* The promise as it is made ("every move is written to a journal first, so a   *)
(* command that is killed halfway is rolled back by the next command that opens *)
(* the project", store.zu:14-16): when the next command has swept the staging   *)
(* directory and ended, .zuri/libs is what the record says.  It does not hold   *)
(* (PackageKill.cfg): a move is written to the journal after it was made, and   *)
(* the record is saved after the journal says committed.                        *)
KilledIsPutRight ==
    /\ ~overlap
    /\ \A p \in Commands : ~Working(p) /\ staging[p] = None
    /\ \E p \in Commands : pc[p] = "done"
    => \A k \in Packages : libs[k] = IF k \in theirs THEN Hand ELSE record[k]

(* Nobody waits for a lock for ever, not even for that of a killed command; and *)
(* a command that has begun ends, however much it finds to put right.           *)
EveryCommandEnds == <>[](\A p \in Commands : pc[p] \in {"start"} \cup Ended)
===============================================================================
