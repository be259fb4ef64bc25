------------------------------ MODULE CommandLock ------------------------------
(* The lock file of a project (cmds/_shared/lock.zu): created in `x` mode,      *)
(* filled with the creator's process id in a second step, read and judged by    *)
(* whoever finds it there, and deleted by its holder or by a command that takes *)
(* its holder for dead.  Every system call is a step; a process may be killed   *)
(* between two of them (PackageSync says when).                                 *)
(*                                                                              *)
(* Assumed of time: a living process fills a lock file it created before the    *)
(* file is five seconds old (_abandoned).  All commands run on one machine, and *)
(* no process id is used twice.                                                 *)
CONSTANTS Commands, None

VARIABLES
    lockFile,   \* None, or whose file it is and whether its id is written in it
    pc,         \* where each command is
    seen,       \* the holder a waiting command read in the file; None: pid 0
    robbed      \* living commands whose lock was deleted (history variable)

lockVars == <<lockFile, pc, seen, robbed>>

LockPlaces == {"try", "exists", "read", "judge", "break", "write"}
Ended == {"done", "failed", "killed"}

LockFile == [by : Commands, written : BOOLEAN]

ASSUME NoneAssumption == None \notin Commands \cup LockFile

Alive(p) == pc[p] \notin Ended          \* kill(id, 0)
Goto(p, place) == pc' = [pc EXCEPT ![p] = place]

LockTypeOK ==
    /\ lockFile \in LockFile \cup {None}
    /\ seen \in [Commands -> Commands \cup {None}]
    /\ robbed \subseteq Commands

LockInit ==
    /\ lockFile = None
    /\ pc = [p \in Commands |-> "start"]
    /\ seen = [p \in Commands |-> None]
    /\ robbed = {}

--------------------------------------------------------------------------------
(* Seeded bug: the file is opened in `w` mode.                                  *)
TryOverwrite(p) ==
    /\ pc[p] = "try"
    /\ lockFile' = [by |-> p, written |-> FALSE] /\ Goto(p, "write")
    /\ UNCHANGED <<seen, robbed>>

Try(p) ==
    /\ pc[p] = "try"
    /\ \/ lockFile = None /\ lockFile' = [by |-> p, written |-> FALSE] /\ Goto(p, "write")
       \/ lockFile # None /\ UNCHANGED lockFile /\ Goto(p, "exists")
    /\ UNCHANGED <<seen, robbed>>

(* The create failed.  If the file is gone by now, that was not because        *)
(* somebody holds the lock, and the command gives up.                           *)
Exists(p) ==
    /\ pc[p] = "exists"
    /\ Goto(p, IF lockFile = None THEN "failed" ELSE "read")
    /\ UNCHANGED <<lockFile, seen, robbed>>

Read(p) ==
    /\ pc[p] = "read"
    /\ seen' = [seen EXCEPT ![p] = IF lockFile # None /\ lockFile.written
                                   THEN lockFile.by ELSE None]
    /\ Goto(p, "judge")
    /\ UNCHANGED <<lockFile, robbed>>

(* An empty file is stale if it is old, or gone: nobody is about to write it.   *)
Abandoned == lockFile # None => ~Alive(lockFile.by)

(* Seeded bug: a lock is only broken when it says nothing.                      *)
JudgeTrusting(p) ==
    /\ pc[p] = "judge"
    /\ seen' = [seen EXCEPT ![p] = None]
    /\ \/ seen[p] = None /\ Abandoned /\ Goto(p, "break")
       \/ (seen[p] = None => lockFile # None) /\ Goto(p, "try")
    /\ UNCHANGED <<lockFile, robbed>>

(* What acquire() makes of the holder it read: stale; or to be waited for,      *)
(* which ends in a LockError when the time is up.                               *)
Judge(p) ==
    /\ pc[p] = "judge"
    /\ seen' = [seen EXCEPT ![p] = None]
    /\ \/ seen[p] = None /\ Abandoned /\ Goto(p, "break")
       \/ seen[p] = None /\ lockFile # None /\ Goto(p, "try")
       \/ seen[p] # None /\ ~Alive(seen[p]) /\ Goto(p, "break")
       \/ seen[p] # None /\ Alive(seen[p]) /\ (Goto(p, "try") \/ Goto(p, "failed"))
    /\ UNCHANGED <<lockFile, robbed>>

(* Deletes the file that is there now, whoever's it is.                         *)
Break(p) ==
    /\ pc[p] = "break"
    /\ lockFile' = None
    /\ robbed' = IF lockFile # None /\ Alive(lockFile.by)
                 THEN robbed \cup {lockFile.by} ELSE robbed
    /\ Goto(p, "try")
    /\ UNCHANGED seen

(* The holder writes its id, to a file that may be gone from the directory.     *)
Write(p) ==
    /\ pc[p] = "write"
    /\ lockFile' = IF lockFile # None /\ lockFile.by = p
                   THEN [lockFile EXCEPT !.written = TRUE] ELSE lockFile
    /\ Goto(p, "recover")
    /\ UNCHANGED <<seen, robbed>>

(* release(), too, deletes what is there; holding() calls it as well when the   *)
(* body raises.                                                                 *)
Release(p, end) ==
    /\ pc[p] \in {"release", "raise"}
    /\ lockFile' = None
    /\ robbed' = IF lockFile # None /\ lockFile.by # p /\ Alive(lockFile.by)
                 THEN robbed \cup {lockFile.by} ELSE robbed
    /\ Goto(p, end)
    /\ UNCHANGED seen

Wait(p) == Try(p) \/ Exists(p) \/ Read(p) \/ Judge(p) \/ Break(p)
================================================================================
