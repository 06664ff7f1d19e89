------------------------- MODULE SessionWriteLock ---------------------------
(***************************************************************************)
(* The write lock of one session: a lock file created exclusively, which   *)
(* the callers of one process share through HELD_LOCKS.  A contender that  *)
(* finds the file reads it, judges whether its owner is gone, and removes  *)
(* it by its path.  Every await is a step of its own, so the file that is  *)
(* removed need not be the one that was judged.                            *)
(*                                                                         *)
(* A process here is one incarnation: a restarted gateway is another one,  *)
(* possibly with a pid the system has used before.  A caller calls acquire *)
(* once, so a lock file is named by the caller that created it.  Time is   *)
(* left out except for a lock file getting older than staleMs; holds may   *)
(* last longer than that (a run's timeout is two days by default).         *)
(* Reads, stats and removals of the file may fail: a failed read counts as *)
(* one that found no payload, and a failed removal is mostly swallowed.    *)
(*                                                                         *)
(* Source: src/brain/src/agents/session-write-lock.ts.                     *)
(***************************************************************************)
EXTENDS Naturals, FiniteSets

CONSTANTS
    Proc,            \* incarnations of processes
    Caller,          \* calls of acquireSessionWriteLock
    ProcOf,          \* the process of a caller
    PidOf,           \* the pid of a process
    WithStarttime,   \* processes whose start time can be read from /proc
    Reentrant,       \* callers with allowReentrant
    Running,         \* processes that are up from the start
    Gateway,         \* processes that clean up stale lock files when they start
    Unreliable,      \* bound: callers whose lock file may be impossible to read or remove
    NoCaller

ASSUME ProcessAssumption ==
    /\ ProcOf \in [Caller -> Proc] /\ WithStarttime \subseteq Proc /\ Gateway \subseteq Proc
    /\ Running \subseteq Proc /\ \A p, r \in Running : PidOf[p] = PidOf[r] => p = r
ASSUME CallerAssumption ==
    Reentrant \subseteq Caller /\ Unreliable \subseteq Caller /\ NoCaller \notin Caller
ASSUME PidAssumption == DOMAIN PidOf = Proc

VARIABLES
    proc,      \* "new", "up" or "dead"
    file,      \* the lock file under the path
    at,        \* where a caller is in acquire or release
    hold,      \* the hold a caller was given
    saw,       \* the file a contender has read or judged
    held,      \* HELD_LOCKS of a process
    count,     \* HeldLock.count
    dog,       \* the watchdog of a process is about to remove the file
    scan,      \* where cleanStaleLockFiles is
    scanSaw,   \* the file it has read
    left,      \* history: lock files that their process could not remove
    fault      \* history: the first thing the lock does not rule out, or "none"

vars == <<proc, file, at, hold, saw, held, count, dog, scan, scanSaw, left, fault>>

(* A lock file: who created it, whether the payload is written, and        *)
(* whether it is older than staleMs.                                       *)
File == [by : Caller \cup {NoCaller}, payload : BOOLEAN, old : BOOLEAN]
NoFile == [by |-> NoCaller, payload |-> FALSE, old |-> FALSE]

Faults == {"none", "replaced", "too old", "orphan", "unwritten", "unread", "watchdog", "signal"}

(* The states of the lock.                                                 *)
TypeOK ==
    /\ proc \in [Proc -> {"new", "up", "dead"}]
    /\ file \in File
    /\ at \in [Caller -> {"idle", "open", "write", "set", "failed", "read", "inspect", "stat",
                          "reclaim", "using", "rm", "done", "threw"}]
    /\ hold \in [Caller -> Caller \cup {NoCaller}]
    /\ saw \in [Caller -> File]
    /\ held \in [Proc -> Caller \cup {NoCaller}]
    /\ count \in [Caller -> Nat]
    /\ dog \in [Proc -> BOOLEAN]
    /\ scan \in [Proc -> {"no", "list", "read", "rm", "done"}]
    /\ scanSaw \in [Proc -> File]
    /\ left \subseteq Caller
    /\ fault \in Faults

Init ==
    /\ proc = [p \in Proc |-> IF p \in Running THEN "up" ELSE "new"]
    /\ file = NoFile
    /\ at = [c \in Caller |-> "idle"]
    /\ hold = [c \in Caller |-> NoCaller]
    /\ saw = [c \in Caller |-> NoFile]
    /\ held = [p \in Proc |-> NoCaller]
    /\ count = [c \in Caller |-> 0]
    /\ dog = [p \in Proc |-> FALSE]
    /\ scan = [p \in Proc |-> IF p \in Running THEN "done" ELSE "no"]
    /\ scanSaw = [p \in Proc |-> NoFile]
    /\ left = {} /\ fault = "none"

At(c, where) == at[c] = where /\ proc[ProcOf[c]] = "up"
Goto(c, where) == at' = [at EXCEPT ![c] = where]

Users(h) == {c \in Caller : At(c, "using") /\ hold[c] = h}

(* Somebody still relies on the file h being there, or will remove it.     *)
InUse(h) ==
    \/ Users(h) # {}
    \/ At(h, "write") \/ At(h, "set") \/ At(h, "failed")
    \/ \E c \in Caller : At(c, "rm") /\ hold[c] = h

Blame(what, if) == fault' = IF if /\ fault = "none" THEN what ELSE fault

(* fs.readFile, whose errors count as a payload that is missing.           *)
Reads == {file} \cup (IF file.by \in Unreliable THEN {NoFile} ELSE {})

(* fs.rm with an error that is swallowed.                                  *)
Remove ==
    \/ file' = NoFile /\ UNCHANGED left
    \/ file.by \in Unreliable /\ left' = left \cup {file.by} /\ UNCHANGED file

-----------------------------------------------------------------------------
(* Is the owner of a lock file gone?                                       *)

isPidAlive(p) == \E r \in Proc : proc[r] = "up" /\ PidOf[r] = PidOf[p]

Recycled(p) ==
    \E r \in Proc : /\ proc[r] = "up" /\ PidOf[r] = PidOf[p]
                    /\ p \in WithStarttime /\ r \in WithStarttime /\ r # p

(* Stale for a reason other than a payload that is missing.                *)
inspectLockPayload(s) ==
    /\ s.payload
    /\ \/ ~isPidAlive(ProcOf[s.by])
       \/ Recycled(ProcOf[s.by])
       \/ s.old

shouldTreatAsOrphanSelfLock(c, s) ==
    /\ s.payload
    /\ PidOf[ProcOf[s.by]] = PidOf[ProcOf[c]]
    /\ ProcOf[s.by] \notin WithStarttime
    /\ held[ProcOf[c]] = NoCaller

-----------------------------------------------------------------------------
(* acquireSessionWriteLock.                                                *)

(* Mutant: the caller is not counted.                                      *)
AcquireShared_NotCounted(c) ==
    LET h == held[ProcOf[c]] IN
    /\ At(c, "idle") /\ c \in Reentrant /\ h # NoCaller
    /\ hold' = [hold EXCEPT ![c] = h]
    /\ Goto(c, "using")
    /\ UNCHANGED <<proc, file, saw, held, count, dog, scan, scanSaw, left, fault>>

(* A caller of a process that holds the lock shares the hold.              *)
AcquireShared(c) ==
    LET h == held[ProcOf[c]] IN
    /\ At(c, "idle") /\ c \in Reentrant /\ h # NoCaller
    /\ count' = [count EXCEPT ![h] = @ + 1]
    /\ hold' = [hold EXCEPT ![c] = h]
    /\ Goto(c, "using")
    /\ UNCHANGED <<proc, file, saw, held, dog, scan, scanSaw, left, fault>>

AcquireFile(c) ==
    /\ At(c, "idle") /\ ~(c \in Reentrant /\ held[ProcOf[c]] # NoCaller)
    /\ Goto(c, "open")
    /\ UNCHANGED <<proc, file, hold, saw, held, count, dog, scan, scanSaw, left, fault>>

(* Mutant: an existing file is opened as well.                             *)
OpenCreates_NotExclusive(c) ==
    /\ At(c, "open")
    /\ file' = [NoFile EXCEPT !.by = c]
    /\ Goto(c, "write")
    /\ UNCHANGED <<proc, hold, saw, held, count, dog, scan, scanSaw, left, fault>>

(* fs.open(lockPath, "wx").                                                *)
OpenCreates(c) ==
    /\ At(c, "open") /\ file = NoFile
    /\ file' = [NoFile EXCEPT !.by = c]
    /\ Goto(c, "write")
    /\ UNCHANGED <<proc, hold, saw, held, count, dog, scan, scanSaw, left, fault>>

OpenExists(c) ==
    /\ At(c, "open") /\ file # NoFile
    /\ Goto(c, "read")
    /\ UNCHANGED <<proc, file, hold, saw, held, count, dog, scan, scanSaw, left, fault>>

(* The time is up, the file cannot be opened for another reason, or the    *)
(* one that is stale cannot be removed.                                    *)
AcquireThrows(c) ==
    /\ At(c, "open") \/ (At(c, "reclaim") /\ file.by \in Unreliable)
    /\ saw' = [saw EXCEPT ![c] = NoFile]
    /\ Goto(c, "threw")
    /\ UNCHANGED <<proc, file, hold, held, count, dog, scan, scanSaw, left, fault>>

WritePayload(c) ==
    /\ At(c, "write")
    /\ file' = IF file.by = c THEN [file EXCEPT !.payload = TRUE] ELSE file
    /\ Goto(c, "set")
    /\ UNCHANGED <<proc, hold, saw, held, count, dog, scan, scanSaw, left, fault>>

WriteFails(c) ==
    /\ At(c, "write")
    /\ Goto(c, "failed")
    /\ UNCHANGED <<proc, file, hold, saw, held, count, dog, scan, scanSaw, left, fault>>

(* Mutant: the file of a failed write is left where it is.                 *)
RemoveFailed_LeavesFile(c) ==
    /\ At(c, "failed")
    /\ Goto(c, "threw")
    /\ UNCHANGED <<proc, file, hold, saw, held, count, dog, scan, scanSaw, left, fault>>

(* The file of a failed write is removed, and the error thrown.            *)
RemoveFailed(c) ==
    /\ At(c, "failed")
    /\ Remove
    /\ Goto(c, "threw")
    /\ UNCHANGED <<proc, hold, saw, held, count, dog, scan, scanSaw, fault>>

(* HELD_LOCKS.set, once the write has completed.                           *)
SetHeld(c) ==
    /\ At(c, "set")
    /\ held' = [held EXCEPT ![ProcOf[c]] = c]
    /\ count' = [count EXCEPT ![c] = 1]
    /\ hold' = [hold EXCEPT ![c] = c]
    /\ Goto(c, "using")
    /\ UNCHANGED <<proc, file, saw, dog, scan, scanSaw, left, fault>>

readLockPayload(c) ==
    /\ At(c, "read")
    /\ \E s \in Reads : saw' = [saw EXCEPT ![c] = s]
    /\ Goto(c, "inspect")
    /\ UNCHANGED <<proc, file, hold, held, count, dog, scan, scanSaw, left, fault>>

(* Mutant: a lock file without a payload is reclaimed at once.             *)
Inspect_NoFallback(c) ==
    /\ At(c, "inspect")
    /\ Goto(c, IF \/ ~saw[c].payload
                  \/ inspectLockPayload(saw[c]) \/ shouldTreatAsOrphanSelfLock(c, saw[c])
               THEN "reclaim" ELSE "open")
    /\ saw' = [saw EXCEPT ![c] = IF at'[c] = "reclaim" THEN saw[c] ELSE NoFile]
    /\ UNCHANGED <<proc, file, hold, held, count, dog, scan, scanSaw, left, fault>>

(* The contender sleeps and tries again, or goes on to reclaim the file.   *)
Inspect(c) ==
    /\ At(c, "inspect")
    /\ Goto(c, IF ~saw[c].payload THEN "stat"
               ELSE IF inspectLockPayload(saw[c]) \/ shouldTreatAsOrphanSelfLock(c, saw[c])
               THEN "reclaim" ELSE "open")
    /\ saw' = [saw EXCEPT ![c] = IF at'[c] = "reclaim" THEN saw[c] ELSE NoFile]
    /\ UNCHANGED <<proc, file, hold, held, count, dog, scan, scanSaw, left, fault>>

(* Mutant: a lock file without a payload is never reclaimed.               *)
StatLockFile_Never(c) ==
    /\ At(c, "stat")
    /\ saw' = [saw EXCEPT ![c] = NoFile]
    /\ Goto(c, "open")
    /\ UNCHANGED <<proc, file, hold, held, count, dog, scan, scanSaw, left, fault>>

(* shouldReclaimContendedLockFile: without a payload the age of the file   *)
(* under the path decides, which may be another one by now.                *)
StatLockFile(c) ==
    /\ At(c, "stat")
    /\ saw' = [saw EXCEPT ![c] = IF file.old THEN file ELSE NoFile]
    /\ Goto(c, IF file.old THEN "reclaim" ELSE "open")
    /\ UNCHANGED <<proc, file, hold, held, count, dog, scan, scanSaw, left, fault>>

(* An error other than ENOENT counts as old enough.                        *)
StatFails(c) ==
    /\ At(c, "stat") /\ file.by \in Unreliable
    /\ saw' = [saw EXCEPT ![c] = NoFile]
    /\ Goto(c, "reclaim")
    /\ UNCHANGED <<proc, file, hold, held, count, dog, scan, scanSaw, left, fault>>

(* Why a file is removed that is in use: none could be read when it was    *)
(* judged, it is another one than that by now, it has been there for too   *)
(* long, or, without start times, the process takes its own file for one   *)
(* of an earlier process.                                                  *)
Because(s) ==
    IF s = NoFile THEN "unread"
    ELSE IF s.by # file.by THEN "replaced"
    ELSE IF s.old THEN "too old"
    ELSE IF ProcOf[s.by] \notin WithStarttime THEN "orphan" ELSE "none"

ReclaimLockFile(c) ==
    /\ At(c, "reclaim")
    /\ file' = NoFile
    /\ Blame(Because(saw[c]), file # NoFile /\ InUse(file.by))
    /\ saw' = [saw EXCEPT ![c] = NoFile]
    /\ Goto(c, "open")
    /\ UNCHANGED <<proc, hold, held, count, dog, scan, scanSaw, left>>

-----------------------------------------------------------------------------
(* releaseHeldLock.                                                        *)

(* The last caller of the hold takes it out of HELD_LOCKS and removes the  *)
(* file.  A hold that is no longer in HELD_LOCKS is left alone.            *)
releaseHeldLock(c) ==
    LET p == ProcOf[c]
        h == hold[c]
    IN  /\ At(c, "using")
        /\ IF held[p] # h
           THEN Goto(c, "done") /\ UNCHANGED <<held, count>>
           ELSE /\ count' = [count EXCEPT ![h] = @ - 1]
                /\ IF count[h] > 1
                   THEN Goto(c, "done") /\ UNCHANGED held
                   ELSE held' = [held EXCEPT ![p] = NoCaller] /\ Goto(c, "rm")
        /\ UNCHANGED <<proc, file, hold, saw, dog, scan, scanSaw, left, fault>>

RemoveReleased(c) ==
    /\ At(c, "rm")
    /\ Remove
    /\ Goto(c, "done")
    /\ UNCHANGED <<proc, hold, saw, held, count, dog, scan, scanSaw, fault>>

(* The watchdog finds a hold that has lasted longer than maxHoldMs.        *)
runLockWatchdogCheck(p) ==
    LET h == held[p] IN
    /\ proc[p] = "up" /\ ~dog[p] /\ h # NoCaller
    /\ count' = [count EXCEPT ![h] = 0]
    /\ held' = [held EXCEPT ![p] = NoCaller]
    /\ dog' = [dog EXCEPT ![p] = TRUE]
    /\ Blame("watchdog", TRUE)
    /\ UNCHANGED <<proc, file, at, hold, saw, scan, scanSaw, left>>

WatchdogRemoves(p) ==
    /\ proc[p] = "up" /\ dog[p]
    /\ dog' = [dog EXCEPT ![p] = FALSE]
    /\ Remove
    /\ UNCHANGED <<proc, at, hold, saw, held, count, scan, scanSaw, fault>>

(* A signal that has another listener too: the process goes on (the        *)
(* gateway shuts down, and waits for its runs before it does).             *)
handleTerminationSignal(p) ==
    /\ proc[p] = "up" /\ held[p] # NoCaller
    /\ Remove
    /\ held' = [held EXCEPT ![p] = NoCaller]
    /\ Blame("signal", TRUE)
    /\ UNCHANGED <<proc, at, hold, saw, count, dog, scan, scanSaw>>

-----------------------------------------------------------------------------
(* Processes, and the time.                                                *)

Start(p) ==
    /\ proc[p] = "new" /\ ~isPidAlive(p)
    /\ proc' = [proc EXCEPT ![p] = "up"]
    /\ scan' = [scan EXCEPT ![p] = IF p \in Gateway THEN "list" ELSE "done"]
    /\ UNCHANGED <<file, at, hold, saw, held, count, dog, scanSaw, left, fault>>

(* Nothing of a process is left but the files it created.                  *)
Die(p) ==
    /\ proc' = [proc EXCEPT ![p] = "dead"]
    /\ at' = [c \in Caller |-> IF ProcOf[c] = p THEN "done" ELSE at[c]]
    /\ hold' = [c \in Caller |-> IF ProcOf[c] = p THEN NoCaller ELSE hold[c]]
    /\ saw' = [c \in Caller |-> IF ProcOf[c] = p THEN NoFile ELSE saw[c]]
    /\ count' = [c \in Caller |-> IF ProcOf[c] = p THEN 0 ELSE count[c]]
    /\ held' = [held EXCEPT ![p] = NoCaller]
    /\ dog' = [dog EXCEPT ![p] = FALSE]
    /\ scan' = [scan EXCEPT ![p] = "done"]
    /\ scanSaw' = [scanSaw EXCEPT ![p] = NoFile]
    /\ UNCHANGED fault

Exit(p) ==
    /\ proc[p] = "up"
    /\ IF held[p] # NoCaller THEN Remove ELSE UNCHANGED <<file, left>>
    /\ Die(p)

Crash(p) == proc[p] = "up" /\ Die(p) /\ UNCHANGED <<file, left>>

(* staleMs pass for the file under the path.                               *)
Age ==
    /\ file # NoFile /\ ~file.old
    /\ file' = [file EXCEPT !.old = TRUE]
    /\ UNCHANGED <<proc, at, hold, saw, held, count, dog, scan, scanSaw, left, fault>>

(* cleanStaleLockFiles.                                                    *)
ScanLists(p) ==
    /\ proc[p] = "up" /\ scan[p] = "list"
    /\ scan' = [scan EXCEPT ![p] = IF file = NoFile THEN "done" ELSE "read"]
    /\ UNCHANGED <<proc, file, at, hold, saw, held, count, dog, scanSaw, left, fault>>

(* A file without a payload is stale, however young it is, and so is one   *)
(* that is gone or cannot be read.                                         *)
ScanReads(p) ==
    /\ proc[p] = "up" /\ scan[p] = "read"
    /\ \E s \in Reads :
         IF ~s.payload \/ inspectLockPayload(s)
         THEN scan' = [scan EXCEPT ![p] = "rm"] /\ scanSaw' = [scanSaw EXCEPT ![p] = s]
         ELSE scan' = [scan EXCEPT ![p] = "done"] /\ UNCHANGED scanSaw
    /\ UNCHANGED <<proc, file, at, hold, saw, held, count, dog, left, fault>>

(* The directory cannot be listed, or the file of another session or this  *)
(* one cannot be removed, which ends the cleanup.                          *)
ScanFails(p) ==
    /\ proc[p] = "up"
    /\ scan[p] = "list" \/ (scan[p] = "rm" /\ file.by \in Unreliable)
    /\ scan' = [scan EXCEPT ![p] = "done"]
    /\ scanSaw' = [scanSaw EXCEPT ![p] = NoFile]
    /\ UNCHANGED <<proc, file, at, hold, saw, held, count, dog, left, fault>>

ScanRemoves(p) ==
    /\ proc[p] = "up" /\ scan[p] = "rm"
    /\ scan' = [scan EXCEPT ![p] = "done"]
    /\ file' = NoFile
    /\ Blame(IF file.by = scanSaw[p].by /\ ~scanSaw[p].payload THEN "unwritten" ELSE Because(scanSaw[p]),
             file # NoFile /\ InUse(file.by))
    /\ scanSaw' = [scanSaw EXCEPT ![p] = NoFile]
    /\ UNCHANGED <<proc, at, hold, saw, held, count, dog, left>>

-----------------------------------------------------------------------------
Acquiring(c) ==
    \/ AcquireShared(c) \/ AcquireFile(c) \/ OpenCreates(c) \/ OpenExists(c)
    \/ WritePayload(c) \/ WriteFails(c) \/ RemoveFailed(c) \/ SetHeld(c)
    \/ readLockPayload(c) \/ Inspect(c) \/ StatLockFile(c) \/ StatFails(c) \/ ReclaimLockFile(c)

Releasing(c) == releaseHeldLock(c) \/ RemoveReleased(c)

Next ==
    \/ \E c \in Caller : Acquiring(c) \/ AcquireThrows(c) \/ Releasing(c)
    \/ \E p \in Proc : \/ runLockWatchdogCheck(p) \/ WatchdogRemoves(p)
                       \/ handleTerminationSignal(p)
                       \/ Start(p) \/ Exit(p) \/ Crash(p)
                       \/ ScanLists(p) \/ ScanReads(p) \/ ScanFails(p) \/ ScanRemoves(p)
    \/ Age

(* Awaits complete, some with an error, callers release what they hold,    *)
(* and time passes.  No caller has to give up, and the watchdog need not   *)
(* help.                                                                   *)
Fairness ==
    /\ \A c \in Caller : WF_vars(Acquiring(c) \/ Releasing(c))
    /\ WF_vars(Age)

Spec == Init /\ [][Next]_vars
FairSpec == Spec /\ Fairness

-----------------------------------------------------------------------------
(* Correctness.                                                            *)

Lock == INSTANCE SessionLock
            WITH using <- [c \in Caller |-> IF At(c, "using") THEN hold[c] ELSE NoCaller],
                 excused <- fault # "none"

(* The lock file with its exclusive creation, re-entrant counts, release   *)
(* and reclaiming keeps the promise of the abstract lock: callers that use *)
(* the lock at the same time share a hold, until the file of a lock in use *)
(* has been removed or its hold released by force.                         *)
IsSessionLock == Lock!Spec

(* A hold in HELD_LOCKS is backed by its own lock file, until a fault.     *)
FileBacksHold ==
    \A p \in Proc : proc[p] = "up" /\ held[p] # NoCaller /\ fault = "none" => file.by = held[p]

(* The re-entrancy count of a hold in HELD_LOCKS is the number of callers  *)
(* that still use it, whatever has happened to the file.                   *)
CountMatchesUsers ==
    \A p \in Proc : proc[p] = "up" /\ held[p] # NoCaller
        => count[held[p]] = Cardinality(Users(held[p]))

(* A lock file whose process is alive is in use, or that process will      *)
(* remove it, unless it has tried to and the removal failed.               *)
LiveFileHasOwner ==
    LET p == ProcOf[file.by] IN
    file # NoFile /\ proc[p] = "up" /\ file.by \notin left =>
        \/ InUse(file.by)
        \/ \E c \in Caller : At(c, "rm") /\ ProcOf[c] = p
        \/ held[p] # NoCaller \/ dog[p]

InAcquire(c) ==
    /\ proc[ProcOf[c]] = "up"
    /\ at[c] \in {"open", "write", "set", "failed", "read", "inspect", "stat", "reclaim"}

(* Nobody is locked out for ever: what a process leaves behind when it     *)
(* dies in the middle of acquire, use or release is reclaimed, and so is   *)
(* what it could not remove.                                               *)
AcquireEnds == <>[](\A c \in Caller : ~InAcquire(c))

=============================================================================
