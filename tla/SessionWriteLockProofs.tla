----------------------- MODULE SessionWriteLockProofs -----------------------
(***************************************************************************)
(* Theorems about the session write lock, for any processes, callers and   *)
(* pids: the lock file backs the hold, counts are right, files have        *)
(* owners, and the protocol implements the abstract lock.                  *)
(***************************************************************************)
EXTENDS SessionWriteLock, FiniteSetTheorems, TLAPS

(* Where a caller is once it has been given a hold.                        *)
Given == {"using", "rm", "done"}

(* Only processes that are up do anything, and their pids differ.          *)
ProcInv ==
    /\ \A c \in Caller : at[c] \notin {"idle", "done"} => proc[ProcOf[c]] = "up"
    /\ \A p \in Proc : held[p] # NoCaller => proc[p] = "up"
    /\ \A p, r \in Proc : proc[p] = "up" /\ proc[r] = "up" /\ PidOf[p] = PidOf[r] => p = r

(* A hold belongs to one process and was made by a caller that had it.     *)
HoldInv ==
    /\ \A c \in Caller : hold[c] # NoCaller => /\ ProcOf[hold[c]] = ProcOf[c]
                                               /\ at[hold[c]] \in Given /\ at[c] \in Given
    /\ \A c \in Caller : at[c] \in {"using", "rm"} => hold[c] # NoCaller
    /\ \A p \in Proc : held[p] # NoCaller => ProcOf[held[p]] = p /\ at[held[p]] \in Given

(* The users of the hold h, where callers are at a and have the holds o.   *)
UsersOf(a, o, h) == {c \in Caller : a[c] = "using" /\ o[c] = h}

(* HELD_LOCKS counts the users of a hold, and has no hold without users.   *)
CountInv ==
    /\ \A h \in Caller : IsFiniteSet(UsersOf(at, hold, h))
    /\ \A p \in Proc : held[p] # NoCaller => /\ count[held[p]] = Cardinality(UsersOf(at, hold, held[p]))
                                             /\ UsersOf(at, hold, held[p]) # {}

(* A file has a creator, and that process has been started.                *)
Made(f) ==
    /\ f.by = NoCaller => f = NoFile
    /\ f.by # NoCaller => proc[ProcOf[f.by]] # "new"

FileInv == Made(file) /\ \A c \in Caller : Made(saw[c])

(* What a file has been judged by, if it could be read.                    *)
Judged(s) ==
    \/ s = NoFile
    \/ s.old
    \/ s.by \in Caller /\ (ProcOf[s.by] \notin WithStarttime \/ proc[ProcOf[s.by]] = "dead")

JudgedInv ==
    /\ \A c \in Caller : at[c] = "reclaim" => Judged(saw[c])
    /\ \A p \in Proc : scan[p] = "rm" => ~scanSaw[p].payload \/ Judged(scanSaw[p])

(* While nothing has gone wrong, whoever writes, uses or removes the file  *)
(* has the one that is there.                                              *)
ExclusiveInv ==
    fault = "none" =>
        /\ \A c \in Caller : at[c] \in {"write", "set", "failed"} => file.by = c
        /\ \A c \in Caller : at[c] = "rm" =>
              /\ file.by = hold[c]
              /\ \A d \in Caller : at[d] \in {"using", "rm"} /\ hold[d] = hold[c] => d = c
        /\ \A c \in Caller : at[c] = "using" => held[ProcOf[c]] = hold[c]
        /\ \A p \in Proc : (held[p] # NoCaller => file.by = held[p]) /\ ~dog[p]

(* The process that made the file will remove it, or has tried to.         *)
OwnerInv ==
    file.by # NoCaller /\ proc[ProcOf[file.by]] = "up" /\ file.by \notin left =>
        \/ at[file.by] \in {"write", "set", "failed"}
        \/ \E c \in Caller : at[c] = "rm" /\ ProcOf[c] = ProcOf[file.by]
        \/ held[ProcOf[file.by]] # NoCaller \/ dog[ProcOf[file.by]]

IInv == /\ TypeOK /\ ProcInv /\ HoldInv /\ CountInv
        /\ FileInv /\ JudgedInv /\ ExclusiveInv /\ OwnerInv

-----------------------------------------------------------------------------
(* Types.                                                                  *)

LEMMA FileFacts ==
    /\ NoFile \in File /\ NoFile.by = NoCaller /\ ~NoFile.payload /\ ~NoFile.old
    /\ \A c \in Caller : [NoFile EXCEPT !.by = c] \in File
    /\ \A f \in File : [f EXCEPT !.payload = TRUE] \in File /\ [f EXCEPT !.old = TRUE] \in File
BY DEF NoFile, File

LEMMA RemoveFacts ==
    ASSUME TypeOK, Remove
    PROVE  /\ file' \in {file, NoFile} /\ file' \in File /\ left' \subseteq Caller
           /\ file' = NoFile \/ file.by \in left'
BY FileFacts, CallerAssumption DEF Remove, TypeOK

LEMMA ReadsFacts == ASSUME TypeOK PROVE Reads \subseteq {file, NoFile} /\ Reads \subseteq File
BY FileFacts DEF Reads, TypeOK

(* A hold in HELD_LOCKS has been counted.                                  *)
LEMMA HeldCounted ==
    ASSUME CountInv, NEW p \in Proc, held[p] \in Caller
    PROVE  count[held[p]] \in Nat \ {0} /\ count[held[p]] = Cardinality(UsersOf(at, hold, held[p]))
<1>1. /\ IsFiniteSet(UsersOf(at, hold, held[p])) /\ UsersOf(at, hold, held[p]) # {}
      /\ count[held[p]] = Cardinality(UsersOf(at, hold, held[p]))
  BY CallerAssumption DEF CountInv
<1> QED
  BY <1>1, FS_CardinalityType, FS_EmptySet

LEMMA TypeStep == TypeOK /\ HoldInv /\ CountInv /\ [Next]_vars => TypeOK'
<1> SUFFICES ASSUME TypeOK, HoldInv, CountInv, [Next]_vars PROVE TypeOK'
  OBVIOUS
<1> USE FileFacts, ProcessAssumption DEF TypeOK, At, Goto
<1>1. ASSUME NEW c \in Caller, AcquireShared(c) \/ AcquireFile(c) \/ OpenExists(c) \/ AcquireThrows(c)
      PROVE  TypeOK'
  BY <1>1 DEF AcquireShared, AcquireFile, OpenExists, AcquireThrows
<1>2. ASSUME NEW c \in Caller, OpenCreates(c) \/ WritePayload(c) \/ WriteFails(c) \/ RemoveFailed(c)
      PROVE  TypeOK'
  <2>1. CASE OpenCreates(c)
    BY <2>1 DEF OpenCreates
  <2>2. CASE WritePayload(c)
    BY <2>2 DEF WritePayload
  <2>3. CASE WriteFails(c) \/ RemoveFailed(c)
    BY <2>3, RemoveFacts DEF WriteFails, RemoveFailed
  <2> QED
    BY <1>2, <2>1, <2>2, <2>3
<1>3. ASSUME NEW c \in Caller, SetHeld(c) PROVE TypeOK'
  BY <1>3 DEF SetHeld
<1>4. ASSUME NEW c \in Caller, readLockPayload(c) \/ Inspect(c) \/ StatLockFile(c) \/ StatFails(c)
      PROVE  TypeOK'
  <2>1. CASE readLockPayload(c)
    BY <2>1, ReadsFacts DEF readLockPayload
  <2>2. CASE Inspect(c)
    BY <2>2 DEF Inspect
  <2>3. CASE StatLockFile(c) \/ StatFails(c)
    BY <2>3 DEF StatLockFile, StatFails
  <2> QED
    BY <1>4, <2>1, <2>2, <2>3
<1>5. ASSUME NEW c \in Caller, ReclaimLockFile(c) PROVE TypeOK'
  <2>1. fault' \in Faults
    BY <1>5 DEF ReclaimLockFile, Blame, Because, Faults
  <2> QED
    BY <1>5, <2>1 DEF ReclaimLockFile
<1>6. ASSUME NEW c \in Caller, releaseHeldLock(c) PROVE TypeOK'
  <2>1. hold[c] \in Caller
    BY <1>6 DEF releaseHeldLock, HoldInv
  <2>2. held[ProcOf[c]] = hold[c] => count[hold[c]] \in Nat \ {0}
    BY <2>1, HeldCounted
  <2>3. count' \in [Caller -> Nat]
    <3>1. CASE held[ProcOf[c]] = hold[c]
      <4>1. count' = [count EXCEPT ![hold[c]] = count[hold[c]] - 1]
        BY <1>6, <3>1 DEF releaseHeldLock
      <4>2. count[hold[c]] - 1 \in Nat
        BY <2>2, <3>1
      <4> QED
        BY <4>1, <4>2
    <3>2. CASE held[ProcOf[c]] # hold[c]
      BY <1>6, <3>2 DEF releaseHeldLock
    <3> QED
      BY <3>1, <3>2
  <2> QED
    BY <1>6, <2>3 DEF releaseHeldLock
<1>7. ASSUME NEW c \in Caller, RemoveReleased(c) PROVE TypeOK'
  BY <1>7, RemoveFacts DEF RemoveReleased
<1>8. ASSUME NEW p \in Proc, runLockWatchdogCheck(p) PROVE TypeOK'
  BY <1>8 DEF runLockWatchdogCheck, Blame, Faults
<1>9. ASSUME NEW p \in Proc, WatchdogRemoves(p) \/ handleTerminationSignal(p) PROVE TypeOK'
  BY <1>9, RemoveFacts DEF WatchdogRemoves, handleTerminationSignal, Blame, Faults
<1>10. ASSUME NEW p \in Proc, Start(p) PROVE TypeOK'
  BY <1>10 DEF Start
<1>11. ASSUME NEW p \in Proc, Exit(p) \/ Crash(p) PROVE TypeOK'
  <2>1. file' \in File /\ left' \subseteq Caller /\ fault' = fault
    BY <1>11, RemoveFacts DEF Exit, Crash, Die
  <2>2. at' \in [Caller -> {"idle", "open", "write", "set", "failed", "read", "inspect", "stat",
                            "reclaim", "using", "rm", "done", "threw"}]
    BY <1>11 DEF Exit, Crash, Die
  <2>3. /\ hold' \in [Caller -> Caller \cup {NoCaller}] /\ saw' \in [Caller -> File]
        /\ count' \in [Caller -> Nat]
    BY <1>11 DEF Exit, Crash, Die
  <2>4. proc' \in [Proc -> {"new", "up", "dead"}] /\ held' \in [Proc -> Caller \cup {NoCaller}]
    BY <1>11 DEF Exit, Crash, Die
  <2>5. dog' \in [Proc -> BOOLEAN]
    BY <1>11 DEF Exit, Crash, Die
  <2>6. /\ scan' \in [Proc -> {"no", "list", "read", "rm", "done"}]
        /\ scanSaw' \in [Proc -> File]
    BY <1>11 DEF Exit, Crash, Die
  <2> QED
    BY <2>1, <2>2, <2>3, <2>4, <2>5, <2>6, SMTT(60)
<1>12. ASSUME NEW p \in Proc, ScanLists(p) \/ ScanReads(p) \/ ScanFails(p) PROVE TypeOK'
  <2>1. CASE ScanReads(p)
    BY <2>1, ReadsFacts DEF ScanReads
  <2>2. CASE ScanLists(p) \/ ScanFails(p)
    BY <2>2 DEF ScanLists, ScanFails
  <2> QED
    BY <1>12, <2>1, <2>2
<1>13. ASSUME NEW p \in Proc, ScanRemoves(p) PROVE TypeOK'
  <2>1. fault' \in Faults
    BY <1>13 DEF ScanRemoves, Blame, Because, Faults
  <2> QED
    BY <1>13, <2>1 DEF ScanRemoves
<1>14. CASE Age \/ UNCHANGED vars
  BY <1>14 DEF Age, vars
<1> QED
  BY <1>1, <1>2, <1>3, <1>4, <1>5, <1>6, <1>7, <1>8, <1>9, <1>10, <1>11, <1>12, <1>13, <1>14
     DEF Next, Acquiring, Releasing

-----------------------------------------------------------------------------
(* Processes.                                                              *)
LEMMA ProcStep == TypeOK /\ ProcInv /\ [Next]_vars => ProcInv'
<1> SUFFICES ASSUME TypeOK, ProcInv, [Next]_vars PROVE ProcInv'
  OBVIOUS
<1> USE ProcessAssumption, CallerAssumption DEF TypeOK, ProcInv, At, Goto
<1>1. ASSUME NEW c \in Caller,
             \/ AcquireShared(c) \/ AcquireFile(c) \/ OpenExists(c) \/ AcquireThrows(c)
             \/ OpenCreates(c) \/ WritePayload(c) \/ WriteFails(c) \/ RemoveFailed(c)
             \/ readLockPayload(c) \/ Inspect(c) \/ StatLockFile(c) \/ StatFails(c) \/ ReclaimLockFile(c)
             \/ RemoveReleased(c)
      PROVE  ProcInv'
  BY <1>1 DEF AcquireShared, AcquireFile, OpenExists, AcquireThrows, OpenCreates, WritePayload,
              WriteFails, RemoveFailed, readLockPayload, Inspect, StatLockFile, StatFails,
              ReclaimLockFile, RemoveReleased
<1>2. ASSUME NEW c \in Caller, SetHeld(c) \/ releaseHeldLock(c) PROVE ProcInv'
  BY <1>2 DEF SetHeld, releaseHeldLock
<1>3. ASSUME NEW p \in Proc, \/ runLockWatchdogCheck(p) \/ WatchdogRemoves(p)
                             \/ handleTerminationSignal(p)
                             \/ ScanLists(p) \/ ScanReads(p) \/ ScanFails(p) \/ ScanRemoves(p)
      PROVE  ProcInv'
  BY <1>3 DEF runLockWatchdogCheck, WatchdogRemoves, handleTerminationSignal,
              ScanLists, ScanReads, ScanFails, ScanRemoves
<1>4. ASSUME NEW p \in Proc, Start(p) PROVE ProcInv'
  BY <1>4 DEF Start, isPidAlive
<1>5. ASSUME NEW p \in Proc, Exit(p) \/ Crash(p) PROVE ProcInv'
  BY <1>5 DEF Exit, Crash, Die
<1>6. CASE Age \/ UNCHANGED vars
  BY <1>6 DEF Age, vars
<1> QED
  BY <1>1, <1>2, <1>3, <1>4, <1>5, <1>6 DEF Next, Acquiring, Releasing

-----------------------------------------------------------------------------
(* Holds.                                                                  *)
LEMMA HoldStep == TypeOK /\ ProcInv /\ HoldInv /\ [Next]_vars => HoldInv'
<1> SUFFICES ASSUME TypeOK, ProcInv, HoldInv, [Next]_vars PROVE HoldInv'
  OBVIOUS
<1> USE ProcessAssumption, CallerAssumption DEF TypeOK, HoldInv, At, Goto, Given
<1>1. ASSUME NEW c \in Caller,
             \/ AcquireFile(c) \/ OpenExists(c) \/ AcquireThrows(c)
             \/ OpenCreates(c) \/ WritePayload(c) \/ WriteFails(c) \/ RemoveFailed(c)
             \/ readLockPayload(c) \/ Inspect(c) \/ StatLockFile(c) \/ StatFails(c) \/ ReclaimLockFile(c)
             \/ RemoveReleased(c)
      PROVE  HoldInv'
  BY <1>1 DEF AcquireFile, OpenExists, AcquireThrows, OpenCreates, WritePayload,
              WriteFails, RemoveFailed, readLockPayload, Inspect, StatLockFile, StatFails,
              ReclaimLockFile, RemoveReleased
<1>2. ASSUME NEW c \in Caller, AcquireShared(c) PROVE HoldInv'
  BY <1>2 DEF AcquireShared
<1>3. ASSUME NEW c \in Caller, SetHeld(c) PROVE HoldInv'
  BY <1>3 DEF SetHeld
<1>4. ASSUME NEW c \in Caller, releaseHeldLock(c) PROVE HoldInv'
  BY <1>4 DEF releaseHeldLock
<1>5. ASSUME NEW p \in Proc, runLockWatchdogCheck(p) \/ handleTerminationSignal(p)
      PROVE  HoldInv'
  <2>1. UNCHANGED <<at, hold>> /\ held' = [held EXCEPT ![p] = NoCaller]
    BY <1>5 DEF runLockWatchdogCheck, handleTerminationSignal
  <2> QED
    BY <2>1
<1>6. ASSUME UNCHANGED <<at, hold, held>> PROVE HoldInv'
  BY <1>6
<1>7. ASSUME NEW p \in Proc, \/ WatchdogRemoves(p) \/ Start(p)
                             \/ ScanLists(p) \/ ScanReads(p) \/ ScanFails(p) \/ ScanRemoves(p)
      PROVE  HoldInv'
  BY <1>6, <1>7 DEF WatchdogRemoves, Start, ScanLists, ScanReads, ScanFails, ScanRemoves
<1>8. ASSUME NEW p \in Proc, Exit(p) \/ Crash(p) PROVE HoldInv'
  BY <1>8 DEF Exit, Crash, Die
<1>9. CASE Age \/ UNCHANGED vars
  BY <1>9 DEF Age, vars
<1> QED
  BY <1>1, <1>2, <1>3, <1>4, <1>5, <1>8, <1>9, <1>7 DEF Next, Acquiring, Releasing

-----------------------------------------------------------------------------
(* Counts.                                                                 *)

(* A caller that uses a hold belongs to a process that is up, the one of   *)
(* the hold.                                                               *)
LEMMA UserFacts ==
    ASSUME ProcInv, HoldInv, NEW h \in Caller
    PROVE  /\ Users(h) = UsersOf(at, hold, h)
           /\ \A c \in Users(h) : ProcOf[c] = ProcOf[h]
<1>1. \A c \in Caller : at[c] = "using" => proc[ProcOf[c]] = "up"
  BY DEF ProcInv
<1> QED
  BY <1>1, CallerAssumption DEF Users, UsersOf, At, HoldInv

(* Nobody uses a hold anew or stops using it.                              *)
LEMMA CountKept ==
    ASSUME TypeOK, CountInv,
           \A c \in Caller : /\ at'[c] = "using" <=> at[c] = "using"
                             /\ hold'[c] = hold[c],
           \A p \in Proc : held'[p] # NoCaller => /\ held'[p] = held[p]
                                                  /\ count'[held[p]] = count[held[p]]
    PROVE  CountInv'
<1>1. \A h \in Caller : UsersOf(at', hold', h) = UsersOf(at, hold, h)
  BY DEF UsersOf
<1>2. \A p \in Proc : held[p] \in Caller \cup {NoCaller}
  BY DEF TypeOK
<1> QED
  BY <1>1, <1>2 DEF CountInv

LEMMA CountStep == TypeOK /\ HoldInv /\ CountInv /\ [Next]_vars => CountInv'
<1> SUFFICES ASSUME TypeOK, HoldInv, CountInv, [Next]_vars PROVE CountInv'
  OBVIOUS
<1> USE ProcessAssumption, CallerAssumption DEF At, Goto
<1>0. /\ at \in [Caller -> {"idle", "open", "write", "set", "failed", "read", "inspect", "stat",
                            "reclaim", "using", "rm", "done", "threw"}]
      /\ hold \in [Caller -> Caller \cup {NoCaller}]
      /\ held \in [Proc -> Caller \cup {NoCaller}]
      /\ count \in [Caller -> Nat]
  BY DEF TypeOK
<1>1. ASSUME NEW c \in Caller,
             \/ AcquireFile(c) \/ OpenExists(c) \/ AcquireThrows(c)
             \/ OpenCreates(c) \/ WritePayload(c) \/ WriteFails(c) \/ RemoveFailed(c)
             \/ readLockPayload(c) \/ Inspect(c) \/ StatLockFile(c) \/ StatFails(c) \/ ReclaimLockFile(c)
             \/ RemoveReleased(c)
      PROVE  CountInv'
  <2>1. /\ at[c] # "using" /\ UNCHANGED <<hold, held, count>>
        /\ \E w \in {"open", "read", "threw", "write", "set", "failed", "inspect", "stat",
                     "reclaim", "done"} : at' = [at EXCEPT ![c] = w]
    BY <1>1 DEF AcquireFile, OpenExists, AcquireThrows, OpenCreates, WritePayload, WriteFails,
                RemoveFailed, readLockPayload, Inspect, StatLockFile, StatFails, ReclaimLockFile,
                RemoveReleased
  <2>2. \A d \in Caller : at'[d] = "using" <=> at[d] = "using"
    BY <1>0, <2>1
  <2> QED
    BY <2>1, <2>2, CountKept
<1>2. ASSUME NEW c \in Caller, AcquireShared(c) PROVE CountInv'
  <2> DEFINE h == held[ProcOf[c]]
  <2>1. /\ h \in Caller /\ at[c] = "idle" /\ held' = held
        /\ at' = [at EXCEPT ![c] = "using"] /\ hold' = [hold EXCEPT ![c] = h]
        /\ count' = [count EXCEPT ![h] = count[h] + 1]
    BY <1>0, <1>2 DEF AcquireShared
  <2>2. c \notin UsersOf(at, hold, h) /\ UsersOf(at', hold', h) = UsersOf(at, hold, h) \cup {c}
    BY <1>0, <2>1 DEF UsersOf
  <2>3. /\ IsFiniteSet(UsersOf(at', hold', h)) /\ UsersOf(at', hold', h) # {}
        /\ Cardinality(UsersOf(at', hold', h)) = Cardinality(UsersOf(at, hold, h)) + 1
    <3>1. IsFiniteSet(UsersOf(at, hold, h))
      BY <2>1 DEF CountInv
    <3> QED
      BY <2>2, <3>1, FS_AddElement
  <2>4. \A g \in Caller \ {h} : UsersOf(at', hold', g) = UsersOf(at, hold, g)
    BY <1>0, <2>1 DEF UsersOf, HoldInv, Given
  <2>5. \A p \in Proc : held[p] = h => p = ProcOf[c]
    BY <2>1 DEF HoldInv
  <2>6. count[h] = Cardinality(UsersOf(at, hold, h))
    BY <2>1, HeldCounted
  <2>7. ASSUME NEW p \in Proc, held'[p] # NoCaller
        PROVE  /\ count'[held'[p]] = Cardinality(UsersOf(at', hold', held'[p]))
               /\ UsersOf(at', hold', held'[p]) # {}
    <3>1. CASE held[p] = h
      BY <1>0, <2>1, <2>3, <2>6, <3>1
    <3>2. CASE held[p] # h
      <4>1. held[p] \in Caller \ {h} /\ held'[p] = held[p]
        BY <1>0, <2>1, <2>7, <3>2
      <4>2. count'[held[p]] = count[held[p]]
        BY <1>0, <2>1, <4>1
      <4> QED
        BY <2>4, <4>1, <4>2 DEF CountInv
    <3> QED
      BY <3>1, <3>2
  <2>8. \A g \in Caller : IsFiniteSet(UsersOf(at', hold', g))
    BY <2>3, <2>4 DEF CountInv
  <2> QED
    BY <2>7, <2>8 DEF CountInv
<1>3. ASSUME NEW c \in Caller, SetHeld(c) PROVE CountInv'
  <2>1. /\ at[c] = "set"
        /\ held' = [held EXCEPT ![ProcOf[c]] = c]
        /\ at' = [at EXCEPT ![c] = "using"] /\ hold' = [hold EXCEPT ![c] = c]
        /\ count' = [count EXCEPT ![c] = 1]
    BY <1>3 DEF SetHeld
  <2>2. \A d \in Caller : hold[d] # c
    BY <2>1 DEF HoldInv, Given
  <2>3. UsersOf(at', hold', c) = {c}
    BY <1>0, <2>1, <2>2 DEF UsersOf
  <2>4. IsFiniteSet({c}) /\ Cardinality({c}) = 1
    BY FS_Singleton
  <2>5. \A g \in Caller \ {c} : UsersOf(at', hold', g) = UsersOf(at, hold, g)
    BY <1>0, <2>1 DEF UsersOf
  <2>6. \A p \in Proc : held[p] # c
    BY <2>1 DEF HoldInv, Given
  <2>7. ASSUME NEW p \in Proc, held'[p] # NoCaller
        PROVE  /\ count'[held'[p]] = Cardinality(UsersOf(at', hold', held'[p]))
               /\ UsersOf(at', hold', held'[p]) # {}
    <3>1. CASE p = ProcOf[c]
      BY <1>0, <2>1, <2>3, <2>4, <3>1
    <3>2. CASE p # ProcOf[c]
      <4>1. held'[p] = held[p] /\ held[p] \in Caller \ {c}
        BY <1>0, <2>1, <2>6, <2>7, <3>2
      <4>2. count'[held[p]] = count[held[p]]
        BY <1>0, <2>1, <4>1
      <4> QED
        BY <2>5, <4>1, <4>2 DEF CountInv
    <3> QED
      BY <3>1, <3>2
  <2>8. \A g \in Caller : IsFiniteSet(UsersOf(at', hold', g))
    BY <2>3, <2>4, <2>5 DEF CountInv
  <2> QED
    BY <2>7, <2>8 DEF CountInv
<1>4. ASSUME NEW c \in Caller, releaseHeldLock(c) PROVE CountInv'
  <2> DEFINE h == hold[c]
  <2>1. /\ at[c] = "using" /\ h \in Caller /\ ProcOf[h] = ProcOf[c] /\ hold' = hold
        /\ \E w \in {"done", "rm"} : at' = [at EXCEPT ![c] = w]
    BY <1>0, <1>4 DEF releaseHeldLock, HoldInv
  <2>2. c \in UsersOf(at, hold, h) /\ UsersOf(at', hold', h) = UsersOf(at, hold, h) \ {c}
    BY <1>0, <2>1 DEF UsersOf
  <2>3. \A g \in Caller \ {h} : UsersOf(at', hold', g) = UsersOf(at, hold, g)
    BY <1>0, <2>1 DEF UsersOf
  <2>4. /\ IsFiniteSet(UsersOf(at', hold', h))
        /\ Cardinality(UsersOf(at', hold', h)) = Cardinality(UsersOf(at, hold, h)) - 1
    <3>1. IsFiniteSet(UsersOf(at, hold, h))
      BY <2>1 DEF CountInv
    <3> QED
      BY <2>2, <3>1, FS_RemoveElement
  <2>5. \A g \in Caller : IsFiniteSet(UsersOf(at', hold', g))
    BY <2>3, <2>4 DEF CountInv
  <2>6. \A p \in Proc : held[p] = h => p = ProcOf[c]
    BY <2>1 DEF HoldInv
  <2>7. ASSUME NEW p \in Proc, held'[p] # NoCaller
        PROVE  /\ count'[held'[p]] = Cardinality(UsersOf(at', hold', held'[p]))
               /\ UsersOf(at', hold', held'[p]) # {}
    <3>1. held'[p] = held[p]
      BY <1>0, <1>4, <2>7 DEF releaseHeldLock
    <3>2. CASE held[p] # h
      <4>1. count'[held[p]] = count[held[p]] /\ held[p] \in Caller \ {h}
        BY <1>0, <1>4, <2>7, <3>1, <3>2 DEF releaseHeldLock
      <4> QED
        BY <2>3, <2>7, <3>1, <4>1 DEF CountInv
    <3>3. CASE held[p] = h
      <4>1. held[ProcOf[c]] = h /\ held'[ProcOf[c]] # NoCaller
        BY <2>6, <2>7, <3>3
      <4>2. count[h] > 1 /\ count' = [count EXCEPT ![h] = count[h] - 1]
        BY <1>0, <1>4, <4>1 DEF releaseHeldLock
      <4>3. count[h] = Cardinality(UsersOf(at, hold, h))
        BY <2>1, <4>1, HeldCounted
      <4>4. count'[h] = Cardinality(UsersOf(at', hold', h)) /\ Cardinality(UsersOf(at', hold', h)) # 0
        BY <1>0, <2>1, <2>4, <4>2, <4>3
      <4> QED
        BY <3>1, <3>3, <4>4, FS_EmptySet
    <3> QED
      BY <3>2, <3>3
  <2> QED
    BY <2>5, <2>7 DEF CountInv
<1>5. ASSUME NEW p \in Proc, runLockWatchdogCheck(p) PROVE CountInv'
  <2>1. /\ UNCHANGED <<at, hold>> /\ held' = [held EXCEPT ![p] = NoCaller] /\ held[p] \in Caller
        /\ count' = [count EXCEPT ![held[p]] = 0]
    BY <1>0, <1>5 DEF runLockWatchdogCheck
  <2>2. \A q \in Proc : held[q] = held[p] => q = p
    BY <2>1 DEF HoldInv
  <2>3. \A q \in Proc : held'[q] # NoCaller => held'[q] = held[q] /\ count'[held[q]] = count[held[q]]
    BY <1>0, <2>1, <2>2
  <2> QED
    BY <2>1, <2>3, CountKept
<1>6. ASSUME NEW p \in Proc, handleTerminationSignal(p) PROVE CountInv'
  <2>1. UNCHANGED <<at, hold, count>> /\ held' = [held EXCEPT ![p] = NoCaller]
    BY <1>6 DEF handleTerminationSignal
  <2>2. \A q \in Proc : held'[q] # NoCaller => held'[q] = held[q]
    BY <1>0, <2>1
  <2> QED
    BY <2>1, <2>2, CountKept
<1>7. CASE UNCHANGED <<at, hold, held, count>>
  BY <1>7, CountKept
<1>8. ASSUME NEW p \in Proc, \/ WatchdogRemoves(p) \/ Start(p)
                             \/ ScanLists(p) \/ ScanReads(p) \/ ScanFails(p) \/ ScanRemoves(p)
      PROVE  CountInv'
  BY <1>7, <1>8 DEF WatchdogRemoves, Start, ScanLists, ScanReads, ScanFails, ScanRemoves
<1>9. ASSUME NEW p \in Proc, Exit(p) \/ Crash(p) PROVE CountInv'
  <2>1. /\ at' = [c \in Caller |-> IF ProcOf[c] = p THEN "done" ELSE at[c]]
        /\ hold' = [c \in Caller |-> IF ProcOf[c] = p THEN NoCaller ELSE hold[c]]
        /\ count' = [c \in Caller |-> IF ProcOf[c] = p THEN 0 ELSE count[c]]
        /\ held' = [held EXCEPT ![p] = NoCaller]
    BY <1>9 DEF Exit, Crash, Die
  <2>2. \A h \in Caller : UsersOf(at', hold', h) \subseteq UsersOf(at, hold, h)
    BY <1>0, <2>1 DEF UsersOf
  <2>3. \A h \in Caller : IsFiniteSet(UsersOf(at', hold', h))
    BY <2>2, FS_Subset DEF CountInv
  <2>4. ASSUME NEW q \in Proc, held'[q] # NoCaller
        PROVE  /\ count'[held'[q]] = Cardinality(UsersOf(at', hold', held'[q]))
               /\ UsersOf(at', hold', held'[q]) # {}
    <3>1. q # p /\ held'[q] = held[q] /\ held[q] \in Caller /\ ProcOf[held[q]] = q
      BY <1>0, <2>1, <2>4 DEF HoldInv
    <3>2. UsersOf(at', hold', held[q]) = UsersOf(at, hold, held[q])
      <4>1. \A c \in UsersOf(at, hold, held[q]) : ProcOf[c] # p
        BY <3>1 DEF UsersOf, HoldInv
      <4> QED
        BY <1>0, <2>1, <2>2, <3>1, <4>1 DEF UsersOf
    <3>3. count'[held[q]] = count[held[q]]
      BY <2>1, <3>1
    <3> QED
      BY <3>1, <3>2, <3>3 DEF CountInv
  <2> QED
    BY <2>3, <2>4 DEF CountInv
<1>10. CASE Age \/ UNCHANGED vars
  BY <1>7, <1>10 DEF Age, vars
<1> QED
  BY <1>1, <1>2, <1>3, <1>4, <1>5, <1>6, <1>8, <1>9, <1>10 DEF Next, Acquiring, Releasing

-----------------------------------------------------------------------------
(* Files.                                                                  *)
LEMMA FileStep == TypeOK /\ ProcInv /\ FileInv /\ [Next]_vars => FileInv'
<1> SUFFICES ASSUME TypeOK, ProcInv, FileInv, [Next]_vars PROVE FileInv'
  OBVIOUS
<1> USE FileFacts, ProcessAssumption, CallerAssumption DEF FileInv, Made, At, Goto
<1>0. /\ proc \in [Proc -> {"new", "up", "dead"}] /\ file \in File
      /\ saw \in [Caller -> File]
  BY DEF TypeOK
<1>1. ASSUME NEW c \in Caller,
             \/ AcquireShared(c) \/ AcquireFile(c) \/ OpenExists(c)
             \/ WriteFails(c) \/ SetHeld(c) \/ releaseHeldLock(c)
      PROVE  FileInv'
  <2>1. UNCHANGED <<proc, file, saw>>
    BY <1>1 DEF AcquireShared, AcquireFile, OpenExists, WriteFails, SetHeld, releaseHeldLock
  <2> QED
    BY <2>1
<1>2. ASSUME NEW c \in Caller, OpenCreates(c) PROVE FileInv'
  <2>1. /\ UNCHANGED <<proc, saw>> /\ file' = [NoFile EXCEPT !.by = c]
        /\ proc[ProcOf[c]] = "up"
    BY <1>2 DEF OpenCreates
  <2>2. file'.by = c
    BY <2>1 DEF NoFile
  <2> QED
    BY <2>1, <2>2
<1>3. ASSUME NEW c \in Caller, WritePayload(c) PROVE FileInv'
  <2>1. /\ UNCHANGED <<proc, saw>>
        /\ file' = IF file.by = c THEN [file EXCEPT !.payload = TRUE] ELSE file
    BY <1>3 DEF WritePayload
  <2>2. file'.by = file.by
    BY <1>0, <2>1 DEF File
  <2> QED
    BY <2>1, <2>2
<1>4. ASSUME NEW c \in Caller, \/ readLockPayload(c) \/ Inspect(c) \/ StatLockFile(c)
                               \/ StatFails(c) \/ AcquireThrows(c)
      PROVE  FileInv'
  <2>1. /\ UNCHANGED <<proc, file>>
        /\ \E s \in {file, NoFile, saw[c]} : saw' = [saw EXCEPT ![c] = s]
    BY <1>4, ReadsFacts DEF readLockPayload, Inspect, StatLockFile, StatFails, AcquireThrows
  <2> QED
    BY <1>0, <2>1
<1>5. ASSUME NEW c \in Caller, RemoveFailed(c) \/ RemoveReleased(c) \/ ReclaimLockFile(c)
      PROVE  FileInv'
  <2>1. /\ UNCHANGED proc /\ file' \in {file, NoFile}
        /\ saw' = saw \/ saw' = [saw EXCEPT ![c] = NoFile]
    BY <1>5, RemoveFacts DEF RemoveFailed, RemoveReleased, ReclaimLockFile
  <2> QED
    BY <1>0, <2>1
<1>6. ASSUME NEW p \in Proc, \/ runLockWatchdogCheck(p) \/ WatchdogRemoves(p)
                             \/ handleTerminationSignal(p)
                             \/ ScanLists(p) \/ ScanReads(p) \/ ScanFails(p) \/ ScanRemoves(p)
      PROVE  FileInv'
  <2>1. UNCHANGED <<proc, saw>> /\ file' \in {file, NoFile}
    BY <1>6, RemoveFacts DEF runLockWatchdogCheck, WatchdogRemoves, handleTerminationSignal,
                             ScanLists, ScanReads, ScanFails, ScanRemoves
  <2> QED
    BY <2>1
<1>7. ASSUME NEW p \in Proc, Start(p) PROVE FileInv'
  BY <1>0, <1>7 DEF Start
<1>8. ASSUME NEW p \in Proc, Exit(p) \/ Crash(p) PROVE FileInv'
  <2>1. /\ proc' = [proc EXCEPT ![p] = "dead"] /\ file' \in {file, NoFile}
        /\ saw' = [c \in Caller |-> IF ProcOf[c] = p THEN NoFile ELSE saw[c]]
    BY <1>8, RemoveFacts DEF Exit, Crash, Die
  <2>2. \A q \in Proc : proc'[q] = "new" => proc[q] = "new"
    BY <1>0, <2>1
  <2>3. \A f \in File : f.by \in Caller \cup {NoCaller}
    BY DEF File
  <2> QED
    BY <1>0, <2>1, <2>2, <2>3
<1>9. CASE Age
  <2>1. UNCHANGED <<proc, saw>> /\ file' = [file EXCEPT !.old = TRUE] /\ file # NoFile
    BY <1>9 DEF Age
  <2>2. file'.by = file.by
    BY <1>0, <2>1 DEF File
  <2> QED
    BY <2>1, <2>2
<1>10. CASE UNCHANGED vars
  BY <1>10 DEF vars
<1> QED
  BY <1>1, <1>2, <1>3, <1>4, <1>5, <1>6, <1>7, <1>8, <1>9, <1>10 DEF Next, Acquiring, Releasing

-----------------------------------------------------------------------------
(* Judgements.                                                             *)

(* A file that names a process that cannot have made it any more, is old,  *)
(* or names no process whose start time is known.                          *)
LEMMA StaleIsJudged ==
    ASSUME TypeOK, ProcInv, NEW s \in File, Made(s), inspectLockPayload(s)
    PROVE  Judged(s)
<1>1. s.by \in Caller /\ ProcOf[s.by] \in Proc
  BY ProcessAssumption, FileFacts DEF inspectLockPayload, Made, File
<1>2. proc[ProcOf[s.by]] \in {"up", "dead"}
  BY <1>1, CallerAssumption DEF Made, TypeOK
<1>3. proc[ProcOf[s.by]] = "up" => s.old
  BY <1>1 DEF inspectLockPayload, isPidAlive, Recycled, ProcInv
<1> QED
  BY <1>1, <1>2, <1>3 DEF Judged

LEMMA JudgedStep == TypeOK /\ ProcInv /\ FileInv /\ JudgedInv /\ [Next]_vars => JudgedInv'
<1> SUFFICES ASSUME TypeOK, ProcInv, FileInv, JudgedInv, [Next]_vars PROVE JudgedInv'
  OBVIOUS
<1> USE ProcessAssumption, CallerAssumption DEF At, Goto
<1>0. /\ at \in [Caller -> {"idle", "open", "write", "set", "failed", "read", "inspect", "stat",
                            "reclaim", "using", "rm", "done", "threw"}]
      /\ saw \in [Caller -> File] /\ file \in File
      /\ scan \in [Proc -> {"no", "list", "read", "rm", "done"}]
      /\ scanSaw \in [Proc -> File] /\ proc \in [Proc -> {"new", "up", "dead"}]
  BY DEF TypeOK
<1>1. ASSUME NEW c \in Caller,
             \/ AcquireShared(c) \/ AcquireFile(c) \/ OpenCreates(c) \/ OpenExists(c)
             \/ WritePayload(c) \/ WriteFails(c) \/ RemoveFailed(c)
             \/ SetHeld(c) \/ releaseHeldLock(c) \/ RemoveReleased(c)
      PROVE  JudgedInv'
  <2>1. /\ UNCHANGED <<proc, saw, scan, scanSaw>>
        /\ \E w \in {"using", "open", "write", "read", "threw", "set", "failed", "done", "rm"} :
              at' = [at EXCEPT ![c] = w]
    BY <1>1 DEF AcquireShared, AcquireFile, OpenCreates, OpenExists, WritePayload,
                WriteFails, RemoveFailed, SetHeld, releaseHeldLock, RemoveReleased
  <2>2. \A d \in Caller : at'[d] = "reclaim" => at[d] = "reclaim"
    BY <1>0, <2>1
  <2> QED
    BY <2>1, <2>2 DEF JudgedInv, Judged
<1>2. ASSUME NEW c \in Caller,
             \/ readLockPayload(c) \/ Inspect(c) \/ StatLockFile(c) \/ StatFails(c)
             \/ ReclaimLockFile(c) \/ AcquireThrows(c)
      PROVE  JudgedInv'
  <2>1. UNCHANGED <<proc, scan, scanSaw>>
    BY <1>2 DEF readLockPayload, Inspect, StatLockFile, StatFails, ReclaimLockFile, AcquireThrows
  <2>2. \A d \in Caller \ {c} : at'[d] = at[d] /\ saw'[d] = saw[d]
    BY <1>0, <1>2 DEF readLockPayload, Inspect, StatLockFile, StatFails, ReclaimLockFile,
                      AcquireThrows
  <2>3. ASSUME at'[c] = "reclaim" PROVE Judged(saw'[c])
    <3>1. CASE Inspect(c)
      <4>1. /\ saw'[c] = saw[c] /\ saw[c].payload
            /\ inspectLockPayload(saw[c]) \/ shouldTreatAsOrphanSelfLock(c, saw[c])
        BY <1>0, <2>3, <3>1 DEF Inspect
      <4>2. saw[c] \in File /\ Made(saw[c])
        BY <1>0 DEF FileInv
      <4> QED
        BY <4>1, <4>2, StaleIsJudged, FileFacts
           DEF shouldTreatAsOrphanSelfLock, Judged, Made, File
    <3>2. CASE StatLockFile(c) \/ StatFails(c)
      BY <1>0, <2>3, <3>2 DEF StatLockFile, StatFails, Judged
    <3>3. CASE readLockPayload(c) \/ ReclaimLockFile(c) \/ AcquireThrows(c)
      BY <1>0, <2>3, <3>3 DEF readLockPayload, ReclaimLockFile, AcquireThrows
    <3> QED
      BY <1>2, <3>1, <3>2, <3>3
  <2> QED
    BY <2>1, <2>2, <2>3 DEF JudgedInv, Judged
<1>3. ASSUME NEW p \in Proc, ScanLists(p) \/ ScanReads(p) \/ ScanFails(p) \/ ScanRemoves(p) PROVE JudgedInv'
  <2>1. UNCHANGED <<proc, at, saw>>
    BY <1>3 DEF ScanLists, ScanReads, ScanFails, ScanRemoves
  <2>2. \A q \in Proc \ {p} : scan'[q] = scan[q] /\ scanSaw'[q] = scanSaw[q]
    BY <1>0, <1>3 DEF ScanLists, ScanReads, ScanFails, ScanRemoves
  <2>3. ASSUME scan'[p] = "rm" PROVE ~scanSaw'[p].payload \/ Judged(scanSaw'[p])
    <3>1. ScanReads(p)
      BY <1>0, <1>3, <2>3 DEF ScanLists, ScanReads, ScanFails, ScanRemoves
    <3>2. PICK s \in Reads : (~s.payload \/ inspectLockPayload(s)) /\ scanSaw'[p] = s
      BY <1>0, <2>3, <3>1 DEF ScanReads
    <3>3. s \in File /\ Made(s)
      BY <3>2, ReadsFacts, FileFacts DEF FileInv, Made
    <3> QED
      BY <3>2, <3>3, StaleIsJudged
  <2> QED
    BY <2>1, <2>2, <2>3 DEF JudgedInv, Judged
<1>4. ASSUME NEW p \in Proc, runLockWatchdogCheck(p) \/ WatchdogRemoves(p) \/ handleTerminationSignal(p)
      PROVE  JudgedInv'
  BY <1>4 DEF runLockWatchdogCheck, WatchdogRemoves, handleTerminationSignal, JudgedInv, Judged
<1>5. ASSUME NEW p \in Proc, Start(p) PROVE JudgedInv'
  <2>1. /\ UNCHANGED <<at, saw, scanSaw>> /\ proc[p] = "new"
        /\ proc' = [proc EXCEPT ![p] = "up"]
        /\ \E w \in {"list", "done"} : scan' = [scan EXCEPT ![p] = w]
    BY <1>5 DEF Start
  <2>2. \A q \in Proc : proc[q] = "dead" => proc'[q] = "dead"
    BY <1>0, <2>1
  <2>3. \A q \in Proc : scan'[q] = "rm" => scan[q] = "rm"
    BY <1>0, <2>1
  <2> QED
    BY <2>1, <2>2, <2>3 DEF JudgedInv, Judged
<1>6. ASSUME NEW p \in Proc, Exit(p) \/ Crash(p) PROVE JudgedInv'
  <2>1. /\ at' = [c \in Caller |-> IF ProcOf[c] = p THEN "done" ELSE at[c]]
        /\ saw' = [c \in Caller |-> IF ProcOf[c] = p THEN NoFile ELSE saw[c]]
        /\ scan' = [scan EXCEPT ![p] = "done"] /\ scanSaw' = [scanSaw EXCEPT ![p] = NoFile]
        /\ proc' = [proc EXCEPT ![p] = "dead"]
    BY <1>6 DEF Exit, Crash, Die
  <2>2. \A c \in Caller : at'[c] = "reclaim" => at[c] = "reclaim" /\ saw'[c] = saw[c]
    BY <2>1
  <2>3. \A q \in Proc : scan'[q] = "rm" => scan[q] = "rm" /\ scanSaw'[q] = scanSaw[q]
    BY <1>0, <2>1
  <2>4. \A q \in Proc : proc[q] = "dead" => proc'[q] = "dead"
    BY <1>0, <2>1
  <2> QED
    BY <2>2, <2>3, <2>4 DEF JudgedInv, Judged
<1>7. CASE Age \/ UNCHANGED vars
  BY <1>7 DEF Age, vars, JudgedInv, Judged
<1> QED
  BY <1>1, <1>2, <1>3, <1>4, <1>5, <1>6, <1>7 DEF Next, Acquiring, Releasing

-----------------------------------------------------------------------------
(* Who may remove a file.                                                  *)

(* A file in use belongs to a process that is up.                          *)
LEMMA InUseIsUp ==
    ASSUME TypeOK, ProcInv, HoldInv, NEW h \in Caller, InUse(h)
    PROVE  proc[ProcOf[h]] = "up"
<1>1. CASE Users(h) # {}
  BY <1>1, UserFacts DEF Users, At
<1>2. CASE At(h, "write") \/ At(h, "set") \/ At(h, "failed")
  BY <1>2 DEF At
<1>3. CASE \E c \in Caller : At(c, "rm") /\ hold[c] = h
  BY <1>3, CallerAssumption DEF At, HoldInv
<1> QED
  BY <1>1, <1>2, <1>3 DEF InUse

(* A reason is found whenever a file in use is removed after a judgement.  *)
LEMMA JudgedIsBlamed ==
    ASSUME TypeOK, ProcInv, HoldInv, NEW s \in File, Judged(s), file # NoFile,
           FileInv, InUse(file.by)
    PROVE  Because(s) # "none"
<1>1. file.by \in Caller
  BY DEF FileInv, Made, TypeOK, File
<1>2. proc[ProcOf[file.by]] = "up"
  BY <1>1, InUseIsUp
<1> QED
  BY <1>2 DEF Because, Judged

(* While nothing has gone wrong, a file nobody uses may go, and so may the *)
(* file of a caller that is done with it.                                  *)
NobodyHas ==
    /\ \A c \in Caller : at[c] \notin {"write", "set", "failed", "rm", "using"}
    /\ \A p \in Proc : held[p] = NoCaller

LEMMA NotInUse ==
    ASSUME TypeOK, ProcInv, HoldInv, CountInv, ExclusiveInv, fault = "none",
           file = NoFile \/ ~InUse(file.by)
    PROVE  NobodyHas
<1>1. \A c \in Caller : /\ at[c] \in {"write", "set", "failed", "rm", "using"} => At(c, at[c])
                        /\ at[c] \in {"rm", "using"} => hold[c] \in Caller
  BY DEF ProcInv, At, HoldInv, TypeOK
<1>2. \A p \in Proc : held[p] = NoCaller
  <2> SUFFICES ASSUME NEW p \in Proc, held[p] # NoCaller PROVE FALSE
    OBVIOUS
  <2>1. file.by = held[p] /\ held[p] \in Caller
    BY DEF ExclusiveInv, TypeOK
  <2>2. Users(held[p]) # {}
    BY <2>1, UserFacts DEF CountInv
  <2> QED
    BY <2>1, <2>2, CallerAssumption, FileFacts DEF InUse
<1>3. ASSUME NEW c \in Caller PROVE at[c] \notin {"write", "set", "failed"}
  BY <1>1, CallerAssumption, FileFacts DEF ExclusiveInv, InUse
<1>4. ASSUME NEW c \in Caller PROVE at[c] # "rm"
  BY <1>1, CallerAssumption, FileFacts DEF ExclusiveInv, InUse
<1>5. ASSUME NEW c \in Caller PROVE at[c] # "using"
  BY <1>1, <1>2, ProcessAssumption, CallerAssumption DEF ExclusiveInv
<1> QED
  BY <1>2, <1>3, <1>4, <1>5 DEF NobodyHas

(* What ExclusiveInv says of the steps without a fault.                    *)
LEMMA ExclusiveStep ==
    TypeOK /\ ProcInv /\ HoldInv /\ CountInv /\ FileInv /\ JudgedInv /\ ExclusiveInv
        /\ [Next]_vars => ExclusiveInv'
<1> SUFFICES ASSUME TypeOK, ProcInv, HoldInv, CountInv, FileInv, JudgedInv, ExclusiveInv,
                    [Next]_vars, fault' = "none"
             PROVE  ExclusiveInv'
  BY DEF ExclusiveInv
<1> USE ProcessAssumption, CallerAssumption DEF At, Goto
<1>0. /\ at \in [Caller -> {"idle", "open", "write", "set", "failed", "read", "inspect", "stat",
                            "reclaim", "using", "rm", "done", "threw"}]
      /\ hold \in [Caller -> Caller \cup {NoCaller}]
      /\ held \in [Proc -> Caller \cup {NoCaller}]
      /\ file \in File /\ saw \in [Caller -> File] /\ scanSaw \in [Proc -> File]
  BY DEF TypeOK
<1>a. ASSUME NobodyHas, UNCHANGED <<held, dog>>, fault = "none",
             \A c \in Caller : at'[c] \in {"write", "set", "failed", "rm", "using"} =>
                                  at[c] \in {"write", "set", "failed", "rm", "using"}
      PROVE  ExclusiveInv'
  BY <1>a DEF NobodyHas, ExclusiveInv
<1>1. ASSUME NEW c \in Caller,
             \/ AcquireFile(c) \/ OpenExists(c) \/ AcquireThrows(c)
             \/ WritePayload(c) \/ WriteFails(c)
             \/ readLockPayload(c) \/ Inspect(c) \/ StatLockFile(c) \/ StatFails(c)
      PROVE  ExclusiveInv'
  <2>1. UNCHANGED <<hold, held, dog, fault>>
    BY <1>1 DEF AcquireFile, OpenExists, AcquireThrows, WritePayload, WriteFails,
                readLockPayload, Inspect, StatLockFile, StatFails
  <2>2. file'.by = file.by
    BY <1>0, <1>1 DEF AcquireFile, OpenExists, AcquireThrows, WritePayload, WriteFails,
                      readLockPayload, Inspect, StatLockFile, StatFails, File
  <2>3. \/ \E w \in {"open", "read", "threw", "inspect", "stat", "reclaim"} : at' = [at EXCEPT ![c] = w]
        \/ at[c] = "write" /\ \E w \in {"set", "failed"} : at' = [at EXCEPT ![c] = w]
    BY <1>1 DEF AcquireFile, OpenExists, AcquireThrows, WritePayload, WriteFails,
                readLockPayload, Inspect, StatLockFile, StatFails
  <2>4. \A d \in Caller : /\ at'[d] \in {"write", "set", "failed"} => at[d] \in {"write", "set", "failed"}
                          /\ at'[d] \in {"rm", "using"} => at[d] = at'[d]
    BY <1>0, <2>3
  <2> QED
    BY <2>1, <2>2, <2>4 DEF ExclusiveInv
<1>2. ASSUME NEW c \in Caller, AcquireShared(c) PROVE ExclusiveInv'
  <2>1. /\ UNCHANGED <<file, held, dog, fault>> /\ held[ProcOf[c]] \in Caller
        /\ at' = [at EXCEPT ![c] = "using"] /\ hold' = [hold EXCEPT ![c] = held[ProcOf[c]]]
    BY <1>0, <1>2 DEF AcquireShared
  <2>2. \A d \in Caller : at[d] = "rm" => hold[d] # held[ProcOf[c]]
    <3> SUFFICES ASSUME NEW d \in Caller, at[d] = "rm", hold[d] = held[ProcOf[c]] PROVE FALSE
      OBVIOUS
    <3>1. ProcOf[c] \in Proc /\ held[ProcOf[c]] # NoCaller
      BY <2>1
    <3>2. UsersOf(at, hold, held[ProcOf[c]]) # {}
      BY <3>1 DEF CountInv
    <3>3. PICK e \in Caller : at[e] = "using" /\ hold[e] = held[ProcOf[c]]
      BY <3>2 DEF UsersOf
    <3> QED
      BY <2>1, <3>3 DEF ExclusiveInv
  <2> QED
    BY <1>0, <2>1, <2>2 DEF ExclusiveInv
<1>3. ASSUME NEW c \in Caller, OpenCreates(c) PROVE ExclusiveInv'
  <2>1. /\ UNCHANGED <<hold, held, dog, fault>> /\ file = NoFile
        /\ at' = [at EXCEPT ![c] = "write"] /\ file' = [NoFile EXCEPT !.by = c]
    BY <1>3 DEF OpenCreates
  <2>2. file'.by = c
    BY <2>1 DEF NoFile
  <2>3. NobodyHas
    BY <2>1, NotInUse
  <2> QED
    BY <1>0, <2>1, <2>2, <2>3 DEF NobodyHas, ExclusiveInv
<1>4. ASSUME NEW c \in Caller, RemoveFailed(c) PROVE ExclusiveInv'
  <2>1. /\ UNCHANGED <<hold, held, dog, fault>> /\ at[c] = "failed"
        /\ at' = [at EXCEPT ![c] = "threw"]
    BY <1>4 DEF RemoveFailed
  <2>2. file.by = c
    BY <2>1 DEF ExclusiveInv
  <2>3. \A p \in Proc : held[p] = NoCaller
    BY <2>1, <2>2 DEF ExclusiveInv, HoldInv, Given
  <2>4. \A d \in Caller \ {c} : at[d] \notin {"write", "set", "failed", "rm", "using"}
    BY <2>1, <2>2, <2>3 DEF ExclusiveInv, HoldInv, Given
  <2> QED
    BY <1>0, <2>1, <2>3, <2>4 DEF ExclusiveInv
<1>5. ASSUME NEW c \in Caller, SetHeld(c) PROVE ExclusiveInv'
  <2>1. /\ UNCHANGED <<file, dog, fault>> /\ at[c] = "set" /\ at' = [at EXCEPT ![c] = "using"]
        /\ held' = [held EXCEPT ![ProcOf[c]] = c] /\ hold' = [hold EXCEPT ![c] = c]
    BY <1>5 DEF SetHeld
  <2>2. file.by = c
    BY <2>1 DEF ExclusiveInv
  <2>3. \A p \in Proc : held[p] = NoCaller
    BY <2>1, <2>2 DEF ExclusiveInv, HoldInv, Given
  <2>4. \A d \in Caller \ {c} : at[d] \notin {"write", "set", "failed", "rm", "using"}
    BY <2>1, <2>2, <2>3 DEF ExclusiveInv, HoldInv, Given
  <2> QED
    BY <1>0, <2>1, <2>2, <2>3, <2>4 DEF ExclusiveInv
<1>6. ASSUME NEW c \in Caller, ReclaimLockFile(c) PROVE ExclusiveInv'
  <2>1. /\ UNCHANGED <<held, dog>> /\ at[c] = "reclaim" /\ at' = [at EXCEPT ![c] = "open"]
        /\ fault = "none" /\ (file # NoFile /\ InUse(file.by) => Because(saw[c]) = "none")
    BY <1>6 DEF ReclaimLockFile, Blame
  <2>2. file = NoFile \/ ~InUse(file.by)
    BY <1>0, <2>1, JudgedIsBlamed DEF JudgedInv
  <2>3. NobodyHas
    BY <2>1, <2>2, NotInUse
  <2> QED
    BY <1>0, <1>a, <2>1, <2>3
<1>7. ASSUME NEW c \in Caller, releaseHeldLock(c) PROVE ExclusiveInv'
  <2>1. /\ UNCHANGED <<file, hold, dog, fault>> /\ at[c] = "using"
    BY <1>7 DEF releaseHeldLock
  <2>2. held[ProcOf[c]] = hold[c] /\ hold[c] \in Caller
    BY <1>0, <2>1 DEF ExclusiveInv, HoldInv
  <2>3. CASE count[hold[c]] > 1
    <3>1. held' = held /\ at' = [at EXCEPT ![c] = "done"]
      BY <1>7, <2>2, <2>3 DEF releaseHeldLock
    <3> QED
      BY <1>0, <2>1, <3>1 DEF ExclusiveInv
  <2>4. CASE ~(count[hold[c]] > 1)
    <3>1. held' = [held EXCEPT ![ProcOf[c]] = NoCaller] /\ at' = [at EXCEPT ![c] = "rm"]
      BY <1>7, <2>2, <2>4 DEF releaseHeldLock
    <3>2. UsersOf(at, hold, hold[c]) = {c}
      <4> DEFINE U == UsersOf(at, hold, hold[c])
      <4>1. IsFiniteSet(U) /\ Cardinality(U) \in Nat \ {0} /\ Cardinality(U) <= 1
        BY <2>2, <2>4, HeldCounted DEF CountInv
      <4>2. c \in U
        BY <2>1 DEF UsersOf
      <4>3. IsFiniteSet(U \ {c}) /\ Cardinality(U \ {c}) = Cardinality(U) - 1
        BY <4>1, <4>2, FS_RemoveElement
      <4>4. Cardinality(U \ {c}) = 0
        <5> HIDE DEF U
        <5> QED
          BY <4>1, <4>3
      <4>5. U \ {c} = {}
        BY <4>3, <4>4, FS_EmptySet
      <4> QED
        BY <4>2, <4>5
    <3>3. \A d \in Caller : at[d] = "using" /\ hold[d] = hold[c] => d = c
      BY <3>2 DEF UsersOf
    <3>4. \A d \in Caller : at[d] = "rm" => hold[d] # hold[c]
      BY <2>1 DEF ExclusiveInv
    <3>5. file.by = hold[c] /\ ProcOf[hold[c]] = ProcOf[c]
      BY <2>1, <2>2 DEF ExclusiveInv, HoldInv
    <3>6. ASSUME NEW d \in Caller, at'[d] = "using" PROVE held'[ProcOf[d]] = hold[d]
      <4>1. at[d] = "using" /\ d # c
        BY <1>0, <3>1, <3>6
      <4>2. hold[d] # hold[c] /\ held[ProcOf[d]] = hold[d]
        BY <2>1, <3>3, <4>1 DEF ExclusiveInv
      <4>3. ProcOf[d] # ProcOf[c]
        BY <2>2, <4>2
      <4> QED
        BY <1>0, <3>1, <4>2, <4>3
    <3>7. \A d \in Caller : at'[d] = "rm" =>
             /\ file.by = hold[d]
             /\ \A e \in Caller : at'[e] \in {"using", "rm"} /\ hold[e] = hold[d] => e = d
      BY <1>0, <2>1, <3>1, <3>3, <3>4, <3>5 DEF ExclusiveInv
    <3>8. \A p \in Proc : held'[p] # NoCaller => file.by = held'[p]
      BY <1>0, <2>1, <3>1 DEF ExclusiveInv
    <3>9. \A d \in Caller : at'[d] \in {"write", "set", "failed"} => file.by = d
      BY <1>0, <2>1, <3>1 DEF ExclusiveInv
    <3> QED
      BY <2>1, <3>6, <3>7, <3>8, <3>9 DEF ExclusiveInv
  <2> QED
    BY <2>3, <2>4
<1>8. ASSUME NEW c \in Caller, RemoveReleased(c) PROVE ExclusiveInv'
  <2>1. /\ UNCHANGED <<hold, held, dog, fault>> /\ at[c] = "rm" /\ at' = [at EXCEPT ![c] = "done"]
    BY <1>8 DEF RemoveReleased
  <2>2. file.by = hold[c] /\ \A d \in Caller : at[d] \in {"using", "rm"} /\ hold[d] = hold[c] => d = c
    BY <2>1 DEF ExclusiveInv
  <2>3. \A p \in Proc : held[p] = NoCaller
    <3> SUFFICES ASSUME NEW p \in Proc, held[p] # NoCaller PROVE FALSE
      OBVIOUS
    <3>1. PICK e \in Caller : at[e] = "using" /\ hold[e] = held[p]
      BY DEF CountInv, UsersOf
    <3> QED
      BY <2>1, <2>2, <3>1 DEF ExclusiveInv
  <2>4. \A d \in Caller \ {c} : at[d] \notin {"write", "set", "failed", "rm", "using"}
    <3>1. \A d \in Caller : at[d] \in {"write", "set", "failed"} => hold[c] # d
      BY <2>1 DEF HoldInv, Given
    <3> QED
      BY <2>1, <2>2, <2>3, <3>1 DEF ExclusiveInv, HoldInv
  <2> QED
    BY <1>0, <2>1, <2>3, <2>4 DEF ExclusiveInv
<1>9. ASSUME NEW p \in Proc, runLockWatchdogCheck(p) \/ handleTerminationSignal(p)
      PROVE  FALSE
  BY <1>9 DEF runLockWatchdogCheck, handleTerminationSignal, Blame
<1>10. ASSUME NEW p \in Proc, WatchdogRemoves(p) PROVE FALSE
  BY <1>10 DEF WatchdogRemoves, ExclusiveInv
<1>11. ASSUME NEW p \in Proc, \/ Start(p) \/ ScanLists(p) \/ ScanReads(p)
                              \/ ScanFails(p)
      PROVE  ExclusiveInv'
  <2>1. UNCHANGED <<at, hold, held, file, dog, fault>>
    BY <1>11 DEF Start, ScanLists, ScanReads, ScanFails
  <2> QED
    BY <2>1 DEF ExclusiveInv
<1>12. ASSUME NEW p \in Proc, Exit(p) \/ Crash(p) PROVE ExclusiveInv'
  <2>1. /\ at' = [c \in Caller |-> IF ProcOf[c] = p THEN "done" ELSE at[c]]
        /\ hold' = [c \in Caller |-> IF ProcOf[c] = p THEN NoCaller ELSE hold[c]]
        /\ held' = [held EXCEPT ![p] = NoCaller] /\ dog' = [dog EXCEPT ![p] = FALSE]
        /\ fault = "none"
    BY <1>12 DEF Exit, Crash, Die
  <2>2. \A q \in Proc : ~dog[q]
    BY <2>1 DEF ExclusiveInv
  <2>3. dog \in [Proc -> BOOLEAN] 
    BY DEF TypeOK
  <2>4. \A q \in Proc : ~dog'[q]
    BY <2>1, <2>2, <2>3, Zenon
  <2>5. CASE held[p] = NoCaller
    <3>1. file' = file
      BY <1>12, <2>5 DEF Exit, Crash
    <3> QED
      BY <1>0, <2>1, <2>4, <3>1 DEF ExclusiveInv
  <2>6. CASE held[p] # NoCaller
    <3>1. file.by = held[p] /\ ProcOf[held[p]] = p /\ at[held[p]] \in Given
      BY <2>1, <2>6 DEF ExclusiveInv, HoldInv
    <3>2. \A q \in Proc \ {p} : held[q] = NoCaller
      BY <2>1, <3>1 DEF ExclusiveInv, HoldInv
    <3>3. ASSUME NEW d \in Caller, ProcOf[d] # p
          PROVE  at[d] \notin {"write", "set", "failed", "rm", "using"}
      BY <2>1, <3>1, <3>2, <3>3 DEF ExclusiveInv, HoldInv, Given
    <3> QED
      BY <1>0, <2>1, <2>4, <3>2, <3>3 DEF ExclusiveInv
  <2> QED
    BY <2>5, <2>6
<1>13. ASSUME NEW p \in Proc, ScanRemoves(p) PROVE ExclusiveInv'
  <2> DEFINE s == scanSaw[p]
             why == IF file.by = s.by /\ ~s.payload THEN "unwritten" ELSE Because(s)
  <2>1. /\ UNCHANGED <<held, at, dog>> /\ scan[p] = "rm" /\ fault = "none"
        /\ (file # NoFile /\ InUse(file.by) => why = "none")
    BY <1>13 DEF ScanRemoves, Blame
  <2>2. s \in File /\ (~s.payload \/ Judged(s))
    BY <1>0, <2>1 DEF JudgedInv
  <2>3. ASSUME file # NoFile, InUse(file.by) PROVE why # "none"
    <3>1. CASE s.by # file.by
      BY <3>1 DEF Because
    <3>2. CASE s.by = file.by /\ ~s.payload
      BY <3>2
    <3>3. CASE Judged(s) /\ ~(s.by = file.by /\ ~s.payload)
      BY <2>2, <2>3, <3>3, JudgedIsBlamed
    <3> QED
      BY <2>2, <3>1, <3>2, <3>3
  <2>4. NobodyHas
    BY <2>1, <2>3, NotInUse
  <2> QED
    BY <1>a, <2>1, <2>4
<1>14. CASE Age
  <2>1. /\ UNCHANGED <<at, hold, held, dog, fault>> /\ file' = [file EXCEPT !.old = TRUE]
    BY <1>14 DEF Age
  <2>2. file'.by = file.by
    BY <1>0, <2>1 DEF File
  <2> QED
    BY <2>1, <2>2 DEF ExclusiveInv
<1>15. CASE UNCHANGED vars
  BY <1>15 DEF vars, ExclusiveInv
<1> QED
  BY <1>1, <1>2, <1>3, <1>4, <1>5, <1>6, <1>7, <1>8, <1>9, <1>10, <1>11, <1>12, <1>13, <1>14,
     <1>15 DEF Next, Acquiring, Releasing

-----------------------------------------------------------------------------
(* Who removes a file.                                                     *)

(* Nothing that OwnerInv speaks of has changed.                            *)
LEMMA OwnerKept ==
    ASSUME OwnerInv, UNCHANGED <<held, dog, left>>, file'.by = file.by,
           file.by # NoCaller /\ proc'[ProcOf[file.by]] = "up" => proc[ProcOf[file.by]] = "up",
           at[file.by] \in {"write", "set", "failed"} => at'[file.by] \in {"write", "set", "failed"},
           \A c \in Caller : at[c] = "rm" => at'[c] = "rm"
    PROVE  OwnerInv'
BY DEF OwnerInv

LEMMA OwnerStep == TypeOK /\ ProcInv /\ HoldInv /\ FileInv /\ OwnerInv /\ [Next]_vars => OwnerInv'
<1> SUFFICES ASSUME TypeOK, ProcInv, HoldInv, FileInv, OwnerInv, [Next]_vars PROVE OwnerInv'
  OBVIOUS
<1> USE ProcessAssumption, CallerAssumption DEF At, Goto
<1>0. /\ at \in [Caller -> {"idle", "open", "write", "set", "failed", "read", "inspect", "stat",
                            "reclaim", "using", "rm", "done", "threw"}]
      /\ hold \in [Caller -> Caller \cup {NoCaller}]
      /\ held \in [Proc -> Caller \cup {NoCaller}] /\ dog \in [Proc -> BOOLEAN]
      /\ file \in File /\ proc \in [Proc -> {"new", "up", "dead"}]
      /\ file.by \in Caller \cup {NoCaller}
  BY DEF TypeOK, File
<1>1. ASSUME file' = NoFile \/ Remove PROVE OwnerInv'
  BY <1>1, FileFacts DEF Remove, OwnerInv
<1>2. CASE file.by = NoCaller /\ file'.by = NoCaller
  BY <1>2 DEF OwnerInv
<1>3. ASSUME NEW c \in Caller,
             \/ AcquireShared(c) \/ AcquireFile(c) \/ OpenExists(c) \/ AcquireThrows(c)
             \/ WritePayload(c) \/ WriteFails(c)
             \/ readLockPayload(c) \/ Inspect(c) \/ StatLockFile(c) \/ StatFails(c)
      PROVE  OwnerInv'
  <2>1. UNCHANGED <<proc, held, dog, left>>
    BY <1>3 DEF AcquireShared, AcquireFile, OpenExists, AcquireThrows, WritePayload, WriteFails,
                readLockPayload, Inspect, StatLockFile, StatFails
  <2>2. file'.by = file.by
    BY <1>0, <1>3 DEF AcquireShared, AcquireFile, OpenExists, AcquireThrows, WritePayload,
                      WriteFails, readLockPayload, Inspect, StatLockFile, StatFails, File
  <2>3. /\ at[c] \notin {"set", "failed", "rm"}
        /\ \E w \in {"using", "open", "read", "threw", "set", "failed", "inspect", "stat", "reclaim"} :
              at' = [at EXCEPT ![c] = w] /\ (at[c] = "write" => w \in {"set", "failed"})
    BY <1>3 DEF AcquireShared, AcquireFile, OpenExists, AcquireThrows, WritePayload, WriteFails,
                readLockPayload, Inspect, StatLockFile, StatFails
  <2>4. \A d \in Caller : /\ at[d] \in {"write", "set", "failed"} => at'[d] \in {"write", "set", "failed"}
                          /\ at[d] = "rm" => at'[d] = "rm"
    BY <1>0, <2>3
  <2>5. CASE file.by = NoCaller
    BY <1>2, <2>2, <2>5
  <2>6. CASE file.by # NoCaller
    BY <1>0, <2>1, <2>2, <2>4, <2>6, OwnerKept
  <2> QED
    BY <2>5, <2>6
<1>4. ASSUME NEW c \in Caller, OpenCreates(c) PROVE OwnerInv'
  <2>1. file'.by = c /\ at'[c] = "write"
    BY <1>0, <1>4 DEF OpenCreates, NoFile
  <2> QED
    BY <2>1 DEF OwnerInv
<1>5. ASSUME NEW c \in Caller, RemoveFailed(c) \/ RemoveReleased(c) \/ ReclaimLockFile(c)
      PROVE  OwnerInv'
  BY <1>1, <1>5 DEF RemoveFailed, RemoveReleased, ReclaimLockFile
<1>6. ASSUME NEW c \in Caller, SetHeld(c) PROVE OwnerInv'
  <2>1. /\ UNCHANGED <<proc, file, dog, left>> /\ at[c] = "set" /\ at' = [at EXCEPT ![c] = "using"]
        /\ held' = [held EXCEPT ![ProcOf[c]] = c]
    BY <1>6 DEF SetHeld
  <2>2. \A d \in Caller : /\ d # c => at'[d] = at[d]
                          /\ at[d] = "rm" => at'[d] = "rm"
                          /\ held[ProcOf[d]] # NoCaller => held'[ProcOf[d]] # NoCaller
    BY <1>0, <2>1
  <2>3. held'[ProcOf[c]] = c
    BY <1>0, <2>1
  <2> QED
    BY <1>0, <2>1, <2>2, <2>3 DEF OwnerInv
<1>7. ASSUME NEW c \in Caller, releaseHeldLock(c) PROVE OwnerInv'
  <2>1. /\ UNCHANGED <<proc, file, dog, left>> /\ at[c] = "using"
        /\ \/ held' = held /\ at' = [at EXCEPT ![c] = "done"]
           \/ held' = [held EXCEPT ![ProcOf[c]] = NoCaller] /\ at' = [at EXCEPT ![c] = "rm"]
    BY <1>7 DEF releaseHeldLock
  <2>2. \A d \in Caller : /\ at[d] \in {"write", "set", "failed", "rm"} => at'[d] = at[d]
                          /\ \/ held'[ProcOf[d]] = held[ProcOf[d]]
                             \/ at'[c] = "rm" /\ ProcOf[c] = ProcOf[d]
    BY <1>0, <2>1
  <2> QED
    BY <1>0, <2>1, <2>2 DEF OwnerInv
<1>8. ASSUME NEW p \in Proc, runLockWatchdogCheck(p) PROVE OwnerInv'
  <2>1. /\ UNCHANGED <<proc, file, at, left>> /\ held' = [held EXCEPT ![p] = NoCaller]
        /\ dog' = [dog EXCEPT ![p] = TRUE]
    BY <1>8 DEF runLockWatchdogCheck
  <2>2. \A q \in Proc : /\ held'[q] = held[q] \/ dog'[q]
                        /\ dog[q] => dog'[q]
    BY <1>0, <2>1
  <2> QED
    BY <1>0, <2>1, <2>2 DEF OwnerInv
<1>9. ASSUME NEW p \in Proc, WatchdogRemoves(p) \/ handleTerminationSignal(p) \/ ScanRemoves(p)
      PROVE  OwnerInv'
  BY <1>1, <1>9 DEF WatchdogRemoves, handleTerminationSignal, ScanRemoves
<1>10. ASSUME NEW p \in Proc, Start(p) PROVE OwnerInv'
  <2>1. /\ UNCHANGED <<at, held, dog, file, left>> /\ proc[p] = "new"
        /\ proc' = [proc EXCEPT ![p] = "up"]
    BY <1>10 DEF Start
  <2>2. file.by # NoCaller => ProcOf[file.by] # p
    BY <2>1 DEF FileInv, Made
  <2>3. \A q \in Proc \ {p} : proc'[q] = proc[q]
    BY <1>0, <2>1
  <2> QED
    BY <1>0, <2>1, <2>2, <2>3 DEF OwnerInv
<1>11. ASSUME NEW p \in Proc, Exit(p) \/ Crash(p) PROVE OwnerInv'
  <2>1. /\ at' = [c \in Caller |-> IF ProcOf[c] = p THEN "done" ELSE at[c]]
        /\ held' = [held EXCEPT ![p] = NoCaller] /\ dog' = [dog EXCEPT ![p] = FALSE]
        /\ proc' = [proc EXCEPT ![p] = "dead"] /\ (Remove \/ UNCHANGED <<file, left>>)
    BY <1>11 DEF Exit, Crash, Die
  <2>2. CASE Remove
    BY <1>1, <2>2
  <2>3. CASE UNCHANGED <<file, left>> /\ file.by # NoCaller /\ proc'[ProcOf[file.by]] = "up"
    <3>1. ProcOf[file.by] \in Proc \ {p} /\ proc[ProcOf[file.by]] = "up"
      BY <1>0, <2>1, <2>3
    <3>2. \A c \in Caller : ProcOf[c] # p => at'[c] = at[c]
      BY <2>1
    <3>3. \A q \in Proc \ {p} : held'[q] = held[q] /\ (dog[q] => dog'[q])
      BY <1>0, <2>1
    <3> QED
      BY <1>0, <2>3, <3>1, <3>2, <3>3 DEF OwnerInv
  <2> QED
    BY <2>1, <2>2, <2>3 DEF OwnerInv
<1>12. ASSUME NEW p \in Proc, ScanLists(p) \/ ScanReads(p) \/ ScanFails(p) PROVE OwnerInv'
  BY <1>12 DEF ScanLists, ScanReads, ScanFails, OwnerInv
<1>13. CASE Age
  <2>1. /\ UNCHANGED <<proc, at, held, dog, left>> /\ file' = [file EXCEPT !.old = TRUE]
    BY <1>13 DEF Age
  <2>2. file'.by = file.by
    BY <1>0, <2>1 DEF File
  <2> QED
    BY <2>1, <2>2 DEF OwnerInv
<1>14. CASE UNCHANGED vars
  BY <1>14 DEF vars, OwnerInv
<1> QED
  BY <1>3, <1>4, <1>5, <1>6, <1>7, <1>8, <1>9, <1>10, <1>11, <1>12, <1>13, <1>14
     DEF Next, Acquiring, Releasing

-----------------------------------------------------------------------------
(* The invariant.                                                          *)
LEMMA InitInv == Init => IInv
<1> SUFFICES ASSUME Init PROVE IInv
  OBVIOUS
<1>1. TypeOK
  BY FileFacts, ProcessAssumption DEF Init, TypeOK, Faults
<1>2. ProcInv /\ HoldInv
  BY ProcessAssumption DEF Init, ProcInv, HoldInv
<1>3. CountInv
  <2>1. \A h \in Caller : UsersOf(at, hold, h) = {}
    BY DEF Init, UsersOf
  <2> QED
    BY <2>1, FS_EmptySet DEF Init, CountInv
<1>4. FileInv /\ OwnerInv
  BY FileFacts DEF Init, FileInv, Made, OwnerInv
<1>5. JudgedInv
  BY DEF Init, JudgedInv
<1>6. ExclusiveInv
  BY DEF Init, ExclusiveInv
<1> QED
  BY <1>1, <1>2, <1>3, <1>4, <1>5, <1>6 DEF IInv

LEMMA InductiveInv == Spec => []IInv
<1>1. IInv /\ [Next]_vars => IInv'
  BY TypeStep, ProcStep, HoldStep, CountStep, FileStep, JudgedStep, ExclusiveStep, OwnerStep
     DEF IInv
<1> QED
  BY InitInv, <1>1, PTL DEF Spec

(* The state of the lock keeps its types; no count goes below zero.        *)
THEOREM TypeCorrect == Spec => []TypeOK
<1>1. IInv => TypeOK
  BY DEF IInv
<1> QED
  BY InductiveInv, <1>1, PTL

(* However processes crash, restart and reuse pids, and whatever contenders *)
(* remove, a process that holds the lock has its own lock file there, until *)
(* one of the faults the lock does not rule out.                           *)
THEOREM FileBacksHoldHolds == Spec => []FileBacksHold
<1>1. IInv => FileBacksHold
  BY DEF IInv, ExclusiveInv, FileBacksHold
<1> QED
  BY InductiveInv, <1>1, PTL

(* The re-entrancy count is the number of users, even after a fault: no    *)
(* release is taken for the last one too early or never.                   *)
THEOREM CountMatchesUsersHolds == Spec => []CountMatchesUsers
<1>1. IInv => CountMatchesUsers
  <2> SUFFICES ASSUME IInv, NEW p \in Proc, held[p] # NoCaller
               PROVE  count[held[p]] = Cardinality(Users(held[p]))
    BY DEF CountMatchesUsers
  <2>1. held[p] \in Caller
    BY DEF IInv, TypeOK
  <2>2. Users(held[p]) = UsersOf(at, hold, held[p])
    BY <2>1, UserFacts DEF IInv
  <2> QED
    BY <2>1, <2>2, HeldCounted DEF IInv
<1> QED
  BY InductiveInv, <1>1, PTL

(* A process that is up leaves no lock file behind, whatever has gone      *)
(* wrong: the file is in use or that process will remove it, unless it has *)
(* tried to and the removal failed.                                        *)
THEOREM LiveFileHasOwnerHolds == Spec => []LiveFileHasOwner
<1>1. IInv => LiveFileHasOwner
  <2> DEFINE p == ProcOf[file.by]
  <2> SUFFICES ASSUME IInv, file # NoFile, proc[p] = "up", file.by \notin left
               PROVE  \/ InUse(file.by)
                      \/ \E c \in Caller : At(c, "rm") /\ ProcOf[c] = p
                      \/ held[p] # NoCaller \/ dog[p]
    BY DEF LiveFileHasOwner
  <2>1. file.by \in Caller /\ ProcOf[file.by] \in Proc
    BY ProcessAssumption DEF IInv, FileInv, Made, TypeOK, File
  <2>2. /\ at[file.by] \in {"write", "set", "failed"} => InUse(file.by)
        /\ \A c \in Caller : at[c] = "rm" => At(c, "rm")
    BY <2>1 DEF IInv, ProcInv, InUse, At
  <2> QED
    BY <2>1, <2>2, CallerAssumption DEF IInv, OwnerInv
<1> QED
  BY InductiveInv, <1>1, PTL

-----------------------------------------------------------------------------
(* Refinement.                                                             *)

(* The hold a caller uses, as the abstract lock sees it.                   *)
using == [c \in Caller |-> IF At(c, "using") THEN hold[c] ELSE NoCaller]

LEMMA UsingFacts ==
    ASSUME ProcInv
    PROVE  using = [c \in Caller |-> IF at[c] = "using" THEN hold[c] ELSE NoCaller]
BY DEF using, At, ProcInv

LEMMA UsingFactsNext ==
    ASSUME ProcInv'
    PROVE  using' = [c \in Caller |-> IF at'[c] = "using" THEN hold'[c] ELSE NoCaller]
BY DEF using, At, ProcInv

(* The initial states are those of the abstract lock, and every step is    *)
(* one of its steps or none.                                               *)
LEMMA LockInit == Init => Lock!Init
BY DEF Init, Lock!Init, At

LEMMA LockStep ==
    ASSUME IInv, IInv', [Next]_vars
    PROVE  [Lock!Next]_<<using, fault # "none">>
<1> USE ProcessAssumption, CallerAssumption
<1>0. /\ at \in [Caller -> {"idle", "open", "write", "set", "failed", "read", "inspect", "stat",
                            "reclaim", "using", "rm", "done", "threw"}]
      /\ hold \in [Caller -> Caller \cup {NoCaller}]
      /\ held \in [Proc -> Caller \cup {NoCaller}] /\ fault \in Faults
  BY DEF IInv, TypeOK
<1>u. using = [c \in Caller |-> IF at[c] = "using" THEN hold[c] ELSE NoCaller]
  BY UsingFacts DEF IInv
<1>v. using' = [c \in Caller |-> IF at'[c] = "using" THEN hold'[c] ELSE NoCaller]
  BY UsingFactsNext DEF IInv
<1>n. Lock!Users = {c \in Caller : using[c] # NoCaller}
  BY DEF Lock!Users, using
<1> DEFINE Goal == [Lock!Next]_<<using, fault # "none">>
<1>a. ASSUME hold' = hold, \A c \in Caller : at'[c] = "using" <=> at[c] = "using"
      PROVE  using' = using
  BY <1>a, <1>u, <1>v
<1>b. ASSUME using' = using PROVE fault' = fault \/ fault' # "none" => Goal
  BY <1>b DEF Lock!Next, Lock!Fault, using
<1>1. ASSUME NEW c \in Caller,
             \/ AcquireFile(c) \/ OpenCreates(c) \/ OpenExists(c) \/ AcquireThrows(c)
             \/ WritePayload(c) \/ WriteFails(c) \/ RemoveFailed(c)
             \/ readLockPayload(c) \/ Inspect(c) \/ StatLockFile(c) \/ StatFails(c) \/ ReclaimLockFile(c)
             \/ RemoveReleased(c)
      PROVE  Goal
  <2>1. /\ at[c] # "using" /\ hold' = hold
        /\ \E w \in {"open", "write", "read", "threw", "set", "failed", "inspect", "stat",
                     "reclaim", "done"} : at' = [at EXCEPT ![c] = w]
    BY <1>1 DEF AcquireFile, OpenCreates, OpenExists, AcquireThrows, WritePayload, WriteFails,
                RemoveFailed, readLockPayload, Inspect, StatLockFile, StatFails, ReclaimLockFile,
                RemoveReleased, At, Goto
  <2>2. \A d \in Caller : at'[d] = "using" <=> at[d] = "using"
    BY <1>0, <2>1
  <2>3. using' = using
    BY <1>a, <2>1, <2>2
  <2>4. fault' = fault \/ fault' # "none"
    BY <1>1 DEF AcquireFile, OpenCreates, OpenExists, AcquireThrows, WritePayload, WriteFails,
                RemoveFailed, readLockPayload, Inspect, StatLockFile, StatFails, ReclaimLockFile,
                RemoveReleased, Blame
  <2> QED
    BY <1>b, <2>3, <2>4
<1>2. ASSUME NEW c \in Caller, AcquireShared(c) PROVE Goal
  <2> DEFINE h == held[ProcOf[c]]
  <2>1. /\ at[c] = "idle" /\ h \in Caller /\ fault' = fault
        /\ at' = [at EXCEPT ![c] = "using"] /\ hold' = [hold EXCEPT ![c] = h]
    BY <1>0, <1>2 DEF AcquireShared, At, Goto
  <2>2. PICK e \in Caller : at[e] = "using" /\ hold[e] = h
    <3>1. UsersOf(at, hold, h) # {}
      BY <2>1 DEF IInv, CountInv
    <3> QED
      BY <3>1 DEF UsersOf
  <2>3. using[c] = NoCaller /\ using[e] = h /\ e \in Lock!Users
    BY <1>u, <1>n, <2>1, <2>2
  <2>4. using' = [using EXCEPT ![c] = h]
    BY <1>0, <1>u, <1>v, <2>1
  <2>5. Lock!Share(c)
    BY <2>1, <2>3, <2>4 DEF Lock!Share, using
  <2> QED
    BY <2>5 DEF Lock!Next
<1>3. ASSUME NEW c \in Caller, SetHeld(c) PROVE Goal
  <2>1. /\ at[c] = "set" /\ fault' = fault
        /\ at' = [at EXCEPT ![c] = "using"] /\ hold' = [hold EXCEPT ![c] = c]
    BY <1>3 DEF SetHeld, At, Goto
  <2>2. using' = [using EXCEPT ![c] = c] /\ using[c] = NoCaller
    BY <1>0, <1>u, <1>v, <2>1
  <2>3. ASSUME fault = "none" PROVE Lock!Users = {}
    <3>1. file.by = c
      BY <2>1, <2>3 DEF IInv, ExclusiveInv
    <3>2. \A d \in Caller : hold[d] # c
      BY <2>1 DEF IInv, HoldInv, Given
    <3>3. \A d \in Caller : at[d] # "using"
      BY <2>3, <3>1, <3>2 DEF IInv, ExclusiveInv, HoldInv
    <3> QED
      BY <1>u, <1>n, <3>3
  <2>4. Lock!Acquire(c)
    BY <2>1, <2>2, <2>3 DEF Lock!Acquire, using
  <2> QED
    BY <2>4 DEF Lock!Next
<1>4. ASSUME NEW gone \in SUBSET Lock!Users, fault' = fault,
             using' = [c \in Caller |-> IF c \in gone THEN NoCaller ELSE using[c]]
      PROVE  Goal
  <2>1. Lock!Leave
    BY <1>4 DEF Lock!Leave, using
  <2> QED
    BY <2>1 DEF Lock!Next
<1>5. ASSUME NEW c \in Caller, releaseHeldLock(c) PROVE Goal
  <2>1. /\ at[c] = "using" /\ hold' = hold /\ fault' = fault
        /\ \E w \in {"done", "rm"} : at' = [at EXCEPT ![c] = w]
    BY <1>5 DEF releaseHeldLock, At, Goto
  <2>2. c \in Lock!Users
    BY <1>u, <1>n, <2>1 DEF IInv, HoldInv
  <2>3. using' = [d \in Caller |-> IF d \in {c} THEN NoCaller ELSE using[d]]
    BY <1>0, <1>u, <1>v, <2>1
  <2>4. {c} \in SUBSET Lock!Users
    BY <2>2
  <2> QED
    BY <1>4, <2>1, <2>3, <2>4
<1>6. ASSUME NEW p \in Proc, Exit(p) \/ Crash(p) PROVE Goal
  <2> DEFINE gone == {c \in Lock!Users : ProcOf[c] = p}
  <2>1. /\ at' = [c \in Caller |-> IF ProcOf[c] = p THEN "done" ELSE at[c]]
        /\ hold' = [c \in Caller |-> IF ProcOf[c] = p THEN NoCaller ELSE hold[c]]
        /\ fault' = fault
    BY <1>6 DEF Exit, Crash, Die
  <2>2. using' = [c \in Caller |-> IF c \in gone THEN NoCaller ELSE using[c]]
    BY <1>u, <1>v, <1>n, <2>1
  <2> HIDE DEF gone
  <2>3. gone \in SUBSET Lock!Users
    BY DEF gone
  <2> QED
    BY <1>4, <2>1, <2>2, <2>3
<1>7. ASSUME NEW p \in Proc, \/ runLockWatchdogCheck(p) \/ WatchdogRemoves(p)
                             \/ handleTerminationSignal(p) \/ Start(p)
                             \/ ScanLists(p) \/ ScanReads(p) \/ ScanFails(p) \/ ScanRemoves(p)
      PROVE  Goal
  <2>1. UNCHANGED <<at, hold>>
    BY <1>7 DEF runLockWatchdogCheck, WatchdogRemoves, handleTerminationSignal, Start,
                ScanLists, ScanReads, ScanFails, ScanRemoves
  <2>2. fault' = fault \/ fault' # "none"
    BY <1>7 DEF runLockWatchdogCheck, WatchdogRemoves, handleTerminationSignal, Start,
                ScanLists, ScanReads, ScanFails, ScanRemoves, Blame
  <2>3. using' = using
    BY <1>a, <2>1
  <2> QED
    BY <1>b, <2>2, <2>3
<1>8. CASE Age \/ UNCHANGED vars
  <2>1. UNCHANGED <<at, hold, fault>>
    BY <1>8 DEF Age, vars
  <2>2. using' = using
    BY <1>a, <2>1
  <2> QED
    BY <1>b, <2>1, <2>2
<1> QED
  BY <1>1, <1>2, <1>3, <1>5, <1>6, <1>7, <1>8 DEF Next, Acquiring, Releasing

(* The lock file, the counts, release and reclaiming implement the         *)
(* abstract lock for all processes and callers: those that use the lock at *)
(* the same time share a hold, until one of the faults.                    *)
THEOREM ImplementsSessionLock == Spec => IsSessionLock
<1>1. IInv /\ IInv' /\ [Next]_vars => [Lock!Next]_<<using, fault # "none">>
  BY LockStep
<1> QED
  BY LockInit, InductiveInv, <1>1, PTL DEF Spec, IsSessionLock, Lock!Spec, using

=============================================================================
