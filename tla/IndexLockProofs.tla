-------------------------- MODULE IndexLockProofs --------------------------
(***************************************************************************)
(* Proofs about IndexLock, for every set of processes and every bound.     *)
(***************************************************************************)
EXTENDS IndexLock, TLAPS

-----------------------------------------------------------------------------
(* Type correctness.                                                       *)

\* The inodes the file system hands out again are inodes of generations.
LEMMA FreeInodesType ==
    ASSUME TypeOK
    PROVE  FreeInodes \subseteq Gens
BY LockConstants DEF FreeInodes, TypeOK, Gens, GenOrNone

\* A new generation is typed whichever inode it is given.
LEMMA NewGenerationType ==
    ASSUME TypeOK, NEW p \in Procs, NEW i \in GenOrNone, NEW d \in BOOLEAN,
           NewGeneration(p, i, d)
    PROVE  /\ canonical' \in GenOrNone
           /\ gens' \in GenOrNone
           /\ gens + 1 \in Gens
           /\ ownerOf' \in [Gens -> Procs \cup {NoProc}]
           /\ ino' \in [Gens -> Gens]
           /\ dir' \in [Gens -> BOOLEAN]
           /\ token' \in [Gens -> GenOrNone]
           /\ held' \in [Procs -> GenOrNone]
<1>1. gens + 1 \in Gens /\ gens + 1 \in GenOrNone /\ 0 \in GenOrNone
  BY LockConstants DEF NewGeneration, TypeOK, Gens, GenOrNone
<1>2. (IF i = 0 THEN gens + 1 ELSE i) \in Gens
  BY <1>1, LockConstants DEF Gens, GenOrNone
<1> QED
  BY <1>1, <1>2 DEF NewGeneration, TypeOK

\* Every system call of internal/fs/lock.go keeps the state well typed.
LEMMA TypeStep ==
    ASSUME TypeOK, [Next]_vars
    PROVE  TypeOK'
<1> USE LockConstants
<1>1. ASSUME NEW p \in Procs, Acquire(p) PROVE TypeOK'
  BY <1>1 DEF Acquire, Goto, TypeOK, PCs, Acquiring
<1>2. ASSUME NEW p \in Procs, Prepare(p) PROVE TypeOK'
  <2>1. \A i \in {0} \cup FreeInodes : i \in GenOrNone
    BY FreeInodesType DEF Gens, GenOrNone
  <2> QED BY <1>2, <2>1 DEF Prepare, Goto, TypeOK, PCs, Acquiring, GenOrNone
<1>3. ASSUME NEW p \in Procs, PublishFile(p) PROVE TypeOK'
  <2>1. prep[p] \in GenOrNone BY DEF TypeOK
  <2> QED BY <1>3, <2>1, NewGenerationType DEF PublishFile, Goto, TypeOK, PCs
<1>4. ASSUME NEW p \in Procs, PublishDir(p) PROVE TypeOK'
  <2>1. PICK i \in {0} \cup FreeInodes : NewGeneration(p, i, TRUE)
    BY <1>4 DEF PublishDir
  <2>2. i \in GenOrNone
    BY FreeInodesType DEF Gens, GenOrNone
  <2>3. faults' \in 0..MaxFaults /\ pc' \in [Procs -> PCs]
    BY <1>4 DEF PublishDir, Goto, TypeOK, PCs
  <2>4. TRUE \in BOOLEAN
    OBVIOUS
  <2>5. /\ canonical' \in GenOrNone /\ gens' \in GenOrNone
        /\ ownerOf' \in [Gens -> Procs \cup {NoProc}] /\ ino' \in [Gens -> Gens]
        /\ dir' \in [Gens -> BOOLEAN] /\ token' \in [Gens -> GenOrNone]
        /\ held' \in [Procs -> GenOrNone]
    BY <2>1, <2>2, <2>4, NewGenerationType
  <2> QED
    BY <1>4, <2>3, <2>5 DEF PublishDir, TypeOK
<1>5. ASSUME NEW p \in Procs, FillDir(p) PROVE TypeOK'
  BY <1>5 DEF FillDir, IsDirectory, Goto, TypeOK, PCs, GenOrNone, Gens
<1>6. ASSUME NEW p \in Procs, PublishExists(p) PROVE TypeOK'
  BY <1>6 DEF PublishExists, Goto, TypeOK, PCs, Acquiring
<1>7. ASSUME NEW p \in Procs, StatCanonical(p) PROVE TypeOK'
  BY <1>7 DEF StatCanonical, Goto, TypeOK, PCs, Acquiring
<1>8. ASSUME NEW p \in Procs, ReadOwner(p) PROVE TypeOK'
  <2>1. (IF canonical # 0 THEN token[canonical] ELSE 0) \in GenOrNone
    <3>1. 0 \in GenOrNone /\ (canonical \in GenOrNone /\ canonical # 0 => canonical \in Gens)
      BY DEF GenOrNone, Gens
    <3> QED BY <3>1 DEF TypeOK
  <2> QED BY <1>8, <2>1 DEF ReadOwner, Goto, TypeOK, PCs, Acquiring
<1>9. ASSUME NEW p \in Procs, RecheckName(p) PROVE TypeOK'
  BY <1>9 DEF RecheckName, Goto, TypeOK, PCs, Acquiring
<1>10. ASSUME NEW p \in Procs, JudgeDead(p) \/ JudgeBusy(p) \/ Timeout(p) \/ BackOff(p)
       PROVE TypeOK'
  BY <1>10 DEF JudgeDead, JudgeBusy, Timeout, BackOff, Goto, TypeOK, PCs, Acquiring
<1>11. ASSUME NEW p \in Procs, LinkTombstone(p) PROVE TypeOK'
  BY <1>11 DEF LinkTombstone, Goto, TypeOK, PCs, GenOrNone
<1>12. ASSUME NEW p \in Procs, StatTombstone(p) PROVE TypeOK'
  BY <1>12 DEF StatTombstone, Goto, TypeOK, PCs, GenOrNone
<1>13. ASSUME NEW p \in Procs, StatBeforeRemove(p) PROVE TypeOK'
  <2>1. overlap' \in BOOLEAN
    BY <1>13 DEF StatBeforeRemove, NoteOverlap, TypeOK
  <2> QED BY <1>13, <2>1 DEF StatBeforeRemove, Goto, TypeOK, PCs, GenOrNone
<1>14. ASSUME NEW p \in Procs, StatBeforeRelay(p) PROVE TypeOK'
  <2>1. overlap' \in BOOLEAN
    BY <1>14 DEF StatBeforeRelay, NoteOverlap, TypeOK
  <2> QED BY <1>14, <2>1 DEF StatBeforeRelay, Goto, TypeOK, PCs
<1>15. ASSUME NEW p \in Procs, RemoveStale(p) PROVE TypeOK'
  BY <1>15 DEF RemoveStale, RemoveEntry, Goto, TypeOK, PCs, Acquiring, GenOrNone
<1>16. ASSUME NEW p \in Procs, RefuseDirectory(p) PROVE TypeOK'
  BY <1>16 DEF RefuseDirectory, Goto, TypeOK, PCs
<1>17. ASSUME NEW p \in Procs, ReleaseRead(p) PROVE TypeOK'
  BY <1>17 DEF ReleaseRead, Goto, TypeOK, PCs, GenOrNone
<1>18. ASSUME NEW p \in Procs, ReleaseFile(p) \/ ReleaseDir(p) PROVE TypeOK'
  BY <1>18 DEF ReleaseFile, ReleaseDir, Unlinked, RemoveEntry, Goto, TypeOK, PCs, GenOrNone
<1>19. ASSUME NEW p \in Procs, ReleaseOwner(p) PROVE TypeOK'
  <2>1. 0 \in GenOrNone
    BY DEF GenOrNone
  <2> QED BY <1>19, <2>1 DEF ReleaseOwner, Goto, TypeOK, PCs
<1>20. ASSUME NEW p \in Procs, Fault(p) PROVE TypeOK'
  <2>1. CASE FillDirFails(p)
    <3>1. 0 \in GenOrNone
      BY DEF GenOrNone
    <3>2. faults' \in 0..MaxFaults
      BY <2>1 DEF FillDirFails, TypeOK
    <3> QED BY <2>1, <3>1, <3>2 DEF FillDirFails, RemoveEntry, Goto, TypeOK, PCs
  <2>2. CASE QuarantineFails(p)
    <3>1. 0 \in GenOrNone
      BY DEF GenOrNone
    <3>2. faults' \in 0..MaxFaults
      BY <2>2 DEF QuarantineFails, TypeOK
    <3>3. tomb' \in [GenOrNone \X Gens -> GenOrNone]
      BY <2>2, <3>1 DEF QuarantineFails, TypeOK
    <3>4. pc' \in [Procs -> PCs]
      BY <2>2 DEF QuarantineFails, Goto, TypeOK, PCs
    <3> QED BY <2>2, <3>2, <3>3, <3>4 DEF QuarantineFails, TypeOK
  <2>3. CASE AcquireFails(p) \/ ReleaseFails(p)
    BY <2>3 DEF AcquireFails, ReleaseFails, Goto, TypeOK, PCs, GenOrNone
  <2> QED BY <1>20, <2>1, <2>2, <2>3 DEF Fault
<1>21. ASSUME NEW p \in Procs, Crash(p) PROVE TypeOK'
  BY <1>21 DEF Crash, Goto, TypeOK, PCs
<1>22. CASE UNCHANGED vars
  BY <1>22 DEF vars, TypeOK
<1> QED
  BY <1>1, <1>2, <1>3, <1>4, <1>5, <1>6, <1>7, <1>8, <1>9, <1>10, <1>11, <1>12,
     <1>13, <1>14, <1>15, <1>16, <1>17, <1>18, <1>19, <1>20, <1>21, <1>22
     DEF Next, Step

\* No lock, every process outside: a typed state.
LEMMA TypeInit == Init => TypeOK
<1> SUFFICES ASSUME Init PROVE TypeOK
  OBVIOUS
<1>1. 0 \in GenOrNone /\ 0 \in 0..MaxFaults /\ "idle" \in PCs
  BY LockConstants DEF GenOrNone, PCs
<1>2. /\ ownerOf \in [Gens -> Procs \cup {NoProc}]
      /\ dir \in [Gens -> BOOLEAN] /\ token \in [Gens -> GenOrNone]
  BY <1>1 DEF Init
<1>3. ino \in [Gens -> Gens] /\ tomb \in [GenOrNone \X Gens -> GenOrNone]
  BY <1>1 DEF Init
<1> QED
  BY <1>1, <1>2, <1>3 DEF Init, TypeOK

\* Types hold in every reachable state: one entry, generations in order.
THEOREM TypeCorrect == Spec => []TypeOK
<1> QED
  BY TypeInit, TypeStep, PTL DEF Spec

-----------------------------------------------------------------------------
(* Mutual exclusion, where inodes identify generations or every lock is a  *)
(* directory, which is never taken over.                                   *)

USE DEF HardLinks

\* Labels after a judgement that the observed file's owner is dead.
Quarantine == {"link", "tombstat", "canonstat", "remove", "relaytomb",
               "relaycanon", "relayremove"}

\* Labels between the creation of an entry and the end of its Release.
Owning == {"initdir", "held", "unlink", "rmdir"}

\* An entry on disk was created, and so was the token in it; a file lock needs hard
\* links, and where there are some, inodes tell locks apart.
GenerationsNumbered ==
    /\ canonical <= gens
    /\ \A g \in Gens : token[g] <= gens
    /\ ~HardLinks => \A g \in 1..gens : dir[g]
    /\ HardLinks => \A g \in Gens : ino[g] = g
    /\ HardLinks => \A p \in Procs : prep[p] = 0

\* What a process believes it owns was created by it, and is on disk as long
\* as no two recoverers overlapped.
OwnerOnDisk(p) ==
    pc[p] \in Owning =>
        /\ held[p] \in 1..gens
        /\ ownerOf[held[p]] = p
        /\ ~overlap => canonical = held[p]

\* What a process has observed existed at some time; a file lock's owner
\* record and FileInfo are of one generation once the name was re-checked.
ObservationCoherent(p) ==
    /\ pc[p] \in {"open", "recheck", "judge"} \cup Quarantine =>
          obs[p] \in 1..gens
    /\ pc[p] = "recheck" => opened[p] \in 1..gens
    /\ ~dir[obs[p]] /\ pc[p] \in {"judge"} \cup Quarantine => opened[p] = obs[p]

\* Only file locks whose owner exited are quarantined.
QuarantineOfDead(p) ==
    pc[p] \in Quarantine => ~dir[obs[p]] /\ Dead(obs[p])

ProcInv(p) ==
    /\ OwnerOnDisk(p)
    /\ ObservationCoherent(p)
    /\ QuarantineOfDead(p)

\* Without overlap one process at a time is about to remove, and what it is
\* about to remove is still the dead lock it observed.
OneRemover ==
    ~overlap => \A p, q \in Removing : canonical = obs[p] /\ p = q

LockInv ==
    /\ TypeOK
    /\ GenerationsNumbered
    /\ \A p \in Procs : ProcInv(p)
    /\ OneRemover

\* A step of process p that moves only p.
Local(p) ==
    /\ UNCHANGED <<fs, canonical, gens, ownerOf, ino, dir>>
    /\ \A g \in Gens : token'[g] = token[g] \/ token'[g] \in 0..gens
    /\ pc[p] # "crashed"
    /\ \A q \in Procs \ {p} : /\ pc'[q] = pc[q] /\ prep'[q] = prep[q]
                             /\ obs'[q] = obs[q] /\ opened'[q] = opened[q]
                             /\ held'[q] = held[q]

\* Exiting is for good.
LEMMA DeadForGood ==
    ASSUME TypeOK, NEW p \in Procs, Local(p), NEW g \in Gens, Dead(g)
    PROVE  Dead(g)'
BY LockConstants DEF Local, Dead, TypeOK

\* The other processes' invariant survives a step that moves only p.
LEMMA OthersKept ==
    ASSUME TypeOK, NEW p \in Procs, NEW q \in Procs \ {p}, Local(p),
           ProcInv(q), overlap => overlap'
    PROVE  ProcInv(q)'
<1> USE DEF Local
<1>1. OwnerOnDisk(q)'
  BY DEF ProcInv, OwnerOnDisk
<1>2. ObservationCoherent(q)'
  BY DEF ProcInv, ObservationCoherent
<1>3. QuarantineOfDead(q)'
  <2> SUFFICES ASSUME pc[q] \in Quarantine PROVE ~dir[obs[q]] /\ Dead(obs[q])'
    BY DEF QuarantineOfDead, Dead
  <2>1. ~dir[obs[q]] /\ Dead(obs[q]) /\ obs[q] \in 1..gens
    BY DEF ProcInv, QuarantineOfDead, ObservationCoherent
  <2>2. obs[q] \in Gens
    BY <2>1, LockConstants DEF TypeOK, Gens, GenOrNone
  <2> QED BY <2>1, <2>2, DeadForGood DEF Dead
<1> QED BY <1>1, <1>2, <1>3 DEF ProcInv

\* A step that moves only p, and not to an os.Remove, keeps the invariant if it
\* keeps p's part of it.
LEMMA LocalStep ==
    ASSUME LockInv, TypeOK', NEW p \in Procs, Local(p), UNCHANGED overlap,
           ProcInv(p)', HardLinks => prep'[p] = 0,
           pc'[p] \notin {"remove", "relayremove"}
    PROVE  LockInv'
<1>1. GenerationsNumbered'
  BY DEF LockInv, GenerationsNumbered, Local
<1>2. \A q \in Procs : ProcInv(q)'
  BY OthersKept DEF LockInv
<1>3. OneRemover'
  BY DEF LockInv, OneRemover, Removing, Local
<1> QED BY <1>1, <1>2, <1>3 DEF LockInv

\* Labels that carry no obligation: outside, about to try, waiting, gone.
Free == {"idle", "prepare", "publish", "stat", "samegen", "wait", "crashed"}

\* A step that moves p to such a label keeps the invariant.
LEMMA FreeStep ==
    ASSUME LockInv, TypeOK', NEW p \in Procs, Local(p), UNCHANGED overlap,
           pc'[p] \in Free, HardLinks => prep'[p] = 0
    PROVE  LockInv'
<1>1. ProcInv(p)'
  BY DEF ProcInv, OwnerOnDisk, ObservationCoherent, QuarantineOfDead,
         Free, Owning, Quarantine
<1> QED BY <1>1, LocalStep DEF Free

\* The steps that leave the entry alone.
LEMMA FreeActions ==
    ASSUME InodesIdentify, LockInv, TypeOK', NEW p \in Procs,
           \/ Acquire(p) \/ Prepare(p) \/ PublishExists(p) \/ JudgeBusy(p) \/ Timeout(p) \/ BackOff(p)
           \/ RefuseDirectory(p) \/ AcquireFails(p) \/ QuarantineFails(p) \/ ReleaseFails(p) \/ Crash(p)
    PROVE  LockInv'
<1>t. TypeOK /\ (HardLinks => prep[p] = 0)
  BY DEF LockInv, GenerationsNumbered
<1> USE <1>t DEF Local, Free, Goto
<1>1. CASE Acquire(p)
  <2>1. Local(p) /\ UNCHANGED overlap /\ pc'[p] \in Free /\ (HardLinks => prep'[p] = 0)
    BY <1>1 DEF Acquire, TypeOK
  <2> QED BY <2>1, FreeStep
<1>2. CASE Prepare(p)
  <2>1. Local(p) /\ UNCHANGED overlap /\ pc'[p] \in Free /\ (HardLinks => prep'[p] = 0)
    BY <1>2 DEF Prepare, FreeInodes, InodesIdentify, InodeReuse, TypeOK
  <2> QED BY <2>1, FreeStep
<1>3. CASE PublishExists(p)
  <2>1. Local(p) /\ UNCHANGED overlap /\ pc'[p] \in Free /\ (HardLinks => prep'[p] = 0)
    BY <1>3 DEF PublishExists, TypeOK
  <2> QED BY <2>1, FreeStep
<1>4. CASE JudgeBusy(p)
  <2>1. Local(p) /\ UNCHANGED overlap /\ pc'[p] \in Free /\ (HardLinks => prep'[p] = 0)
    BY <1>4 DEF JudgeBusy, TypeOK
  <2> QED BY <2>1, FreeStep
<1>5. CASE Timeout(p)
  <2>1. Local(p) /\ UNCHANGED overlap /\ pc'[p] \in Free /\ (HardLinks => prep'[p] = 0)
    BY <1>5 DEF Timeout, TypeOK
  <2> QED BY <2>1, FreeStep
<1>6. CASE BackOff(p)
  <2>1. Local(p) /\ UNCHANGED overlap /\ pc'[p] \in Free /\ (HardLinks => prep'[p] = 0)
    BY <1>6 DEF BackOff, TypeOK
  <2> QED BY <2>1, FreeStep
<1>7. CASE RefuseDirectory(p)
  <2>1. Local(p) /\ UNCHANGED overlap /\ pc'[p] \in Free /\ (HardLinks => prep'[p] = 0)
    BY <1>7 DEF RefuseDirectory, TypeOK
  <2> QED BY <2>1, FreeStep
<1>8. CASE AcquireFails(p)
  <2>1. Local(p) /\ UNCHANGED overlap /\ pc'[p] \in Free /\ (HardLinks => prep'[p] = 0)
    BY <1>8 DEF AcquireFails, Acquiring, TypeOK
  <2> QED BY <2>1, FreeStep
<1>9. CASE QuarantineFails(p)
  <2>1. Local(p) /\ UNCHANGED overlap /\ pc'[p] \in Free /\ (HardLinks => prep'[p] = 0)
    BY <1>9 DEF QuarantineFails, TypeOK
  <2> QED BY <2>1, FreeStep
<1>10. CASE ReleaseFails(p)
  <2>1. Local(p) /\ UNCHANGED overlap /\ pc'[p] \in Free /\ (HardLinks => prep'[p] = 0)
    BY <1>10 DEF ReleaseFails, TypeOK
  <2> QED BY <2>1, FreeStep
<1>11. CASE Crash(p)
  <2>1. Local(p) /\ UNCHANGED overlap /\ pc'[p] \in Free /\ (HardLinks => prep'[p] = 0)
    BY <1>11 DEF Crash, TypeOK
  <2> QED BY <2>1, FreeStep
<1> QED BY <1>1, <1>2, <1>3, <1>4, <1>5, <1>6, <1>7, <1>8, <1>9, <1>10, <1>11

\* The steps of observeLockOwner and of the judgement.
LEMMA ObserveActions ==
    ASSUME InodesIdentify, LockInv, TypeOK', NEW p \in Procs,
           \/ StatCanonical(p) \/ ReadOwner(p) \/ RecheckName(p) \/ JudgeDead(p)
    PROVE  LockInv'
<1>t. TypeOK /\ GenerationsNumbered /\ ProcInv(p)
  BY DEF LockInv
<1>n. gens \in 0..MaxGen /\ canonical \in 0..gens
  BY <1>t, LockConstants DEF TypeOK, GenerationsNumbered, GenOrNone
<1> USE DEF Goto
<1>1. CASE StatCanonical(p)
  <2>1. /\ Local(p) /\ UNCHANGED overlap /\ prep' = prep
        /\ pc'[p] = IF canonical = 0 THEN "prepare" ELSE "open"
        /\ obs'[p] = canonical /\ gens' = gens
    BY <1>1, <1>t DEF StatCanonical, Local, TypeOK
  <2>2. ProcInv(p)'
    BY <2>1, <1>n DEF ProcInv, OwnerOnDisk, ObservationCoherent, QuarantineOfDead,
                      Owning, Quarantine
  <2> QED BY <2>1, <2>2, <1>t, LocalStep DEF GenerationsNumbered
<1>2. CASE ReadOwner(p)
  <2>1. /\ Local(p) /\ UNCHANGED overlap /\ prep' = prep /\ UNCHANGED <<fs, gens>>
        /\ pc[p] = "open" /\ obs'[p] = obs[p]
        /\ pc'[p] \in {"recheck", "prepare", "judge"}
        /\ pc'[p] = "recheck" => opened'[p] \in 1..gens
        /\ pc'[p] = "judge" => dir[obs[p]] /\ UNCHANGED dir
    <3>1. canonical # 0 => token[canonical] \in 0..gens
      <4>1. canonical # 0 => canonical \in Gens
        BY <1>t, <1>n, LockConstants DEF Gens
      <4>2. \A g \in Gens : token[g] \in 0..MaxGen /\ token[g] <= gens
        BY <1>t DEF TypeOK, GenerationsNumbered, GenOrNone
      <4> QED BY <4>1, <4>2, <1>n, LockConstants
    <3>2. opened[p]' # 0 => opened'[p] \in 1..gens
      BY <1>2, <1>t, <1>n, <3>1 DEF ReadOwner, TypeOK
    <3> QED BY <1>2, <1>t, <3>2 DEF ReadOwner, Local, TypeOK
  <2>2. ProcInv(p)'
    BY <2>1, <1>n, <1>t DEF ProcInv, OwnerOnDisk, ObservationCoherent,
                            QuarantineOfDead, Owning, Quarantine
  <2> QED BY <2>1, <2>2, <1>t, LocalStep DEF GenerationsNumbered
<1>3. CASE RecheckName(p)
  <2>1. /\ Local(p) /\ UNCHANGED overlap /\ prep' = prep /\ UNCHANGED <<fs, gens>>
        /\ pc[p] = "recheck" /\ obs'[p] = obs[p] /\ opened'[p] = opened[p]
        /\ pc'[p] = IF StillObserved(p) THEN "judge" ELSE "prepare"
        /\ UNCHANGED dir
    BY <1>3, <1>t DEF RecheckName, Local, TypeOK
  <2>2. obs[p] \in Gens /\ opened[p] \in Gens
    BY <2>1, <1>t, <1>n, LockConstants DEF ProcInv, ObservationCoherent, Gens
  <2>3. ~dir[obs[p]] /\ StillObserved(p) => opened[p] = obs[p]
    <3>1. obs[p] \in 1..gens
      BY <2>1, <1>t DEF ProcInv, ObservationCoherent
    <3>2. ~dir[obs[p]] => HardLinks
      BY <3>1, <1>t DEF GenerationsNumbered
    <3> QED BY <2>2, <3>2, <1>t, <1>n, LockConstants
               DEF StillObserved, SameAsCanonical, GenerationsNumbered, Gens
  <2>4. ProcInv(p)'
    BY <2>1, <2>3, <1>t DEF ProcInv, OwnerOnDisk, ObservationCoherent,
                            QuarantineOfDead, Owning, Quarantine
  <2> QED BY <2>1, <2>4, <1>t, LocalStep DEF GenerationsNumbered
<1>4. CASE JudgeDead(p)
  <2>1. /\ Local(p) /\ UNCHANGED overlap /\ prep' = prep /\ UNCHANGED <<fs, gens>>
        /\ pc[p] = "judge" /\ obs'[p] = obs[p] /\ opened'[p] = opened[p]
        /\ pc'[p] = IF dir[obs[p]] THEN "samegen" ELSE "link"
        /\ OwnerDead(p) /\ UNCHANGED dir
    BY <1>4, <1>t DEF JudgeDead, Local, TypeOK
  <2>2. ~dir[obs[p]] => opened[p] = obs[p] /\ obs[p] \in Gens /\ Dead(obs[p])
    BY <2>1, <1>t, <1>n, LockConstants
       DEF OwnerDead, ProcInv, ObservationCoherent, Gens
  <2>3. ~dir[obs[p]] => Dead(obs[p])'
    BY <2>1, <2>2, <1>t, DeadForGood DEF Dead
  <2>4. ProcInv(p)'
    BY <2>1, <2>2, <2>3, <1>t DEF ProcInv, OwnerOnDisk, ObservationCoherent,
                                  QuarantineOfDead, Owning, Quarantine
  <2> QED BY <2>1, <2>4, <1>t, LocalStep DEF GenerationsNumbered
<1> QED BY <1>1, <1>2, <1>3, <1>4

\* A step from one label of the quarantine to another keeps p's part.
LEMMA QuarantineKept ==
    ASSUME TypeOK, NEW p \in Procs, Local(p), ProcInv(p), pc[p] \in Quarantine,
           pc'[p] \in Quarantine, obs'[p] = obs[p], opened'[p] = opened[p]
    PROVE  ProcInv(p)'
<1>1. obs[p] \in 1..gens /\ ~dir[obs[p]] /\ Dead(obs[p]) /\ opened[p] = obs[p]
  BY DEF ProcInv, ObservationCoherent, QuarantineOfDead
<1>2. obs[p] \in Gens
  BY <1>1, LockConstants DEF TypeOK, Gens, GenOrNone
<1>3. Dead(obs[p])'
  BY <1>1, <1>2, DeadForGood DEF Dead
<1> QED
  BY <1>1, <1>3 DEF Local, ProcInv, OwnerOnDisk, ObservationCoherent,
                    QuarantineOfDead, Owning, Quarantine

\* The steps of quarantineStaleLock before a removal.
LEMMA TombstoneActions ==
    ASSUME LockInv, TypeOK', NEW p \in Procs,
           LinkTombstone(p) \/ StatTombstone(p)
    PROVE  LockInv'
<1>t. TypeOK /\ GenerationsNumbered /\ ProcInv(p)
  BY DEF LockInv
<1>1. /\ Local(p) /\ UNCHANGED overlap /\ prep' = prep /\ UNCHANGED <<fs, gens>>
      /\ pc[p] \in Quarantine /\ obs'[p] = obs[p] /\ opened'[p] = opened[p]
      /\ \/ pc'[p] \in {"wait", "idle"}
         \/ pc'[p] \in Quarantine /\ pc'[p] \notin {"remove", "relayremove"}
  BY <1>t DEF LinkTombstone, StatTombstone, Local, Goto, TypeOK, Quarantine
<1>2. CASE pc'[p] \in {"wait", "idle"}
  BY <1>1, <1>2, <1>t, FreeStep DEF Free, GenerationsNumbered
<1>3. CASE pc'[p] \in Quarantine /\ pc'[p] \notin {"remove", "relayremove"}
  BY <1>1, <1>3, <1>t, QuarantineKept, LocalStep DEF GenerationsNumbered
<1> QED BY <1>1, <1>2, <1>3

\* The re-check before a removal: a second remover sets overlap.
LEMMA RecheckActions ==
    ASSUME InodesIdentify, LockInv, TypeOK', NEW p \in Procs,
           StatBeforeRemove(p) \/ StatBeforeRelay(p)
    PROVE  LockInv'
<1>t. TypeOK /\ GenerationsNumbered /\ ProcInv(p) /\ OneRemover
  BY DEF LockInv
<1>1. /\ Local(p) /\ prep' = prep /\ gens' = gens
      /\ pc[p] \in Quarantine /\ obs'[p] = obs[p] /\ opened'[p] = opened[p]
      /\ canonical' = canonical
      /\ \/ pc'[p] = "wait" /\ UNCHANGED overlap
         \/ /\ pc'[p] \in {"remove", "relayremove"}
            /\ SameAsCanonical(obs[p])
            /\ overlap' = (overlap \/ Removing \ {p} # {})
  BY <1>t DEF StatBeforeRemove, StatBeforeRelay, NoteOverlap, Local, Goto, TypeOK,
              Quarantine
<1>2. CASE pc'[p] = "wait" /\ UNCHANGED overlap
  BY <1>1, <1>2, <1>t, FreeStep DEF Free, GenerationsNumbered
<1>3. CASE /\ pc'[p] \in {"remove", "relayremove"}
           /\ SameAsCanonical(obs[p])
           /\ overlap' = (overlap \/ Removing \ {p} # {})
  <2>1. canonical = obs[p]
    <3>1. HardLinks /\ obs[p] \in 1..gens
      BY <1>1, <1>t DEF ProcInv, QuarantineOfDead, ObservationCoherent, GenerationsNumbered
    <3>2. obs[p] \in Gens /\ (canonical # 0 => canonical \in Gens)
      BY <3>1, <1>t, LockConstants DEF TypeOK, Gens, GenOrNone
    <3> QED BY <1>3, <3>1, <3>2, <1>t DEF SameAsCanonical, GenerationsNumbered
  <2>2. GenerationsNumbered'
    BY <1>1, <1>t DEF GenerationsNumbered, Local
  <2>3. pc'[p] \in Quarantine
    BY <1>3 DEF Quarantine
  <2>4. \A q \in Procs : ProcInv(q)'
    <3>1. ProcInv(p)'
      BY <1>1, <1>t, <2>3, QuarantineKept
    <3>2. overlap => overlap'
      BY <1>3
    <3> QED BY <1>1, <1>t, <3>1, <3>2, OthersKept DEF LockInv
  <2>5. OneRemover'
    <3> SUFFICES ASSUME ~overlap', NEW q \in Procs, pc'[q] \in {"remove", "relayremove"}
                 PROVE  q = p
      BY <1>1, <2>1 DEF OneRemover, Removing
    <3>1. Removing \subseteq {p}
      BY <1>3
    <3> QED BY <3>1, <1>1 DEF Removing, Local
  <2> QED BY <2>2, <2>4, <2>5 DEF LockInv
<1> QED BY <1>1, <1>2, <1>3

\* Steps that change the entry: everything but p's own state and the entry stays.
EntryStep(p) ==
    /\ UNCHANGED <<fs, ownerOf, ino, dir, token, gens, overlap>>
    /\ pc[p] # "crashed"
    /\ \A q \in Procs \ {p} : /\ pc'[q] = pc[q] /\ prep'[q] = prep[q]
                             /\ obs'[q] = obs[q] /\ opened'[q] = opened[q]
                             /\ held'[q] = held[q]

\* Removing the entry keeps the invariant if nobody else counts on it.
LEMMA EntryRemoved ==
    ASSUME LockInv, TypeOK', NEW p \in Procs, EntryStep(p), canonical' = 0,
           pc'[p] \in Free, HardLinks => prep'[p] = 0,
           ~overlap => \A q \in Procs \ {p} : pc[q] \notin Owning /\ q \notin Removing
    PROVE  LockInv'
<1>1. GenerationsNumbered'
  BY LockConstants DEF LockInv, GenerationsNumbered, EntryStep, TypeOK, GenOrNone
<1>2. ProcInv(p)'
  BY DEF ProcInv, OwnerOnDisk, ObservationCoherent, QuarantineOfDead,
         Free, Owning, Quarantine
<1>3. ASSUME NEW q \in Procs \ {p} PROVE ProcInv(q)'
  <2>t. ProcInv(q) /\ TypeOK
    BY DEF LockInv
  <2>1. OwnerOnDisk(q)'
    BY <2>t DEF ProcInv, OwnerOnDisk, EntryStep
  <2>2. ObservationCoherent(q)'
    BY <2>t DEF ProcInv, ObservationCoherent, EntryStep
  <2>3. QuarantineOfDead(q)'
    <3> SUFFICES ASSUME pc[q] \in Quarantine PROVE ~dir[obs[q]] /\ Dead(obs[q])'
      BY DEF QuarantineOfDead, Dead, EntryStep
    <3>1. ~dir[obs[q]] /\ Dead(obs[q])
      BY <2>t DEF ProcInv, QuarantineOfDead
    <3> QED BY <3>1 DEF Dead, EntryStep
  <2> QED BY <2>1, <2>2, <2>3 DEF ProcInv
<1>4. OneRemover'
  <2> SUFFICES ASSUME ~overlap', NEW q \in Procs, pc'[q] \in {"remove", "relayremove"}
               PROVE  FALSE
    BY DEF OneRemover, Removing
  <2>1. q # p
    BY DEF Free
  <2> QED BY <2>1 DEF EntryStep, Removing
<1> QED BY <1>1, <1>2, <1>3, <1>4 DEF LockInv

\* A process that owns the entry is the only one that counts on it.
LEMMA SoleOwner ==
    ASSUME LockInv, NEW p \in Procs, pc[p] \in Owning, ~overlap,
           NEW q \in Procs \ {p}
    PROVE  pc[q] \notin Owning /\ q \notin Removing
<1>1. canonical = held[p] /\ ownerOf[held[p]] = p /\ held[p] \in 1..gens
  BY DEF LockInv, ProcInv, OwnerOnDisk
<1>2. pc[q] \notin Owning
  BY <1>1 DEF LockInv, ProcInv, OwnerOnDisk
<1>3. ASSUME q \in Removing PROVE FALSE
  <2>1. canonical = obs[q]
    BY <1>3 DEF LockInv, OneRemover
  <2>2. Dead(obs[q])
    BY <1>3 DEF LockInv, ProcInv, QuarantineOfDead, Removing, Quarantine
  <2> QED BY <1>1, <2>1, <2>2 DEF Dead, Owning
<1> QED BY <1>2, <1>3

\* What a recoverer is about to remove belongs to nobody alive.
LEMMA SoleRemover ==
    ASSUME LockInv, NEW p \in Removing, ~overlap, NEW q \in Procs \ {p}
    PROVE  pc[q] \notin Owning /\ q \notin Removing
<1>1. canonical = obs[p] /\ q \notin Removing
  BY DEF LockInv, OneRemover
<1>2. Dead(obs[p])
  BY DEF LockInv, ProcInv, QuarantineOfDead, Removing, Quarantine
<1>3. ASSUME pc[q] \in Owning PROVE FALSE
  <2>1. canonical = held[q] /\ ownerOf[held[q]] = q
    BY <1>3 DEF LockInv, ProcInv, OwnerOnDisk
  <2> QED BY <1>1, <1>2, <1>3, <2>1 DEF Dead, Owning
<1> QED BY <1>1, <1>3

\* The steps that remove the entry: takeover, Release, failed initialisation.
LEMMA RemoveActions ==
    ASSUME LockInv, TypeOK', NEW p \in Procs,
           \/ RemoveStale(p) \/ ReleaseFile(p) \/ ReleaseDir(p) \/ FillDirFails(p)
    PROVE  LockInv'
<1>t. TypeOK /\ GenerationsNumbered
  BY DEF LockInv
<1>1. CASE RemoveStale(p)
  <2>1. p \in Removing /\ prep' = prep
    BY <1>1 DEF RemoveStale, Removing
  <2>2. CASE canonical # 0 /\ ~Occupied
    <3>1. EntryStep(p) /\ canonical' = 0 /\ pc'[p] \in Free
      BY <1>1, <1>t, <2>2 DEF RemoveStale, RemoveEntry, EntryStep, Goto, Free, TypeOK
    <3> QED BY <2>1, <3>1, <1>t, SoleRemover, EntryRemoved DEF GenerationsNumbered
  <2>3. CASE canonical = 0 \/ Occupied
    <3>1. Local(p) /\ UNCHANGED overlap /\ pc'[p] \in Free
      BY <1>1, <1>t, <2>3 DEF RemoveStale, RemoveEntry, Local, Goto, Free, TypeOK
    <3> QED BY <2>1, <3>1, <1>t, FreeStep DEF GenerationsNumbered
  <2> QED BY <2>2, <2>3
<1>2. CASE ReleaseFile(p) \/ ReleaseDir(p) \/ FillDirFails(p)
  <2>1. /\ EntryStep(p) /\ pc'[p] \in Free /\ prep' = prep /\ pc[p] \in Owning
        /\ canonical' = 0 \/ canonical' = canonical
    BY <1>2, <1>t DEF ReleaseFile, ReleaseDir, FillDirFails, Unlinked, RemoveEntry,
                      EntryStep, Goto, Free, Owning, TypeOK
  <2>2. CASE canonical' = 0
    BY <2>1, <2>2, <1>t, SoleOwner, EntryRemoved DEF GenerationsNumbered
  <2>3. CASE canonical' = canonical
    <3>1. Local(p)
      BY <2>1, <2>3 DEF EntryStep, Local
    <3> QED BY <2>1, <3>1, <1>t, FreeStep DEF GenerationsNumbered, EntryStep
  <2> QED BY <2>1, <2>2, <2>3
<1> QED BY <1>1, <1>2

\* The steps of an owner that keep the entry.
LEMMA OwnerActions ==
    ASSUME LockInv, TypeOK', NEW p \in Procs,
           FillDir(p) \/ ReleaseRead(p) \/ ReleaseOwner(p)
    PROVE  LockInv'
<1>t. TypeOK /\ GenerationsNumbered /\ ProcInv(p)
  BY DEF LockInv
<1>0. pc[p] \in Owning => held[p] \in 0..gens
  BY <1>t, LockConstants DEF ProcInv, OwnerOnDisk, TypeOK, GenOrNone
<1>1. /\ Local(p) /\ UNCHANGED <<fs, overlap, gens, ownerOf, canonical>>
      /\ prep' = prep /\ pc[p] \in Owning
      /\ \/ pc'[p] = "idle"
         \/ pc'[p] \in {"held", "unlink", "rmdir"} /\ held'[p] = held[p]
  <2>1. gens \in Nat
    BY <1>t, LockConstants DEF TypeOK, GenOrNone
  <2>2. CASE FillDir(p)
    BY <1>0, <1>t, <2>2 DEF FillDir, Local, Goto, Owning, TypeOK
  <2>3. CASE ReleaseOwner(p)
    BY <1>t, <2>1, <2>3 DEF ReleaseOwner, Local, Goto, Owning, TypeOK
  <2>4. CASE ReleaseRead(p)
    BY <1>t, <2>4 DEF ReleaseRead, Local, Goto, Owning, TypeOK
  <2> QED BY <2>2, <2>3, <2>4
<1>2. CASE pc'[p] = "idle"
  BY <1>1, <1>2, <1>t, FreeStep DEF Free, GenerationsNumbered
<1>3. CASE pc'[p] # "idle"
  <2>1. ProcInv(p)'
    BY <1>1, <1>3, <1>t DEF ProcInv, OwnerOnDisk, ObservationCoherent,
                            QuarantineOfDead, Owning, Quarantine
  <2> QED BY <1>1, <1>3, <2>1, <1>t, LocalStep DEF GenerationsNumbered
<1> QED BY <1>2, <1>3

\* A new generation is created only where nobody counts on an entry.
LEMMA PublishActions ==
    ASSUME InodesIdentify, LockInv, TypeOK', NEW p \in Procs, PublishFile(p) \/ PublishDir(p)
    PROVE  LockInv'
<1>t. TypeOK /\ GenerationsNumbered
  BY DEF LockInv
<1>g. DEFINE g == gens + 1
<1>1. /\ canonical = 0 /\ canonical' = g /\ gens' = g /\ g \in Gens
      /\ ownerOf' = [ownerOf EXCEPT ![g] = p]
      /\ held' = [held EXCEPT ![p] = g]
      /\ HardLinks => ino' = [ino EXCEPT ![g] = g]
      /\ UNCHANGED <<fs, overlap, prep, obs, opened>>
      /\ pc[p] = "publish"
      /\ pc' = [pc EXCEPT ![p] = "held"] \/ pc' = [pc EXCEPT ![p] = "initdir"]
      /\ \E d \in BOOLEAN : /\ dir' = [dir EXCEPT ![g] = d]
                            /\ token' = [token EXCEPT ![g] = IF d THEN 0 ELSE g]
                            /\ ~HardLinks => d
  <2>1. g \in Gens
    BY <1>t, LockConstants DEF PublishFile, PublishDir, NewGeneration, TypeOK, Gens, GenOrNone
  <2>2. CASE PublishFile(p)
    BY <2>1, <2>2, <1>t DEF PublishFile, NewGeneration, Goto, GenerationsNumbered
  <2>3. CASE PublishDir(p)
    <3>1. PICK i \in {0} \cup FreeInodes : NewGeneration(p, i, TRUE)
      BY <2>3 DEF PublishDir
    <3>2. HardLinks => i = 0
      BY DEF InodesIdentify, FreeInodes
    <3>3. HardLinks => ino' = [ino EXCEPT ![g] = g]
      BY <3>1, <3>2 DEF NewGeneration
    <3>4. dir' = [dir EXCEPT ![g] = TRUE] /\ token' = [token EXCEPT ![g] = IF TRUE THEN 0 ELSE g]
      BY <3>1 DEF NewGeneration
    <3> QED BY <2>1, <2>3, <3>1, <3>3, <3>4 DEF PublishDir, NewGeneration, Goto
  <2> QED BY <2>2, <2>3
<1>2. ASSUME NEW q \in Procs PROVE ~overlap => pc[q] \notin Owning /\ q \notin Removing
  <2>1. ProcInv(q)
    BY DEF LockInv
  <2>2. ~overlap => pc[q] \notin Owning
    BY <1>1, <2>1 DEF ProcInv, OwnerOnDisk
  <2>3. ~overlap => q \notin Removing
    <3>1. q \in Removing => obs[q] \in 1..gens
      BY <2>1 DEF ProcInv, ObservationCoherent, Removing, Quarantine
    <3> QED BY <1>1, <3>1 DEF LockInv, OneRemover
  <2> QED BY <2>2, <2>3
<1>n. gens \in 0..MaxGen /\ MaxGen \in Nat
  BY <1>t, LockConstants DEF TypeOK, GenOrNone
<1>3. GenerationsNumbered'
  <2>1. \A h \in Gens : token'[h] <= gens'
    <3> SUFFICES ASSUME NEW h \in Gens PROVE token'[h] <= gens + 1
      BY <1>1
    <3>1. token[h] \in 0..MaxGen /\ token[h] <= gens
      BY <1>t DEF TypeOK, GenerationsNumbered, GenOrNone
    <3>2. token'[h] \in {token[h], 0, gens + 1}
      BY <1>1, <1>t DEF TypeOK
    <3> QED BY <3>1, <3>2, <1>n
  <2>2. ~HardLinks => \A h \in 1..gens' : dir'[h]
    <3> SUFFICES ASSUME ~HardLinks, NEW h \in 1..(gens + 1) PROVE dir'[h]
      BY <1>1
    <3>1. h \in Gens /\ (h = gens + 1 \/ h \in 1..gens)
      BY <1>1, <1>n DEF Gens
    <3> QED BY <1>1, <1>t, <3>1 DEF TypeOK, GenerationsNumbered
  <2>3. canonical' <= gens'
    BY <1>1, <1>n
  <2>4. HardLinks' => (\A h \in Gens : ino'[h] = h) /\ \A q \in Procs : prep'[q] = 0
    BY <1>1, <1>t DEF GenerationsNumbered, TypeOK
  <2> QED BY <1>1, <2>1, <2>2, <2>3, <2>4 DEF GenerationsNumbered
<1>4. ProcInv(p)'
  <2>1. OwnerOnDisk(p)'
    BY <1>1, <1>t, LockConstants DEF OwnerOnDisk, TypeOK, Gens, GenOrNone
  <2>2. pc'[p] \notin Quarantine \cup {"open", "recheck", "judge"}
    BY <1>1, <1>t DEF TypeOK, Quarantine
  <2> QED BY <2>1, <2>2 DEF ProcInv, ObservationCoherent, QuarantineOfDead
<1>5. ASSUME NEW q \in Procs \ {p} PROVE ProcInv(q)'
  <2>1. ProcInv(q) /\ pc'[q] = pc[q] /\ held'[q] = held[q]
    BY <1>1, <1>t DEF LockInv, TypeOK
  <2>2. \A h \in 1..gens : h \in 1..gens' /\ ownerOf'[h] = ownerOf[h] /\ dir'[h] = dir[h]
    <3> SUFFICES ASSUME NEW h \in 1..gens
                 PROVE  h \in 1..gens' /\ ownerOf'[h] = ownerOf[h] /\ dir'[h] = dir[h]
      OBVIOUS
    <3>1. h # gens + 1 /\ h \in 1..(gens + 1) /\ h \in Gens
      BY <1>n DEF Gens
    <3> QED BY <1>1, <1>t, <3>1 DEF TypeOK
  <2>3. OwnerOnDisk(q)'
    BY <1>1, <1>2, <2>1, <2>2 DEF ProcInv, OwnerOnDisk
  <2>4. ObservationCoherent(q)'
    BY <1>1, <2>1, <2>2 DEF ProcInv, ObservationCoherent
  <2>5. QuarantineOfDead(q)'
    <3> SUFFICES ASSUME pc[q] \in Quarantine PROVE ~dir'[obs[q]] /\ Dead(obs[q])'
      BY <1>1, <2>1 DEF QuarantineOfDead, Dead
    <3>1. ~dir[obs[q]] /\ Dead(obs[q]) /\ obs[q] \in 1..gens
      BY <2>1 DEF ProcInv, QuarantineOfDead, ObservationCoherent
    <3>2. /\ ownerOf'[obs[q]] = ownerOf[obs[q]] /\ ownerOf[obs[q]] # p
          /\ dir'[obs[q]] = dir[obs[q]]
      BY <1>1, <2>2, <3>1 DEF Dead
    <3> QED BY <1>1, <1>t, <3>1, <3>2 DEF Dead, TypeOK
  <2> QED BY <2>3, <2>4, <2>5 DEF ProcInv
<1>6. OneRemover'
  <2> SUFFICES ASSUME ~overlap', NEW q \in Procs, pc'[q] \in {"remove", "relayremove"}
               PROVE  FALSE
    BY DEF OneRemover, Removing
  <2>1. q # p /\ pc'[q] = pc[q]
    BY <1>1, <1>t DEF TypeOK
  <2> QED BY <1>1, <1>2, <2>1 DEF Removing
<1> QED BY <1>3, <1>4, <1>5, <1>6 DEF LockInv

\* LockInv is inductive: every system call of lock.go keeps it.
LEMMA LockInvStep ==
    ASSUME InodesIdentify, LockInv, [Next]_vars
    PROVE  LockInv'
<1>1. TypeOK'
  BY TypeStep DEF LockInv
<1>2. ASSUME NEW p \in Procs, Acquire(p) \/ Step(p) \/ Fault(p) \/ Crash(p)
      PROVE  LockInv'
  BY <1>1, <1>2, FreeActions, ObserveActions, TombstoneActions, RecheckActions,
     RemoveActions, OwnerActions, PublishActions DEF Step, Fault
<1>3. CASE UNCHANGED vars
  BY <1>1, <1>3 DEF LockInv, GenerationsNumbered, ProcInv, OwnerOnDisk,
     ObservationCoherent, QuarantineOfDead, OneRemover, Removing, Dead, vars
<1> QED BY <1>2, <1>3 DEF Next

\* Before any process has tried, nobody owns, observes or removes anything.
\* Before any process has tried, nobody owns, observes or removes anything.
LEMMA LockInvInit == Init => LockInv
<1> SUFFICES ASSUME Init PROVE LockInv
  OBVIOUS
<1>1. TypeOK
  BY TypeInit
<1>2. GenerationsNumbered
  BY DEF Init, GenerationsNumbered
<1>3. ASSUME NEW p \in Procs PROVE ProcInv(p) /\ p \notin Removing
  BY DEF Init, ProcInv, OwnerOnDisk, ObservationCoherent, QuarantineOfDead,
         Owning, Quarantine, Removing
<1>4. Removing = {}
  BY <1>3 DEF Removing
<1> QED BY <1>1, <1>2, <1>3, <1>4 DEF LockInv, OneRemover

\* The invariant contains mutual exclusion.
LEMMA LockInvMutex == LockInv /\ ~overlap => MutualExclusion
<1> SUFFICES ASSUME LockInv, ~overlap, NEW p \in Holders
             PROVE  canonical = held[p] /\ Holders = {p}
  BY DEF MutualExclusion
<1>1. pc[p] \in Owning
  BY DEF Holders, Owning
<1>2. canonical = held[p]
  BY <1>1 DEF LockInv, ProcInv, OwnerOnDisk, Holders
<1>3. \A q \in Procs \ {p} : q \notin Holders
  BY <1>1, SoleOwner DEF Holders, Owning
<1> QED BY <1>2, <1>3 DEF Holders

\* No call of lock.go moves the lock to another file system.
LEMMA FileSystemFixed ==
    ASSUME [Next]_vars
    PROVE  fs' = fs
<1>1. CASE UNCHANGED vars
  BY <1>1 DEF vars
<1>2. CASE Next
  BY <1>2 DEF Next, Step, Fault, Acquire, Crash, Prepare, PublishFile, PublishDir,
     FillDir, FillDirFails, PublishExists, StatCanonical, ReadOwner, RecheckName,
     JudgeDead, JudgeBusy, Timeout, BackOff, LinkTombstone, StatTombstone,
     StatBeforeRemove, StatBeforeRelay, RemoveStale, RefuseDirectory, ReleaseRead,
     ReleaseFile, ReleaseOwner, ReleaseDir, AcquireFails, QuarantineFails, ReleaseFails
<1> QED BY <1>1, <1>2

\* Where inodes identify generations the invariant holds in every state.
LEMMA LockInvHolds == Spec => [](InodesIdentify => LockInv)
<1>1. ASSUME InodesIdentify => LockInv, [Next]_vars
      PROVE  (InodesIdentify => LockInv)'
  <2> SUFFICES ASSUME InodesIdentify PROVE LockInv'
    BY <1>1, FileSystemFixed DEF InodesIdentify, InodeReuse
  <2> QED BY <1>1, LockInvStep
<1> QED
  BY <1>1, LockInvInit, PTL DEF Spec

\* Where inodes identify generations, a lock file or directory of lock.go
\* excludes for every number of processes, through crashes, takeovers and
\* failed calls, as long as no two recoverers overlap.
THEOREM SingleRecovererMutexHolds == Spec => []SingleRecovererMutex
<1>1. (InodesIdentify => LockInv) => SingleRecovererMutex
  BY LockInvMutex DEF SingleRecovererMutex
<1> QED
  BY <1>1, LockInvHolds, PTL

\* Under the same conditions no waiter removes a live process's lock: what
\* leaves the canonical name was its owner's to remove, or the owner exited.
THEOREM LiveLockUntouchedHolds == Spec => LiveLockUntouched
<1>1. ASSUME InodesIdentify => LockInv, [Next]_vars
      PROVE  [InodesIdentify /\ ~overlap' => OwnerOrDead]_vars
  <2> SUFFICES ASSUME Next, LockInv, ~overlap', canonical # 0, canonical' # canonical
               PROVE  \/ Dead(canonical)
                      \/ pc[ownerOf[canonical]] \in {"unlink", "rmdir", "initdir"}
    BY <1>1 DEF OwnerOrDead, vars
  <2>1. PICK p \in Procs : Acquire(p) \/ Step(p) \/ Fault(p) \/ Crash(p)
    BY DEF Next
  <2>2. RemoveStale(p) \/ ReleaseFile(p) \/ ReleaseDir(p) \/ FillDirFails(p)
    BY <2>1 DEF Step, Fault, Acquire, Crash, Prepare, PublishFile, PublishDir,
       NewGeneration, FillDir, PublishExists, StatCanonical, ReadOwner, RecheckName,
       JudgeDead, JudgeBusy, Timeout, BackOff, LinkTombstone, StatTombstone,
       StatBeforeRemove, StatBeforeRelay, RefuseDirectory, ReleaseRead, ReleaseOwner,
       AcquireFails, QuarantineFails, ReleaseFails
  <2>3. ~overlap
    BY <2>2 DEF RemoveStale, ReleaseFile, ReleaseDir, FillDirFails
  <2>4. CASE RemoveStale(p)
    <3>1. p \in Removing
      BY <2>4 DEF RemoveStale, Removing
    <3>2. canonical = obs[p] /\ Dead(obs[p])
      BY <2>3, <3>1 DEF LockInv, OneRemover, ProcInv, QuarantineOfDead, Removing, Quarantine
    <3> QED BY <3>2
  <2>5. CASE ReleaseFile(p) \/ ReleaseDir(p) \/ FillDirFails(p)
    <3>1. pc[p] \in {"unlink", "rmdir", "initdir"}
      BY <2>5 DEF ReleaseFile, ReleaseDir, FillDirFails
    <3>2. canonical = held[p] /\ ownerOf[held[p]] = p
      BY <2>3, <3>1 DEF LockInv, ProcInv, OwnerOnDisk, Owning
    <3> QED BY <3>1, <3>2
  <2> QED BY <2>2, <2>4, <2>5
<1> QED
  BY <1>1, LockInvHolds, PTL DEF Spec, LiveLockUntouched

\* A directory lock excludes unconditionally, also where inodes are reused:
\* quarantineStaleLock never reaches a removal.
THEOREM DirectoryMutexHolds == Spec => []DirectoryMutex
<1> DEFINE NoOverlap == ~HardLinks => ~overlap
<1>1. Init => NoOverlap
  BY DEF Init
<1>2. ASSUME InodesIdentify => LockInv, NoOverlap, [Next]_vars PROVE NoOverlap'
  <2> SUFFICES ASSUME ~HardLinks, LockInv, ~overlap PROVE ~overlap'
    BY <1>2, FileSystemFixed DEF InodesIdentify
  <2>1. CASE UNCHANGED vars
    BY <2>1 DEF vars
  <2>2. ASSUME NEW p \in Procs, Acquire(p) \/ Step(p) \/ Fault(p) \/ Crash(p)
        PROVE  ~overlap'
    <3>1. pc[p] \notin Quarantine
      BY DEF LockInv, ProcInv, ObservationCoherent, QuarantineOfDead, GenerationsNumbered
    <3>2. ~StatBeforeRemove(p) /\ ~StatBeforeRelay(p)
      BY <3>1 DEF StatBeforeRemove, StatBeforeRelay, Quarantine
    <3>3. UNCHANGED overlap
      BY <2>2, <3>2 DEF Step, Fault, Acquire, Crash, Prepare, PublishFile, PublishDir,
         FillDir, FillDirFails, PublishExists, StatCanonical, ReadOwner, RecheckName,
         JudgeDead, JudgeBusy, Timeout, BackOff, LinkTombstone, StatTombstone,
         RemoveStale, RefuseDirectory, ReleaseRead, ReleaseFile, ReleaseOwner,
         ReleaseDir, AcquireFails, QuarantineFails, ReleaseFails
    <3> QED BY <3>3
  <2> QED BY <1>2, <2>1, <2>2 DEF Next
<1>3. (InodesIdentify => LockInv) /\ NoOverlap => DirectoryMutex
  BY LockInvMutex DEF DirectoryMutex, InodesIdentify
<1> QED
  BY <1>1, <1>2, <1>3, LockInvHolds, PTL DEF Spec
=============================================================================
