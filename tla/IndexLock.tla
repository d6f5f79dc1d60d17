----------------------------- MODULE IndexLock -----------------------------
(***************************************************************************)
(* The repository write lock of internal/fs/lock.go.                       *)
(*                                                                         *)
(* A lock is a directory entry, the canonical name (".aoci/lock").  Every  *)
(* successful creation gives it a new generation: a fresh random token, an *)
(* inode and an owning process.  Tokens are what Release compares; inodes  *)
(* are what os.SameFile compares, and a file system may give the inode of  *)
(* a deleted file to the next one (InodeReuse).                            *)
(*                                                                         *)
(* Where the file system has hard links, the lock is a file published by   *)
(* os.Link and a dead owner's lock can be taken over through a tombstone.  *)
(* Elsewhere, and wherever the os.Link of a publication fails, it is a     *)
(* directory holding owner.json, which is never taken over; the two forms  *)
(* may follow each other under one name.  A token is named by the          *)
(* generation that was created with it.  Each action is one system call    *)
(* (or several that no other process can tell apart), so that every        *)
(* interleaving of two processes between their calls is a behaviour.       *)
(***************************************************************************)
EXTENDS Naturals, FiniteSets

CONSTANTS
    Procs,       \* incarnations of an OS process; one that exits never returns
    MaxGen,      \* bound: how many times a lock entry is created
    MaxFaults,   \* bound: how many system calls fail for another reason
    FileSystems, \* the kinds of file system the lock may lie on
    NoProc       \* the owner of a generation that does not exist yet

ASSUME LockConstants ==
    /\ MaxGen \in Nat
    /\ MaxFaults \in Nat
    /\ FileSystems \subseteq {"links", "links_reuse", "dirs", "dirs_reuse"}
    /\ NoProc \notin Procs

Gens == 1..MaxGen
GenOrNone == 0..MaxGen

VARIABLES
    fs,         \* the file system at hand, which never changes
    canonical,  \* the generation the canonical name points at, 0 when absent
    gens,       \* how many generations were created
    ownerOf,    \* the process that created a generation
    ino,        \* a generation's inode
    dir,        \* is a generation a directory?
    token,      \* the token in an entry's owner record, 0 for an empty directory
    tomb,       \* tombstone name (owner read, entry stat'ed) -> generation or 0
    pc,         \* where each process is in acquireLockWith or Release
    prep,       \* the inode of the prepared owner file, 0 for an unused one
    obs,        \* observeLockOwner: the generation whose FileInfo was taken
    opened,     \* observeLockOwner: the generation whose owner was read, 0 none
    held,       \* the generation (token) of the Lock handle
    faults,     \* failed system calls so far
    overlap     \* history: did two recoverers stand before os.Remove at once?

vars == <<fs, canonical, gens, ownerOf, ino, dir, token, tomb, pc, prep, obs, opened,
          held, faults, overlap>>

Acquiring == {"prepare", "publish", "stat", "open", "recheck"}

PCs == Acquiring \cup
       {"idle", "initdir", "judge", "link", "tombstat", "canonstat", "remove",
        "relaytomb", "relaycanon", "relayremove", "samegen", "wait", "held",
        "unlink", "rmdir", "crashed"}

\* Does the file system have hard links?  May it give a new file the inode of a
\* deleted one?
HardLinks == fs \in {"links", "links_reuse"}
InodeReuse == fs \in {"links_reuse", "dirs_reuse"}

\* Has the process whose identity a generation's owner record names exited?
Dead(g) == ownerOf[g] \in Procs /\ pc[ownerOf[g]] = "crashed"

\* Between a successful re-check of the canonical inode and os.Remove.
Removing == {p \in Procs : pc[p] \in {"remove", "relayremove"}}

\* The holders of a Lock handle whose entry must be theirs.
Holders == {p \in Procs : pc[p] \in {"held", "unlink", "rmdir"}}

\* Names of tombstones: the owner bytes read and the modification time stat'ed.
Key(p) == <<opened[p], obs[p]>>

\* os.SameFile of an observed generation and what the canonical name shows now.
SameAsCanonical(g) == canonical # 0 /\ ino[g] = ino[canonical]

\* Inodes whose last link is gone, which the file system may hand out again.
FreeInodes ==
    IF InodeReuse
    THEN {i \in {ino[g] : g \in 1..gens} :
            /\ \A g \in 1..gens : ino[g] = i =>
                  g # canonical /\ \A k \in DOMAIN tomb : tomb[k] # g
            /\ \A q \in Procs : pc[q] \in {"publish", "initdir"} => prep[q] # i}
    ELSE {}

Goto(p, label) == pc' = [pc EXCEPT ![p] = label]

-----------------------------------------------------------------------------
(* The initial state: no lock, every process outside.                      *)

Init ==
    /\ fs \in FileSystems
    /\ canonical = 0
    /\ gens = 0
    /\ ownerOf = [g \in Gens |-> NoProc]
    /\ ino = [g \in Gens |-> g]
    /\ dir = [g \in Gens |-> FALSE]
    /\ token = [g \in Gens |-> 0]
    /\ tomb = [k \in GenOrNone \X Gens |-> 0]
    /\ pc = [p \in Procs |-> "idle"]
    /\ prep = [p \in Procs |-> 0]
    /\ obs = [p \in Procs |-> 0]
    /\ opened = [p \in Procs |-> 0]
    /\ held = [p \in Procs |-> 0]
    /\ faults = 0
    /\ overlap = FALSE

-----------------------------------------------------------------------------
(* acquireLockWith and tryCreateLock.                                      *)

Acquire(p) ==
    /\ pc[p] = "idle"
    /\ Goto(p, "prepare")
    /\ UNCHANGED <<fs, canonical, gens, ownerOf, ino, dir, token, tomb, prep, obs,
                   opened, held, faults, overlap>>

\* The complete owner record is written under a name nobody looks at, at the top
\* of the loop, where the previous round's observation is out of scope.
Prepare(p) ==
    /\ pc[p] = "prepare"
    /\ \E i \in {0} \cup FreeInodes :
          prep' = [prep EXCEPT ![p] = IF HardLinks THEN i ELSE 0]
    /\ obs' = [obs EXCEPT ![p] = 0]
    /\ opened' = [opened EXCEPT ![p] = 0]
    /\ Goto(p, "publish")
    /\ UNCHANGED <<fs, canonical, gens, ownerOf, ino, dir, token, tomb, held, faults,
                   overlap>>

\* A new generation of the canonical entry, owned by p, on inode i (0: its own): a
\* file is there with its owner record, a directory without.
NewGeneration(p, i, asDir) ==
    LET g == gens + 1 IN
    /\ canonical = 0
    /\ gens < MaxGen
    /\ gens' = g
    /\ canonical' = g
    /\ ownerOf' = [ownerOf EXCEPT ![g] = p]
    /\ ino' = [ino EXCEPT ![g] = IF i = 0 THEN g ELSE i]
    /\ dir' = [dir EXCEPT ![g] = asDir]
    /\ token' = [token EXCEPT ![g] = IF asDir THEN 0 ELSE g]
    /\ held' = [held EXCEPT ![p] = g]

\* os.Link(prepared, lockPath) succeeds: the lock appears with its whole owner.
PublishFile(p) ==
    /\ pc[p] = "publish"
    /\ HardLinks
    /\ NewGeneration(p, prep[p], FALSE)
    /\ Goto(p, "held")
    /\ UNCHANGED <<fs, tomb, prep, obs, opened, faults, overlap>>

\* os.Link is not supported, or fails: os.Mkdir takes the place, without an owner yet.
PublishDir(p) ==
    /\ pc[p] = "publish"
    /\ HardLinks => faults < MaxFaults
    /\ faults' = IF HardLinks THEN faults + 1 ELSE faults
    /\ \E i \in {0} \cup FreeInodes : NewGeneration(p, i, TRUE)
    /\ Goto(p, "initdir")
    /\ UNCHANGED <<fs, tomb, prep, obs, opened, overlap>>

\* os.Remove(lockPath): by name, whatever it points at by now; a directory with its
\* owner inside stays.
IsDirectory == canonical # 0 /\ dir[canonical]
Occupied == IsDirectory /\ token[canonical] # 0
RemoveEntry == canonical' = IF Occupied THEN canonical ELSE 0

\* os.Rename(prepared, owner.json) completes the directory lock.
FillDir(p) ==
    /\ pc[p] = "initdir"
    /\ IsDirectory
    /\ token' = [token EXCEPT ![canonical] = held[p]]
    /\ Goto(p, "held")
    /\ UNCHANGED <<fs, canonical, gens, ownerOf, ino, dir, tomb, prep, obs, opened,
                   held, faults, overlap>>

\* The Rename fails, or there is no directory to rename into: what is there is
\* removed again and Acquire fails.
FillDirFails(p) ==
    /\ pc[p] = "initdir"
    /\ IsDirectory => faults < MaxFaults
    /\ faults' = IF IsDirectory THEN faults + 1 ELSE faults
    /\ RemoveEntry
    /\ held' = [held EXCEPT ![p] = 0]
    /\ Goto(p, "idle")
    /\ UNCHANGED <<fs, gens, ownerOf, ino, dir, token, tomb, prep, obs, opened,
                   overlap>>

\* The entry exists: go and look whose it is.
PublishExists(p) ==
    /\ pc[p] = "publish"
    /\ canonical # 0
    /\ Goto(p, "stat")
    /\ UNCHANGED <<fs, canonical, gens, ownerOf, ino, dir, token, tomb, prep, obs,
                   opened, held, faults, overlap>>

\* Any other error of a call before the quarantine makes Acquire return it: of
\* os.Link, that its directory is gone, and of the os.Mkdir that follows the others.
AcquireFails(p) ==
    /\ pc[p] \in Acquiring
    /\ faults < MaxFaults
    /\ faults' = faults + 1
    /\ Goto(p, "idle")
    /\ UNCHANGED <<fs, canonical, gens, ownerOf, ino, dir, token, tomb, prep, obs,
                   opened, held, overlap>>

-----------------------------------------------------------------------------
(* observeLockOwner and staleOwnerIsDead.                                  *)

\* os.Stat(lockPath); an entry released meanwhile means retry at once.
StatCanonical(p) ==
    /\ pc[p] = "stat"
    /\ obs' = [obs EXCEPT ![p] = canonical]
    /\ Goto(p, IF canonical = 0 THEN "prepare" ELSE "open")
    /\ UNCHANGED <<fs, canonical, gens, ownerOf, ino, dir, token, tomb, prep, opened,
                   held, faults, overlap>>

\* Open and read the owner.  Where a directory was stat'ed, a missing owner reads as
\* a stable, empty one and skips the re-check; where a file was, it is a retry.
ReadOwner(p) ==
    /\ pc[p] = "open"
    /\ LET g == IF canonical # 0 THEN token[canonical] ELSE 0 IN
       /\ opened' = [opened EXCEPT ![p] = g]
       /\ Goto(p, IF g # 0 THEN "recheck"
                  ELSE IF dir[obs[p]] THEN "judge" ELSE "prepare")
    /\ UNCHANGED <<fs, canonical, gens, ownerOf, ino, dir, token, tomb, prep, obs,
                   held, faults, overlap>>

\* Does the canonical name still show what was stat'ed (and, a file, opened)?
StillObserved(p) ==
    /\ SameAsCanonical(obs[p])
    /\ ~dir[obs[p]] => ~dir[opened[p]] /\ SameAsCanonical(opened[p])

RecheckName(p) ==
    /\ pc[p] = "recheck"
    /\ Goto(p, IF StillObserved(p) THEN "judge" ELSE "prepare")
    /\ UNCHANGED <<fs, canonical, gens, ownerOf, ino, dir, token, tomb, prep, obs,
                   opened, held, faults, overlap>>

\* Mutant of OwnerDead: an owner is taken for dead on the lock's age alone.
OwnerDead_AgeOnly(p) == TRUE

\* What staleOwnerIsDead answers: the operating system confirms that the owner
\* exited; an empty directory is given up on its age alone.
OwnerDead(p) == IF opened[p] = 0 THEN dir[obs[p]] ELSE Dead(opened[p])

\* Old enough and its owner dead: take the lock over.
JudgeDead(p) ==
    /\ pc[p] = "judge"
    /\ OwnerDead(p)
    /\ Goto(p, IF dir[obs[p]] THEN "samegen" ELSE "link")
    /\ UNCHANGED <<fs, canonical, gens, ownerOf, ino, dir, token, tomb, prep, obs,
                   opened, held, faults, overlap>>

\* Too young, owner alive, or its identity unknown: wait.
JudgeBusy(p) ==
    /\ pc[p] = "judge"
    /\ Goto(p, "wait")
    /\ UNCHANGED <<fs, canonical, gens, ownerOf, ino, dir, token, tomb, prep, obs,
                   opened, held, faults, overlap>>

\* Past the deadline Acquire gives up with ErrLockTimeout.
Timeout(p) ==
    /\ pc[p] = "wait"
    /\ Goto(p, "idle")
    /\ UNCHANGED <<fs, canonical, gens, ownerOf, ino, dir, token, tomb, prep, obs,
                   opened, held, faults, overlap>>

\* Before it, it sleeps and tries again.
BackOff(p) ==
    /\ pc[p] = "wait"
    /\ Goto(p, "prepare")
    /\ UNCHANGED <<fs, canonical, gens, ownerOf, ino, dir, token, tomb, prep, obs,
                   opened, held, faults, overlap>>

-----------------------------------------------------------------------------
(* quarantineStaleLock.                                                    *)

\* The tombstone name: nothing to link, already there, or linked now; os.Link of a
\* directory is an error.
LinkTombstone(p) ==
    /\ pc[p] = "link"
    /\ \/ /\ canonical = 0
          /\ Goto(p, "wait")
          /\ UNCHANGED tomb
       \/ /\ canonical # 0 /\ tomb[Key(p)] # 0
          /\ Goto(p, "relaytomb")
          /\ UNCHANGED tomb
       \/ /\ canonical # 0 /\ tomb[Key(p)] = 0
          /\ tomb' = [tomb EXCEPT ![Key(p)] = IF dir[canonical] THEN 0 ELSE canonical]
          /\ Goto(p, IF dir[canonical] THEN "idle" ELSE "tombstat")
    /\ UNCHANGED <<fs, canonical, gens, ownerOf, ino, dir, token, prep, obs, opened,
                   held, faults, overlap>>

SameAsTombstone(p) ==
    /\ tomb[Key(p)] # 0
    /\ ino[tomb[Key(p)]] = ino[obs[p]]

\* Mutant of StatTombstone: a tombstone left by another recoverer is respected
\* for ever instead of relayed.
StatTombstone_NoRelay(p) ==
    /\ \/ /\ pc[p] = "tombstat"
          /\ SameAsTombstone(p)
          /\ Goto(p, "canonstat")
       \/ /\ pc[p] = "relaytomb"
          /\ Goto(p, "wait")
    /\ UNCHANGED <<fs, canonical, gens, ownerOf, ino, dir, token, tomb, prep, obs,
                   opened, held, faults, overlap>>

\* os.Stat(tombstone): by the process that linked it, or by a successor.  The
\* second stat follows in every case; a failed first one dooms the outcome.
StatTombstone(p) ==
    /\ \/ /\ pc[p] = "tombstat"
          /\ SameAsTombstone(p)
          /\ Goto(p, "canonstat")
          /\ UNCHANGED tomb
       \/ /\ pc[p] = "tombstat"
          /\ ~SameAsTombstone(p)
          /\ tomb' = [tomb EXCEPT ![Key(p)] = 0]
          /\ Goto(p, "wait")
       \/ /\ pc[p] = "relaytomb"
          /\ Goto(p, IF SameAsTombstone(p) THEN "relaycanon" ELSE "wait")
          /\ UNCHANGED tomb
    /\ UNCHANGED <<fs, canonical, gens, ownerOf, ino, dir, token, prep, obs, opened,
                   held, faults, overlap>>

\* p is about to remove the canonical entry: is another process too?
NoteOverlap(p) == overlap' = (overlap \/ Removing \ {p} # {})

\* Mutant of StatBeforeRemove: the inode is not re-checked before the removal.
StatBeforeRemove_NoRecheck(p) ==
    /\ pc[p] = "canonstat"
    /\ Goto(p, "remove")
    /\ NoteOverlap(p)
    /\ UNCHANGED <<fs, canonical, gens, ownerOf, ino, dir, token, tomb, prep, obs,
                   opened, held, faults>>

\* os.Stat(lockPath) before the removal, by the process that linked.
StatBeforeRemove(p) ==
    /\ pc[p] = "canonstat"
    /\ \/ /\ SameAsCanonical(obs[p])
          /\ Goto(p, "remove")
          /\ NoteOverlap(p)
          /\ UNCHANGED tomb
       \/ /\ ~SameAsCanonical(obs[p])
          /\ tomb' = [tomb EXCEPT ![Key(p)] = 0]
          /\ Goto(p, "wait")
          /\ UNCHANGED overlap
    /\ UNCHANGED <<fs, canonical, gens, ownerOf, ino, dir, token, prep, obs, opened,
                   held, faults>>

\* The same by a successor that found the tombstone.
StatBeforeRelay(p) ==
    /\ pc[p] = "relaycanon"
    /\ \/ /\ SameAsCanonical(obs[p])
          /\ Goto(p, "relayremove")
          /\ NoteOverlap(p)
       \/ /\ ~SameAsCanonical(obs[p])
          /\ Goto(p, "wait")
          /\ UNCHANGED overlap
    /\ UNCHANGED <<fs, canonical, gens, ownerOf, ino, dir, token, tomb, prep, obs,
                   opened, held, faults>>

\* os.Remove(lockPath) by either; the process that linked the tombstone takes it away
\* again when there was nothing to remove, or no way to.
RemoveStale(p) ==
    /\ pc[p] \in {"remove", "relayremove"}
    /\ RemoveEntry
    /\ \/ /\ canonical # 0 /\ ~Occupied
          /\ Goto(p, "prepare")
          /\ UNCHANGED tomb
       \/ /\ canonical # 0 => Occupied
          /\ tomb' = IF pc[p] = "remove"
                     THEN [tomb EXCEPT ![Key(p)] = 0] ELSE tomb
          /\ Goto(p, IF Occupied THEN "idle" ELSE "wait")
    /\ UNCHANGED <<fs, gens, ownerOf, ino, dir, token, prep, obs, opened, held, faults,
                   overlap>>

\* A quarantine call fails for another reason: a failed os.Stat reads as "not moved",
\* any other error is returned, and the process that linked the tombstone has removed
\* it.
QuarantineFails(p) ==
    /\ pc[p] \in {"link", "tombstat", "canonstat", "remove",
                  "relaytomb", "relaycanon", "relayremove", "samegen"}
    /\ faults < MaxFaults
    /\ faults' = faults + 1
    /\ tomb' = IF pc[p] \in {"tombstat", "canonstat", "remove"}
               THEN [tomb EXCEPT ![Key(p)] = 0] ELSE tomb
    /\ Goto(p, IF pc[p] \in {"tombstat", "canonstat", "relaytomb", "relaycanon"}
               THEN "wait" ELSE "idle")
    /\ UNCHANGED <<fs, canonical, gens, ownerOf, ino, dir, token, prep, obs, opened,
                   held, overlap>>

\* sameDirectoryLockGeneration: its reads change nothing, and neither does its
\* answer: a directory of the same generation makes Acquire fail, any other is
\* waited for.
SameGeneration(p) ==
    /\ SameAsCanonical(obs[p]) /\ dir[canonical]
    /\ opened[p] # 0 => token[canonical] = opened[p]

\* Mutant of RefuseDirectory: a directory of the same generation is removed.
RefuseDirectory_Removes(p) ==
    /\ pc[p] = "samegen"
    /\ canonical' = IF SameGeneration(p) THEN 0 ELSE canonical
    /\ Goto(p, IF SameGeneration(p) THEN "prepare" ELSE "wait")
    /\ UNCHANGED <<fs, gens, ownerOf, ino, dir, token, tomb, prep, obs, opened, held,
                   faults, overlap>>

RefuseDirectory(p) ==
    /\ pc[p] = "samegen"
    /\ Goto(p, IF SameGeneration(p) THEN "idle" ELSE "wait")
    /\ UNCHANGED <<fs, canonical, gens, ownerOf, ino, dir, token, tomb, prep, obs,
                   opened, held, faults, overlap>>

-----------------------------------------------------------------------------
(* Release.                                                                *)

\* Reads the owner: gone (nil), another token (refused), its own (delete).
ReleaseRead(p) ==
    /\ pc[p] = "held"
    /\ LET mine == canonical # 0 /\ token[canonical] = held[p] IN
       /\ Goto(p, IF mine THEN "unlink" ELSE "idle")
       /\ held' = IF mine THEN held ELSE [held EXCEPT ![p] = 0]
    /\ UNCHANGED <<fs, canonical, gens, ownerOf, ino, dir, token, tomb, prep, obs,
                   opened, faults, overlap>>

\* The canonical name is removed, or is not, and the handle is spent.
Unlinked(p) ==
    /\ RemoveEntry
    /\ held' = [held EXCEPT ![p] = 0]
    /\ Goto(p, "idle")

\* os.Remove(lockPath) of a file lock.
ReleaseFile(p) ==
    /\ pc[p] = "unlink"
    /\ ~IsDirectory
    /\ Unlinked(p)
    /\ UNCHANGED <<fs, gens, ownerOf, ino, dir, token, tomb, prep, obs, opened, faults,
                   overlap>>

\* A directory lock loses owner.json first ...
ReleaseOwner(p) ==
    /\ pc[p] = "unlink"
    /\ IsDirectory
    /\ token' = [token EXCEPT ![canonical] = 0]
    /\ Goto(p, "rmdir")
    /\ UNCHANGED <<fs, canonical, gens, ownerOf, ino, dir, tomb, prep, obs, opened,
                   held, faults, overlap>>

\* ... and then the directory.
ReleaseDir(p) ==
    /\ pc[p] = "rmdir"
    /\ Unlinked(p)
    /\ UNCHANGED <<fs, gens, ownerOf, ino, dir, token, tomb, prep, obs, opened, faults,
                   overlap>>

\* A failed call: Release returns the error and the entry stays where it is.
ReleaseFails(p) ==
    /\ pc[p] \in {"held", "unlink", "rmdir"}
    /\ faults < MaxFaults
    /\ faults' = faults + 1
    /\ held' = [held EXCEPT ![p] = 0]
    /\ Goto(p, "idle")
    /\ UNCHANGED <<fs, canonical, gens, ownerOf, ino, dir, token, tomb, prep, obs,
                   opened, overlap>>

\* A process exits, or is killed, between any two calls.
Crash(p) ==
    /\ pc[p] # "crashed"
    /\ Goto(p, "crashed")
    /\ UNCHANGED <<fs, canonical, gens, ownerOf, ino, dir, token, tomb, prep, obs,
                   opened, held, faults, overlap>>

-----------------------------------------------------------------------------

\* The calls of one process in program order.
Step(p) ==
    \/ Prepare(p) \/ PublishFile(p) \/ PublishDir(p) \/ FillDir(p)
    \/ PublishExists(p) \/ StatCanonical(p) \/ ReadOwner(p) \/ RecheckName(p)
    \/ JudgeDead(p) \/ JudgeBusy(p) \/ Timeout(p) \/ BackOff(p)
    \/ LinkTombstone(p) \/ StatTombstone(p) \/ StatBeforeRemove(p)
    \/ StatBeforeRelay(p) \/ RemoveStale(p) \/ RefuseDirectory(p)
    \/ ReleaseRead(p) \/ ReleaseFile(p) \/ ReleaseOwner(p) \/ ReleaseDir(p)

Fault(p) ==
    FillDirFails(p) \/ AcquireFails(p) \/ QuarantineFails(p) \/ ReleaseFails(p)

Next == \E p \in Procs : Acquire(p) \/ Step(p) \/ Fault(p) \/ Crash(p)

Spec == Init /\ [][Next]_vars

\* A live process keeps going, callers keep coming, and a dead owner's lock
\* grows older than the staleness threshold, after which every judgement of it
\* comes out "dead".
Fairness ==
    \A p \in Procs :
        /\ WF_vars(Acquire(p))
        /\ WF_vars(Step(p))
        /\ SF_vars(JudgeDead(p))

FairSpec == Spec /\ Fairness

-----------------------------------------------------------------------------
(* Properties.                                                             *)

\* Types: one entry, generations numbered in creation order.
TypeOK ==
    /\ fs \in FileSystems
    /\ canonical \in GenOrNone
    /\ gens \in GenOrNone
    /\ ownerOf \in [Gens -> Procs \cup {NoProc}]
    /\ ino \in [Gens -> Gens]
    /\ dir \in [Gens -> BOOLEAN]
    /\ token \in [Gens -> GenOrNone]
    /\ tomb \in [GenOrNone \X Gens -> GenOrNone]
    /\ pc \in [Procs -> PCs]
    /\ prep \in [Procs -> GenOrNone]
    /\ obs \in [Procs -> GenOrNone]
    /\ opened \in [Procs -> GenOrNone]
    /\ held \in [Procs -> GenOrNone]
    /\ faults \in 0..MaxFaults
    /\ overlap \in BOOLEAN

\* The lock excludes: two live processes never both believe that they hold it,
\* and the entry on disk is the holder's own (acquireLockWith returning a Lock).
MutualExclusion ==
    \A p \in Holders : canonical = held[p] /\ Holders = {p}

\* What the takeover of quarantineStaleLock guarantees: as long as no two
\* recoverers ever stood between their re-check and their os.Remove at the
\* same time, crashes, takeovers, relayed takeovers and failed calls leave
\* mutual exclusion intact.  The takeover compares inodes, so a file lock must
\* lie on a file system where they tell generations apart.
InodesIdentify == InodeReuse => ~HardLinks

SingleRecovererMutex == InodesIdentify /\ ~overlap => MutualExclusion

\* Where every lock is a directory it excludes whatever the waiters see, however
\* inodes are reused: quarantineStaleLock refuses every directory.
DirectoryMutex == ~HardLinks => MutualExclusion

\* An entry leaves the canonical name only by its owner's own hand or after its
\* owner exited: no waiter ever removes a live process's lock (the promise of
\* the re-checks in quarantineStaleLock), again without overlapping recoverers.
OwnerOrDead ==
    canonical # 0 /\ canonical' # canonical =>
        \/ Dead(canonical)
        \/ pc[ownerOf[canonical]] \in {"unlink", "rmdir", "initdir"}

LiveLockUntouched == [][InodesIdentify /\ ~overlap' => OwnerOrDead]_vars

\* A file lock left behind by a process that exited, also one that exited half
\* way through somebody else's takeover, is eventually taken over as long as
\* one process is left to want it.
StaleLockReclaimed ==
    \A g \in Gens :
        (canonical = g /\ ~dir[g] /\ Dead(g))
            ~> (canonical # g \/ \A p \in Procs : pc[p] = "crashed")
=============================================================================
