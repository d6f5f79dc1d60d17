--------------------------- MODULE ScopeTxnProofs ---------------------------
(***************************************************************************)
(* The safety of the scope change transaction and its refinement of        *)
(* AtomicChange, for every number of processes, plans, formal files,       *)
(* outside writes and stops.                                               *)
(***************************************************************************)
EXTENDS ScopeTxn, FiniteSetTheorems, TLAPS

Versions == Txs \cup Thirds \cup {Base}

\* Steps under the index lock: before the intent is saved, and with an intent.
Preparing == {"replay", "capture", "stage"}
Advancing == {"inspect", "publish", "publish_baseline", "reinspect",
              "receipt", "ledger", "archive", "close"}
Retreating == {"rinspect", "restore", "rreinspect", "rledger", "rarchive", "rclose"}
Locked == Preparing \cup Advancing \cup Retreating
Unlocked == {"idle", "archive?", "active?", "authorize",
             "lock_apply", "lock_resume", "lock_rollback"}

Plans == [pre : [Images -> Versions], src : Thirds \cup {Base}]
Events == [op : {"apply", "rollback"}, tx : Txs, count : Nat]

\* The states of the variables.
DiskOK ==
    /\ files \in [Images -> Versions] /\ source \in Thirds \cup {Base}
    /\ plan \in [Txs -> Plans \cup {NoPlan}]
    /\ staged \in [Txs -> SUBSET Images]
    /\ active \in SUBSET Txs /\ archived \in SUBSET Txs /\ applied \in SUBSET Txs
    /\ undone \in [Txs -> SUBSET SUBSET Images]
    /\ ledger \in Seq(Events)
    /\ ended \in [Txs -> {"open", "applied", "rolled_back"}]

ProcOK ==
    /\ lock \in Procs \cup {None}
    /\ pc \in [Procs -> Locked \cup Unlocked]
    /\ tx \in [Procs -> Txs \cup {None}]
    /\ seen \in [Procs -> [Images -> Versions \cup {None}]]
    /\ pos \in [Procs -> 0..(N + 1)]
    /\ recovered \in [Procs -> SUBSET Images]

-----------------------------------------------------------------------------
(* The inductive invariant.                                                *)

\* A file that somebody else wrote since t was planned; one that is as t wants it,
\* or as it was, but for those.
Theirs(t, i) == files[i] \in Thirds /\ files[i] \notin {Pre(t, i), Post(t, i)}
Done(t, i) == files[i] = Post(t, i) \/ Theirs(t, i)
Back(t, i) == files[i] = Pre(t, i) \/ Theirs(t, i)

\* A preview was taken of a repository with nothing pending: no file was of its own
\* transaction, and the transaction of the Baseline was archived and had all its
\* files in place.
PlanSound(t) ==
    /\ plan[t].pre \in [Images -> Versions]
    /\ \A i \in Images : Pre(t, i) # t /\ (Pre(t, i) \in Txs => plan[Pre(t, i)] # NoPlan)
    /\ \A u \in Txs : Pre(t, N) = u =>
           u \in archived /\ \A i \in Changes[u] : Pre(t, i) \in {u} \cup Thirds

PlansSound == \A t \in Txs : plan[t] # NoPlan => PlanSound(t)

\* A pending transaction is staged, open, and alone; its Baseline comes last.
PendingSound ==
    \A t \in active :
        /\ active = {t} /\ plan[t] # NoPlan /\ staged[t] = Images /\ ended[t] = "open"
        /\ \A i \in Images : files[i] \in {Pre(t, i), Post(t, i)} \cup Thirds
        /\ files[N] = t => \A i \in Images : Done(t, i)

\* With nothing pending, the Baseline is that of a transaction with all its files.
QuietSound ==
    active = {} => \A t \in Txs : files[N] = t => \A i \in Changes[t] : files[i] \in {t} \cup Thirds

FilesSound ==
    /\ \A i \in Images : files[i] \in Txs => plan[files[i]] # NoPlan
    /\ files[N] \in Txs \ active => files[N] \in archived

\* What the end of a transaction leaves behind.
EndRecorded(t, how) ==
    /\ how # "open" => t \in archived
    /\ how = "applied" => t \in applied /\ Recorded("apply", t) # {}
    /\ how = "rolled_back" => undone[t] # {} /\ Recorded("rollback", t) # {}

RecordsSound == (\A t \in Txs : EndRecorded(t, ended[t])) /\ LedgerOnce

DiskInv ==
    DiskOK /\ PlansSound /\ PendingSound /\ QuietSound /\ FilesSound /\ RecordsSound

\* What the holder of the lock knows of the files at step k with transaction t, the
\* inspection s and the image n.
SeenSound(t, s) ==
    \A i \in Images : s[i] \in {Pre(t, i), Post(t, i)} /\ (files[i] = s[i] \/ Theirs(t, i))

HolderPosition(k, t, s, n) ==
    /\ k = "stage" => \A i \in Images : Back(t, i)
    /\ k \in {"publish", "publish_baseline", "restore"} => SeenSound(t, s)
    /\ k \in {"publish", "publish_baseline"} =>
           n \in 1..(N + 1) /\ \A i \in Images : i < n => Done(t, i)
    /\ k = "publish_baseline" => n = N
    /\ k = "reinspect" => n \in Images /\ \A i \in Images : i <= n => Done(t, i)
    /\ k \in {"receipt", "ledger", "archive", "close"} => \A i \in Images : Done(t, i)
    /\ k = "restore" => n \in 0..N /\ \A i \in Images : i > n => Back(t, i)
    /\ k = "rreinspect" => n \in Images /\ \A i \in Images : i >= n => Back(t, i)
    /\ k \in {"rledger", "rarchive", "rclose"} => \A i \in Images : Back(t, i)

\* ... and what it has recorded already.
HolderRecords(k, t) ==
    /\ k \in Preparing => active = {} /\ t \notin archived
    /\ k \in Advancing \cup Retreating => active = {t}
    /\ k \in {"ledger", "archive", "close"} => t \in applied
    /\ k \in {"archive", "close"} => Recorded("apply", t) # {}
    /\ k \in {"rledger", "rarchive", "rclose"} => undone[t] # {}
    /\ k \in {"rarchive", "rclose"} => Recorded("rollback", t) # {}
    /\ k \in {"close", "rclose"} => t \in archived

HolderInv(k, t, s, n) == HolderPosition(k, t, s, n) /\ HolderRecords(k, t)

\* A command works on a planned transaction, and is in its critical section just
\* when it has the lock.
ProcInv(p) ==
    /\ pc[p] # "idle" => tx[p] \in Txs /\ plan[tx[p]] # NoPlan
    /\ pc[p] \in Locked <=> lock = p
    /\ pc[p] \in Locked => HolderInv(pc[p], tx[p], seen[p], pos[p])

ScopeInv == DiskInv /\ ProcOK /\ \A p \in Procs : ProcInv(p)

-----------------------------------------------------------------------------
(* Steps of one process.                                                   *)

\* What the invariant says of one process.
LEMMA OwnState ==
    ASSUME ScopeInv, NEW p \in Procs
    PROVE  /\ DiskInv /\ DiskOK /\ ProcOK /\ ProcInv(p)
           /\ pc[p] \in Locked \cup Unlocked /\ tx[p] \in Txs \cup {None}
           /\ seen[p] \in [Images -> Versions \cup {None}]
           /\ pos[p] \in 0..(N + 1) /\ recovered[p] \in SUBSET Images
  BY DEF ScopeInv, DiskInv, ProcOK

\* A step of p leaves the other processes where they are.
Alone(p) ==
    \A q \in Procs \ {p} :
        pc'[q] = pc[q] /\ tx'[q] = tx[q] /\ seen'[q] = seen[q] /\ pos'[q] = pos[q]

\* A step of process p keeps the invariant if the disk and p are sound after it.  The
\* others are not in their critical sections, unless the disk is left alone.
LEMMA OwnStep ==
    ASSUME ScopeInv, NEW p \in Procs, ProcOK', Alone(p), DiskInv', ProcInv(p)', UNCHANGED plan,
           \/ lock \in {p, None} /\ lock' \in {p, None}
           \/ UNCHANGED <<lock, disk, ended>>
    PROVE  ScopeInv'
  <1>1. ASSUME NEW q \in Procs \ {p}
        PROVE  ProcInv(q)'
    <2>1. pc'[q] = pc[q] /\ tx'[q] = tx[q] /\ seen'[q] = seen[q] /\ pos'[q] = pos[q]
      BY DEF Alone
    <2>2. ProcInv(q) /\ None \notin Procs
      BY ScopeConstants DEF ScopeInv
    <2>3. CASE lock \in {p, None} /\ lock' \in {p, None}
      BY <2>1, <2>2, <2>3 DEF ProcInv
    <2>4. CASE UNCHANGED <<lock, disk, ended>>
      <3>1. HolderInv(pc[q], tx[q], seen[q], pos[q])' <=> HolderInv(pc[q], tx[q], seen[q], pos[q])
        BY <2>1, <2>4 DEF disk, HolderInv, HolderPosition, HolderRecords, SeenSound, Done, Back,
                          Theirs, Pre, Post, Recorded
      <3> QED
        BY <2>1, <2>2, <2>4, <3>1 DEF ProcInv
    <2> QED
      BY <2>3, <2>4
  <1> QED
    BY <1>1 DEF ScopeInv

\* The disk is as sound as it was if it is what it was.
LEMMA SameDisk == ASSUME DiskInv, UNCHANGED <<disk, ended>> PROVE DiskInv'
  BY DEF disk, DiskInv, DiskOK, PlansSound, PlanSound, PendingSound, QuietSound, FilesSound,
         RecordsSound, EndRecorded, LedgerOnce, Recorded, Done, Theirs, Pre, Post

\* A command that returns forgets what it knew.
LEMMA ReturnStep ==
    ASSUME ScopeInv, NEW p \in Procs, NEW o, Return(p, o), UNCHANGED plan, DiskInv',
           lock = p \/ UNCHANGED <<disk, ended>>
    PROVE  ScopeInv'
  <1>1. "idle" \in Unlocked /\ "idle" \notin Locked
    BY DEF Locked, Unlocked, Preparing, Advancing, Retreating
  <1>2. ProcOK' /\ Alone(p)
    BY <1>1, OwnState, ScopeConstants DEF Return, Goto, ProcOK, Alone
  <1>3. ProcInv(p)'
    BY <1>1, OwnState, ScopeConstants DEF Return, Goto, ProcOK, ProcInv
  <1>4. \/ lock \in {p, None} /\ lock' \in {p, None}
        \/ UNCHANGED <<lock, disk, ended>>
    BY DEF Return
  <1> QED
    BY <1>2, <1>3, <1>4, OwnStep

\* A command that stays in its critical section and only moves on.
LEMMA ContinueStep ==
    ASSUME ScopeInv, NEW p \in Procs, NEW k \in Locked, Continue(p, k), lock = p,
           UNCHANGED plan, DiskInv', HolderInv(k, tx[p], seen[p], pos[p])'
    PROVE  ScopeInv'
  <1>1. ProcOK' /\ Alone(p)
    BY OwnState DEF Continue, Goto, local, ProcOK, Alone
  <1>2. pc[p] # "idle"
    BY OwnState DEF ProcInv, Locked, Preparing, Advancing, Retreating
  <1>3. ProcInv(p)'
    BY <1>2, OwnState DEF Continue, Goto, local, ProcOK, ProcInv
  <1> QED
    BY <1>1, <1>3, OwnStep DEF Continue, local

\* A command on its way to the lock that only moves on.
LEMMA ApproachStep ==
    ASSUME ScopeInv, NEW p \in Procs, NEW k \in Unlocked, Continue(p, k),
           pc[p] \in Unlocked \ {"idle"}, UNCHANGED <<disk, ended>>
    PROVE  ScopeInv'
  <1>1. ProcOK' /\ Alone(p)
    BY OwnState DEF Continue, Goto, local, ProcOK, Alone
  <1>2. pc[p] \notin Locked /\ k \notin Locked
    BY DEF Locked, Unlocked, Preparing, Advancing, Retreating
  <1>3. ProcInv(p)'
    BY <1>2, OwnState DEF Continue, Goto, local, disk, ProcOK, ProcInv
  <1>4. DiskInv'
    BY OwnState, SameDisk
  <1> QED
    BY <1>1, <1>3, <1>4, OwnStep DEF Continue, local, disk
-----------------------------------------------------------------------------
(* On the way to the lock.                                                 *)

\* ArchivedAnswer and every other answer that leaves the disk alone.
LEMMA AnswerInv ==
    ASSUME ScopeInv, NEW p \in Procs, NEW o, Return(p, o), UNCHANGED <<disk, ended>>
    PROVE  ScopeInv'
  BY OwnState, SameDisk, ReturnStep DEF disk

\* A command begins with a planned transaction.
LEMMA StartInv ==
    ASSUME ScopeInv, NEW p \in Procs, NEW t \in Txs, plan[t] # NoPlan,
           NEW l \in Unlocked, Start(p, t, l)
    PROVE  ScopeInv'
  <1>1. ProcOK' /\ Alone(p)
    BY OwnState DEF Start, Goto, ProcOK, Alone
  <1>2. pc[p] \notin Locked /\ l \notin Locked
    BY DEF Start, Locked, Unlocked, Preparing, Advancing, Retreating
  <1>3. ProcInv(p)'
    BY <1>2, OwnState DEF Start, Goto, disk, ProcOK, ProcInv
  <1>4. DiskInv'
    BY OwnState, SameDisk DEF Start
  <1> QED
    BY <1>1, <1>3, <1>4, OwnStep DEF Start, disk

\* The questions ApplyAuthorized asks before it has the lock change nothing.
LEMMA ApproachInv ==
    ASSUME ScopeInv, NEW p \in Procs, CheckArchive(p) \/ CheckActive(p) \/ Authorize(p)
    PROVE  ScopeInv'
  <1>1. pc[p] \in Unlocked \ {"idle"} /\ UNCHANGED <<disk, ended>>
    BY DEF CheckArchive, CheckActive, Authorize, Unlocked
  <1>2. ASSUME NEW k \in {"active?", "lock_resume", "authorize", "lock_apply"}, Continue(p, k)
        PROVE  ScopeInv'
    BY <1>1, <1>2, ApproachStep DEF Unlocked
  <1>3. ASSUME NEW o, Return(p, o)
        PROVE  ScopeInv'
    BY <1>1, <1>3, AnswerInv
  <1> QED
    BY <1>2, <1>3 DEF CheckArchive, CheckActive, Authorize, ArchivedAnswer

\* Taking the lock: nobody else is in a critical section.
LEMMA LockStep ==
    ASSUME ScopeInv, NEW p \in Procs, NEW k \in Locked, pc[p] \in Unlocked \ {"idle"},
           TakeLock(p), Goto(p, k), UNCHANGED <<local, disk, ended>>,
           HolderInv(k, tx[p], seen[p], pos[p])
    PROVE  ScopeInv'
  <1>1. ProcOK' /\ Alone(p)
    BY OwnState DEF TakeLock, Goto, local, ProcOK, Alone
  <1>2. HolderInv(k, tx[p], seen[p], pos[p])'
    BY SMTT(30)
    DEF local, disk, HolderInv, HolderPosition, HolderRecords, SeenSound, Done, Back, Theirs, Pre, Post,
        Recorded
  <1>3. ProcInv(p)'
    BY <1>2, OwnState DEF TakeLock, Goto, local, disk, ProcOK, ProcInv
  <1>4. DiskInv'
    BY OwnState, SameDisk
  <1> QED
    BY <1>1, <1>3, <1>4, OwnStep DEF TakeLock, disk

\* Under the lock nothing else is pending.
LEMMA LockApplyInv ==
    ASSUME ScopeInv, NEW p \in Procs, LockApply(p)
    PROVE  ScopeInv'
  <1>1. pc[p] \in Unlocked \ {"idle"} /\ UNCHANGED <<disk, ended>> /\ tx[p] \in Txs
    BY OwnState DEF LockApply, Unlocked, ProcInv
  <1>2. ASSUME NEW o, Return(p, o)
        PROVE  ScopeInv'
    BY <1>1, <1>2, AnswerInv
  <1>3. CASE /\ tx[p] \notin archived /\ ~OtherPending(tx[p]) /\ TakeLock(p)
             /\ Goto(p, IF tx[p] \in active THEN "inspect" ELSE "replay")
             /\ UNCHANGED <<local, outcome>>
    <2>1. PICK k \in {"inspect", "replay"} :
             k = (IF tx[p] \in active THEN "inspect" ELSE "replay")
      OBVIOUS
    <2>2. HolderInv(k, tx[p], seen[p], pos[p])
      BY <1>1, <1>3, <2>1, OwnState
      DEF HolderInv, HolderPosition, HolderRecords, OtherPending, DiskOK, Preparing, Advancing,
          Retreating
    <2> QED
      BY <1>1, <1>3, <2>1, <2>2, LockStep DEF Locked, Preparing, Advancing, Retreating
  <1> QED
    BY <1>2, <1>3 DEF LockApply, ArchivedAnswer

\* Resume and Rollback go on only with an intent, the only one.
LEMMA LoadIntentInv ==
    ASSUME ScopeInv, NEW p \in Procs, LockResume(p) \/ LockRollback(p)
    PROVE  ScopeInv'
  <1>1. PICK from \in {"lock_resume", "lock_rollback"}, to \in {"inspect", "rinspect"} :
            LoadIntent(p, from, to)
    BY DEF LockResume, LockRollback
  <1>2. pc[p] \in Unlocked \ {"idle"} /\ UNCHANGED <<disk, ended>> /\ tx[p] \in Txs
    BY <1>1, OwnState DEF LoadIntent, Unlocked, ProcInv
  <1>3. ASSUME NEW o, Return(p, o)
        PROVE  ScopeInv'
    BY <1>2, <1>3, AnswerInv
  <1>4. CASE /\ ~OtherPending(tx[p]) /\ tx[p] \in active
             /\ TakeLock(p) /\ Goto(p, to) /\ UNCHANGED <<local, outcome>>
    <2>1. HolderInv(to, tx[p], seen[p], pos[p])
      BY <1>2, <1>4, OwnState
      DEF HolderInv, HolderPosition, HolderRecords, OtherPending, DiskOK, Preparing, Advancing,
          Retreating
    <2> QED
      BY <1>2, <1>4, <2>1, LockStep DEF Locked, Preparing, Advancing, Retreating
  <1> QED
    BY <1>1, <1>3, <1>4 DEF LoadIntent

-----------------------------------------------------------------------------
(* Under the lock.                                                         *)

\* What the invariant says of the process that holds the lock.
LEMMA HolderState ==
    ASSUME ScopeInv, NEW p \in Procs, pc[p] \in Locked
    PROVE  /\ DiskInv /\ DiskOK /\ ProcOK /\ ProcInv(p) /\ lock = p
           /\ tx[p] \in Txs /\ plan[tx[p]] # NoPlan /\ PlanSound(tx[p])
           /\ HolderPosition(pc[p], tx[p], seen[p], pos[p]) /\ HolderRecords(pc[p], tx[p])
           /\ seen[p] \in [Images -> Versions \cup {None}]
           /\ pos[p] \in 0..(N + 1) /\ recovered[p] \in SUBSET Images
  <1>1. pc[p] # "idle"
    BY DEF Locked, Preparing, Advancing, Retreating
  <1> QED
    BY <1>1, OwnState DEF ProcInv, HolderInv, DiskInv, PlansSound

\* The replay and the capture find the preimages in place.
LEMMA PrepareInv ==
    ASSUME ScopeInv, NEW p \in Procs, Replay(p) \/ Capture(p)
    PROVE  ScopeInv'
  <1>1. pc[p] \in {"replay", "capture"} /\ UNCHANGED <<disk, ended>>
    BY DEF Replay, Capture
  <1>2. pc[p] \in Locked /\ {"capture", "stage"} \subseteq Locked
    BY <1>1 DEF Locked, Preparing
  <1>3. ASSUME NEW o, Return(p, o)
        PROVE  ScopeInv'
    BY <1>1, <1>3, AnswerInv
  <1>4. ASSUME NEW k \in {"capture", "stage"}, Continue(p, k), k = "stage" => plan[tx[p]].pre = files
        PROVE  ScopeInv'
    <2>1. HolderInv(k, tx[p], seen[p], pos[p])'
      BY <1>1, <1>2, <1>4, HolderState
      DEF Continue, local, disk, HolderInv, HolderPosition, HolderRecords, Back, Pre, Preparing,
          Advancing, Retreating
    <2> QED
      BY <1>1, <1>2, <1>4, <2>1, HolderState, SameDisk, ContinueStep DEF disk
  <1> QED
    BY <1>3, <1>4 DEF Replay, Capture

\* Stage only adds to the staging directory of a transaction that is not pending.
LEMMA StageInv ==
    ASSUME ScopeInv, NEW p \in Procs, NEW i \in Images, Stage(p, i)
    PROVE  ScopeInv'
  <1>1. pc[p] = "stage" /\ pc[p] \in Locked
    BY DEF Stage, Locked, Preparing
  <1>2. DiskInv'
    <2>1. DiskOK'
      BY <1>1, HolderState DEF Stage, DiskOK
    <2>2. PendingSound'
      BY <1>1, HolderState DEF Stage, HolderRecords, Preparing, PendingSound
    <2> QED
      BY <2>1, <2>2, OwnState
      DEF Stage, DiskInv, PlansSound, PlanSound, QuietSound, FilesSound, RecordsSound, EndRecorded,
          LedgerOnce, Recorded, Pre
  <1>3. ProcOK' /\ Alone(p)
    BY OwnState DEF Stage, proc, local, ProcOK, Alone
  <1>4. HolderInv(pc[p], tx[p], seen[p], pos[p])'
    BY <1>1, HolderState
    DEF Stage, proc, local, HolderInv, HolderPosition, HolderRecords, SeenSound, Done, Back, Theirs,
        Pre, Post, Recorded
  <1>5. ProcInv(p)'
    BY <1>1, <1>4, OwnState DEF Stage, proc, local, ProcInv
  <1> QED
    BY <1>1, <1>2, <1>3, <1>5, HolderState, OwnStep DEF Stage

\* The intent is saved over preimages, with everything staged and nothing pending.
LEMMA SaveIntentInv ==
    ASSUME ScopeInv, NEW p \in Procs, SaveIntent(p)
    PROVE  ScopeInv'
  <1>1. pc[p] = "stage" /\ pc[p] \in Locked /\ "inspect" \in Locked
    BY DEF SaveIntent, Locked, Preparing, Advancing
  <1>2. active = {} /\ active' = {tx[p]} /\ tx[p] \notin archived /\ ended[tx[p]] = "open"
    BY <1>1, HolderState
    DEF SaveIntent, HolderRecords, Preparing, DiskInv, DiskOK, RecordsSound, EndRecorded
  <1>3. \A i \in Images : Back(tx[p], i)
    BY <1>1, HolderState DEF HolderPosition
  <1>4. PendingSound'
    <2>1. N \in Images
      BY ScopeConstants DEF Images
    <2>2. files[N] # tx[p]
      BY <1>1, <1>3, <2>1, HolderState, ScopeConstants DEF Back, Theirs, PlanSound
    <2> QED
      BY <1>1, <1>2, <1>3, <2>2, HolderState
      DEF SaveIntent, Continue, local, PendingSound, Back, Theirs, Pre, Post
  <1>5. DiskInv'
    BY <1>1, <1>2, <1>4, HolderState
    DEF SaveIntent, DiskInv, DiskOK, PlansSound, PlanSound, QuietSound, FilesSound, RecordsSound,
        EndRecorded, LedgerOnce, Recorded, Pre
  <1>6. HolderInv("inspect", tx[p], seen[p], pos[p])'
    BY <1>2 DEF SaveIntent, Continue, local, HolderInv, HolderPosition, HolderRecords, Preparing,
                Advancing, Retreating
  <1> QED
    BY <1>1, <1>5, <1>6, HolderState, ContinueStep DEF SaveIntent
-----------------------------------------------------------------------------
(* advance and Rollback.                                                   *)

\* A step with an intent that returns.
LEMMA GiveUpInv ==
    ASSUME ScopeInv, NEW p \in Procs, pc[p] \in Locked, NEW o, Return(p, o), UNCHANGED plan, DiskInv'
    PROVE  ScopeInv'
  BY HolderState, ReturnStep

\* An inspection finds only preimages, postimages and files of somebody else.
LEMMA InspectionInv ==
    ASSUME ScopeInv, NEW p \in Procs,
           Inspect(p) \/ Reinspect(p) \/ InspectRollback(p) \/ ReinspectRollback(p)
    PROVE  ScopeInv'
  <1>1. PICK n \in 0..(N + 1), k \in {"publish", "restore"} :
            /\ Inspection(p, n, k)
            /\ \/ pc[p] = "inspect" /\ n = 1 /\ k = "publish"
               \/ pc[p] = "reinspect" /\ n = pos[p] + 1 /\ k = "publish"
               \/ pc[p] = "rinspect" /\ n = N /\ k = "restore"
               \/ pc[p] = "rreinspect" /\ n = pos[p] - 1 /\ k = "restore"
    <2>1. pc[p] \in {"reinspect", "rreinspect"} => pos[p] \in Images
      BY HolderState DEF HolderPosition, Locked, Advancing, Retreating
    <2> QED
      BY <2>1, ScopeConstants DEF Inspect, Reinspect, InspectRollback, ReinspectRollback, Images
  <1>2. pc[p] \in Locked /\ pc[p] \in Advancing \cup Retreating /\ k \in Locked /\ UNCHANGED <<disk, ended>>
    BY <1>1 DEF Inspection, Locked, Advancing, Retreating
  <1>3. ASSUME NEW o, Return(p, o)
        PROVE  ScopeInv'
    BY <1>2, <1>3, AnswerInv
  <1>4. CASE /\ ~Conflict(tx[p], files) /\ Goto(p, k)
             /\ seen' = [seen EXCEPT ![p] = files] /\ pos' = [pos EXCEPT ![p] = n]
             /\ UNCHANGED <<tx, recovered, outcome, lock>>
    <2>1. ProcOK' /\ Alone(p)
      BY <1>2, <1>4, HolderState DEF Goto, DiskOK, ProcOK, Alone
    <2>2. HolderPosition(k, tx[p], files, n)
      <3>1. SeenSound(tx[p], files)
        BY <1>4 DEF SeenSound, Conflict
      <3>2. HolderPosition(pc[p], tx[p], seen[p], pos[p])
        BY <1>2, HolderState
      <3>3. N \in Nat \ {0} /\ Images = 1..N
        BY ScopeConstants DEF Images
      <3>4. CASE k = "publish"
        <4>1. n \in 1..(N + 1) /\ \A i \in Images : i < n => Done(tx[p], i)
          <5>1. CASE pc[p] = "inspect"
            BY <1>1, <3>3, <3>4, <5>1
          <5>2. CASE pc[p] = "reinspect"
            <6>1. pos[p] \in Images /\ \A i \in Images : i <= pos[p] => Done(tx[p], i)
              BY <3>2, <5>2 DEF HolderPosition
            <6> QED
              BY <1>1, <3>3, <3>4, <5>2, <6>1
          <5> QED
            BY <1>1, <3>4, <5>1, <5>2
        <4> QED
          BY <3>1, <3>4, <4>1 DEF HolderPosition
      <3>5. CASE k = "restore"
        <4>1. n \in 0..N /\ \A i \in Images : i > n => Back(tx[p], i)
          <5>1. CASE pc[p] = "rinspect"
            BY <1>1, <3>3, <3>5, <5>1
          <5>2. CASE pc[p] = "rreinspect"
            <6>1. pos[p] \in Images /\ \A i \in Images : i >= pos[p] => Back(tx[p], i)
              BY <3>2, <5>2 DEF HolderPosition
            <6> QED
              BY <1>1, <3>3, <3>5, <5>2, <6>1
          <5> QED
            BY <1>1, <3>5, <5>1, <5>2
        <4> QED
          BY <3>1, <3>5, <4>1 DEF HolderPosition
      <3> QED
        BY <3>4, <3>5
    <2>3. HolderRecords(k, tx[p])
      BY <1>2, HolderState DEF HolderRecords, Preparing, Advancing, Retreating
    <2>4. pc'[p] = k /\ tx'[p] = tx[p] /\ seen'[p] = files /\ pos'[p] = n
      BY <1>4, <1>2, HolderState DEF Goto, ProcOK
    <2>5. HolderInv(pc[p], tx[p], seen[p], pos[p])'
      BY <1>2, <2>2, <2>3, <2>4
      DEF disk, HolderInv, HolderPosition, HolderRecords, SeenSound, Done, Back, Theirs, Pre, Post,
          Recorded
    <2>6. ProcInv(p)'
      BY <1>2, <1>4, <2>4, <2>5, HolderState DEF ProcInv, disk
    <2>7. DiskInv'
      BY <1>2, HolderState, SameDisk
    <2> QED
      BY <1>2, <1>4, <2>1, <2>6, <2>7, HolderState, OwnStep DEF disk
  <1> QED
    BY <1>1, <1>3, <1>4 DEF Inspection

\* An image inspected as what the walk wants it to be is passed over.
LEMMA SkipInv ==
    ASSUME ScopeInv, NEW p \in Procs, SkipPost(p) \/ SkipPre(p)
    PROVE  ScopeInv'
  <1>1. /\ pc[p] \in {"publish", "restore"} /\ pc[p] \in Locked /\ pos[p] \in Images
        /\ UNCHANGED <<disk, lock, pc, tx, seen, recovered, ended>>
    BY DEF SkipPost, SkipPre, Locked, Advancing, Retreating
  <1>2. PICK n \in 0..(N + 1) :
            /\ pos' = [pos EXCEPT ![p] = n]
            /\ \/ pc[p] = "publish" /\ n = pos[p] + 1 /\ seen[p][pos[p]] = Post(tx[p], pos[p])
               \/ pc[p] = "restore" /\ n = pos[p] - 1 /\ seen[p][pos[p]] = Pre(tx[p], pos[p])
    BY <1>1, ScopeConstants DEF SkipPost, SkipPre, Images
  <1>3. HolderPosition(pc[p], tx[p], seen[p], n)
    BY SMTT(30), <1>1, <1>2, HolderState, ScopeConstants
    DEF HolderPosition, SeenSound, Done, Back, Images
  <1>4. pos'[p] = n
    BY <1>1, <1>2, HolderState DEF ProcOK
  <1>5. HolderInv(pc[p], tx[p], seen[p], pos[p])'
    BY <1>1, <1>3, <1>4, HolderState
    DEF disk, HolderInv, HolderPosition, HolderRecords, SeenSound, Done, Back, Theirs, Pre, Post,
        Recorded
  <1>6. ProcInv(p)' /\ ProcOK' /\ Alone(p)
    BY <1>1, <1>2, <1>5, HolderState DEF ProcInv, ProcOK, Alone, disk
  <1>7. DiskInv'
    BY <1>1, HolderState, SameDisk
  <1> QED
    BY <1>1, <1>6, <1>7, HolderState, OwnStep DEF disk

\* The guards of the sources and the verification only decide.
LEMMA DecideInv ==
    ASSUME ScopeInv, NEW p \in Procs, GuardSources(p) \/ InternalVerify(p)
    PROVE  ScopeInv'
  <1>1. pc[p] = "publish" /\ pc[p] \in Locked /\ UNCHANGED <<disk, ended>>
    BY DEF GuardSources, InternalVerify, Locked, Advancing
  <1>2. ASSUME NEW o, Return(p, o)
        PROVE  ScopeInv'
    BY <1>1, <1>2, AnswerInv
  <1>3. ASSUME NEW k \in {"publish_baseline", "receipt"}, Continue(p, k),
               k = "publish_baseline" => pos[p] = N, k = "receipt" => pos[p] > N
        PROVE  ScopeInv'
    <2>1. HolderPosition(k, tx[p], seen[p], pos[p])
      BY <1>1, <1>3, HolderState, ScopeConstants DEF HolderPosition, Images
    <2>2. HolderRecords(k, tx[p])
      BY <1>1, <1>3, HolderState DEF HolderRecords, Preparing, Advancing, Retreating
    <2>3. HolderInv(k, tx[p], seen[p], pos[p])'
      BY <1>1, <1>3, <2>1, <2>2
      DEF Continue, local, disk, HolderInv, HolderPosition, HolderRecords, SeenSound, Done, Back,
          Theirs, Pre, Post, Recorded
    <2> QED
      BY <1>1, <1>3, <2>3, HolderState, SameDisk, ContinueStep DEF disk, Locked, Advancing
  <1> QED
    BY <1>2, <1>3 DEF GuardSources, InternalVerify

\* A formal file that the holder moves between the images of its transaction.
LEMMA MoveFile ==
    ASSUME ScopeInv, NEW p \in Procs, pc[p] \in Advancing \cup Retreating, NEW i \in Images,
           files[i] \in {Pre(tx[p], i), Post(tx[p], i)},
           NEW v \in {Pre(tx[p], i), Post(tx[p], i)}, files' = [files EXCEPT ![i] = v],
           UNCHANGED <<source, plan, staged, active, archived, applied, undone, ledger, ended>>,
           files'[N] = tx[p] => \A j \in Images : j # i => Done(tx[p], j),
           files'[N] = tx[p] => v = Post(tx[p], i)
    PROVE  /\ DiskInv'
           /\ files' \in [Images -> Versions] /\ files'[i] = v
           /\ \A j \in Images : j # i => files'[j] = files[j]
  <1>1. pc[p] \in Locked /\ N \in Images
    BY ScopeConstants DEF Locked, Images
  <1>2. /\ active = {tx[p]} /\ tx[p] \in Txs /\ plan[tx[p]] # NoPlan /\ PlanSound(tx[p])
        /\ DiskInv /\ DiskOK
    BY <1>1, HolderState DEF HolderRecords
  <1>3. v \in Versions
    BY <1>2 DEF Pre, Post, PlanSound, Versions
  <1>4. DiskOK' /\ files'[i] = v /\ \A j \in Images : j # i => files'[j] = files[j]
    BY <1>2, <1>3 DEF DiskOK
  <1>5. PlansSound' /\ RecordsSound'
    BY <1>2 DEF DiskInv, PlansSound, PlanSound, RecordsSound, EndRecorded, LedgerOnce, Recorded, Pre
  <1>6. QuietSound'
    BY <1>2 DEF QuietSound
  <1>7. FilesSound'
    <2>1. v \in Txs => plan[v] # NoPlan
      BY <1>2 DEF Post, PlanSound
    <2>2. ASSUME i = N, v \in Txs \ active
          PROVE  v \in archived
      BY <1>2, <2>2, ScopeConstants DEF Post, PlanSound
    <2> QED
      BY <1>1, <1>2, <1>4, <2>1, <2>2 DEF FilesSound, DiskInv
  <1>8. PendingSound'
    <2>1. ASSUME NEW j \in Images
          PROVE  files'[j] \in {Pre(tx[p], j), Post(tx[p], j)} \cup Thirds
      BY <1>2, <1>4 DEF DiskInv, PendingSound
    <2>2. ASSUME files'[N] = tx[p], NEW j \in Images
          PROVE  \/ files'[j] = Post(tx[p], j)
                 \/ files'[j] \in Thirds /\ files'[j] \notin {Pre(tx[p], j), Post(tx[p], j)}
      BY <1>4, <2>2 DEF Done, Theirs
    <2> QED
      BY SMTT(30), <1>2, <2>1, <2>2 DEF DiskInv, PendingSound, Done, Theirs, Pre, Post
  <1> QED
    BY <1>4, <1>5, <1>6, <1>7, <1>8 DEF DiskInv, DiskOK

\* A postimage replaces its preimage; Baseline only when the others are done.
LEMMA PublishInv ==
    ASSUME ScopeInv, NEW p \in Procs, Publish(p)
    PROVE  ScopeInv'
  <1>1. /\ pc[p] \in {"publish", "publish_baseline"} /\ pc[p] \in Locked
        /\ pc[p] \in Advancing \cup Retreating /\ "reinspect" \in Locked
        /\ UNCHANGED <<source, plan, staged, active, archived, applied, undone, ledger, ended>>
    BY DEF Publish, Locked, Advancing
  <1>2. pos[p] \in Images /\ N \in Images
    BY <1>1, HolderState, ScopeConstants DEF Publish, HolderPosition, Images
  <1>3. ASSUME NEW o, Return(p, o), UNCHANGED files
        PROVE  ScopeInv'
    BY <1>1, <1>3, AnswerInv DEF disk
  <1>4. CASE /\ files[pos[p]] = Pre(tx[p], pos[p])
             /\ files' = [files EXCEPT ![pos[p]] = Post(tx[p], pos[p])]
             /\ Continue(p, "reinspect")
    <2>1. \A j \in Images : j < pos[p] => Done(tx[p], j)
      BY <1>1, HolderState DEF HolderPosition
    <2>2. ASSUME files'[N] = tx[p]
          PROVE  \A j \in Images : j # pos[p] => Done(tx[p], j)
      <3>1. CASE pos[p] = N
        BY <2>1, <3>1, ScopeConstants DEF Images
      <3>2. CASE pos[p] # N
        <4>1. files[N] = tx[p]
          BY <1>1, <1>2, <1>4, <2>2, <3>2, HolderState DEF DiskOK
        <4> QED
          BY <1>1, <4>1, HolderState DEF DiskInv, PendingSound, HolderRecords
      <3> QED
        BY <3>1, <3>2
    <2>3. /\ DiskInv' /\ files'[pos[p]] = Post(tx[p], pos[p])
          /\ \A j \in Images : j # pos[p] => files'[j] = files[j]
      BY <1>1, <1>2, <1>4, <2>2, MoveFile
    <2>4. UNCHANGED <<tx, seen, pos>>
      BY <1>4 DEF Continue, local
    <2>5. ASSUME NEW j \in Images, j <= pos[p]
          PROVE  Done(tx[p], j)'
      BY <1>1, <1>2, <2>1, <2>3, <2>4, <2>5 DEF Done, Theirs, Pre, Post, Images
    <2>6. HolderInv("reinspect", tx[p], seen[p], pos[p])'
      BY <1>1, <1>2, <2>4, <2>5, HolderState
      DEF HolderInv, HolderPosition, HolderRecords, Preparing, Advancing, Retreating
    <2> QED
      BY <1>1, <1>4, <2>3, <2>6, HolderState, ContinueStep
  <1> QED
    BY <1>3, <1>4 DEF Publish

\* A preimage replaces its postimage, Baseline's first.
LEMMA RestoreInv ==
    ASSUME ScopeInv, NEW p \in Procs, Restore(p)
    PROVE  ScopeInv'
  <1>1. /\ pc[p] = "restore" /\ pc[p] \in Locked /\ pc[p] \in Advancing \cup Retreating
        /\ "rreinspect" \in Locked /\ pos[p] \in Images /\ N \in Images
        /\ UNCHANGED <<source, plan, staged, active, archived, applied, undone, ledger, ended>>
    BY ScopeConstants DEF Restore, Locked, Retreating, Images
  <1>2. ASSUME NEW o, Return(p, o), UNCHANGED files
        PROVE  ScopeInv'
    BY <1>1, <1>2, AnswerInv DEF disk
  <1>3. CASE /\ files[pos[p]] = Post(tx[p], pos[p])
             /\ files' = [files EXCEPT ![pos[p]] = Pre(tx[p], pos[p])]
             /\ recovered' = [recovered EXCEPT ![p] = @ \cup {pos[p]}]
             /\ Goto(p, "rreinspect")
             /\ UNCHANGED <<tx, seen, pos, outcome, lock>>
    <2>1. \A j \in Images : j > pos[p] => Back(tx[p], j)
      BY <1>1, HolderState DEF HolderPosition
    <2>2. files'[N] # tx[p]
      <3>1. CASE pos[p] = N
        BY <1>1, <1>3, <3>1, HolderState DEF DiskOK, PlanSound
      <3>2. CASE pos[p] # N
        <4>1. files'[N] = files[N] /\ Back(tx[p], N)
          BY <1>1, <1>3, <2>1, <3>2, HolderState, ScopeConstants DEF DiskOK, Images
        <4> QED
          BY <1>1, <4>1, HolderState, ScopeConstants DEF Back, Theirs, PlanSound
      <3> QED
        BY <3>1, <3>2
    <2>3. /\ DiskInv' /\ files'[pos[p]] = Pre(tx[p], pos[p])
          /\ \A j \in Images : j # pos[p] => files'[j] = files[j]
      BY <1>1, <1>3, <2>2, MoveFile
    <2>4. ASSUME NEW j \in Images, j >= pos[p]
          PROVE  Back(tx[p], j)'
      BY <1>1, <1>3, <2>1, <2>3, <2>4 DEF Back, Theirs, Pre, Post, Images
    <2>5. HolderInv("rreinspect", tx[p], seen[p], pos[p])'
      BY <1>1, <1>3, <2>4, HolderState
      DEF HolderInv, HolderPosition, HolderRecords, Preparing, Advancing, Retreating
    <2>6. ProcInv(p)' /\ ProcOK' /\ Alone(p)
      BY <1>1, <1>3, <2>5, HolderState DEF Goto, ProcInv, ProcOK, Alone
    <2> QED
      BY <1>1, <1>3, <2>3, <2>6, HolderState, OwnStep
  <1> QED
    BY <1>2, <1>3 DEF Restore

\* What changes receipts, Ledger and archives leaves the files sound: the pending
\* transaction stays pending and nothing that is recorded disappears.
LEMMA RecordStep ==
    ASSUME ScopeInv, UNCHANGED <<files, source, plan, staged, active, ended>>, DiskOK',
           archived \subseteq archived', RecordsSound'
    PROVE  DiskInv'
  BY DEF ScopeInv, DiskInv, PlansSound, PlanSound, PendingSound, QuietSound, FilesSound, Done,
         Theirs, Pre, Post

\* The receipt of an applied transaction.
LEMMA SaveAppliedInv ==
    ASSUME ScopeInv, NEW p \in Procs, SaveApplied(p)
    PROVE  ScopeInv'
  <1>1. pc[p] = "receipt" /\ pc[p] \in Locked /\ "ledger" \in Locked
    BY DEF SaveApplied, Locked, Advancing
  <1>2. DiskOK' /\ RecordsSound'
    BY <1>1, HolderState
    DEF SaveApplied, DiskInv, DiskOK, RecordsSound, EndRecorded, LedgerOnce, Recorded
  <1>3. DiskInv'
    BY <1>2, RecordStep DEF SaveApplied
  <1>4. HolderInv("ledger", tx[p], seen[p], pos[p])'
    BY <1>1, HolderState
    DEF SaveApplied, Continue, local, HolderInv, HolderPosition, HolderRecords, Done, Theirs, Pre,
        Post, Preparing, Advancing, Retreating
  <1> QED
    BY <1>1, <1>3, <1>4, HolderState, ContinueStep DEF SaveApplied

\* The receipt of a rollback.
LEMMA SaveRolledBackInv ==
    ASSUME ScopeInv, NEW p \in Procs, SaveRolledBack(p)
    PROVE  ScopeInv'
  <1>1. /\ pc[p] = "restore" /\ pos[p] = 0 /\ pc[p] \in Locked /\ "rledger" \in Locked
        /\ UNCHANGED <<files, source, plan, staged, active, archived, applied, ledger, ended>>
    BY DEF SaveRolledBack, Locked, Retreating
  <1>2. ASSUME NEW o, Return(p, o), UNCHANGED undone
        PROVE  ScopeInv'
    BY <1>1, <1>2, AnswerInv DEF disk
  <1>3. CASE /\ undone' = [undone EXCEPT ![tx[p]] = {recovered[p]}]
             /\ Continue(p, "rledger")
    <2>1. DiskOK' /\ undone'[tx[p]] # {} /\ \A t \in Txs : undone[t] # {} => undone'[t] # {}
      <3>1. {recovered[p]} \in SUBSET SUBSET Images /\ {recovered[p]} # {}
        BY <1>1, HolderState
      <3> QED
        BY <1>1, <1>3, <3>1, HolderState DEF DiskOK
    <2>2. RecordsSound'
      BY <1>1, <2>1, HolderState DEF DiskInv, RecordsSound, EndRecorded, LedgerOnce, Recorded
    <2>3. DiskInv'
      BY <1>1, <2>1, <2>2, RecordStep
    <2>4. \A i \in Images : Back(tx[p], i)
      BY <1>1, HolderState DEF HolderPosition, Images
    <2>5. HolderInv("rledger", tx[p], seen[p], pos[p])'
      BY <1>1, <1>3, <2>1, <2>4, HolderState
      DEF Continue, local, HolderInv, HolderPosition, HolderRecords, Back, Theirs, Pre, Post,
          Preparing, Advancing, Retreating
    <2> QED
      BY <1>1, <1>3, <2>3, <2>5, HolderState, ContinueStep
  <1> QED
    BY <1>2, <1>3 DEF SaveRolledBack

\* The counts of the Ledger are numbers of images.
LEMMA CountType == ASSUME NEW S \in SUBSET Images PROVE Cardinality(S) \in Nat
  <1>1. IsFiniteSet(Images)
    BY FS_Interval, ScopeConstants DEF Images
  <1>2. IsFiniteSet(S)
    BY <1>1, FS_Subset
  <1> QED
    BY <1>2, FS_CardinalityType

\* An event that EnsureLedger appends is the only one of its kind.
LEMMA AppendEvent ==
    ASSUME DiskInv, NEW e \in Events, ledger' = Append(ledger, e), Recorded(e.op, e.tx) = {},
           UNCHANGED <<files, source, plan, staged, active, archived, applied, undone, ended>>
    PROVE  /\ DiskOK' /\ RecordsSound' /\ Recorded(e.op, e.tx)' # {}
           /\ \A o, t : Recorded(o, t) # {} => Recorded(o, t)' # {}
  <1>1. /\ ledger \in Seq(Events) /\ ledger' \in Seq(Events) /\ Len(ledger') = Len(ledger) + 1
        /\ ledger'[Len(ledger) + 1] = e
        /\ \A k \in 1..Len(ledger) : ledger'[k] = ledger[k]
    BY DEF DiskInv, DiskOK
  <1>2. /\ DOMAIN ledger = 1..Len(ledger) /\ DOMAIN ledger' = 1..(Len(ledger) + 1)
        /\ Len(ledger) \in Nat
    BY <1>1
  <1>3. ASSUME NEW o, NEW t
        PROVE  Recorded(o, t)' = Recorded(o, t) \cup
                   (IF e.op = o /\ e.tx = t THEN {Len(ledger) + 1} ELSE {})
    BY <1>1, <1>2 DEF Recorded
  <1>4. DiskOK'
    BY <1>1 DEF DiskInv, DiskOK
  <1>5. \A o, t : Recorded(o, t) # {} => Recorded(o, t)' # {}
    BY <1>3
  <1>6. LedgerOnce'
    BY <1>3 DEF DiskInv, RecordsSound, LedgerOnce
  <1>7. RecordsSound'
    BY <1>5, <1>6 DEF DiskInv, RecordsSound, EndRecorded
  <1> QED
    BY <1>3, <1>4, <1>5, <1>7

\* EnsureLedger returns with the event in the Ledger, or on a conflict.
LEMMA EnsureLedgerInv ==
    ASSUME ScopeInv, NEW p \in Procs, LedgerApply(p) \/ LedgerRollback(p)
    PROVE  ScopeInv'
  <1>1. PICK e, k :
            /\ EnsureLedger(p, e, k) /\ e.tx = tx[p]
            /\ \/ /\ pc[p] = "ledger" /\ e.op = "apply" /\ k = "archive"
                  /\ e = Event("apply", tx[p], Cardinality(Changes[tx[p]]))
               \/ /\ pc[p] = "rledger" /\ e.op = "rollback" /\ k = "rarchive"
                  /\ e = Event("rollback", tx[p], Cardinality(recovered[p]))
    BY DEF LedgerApply, LedgerRollback, Event
  <1>2. pc[p] \in Locked /\ k \in Locked
    BY <1>1 DEF Locked, Advancing, Retreating
  <1>3. e \in Events
    BY <1>1, <1>2, HolderState, CountType, ScopeConstants DEF Event, Events
  <1>4. UNCHANGED <<files, source, plan, staged, active, archived, applied, undone, ended>>
    BY <1>1 DEF EnsureLedger
  <1>5. ASSUME NEW o, Return(p, o), UNCHANGED ledger
        PROVE  ScopeInv'
    BY <1>4, <1>5, AnswerInv DEF disk
  <1>6. ASSUME Continue(p, k), DiskInv', Recorded(e.op, e.tx)' # {},
               \A o, t : Recorded(o, t) # {} => Recorded(o, t)' # {}
        PROVE  ScopeInv'
    <2>1. UNCHANGED <<tx, seen, pos>>
      BY <1>6 DEF Continue, local
    <2>2. HolderPosition(k, tx[p], seen[p], pos[p])'
      BY <1>1, <1>2, <1>4, <2>1, HolderState
      DEF HolderPosition, Done, Back, Theirs, Pre, Post
    <2>3. HolderRecords(k, tx[p])'
      BY <1>1, <1>2, <1>4, <1>6, <2>1, HolderState
      DEF HolderRecords, Preparing, Advancing, Retreating
    <2>4. HolderInv(k, tx[p], seen[p], pos[p])'
      BY <2>2, <2>3 DEF HolderInv
    <2> QED
      BY <1>2, <1>4, <1>6, <2>4, HolderState, ContinueStep
  <1>7. CASE Recorded(e.op, e.tx) = {} /\ ledger' = Append(ledger, e) /\ Continue(p, k)
    <2>1. DiskInv
      BY <1>2, HolderState
    <2>2. /\ DiskOK' /\ RecordsSound' /\ Recorded(e.op, e.tx)' # {}
          /\ \A o, t : Recorded(o, t) # {} => Recorded(o, t)' # {}
      BY <1>3, <1>4, <1>7, <2>1, AppendEvent
    <2>3. DiskInv'
      BY <1>4, <2>2, RecordStep
    <2> QED
      BY <1>6, <1>7, <2>2, <2>3
  <1>8. CASE Recorded(e.op, e.tx) # {} /\ Continue(p, k) /\ UNCHANGED ledger
    <2>1. DiskInv'
      BY <1>2, <1>4, <1>8, HolderState, SameDisk DEF disk
    <2>2. \A o, t : Recorded(o, t)' = Recorded(o, t)
      BY <1>8 DEF Recorded
    <2> QED
      BY <1>6, <1>8, <2>1, <2>2
  <1> QED
    BY <1>1, <1>5, <1>7, <1>8 DEF EnsureLedger

\* The archive is saved while the intent is still there.
LEMMA SaveArchiveInv ==
    ASSUME ScopeInv, NEW p \in Procs, SaveArchive(p)
    PROVE  ScopeInv'
  <1>1. PICK k \in {"close", "rclose"} :
            /\ Continue(p, k)
            /\ (pc[p] = "archive" /\ k = "close") \/ (pc[p] = "rarchive" /\ k = "rclose")
    BY DEF SaveArchive
  <1>2. /\ pc[p] \in Locked /\ k \in Locked /\ archived' = archived \cup {tx[p]}
        /\ UNCHANGED <<files, source, plan, staged, active, applied, undone, ledger, ended>>
    BY <1>1 DEF SaveArchive, Locked, Advancing, Retreating
  <1>3. DiskOK' /\ RecordsSound'
    BY <1>2, HolderState DEF DiskInv, DiskOK, RecordsSound, EndRecorded, LedgerOnce, Recorded
  <1>4. DiskInv'
    BY <1>2, <1>3, RecordStep
  <1>5. UNCHANGED <<tx, seen, pos>>
    BY <1>1 DEF Continue, local
  <1>6. HolderInv(k, tx[p], seen[p], pos[p])'
    BY SMTT(30), <1>1, <1>2, <1>5, HolderState
    DEF HolderInv, HolderPosition, HolderRecords, Done, Back, Theirs, Pre, Post, Recorded, Preparing,
        Advancing, Retreating
  <1> QED
    BY <1>1, <1>2, <1>4, <1>6, HolderState, ContinueStep

\* The intent is removed: the files are all done or all back, and the end is recorded.
LEMMA RemoveActiveInv ==
    ASSUME ScopeInv, NEW p \in Procs, RemoveActive(p)
    PROVE  ScopeInv'
  <1>1. PICK how \in {"applied", "rolled_back"} :
            /\ ended' = [ended EXCEPT ![tx[p]] = how] /\ Return(p, how)
            /\ (pc[p] = "close" /\ how = "applied") \/ (pc[p] = "rclose" /\ how = "rolled_back")
    BY DEF RemoveActive
  <1>2. /\ pc[p] \in Locked /\ active' = active \ {tx[p]}
        /\ UNCHANGED <<files, source, plan, staged, archived, applied, undone, ledger>>
    BY <1>1 DEF RemoveActive, Locked, Advancing, Retreating
  <1>3. active' = {} /\ active = {tx[p]} /\ tx[p] \in Txs /\ tx[p] \in archived
    BY <1>1, <1>2, HolderState DEF HolderRecords, Advancing, Retreating
  <1>4. DiskOK'
    BY <1>1, <1>2, <1>3, HolderState DEF DiskOK
  <1>5. PlansSound' /\ PendingSound'
    BY <1>2, <1>3, HolderState DEF DiskInv, PlansSound, PlanSound, PendingSound, Pre
  <1>6. RecordsSound'
    BY SMTT(30), <1>1, <1>2, <1>3, HolderState
    DEF DiskInv, DiskOK, RecordsSound, EndRecorded, HolderRecords, LedgerOnce, Recorded
  <1>7. N \in Images
    BY ScopeConstants DEF Images
  <1>8. ASSUME how = "applied" PROVE DiskInv'
    <2>1. \A i \in Images : Done(tx[p], i)
      BY <1>1, <1>2, <1>8, HolderState DEF HolderPosition
    <2>2. files[N] = tx[p] \/ files[N] \in Thirds
      BY <1>3, <1>7, <2>1, ScopeConstants DEF Done, Theirs, Post
    <2>3. QuietSound' /\ FilesSound'
      BY <1>2, <1>3, <2>1, <2>2, HolderState, ScopeConstants
      DEF DiskInv, QuietSound, FilesSound, Done, Theirs, Post
    <2> QED
      BY <1>4, <1>5, <1>6, <2>3 DEF DiskInv
  <1>9. ASSUME how = "rolled_back" PROVE DiskInv'
    <2>1. \A i \in Images : Back(tx[p], i)
      BY <1>1, <1>2, <1>9, HolderState DEF HolderPosition
    <2>2. QuietSound' /\ FilesSound'
      BY <1>2, <1>3, <1>7, <2>1, HolderState, ScopeConstants
      DEF DiskInv, QuietSound, FilesSound, PlanSound, Back, Theirs
    <2> QED
      BY <1>4, <1>5, <1>6, <2>2 DEF DiskInv
  <1> QED
    BY <1>1, <1>2, <1>8, <1>9, HolderState, ReturnStep

-----------------------------------------------------------------------------
(* Everybody else.                                                         *)

\* A preview freezes sound files while nothing is pending.
LEMMA BuildInv ==
    ASSUME ScopeInv, NEW t \in Txs, Build(t)
    PROVE  ScopeInv'
  <1>1. /\ plan[t] = NoPlan /\ active = {} /\ plan' = [plan EXCEPT ![t] = [pre |-> files, src |-> source]]
        /\ UNCHANGED <<files, source, staged, active, archived, applied, undone, ledger, ended>>
        /\ UNCHANGED <<lock, pc, tx, seen, pos, recovered>>
    BY DEF Build, proc, local
  <1>2. DiskInv /\ DiskOK /\ ProcOK /\ N \in Images
    BY ScopeConstants DEF ScopeInv, DiskInv, Images
  <1>3. plan'[t] = [pre |-> files, src |-> source] /\ \A u \in Txs : u # t => plan'[u] = plan[u]
    BY <1>1, <1>2 DEF DiskOK
  <1>4. plan'[t] # NoPlan
    <2>1. files[N] # None
      BY <1>2, ScopeConstants DEF DiskOK, Versions
    <2> QED
      BY <1>2, <1>3, <2>1 DEF NoPlan
  <1>5. \A u \in Txs : plan[u] # NoPlan => u # t /\ plan'[u] = plan[u] /\ plan'[u] # NoPlan
    BY <1>1, <1>3
  <1>6. DiskOK'
    BY <1>1, <1>2 DEF DiskOK, Plans
  <1>7. ASSUME NEW u \in Txs, plan'[u] # NoPlan
        PROVE  PlanSound(u)'
    <2>1. CASE u = t
      <3>1. \A i \in Images : Pre(t, i)' = files[i]
        BY <1>3 DEF Pre
      <3>2. \A i \in Images : files[i] # t /\ (files[i] \in Txs => plan'[files[i]] # NoPlan)
        BY <1>1, <1>2, <1>5 DEF DiskInv, FilesSound
      <3>3. ASSUME NEW v \in Txs, files[N] = v
            PROVE  v \in archived /\ \A i \in Changes[v] : files[i] \in {v} \cup Thirds
        BY <1>1, <1>2, <3>3 DEF DiskInv, FilesSound, QuietSound
      <3>4. \A v \in Txs : Changes[v] \subseteq Images
        BY ScopeConstants
      <3> QED
        BY <1>1, <1>2, <1>3, <2>1, <3>1, <3>2, <3>3, <3>4 DEF PlanSound, DiskOK
    <2>2. CASE u # t
      <3>1. plan'[u] = plan[u] /\ PlanSound(u)
        BY <1>2, <1>3, <1>7, <2>2 DEF DiskInv, PlansSound
      <3> QED
        BY <1>1, <1>5, <3>1 DEF PlanSound, Pre
    <2> QED
      BY <2>1, <2>2
  <1>8. PendingSound' /\ QuietSound' /\ FilesSound' /\ RecordsSound'
    BY <1>1, <1>2, <1>5
    DEF DiskInv, PendingSound, QuietSound, FilesSound, RecordsSound, EndRecorded, LedgerOnce, Recorded
  <1>9. DiskInv'
    BY <1>6, <1>7, <1>8 DEF DiskInv, PlansSound
  <1>10. ASSUME NEW q \in Procs
         PROVE  ProcInv(q)'
    <2>1. ProcInv(q)
      BY DEF ScopeInv
    <2>2. pc[q] \in Locked => pc[q] # "idle"
      BY DEF Locked, Preparing, Advancing, Retreating
    <2>3. pc[q] # "idle" => tx[q] \in Txs /\ plan'[tx[q]] = plan[tx[q]] /\ plan'[tx[q]] # NoPlan
      BY <1>5, <2>1 DEF ProcInv
    <2>4. ASSUME pc[q] \in Locked PROVE HolderInv(pc[q], tx[q], seen[q], pos[q])'
      <3>1. /\ HolderPosition(pc[q], tx[q], seen[q], pos[q]) /\ HolderRecords(pc[q], tx[q])
            /\ plan'[tx[q]] = plan[tx[q]]
        BY <2>1, <2>2, <2>3, <2>4 DEF ProcInv, HolderInv
      <3>2. HolderPosition(pc[q], tx[q], seen[q], pos[q])'
        <4>1. \A i \in Images : Pre(tx[q], i)' = Pre(tx[q], i) /\ Post(tx[q], i)' = Post(tx[q], i)
          BY <1>1, <3>1 DEF Pre, Post
        <4>2. \A i \in Images : (Theirs(tx[q], i)' <=> Theirs(tx[q], i))
          BY <1>1, <4>1 DEF Theirs
        <4>3. \A i \in Images : /\ Done(tx[q], i)' <=> Done(tx[q], i)
                                /\ Back(tx[q], i)' <=> Back(tx[q], i)
          BY <1>1, <4>1, <4>2 DEF Done, Back
        <4>4. SeenSound(tx[q], seen[q])' <=> SeenSound(tx[q], seen[q])
          BY <1>1, <4>1, <4>2 DEF SeenSound
        <4> QED
          BY <1>1, <3>1, <4>3, <4>4 DEF HolderPosition
      <3>3. HolderRecords(pc[q], tx[q])'
        BY <1>1, <3>1 DEF HolderRecords, Recorded
      <3> QED
        BY <3>2, <3>3 DEF HolderInv
    <2> QED
      BY <1>1, <2>1, <2>3, <2>4 DEF ProcInv
  <1> QED
    BY <1>1, <1>2, <1>9, <1>10 DEF ScopeInv, ProcOK

\* An outside write is neither image of any transaction.
LEMMA ExternalWriteInv ==
    ASSUME ScopeInv, NEW i \in Images, NEW w \in Thirds, ExternalWrite(i, w)
    PROVE  ScopeInv'
  <1>1. /\ files' = [files EXCEPT ![i] = w] /\ Fresh(w)
        /\ UNCHANGED <<source, plan, staged, active, archived, applied, undone, ledger, ended>>
        /\ UNCHANGED <<lock, pc, tx, seen, pos, recovered>>
    BY DEF ExternalWrite, proc, local
  <1>2. DiskInv /\ DiskOK /\ ProcOK /\ N \in Images /\ w \notin Txs
    BY ScopeConstants DEF ScopeInv, DiskInv, Images
  <1>3. files'[i] = w /\ \A j \in Images : j # i => files'[j] = files[j]
    BY <1>1, <1>2 DEF DiskOK
  <1>4. ASSUME NEW t \in Txs
        PROVE  /\ Theirs(t, i)'
               /\ \A j \in Images : /\ Theirs(t, j) => Theirs(t, j)'
                                    /\ Done(t, j) => Done(t, j)'
                                    /\ Back(t, j) => Back(t, j)'
    <2>1. w \notin {Pre(t, i), Post(t, i)}
      BY <1>1, <1>2 DEF Fresh, Post
    <2>2. Theirs(t, i)'
      BY <1>1, <1>3, <2>1 DEF Theirs, Pre, Post
    <2> QED
      BY <1>1, <1>3, <2>2 DEF Theirs, Done, Back, Pre, Post
  <1>5. DiskOK'
    BY <1>1, <1>2 DEF DiskOK, Versions
  <1>6. PlansSound' /\ RecordsSound'
    BY <1>1, <1>2 DEF DiskInv, PlansSound, PlanSound, RecordsSound, EndRecorded, LedgerOnce, Recorded, Pre
  <1>7. QuietSound' /\ FilesSound'
    BY <1>1, <1>2, <1>3, ScopeConstants DEF DiskInv, QuietSound, FilesSound
  <1>8. PendingSound'
    <2> SUFFICES ASSUME NEW t \in active
                 PROVE  /\ active = {t} /\ plan[t] # NoPlan /\ staged[t] = Images /\ ended[t] = "open"
                        /\ \A j \in Images : files'[j] \in {Pre(t, j), Post(t, j)} \cup Thirds
                        /\ files'[N] = t => \A j \in Images : Done(t, j)'
      BY <1>1 DEF PendingSound, Pre, Post
    <2>1. t \in Txs
      BY <1>2 DEF DiskOK
    <2>2. files'[N] = t => files[N] = t
      BY <1>2, <1>3, <2>1
    <2> QED
      BY <1>2, <1>3, <1>4, <2>1, <2>2 DEF DiskInv, PendingSound
  <1>9. ASSUME NEW q \in Procs
        PROVE  ProcInv(q)'
    <2>1. ProcInv(q) /\ (pc[q] \in Locked => pc[q] # "idle")
      BY DEF ScopeInv, Locked, Preparing, Advancing, Retreating
    <2>2. ASSUME pc[q] \in Locked
          PROVE  HolderPosition(pc[q], tx[q], seen[q], pos[q])'
      <3>1. tx[q] \in Txs /\ HolderPosition(pc[q], tx[q], seen[q], pos[q])
        BY <2>1, <2>2 DEF ProcInv, HolderInv
      <3>2. SeenSound(tx[q], seen[q]) => SeenSound(tx[q], seen[q])'
        BY <1>1, <1>3, <1>4, <3>1 DEF SeenSound, Pre, Post
      <3> QED
        BY <1>1, <1>4, <3>1, <3>2 DEF HolderPosition
    <2>3. HolderRecords(pc[q], tx[q])' <=> HolderRecords(pc[q], tx[q])
      BY <1>1 DEF HolderRecords, Recorded
    <2> QED
      BY <1>1, <2>1, <2>2, <2>3 DEF ProcInv, HolderInv
  <1> QED
    BY <1>1, <1>2, <1>5, <1>6, <1>7, <1>8, <1>9 DEF ScopeInv, DiskInv, ProcOK

\* The sources do not matter to the invariant.
LEMMA ExternalEditInv ==
    ASSUME ScopeInv, NEW w \in Thirds, ExternalEdit(w)
    PROVE  ScopeInv'
  <1>1. /\ source' = w
        /\ UNCHANGED <<files, plan, staged, active, archived, applied, undone, ledger, ended>>
        /\ UNCHANGED <<lock, pc, tx, seen, pos, recovered>>
    BY DEF ExternalEdit, proc, local
  <1>2. DiskInv'
    BY <1>1
    DEF ScopeInv, DiskInv, DiskOK, PlansSound, PlanSound, PendingSound, QuietSound, FilesSound,
        RecordsSound, EndRecorded, LedgerOnce, Recorded, Done, Theirs, Pre, Post
  <1>3. ASSUME NEW q \in Procs
        PROVE  ProcInv(q)' <=> ProcInv(q)
    BY <1>1
    DEF ProcInv, HolderInv, HolderPosition, HolderRecords, SeenSound, Done, Back, Theirs, Pre, Post,
        Recorded
  <1> QED
    BY <1>1, <1>2, <1>3 DEF ScopeInv, ProcOK

-----------------------------------------------------------------------------
(* The theorems.                                                           *)

\* A repository without transactions.
LEMMA InitInv == Init => ScopeInv
  <1> SUFFICES ASSUME Init PROVE ScopeInv
    OBVIOUS
  <1>1. N \in Images /\ 0 \in 0..(N + 1)
    BY ScopeConstants DEF Images
  <1>2. DiskOK
    BY DEF Init, DiskOK, Versions
  <1>3. Base \notin Txs
    BY ScopeConstants
  <1>4. \A o, t : Recorded(o, t) = {}
    BY DEF Init, Recorded
  <1>5. DiskInv
    BY <1>1, <1>2, <1>3, <1>4
    DEF Init, DiskInv, PlansSound, PendingSound, QuietSound, FilesSound, RecordsSound, EndRecorded,
        LedgerOnce
  <1>6. "idle" \in Unlocked /\ "idle" \notin Locked
    BY DEF Locked, Unlocked, Preparing, Advancing, Retreating
  <1>7. ProcOK
    BY <1>1, <1>6 DEF Init, ProcOK
  <1>8. ASSUME NEW p \in Procs
        PROVE  ProcInv(p)
    BY <1>6, ScopeConstants DEF Init, ProcInv
  <1> QED
    BY <1>5, <1>7, <1>8 DEF ScopeInv

\* Every step of every process, of the planner and of the outside keeps the invariant.
LEMMA NextInv == ScopeInv /\ [Next]_vars => ScopeInv'
  <1> SUFFICES ASSUME ScopeInv, [Next]_vars PROVE ScopeInv'
    OBVIOUS
  <1>1. ASSUME NEW p \in Procs, NEW t \in Txs,
               StartApply(p, t) \/ StartResume(p, t) \/ StartRollback(p, t)
        PROVE  ScopeInv'
    <2>1. PICK l \in {"archive?", "lock_resume", "lock_rollback"} : Start(p, t, l) /\ plan[t] # NoPlan
      BY <1>1 DEF StartApply, StartResume, StartRollback
    <2> QED
      BY <2>1, StartInv DEF Unlocked
  <1>2. ASSUME NEW p \in Procs, Step(p)
        PROVE  ScopeInv'
    BY <1>2, ApproachInv, LockApplyInv, PrepareInv, StageInv, SaveIntentInv, LoadIntentInv,
       InspectionInv, SkipInv, DecideInv, PublishInv, SaveAppliedInv, EnsureLedgerInv, RestoreInv,
       SaveRolledBackInv, SaveArchiveInv, RemoveActiveInv DEF Step
  <1>3. ASSUME NEW p \in Procs, Stop(p)
        PROVE  ScopeInv'
    BY <1>3, AnswerInv DEF Stop
  <1>4. CASE UNCHANGED vars
    <2>1. \A p \in Procs : ProcInv(p)' <=> ProcInv(p)
      BY <1>4
      DEF vars, disk, proc, local, ProcInv, HolderInv, HolderPosition, HolderRecords, SeenSound, Done,
          Back, Theirs, Pre, Post, Recorded
    <2> QED
      BY <1>4, <2>1, SameDisk DEF vars, proc, local, ScopeInv, ProcOK
  <1> QED
    BY <1>1, <1>2, <1>3, <1>4, BuildInv, ExternalWriteInv, ExternalEditInv DEF Next

\* The inductive invariant holds of every run.
THEOREM ScopeInvariant == Spec => []ScopeInv
  BY InitInv, NextInv, PTL DEF Spec

\* However commands interleave and wherever they stop, a repository has at most one
\* pending scope change.
THEOREM OnePendingAlways == Spec => []OnePending
  <1>1. ScopeInv => OnePending
    BY DEF ScopeInv, DiskInv, PendingSound, OnePending
  <1> QED
    BY <1>1, ScopeInvariant, PTL

\* Whatever is pending has all its postimages staged, so that it can be resumed.
THEOREM RecoverableIntentAlways == Spec => []RecoverableIntent
  <1>1. ScopeInv => RecoverableIntent
    BY DEF ScopeInv, DiskInv, PendingSound, RecoverableIntent
  <1> QED
    BY <1>1, ScopeInvariant, PTL

\* Repeated and resumed commands never audit the same end twice.
THEOREM LedgerOnceAlways == Spec => []LedgerOnce
  <1>1. ScopeInv => LedgerOnce
    BY DEF ScopeInv, DiskInv, RecordsSound
  <1> QED
    BY <1>1, ScopeInvariant, PTL

\* A transaction leaves .aoci/transactions only with archive, receipt and event.
THEOREM TerminalRecordedAlways == Spec => []TerminalRecorded
  <1>1. ScopeInv => TerminalRecorded
    BY DEF ScopeInv, DiskInv, FilesSound, RecordsSound, EndRecorded, TerminalRecorded
  <1> QED
    BY <1>1, ScopeInvariant, PTL

\* The Baseline of a transaction is never beside an older version of a file that the
\* transaction changes.
THEOREM BaselineLastAlways == Spec => []BaselineLast
  <1>1. ASSUME ScopeInv, NEW t \in Txs, files[N] = t, NEW i \in Changes[t]
        PROVE  files[i] \in {t} \cup Thirds \cup active
    <2>1. DiskInv /\ DiskOK /\ i \in Images /\ N \in Images
      <3>1. i \in Images
        BY ScopeConstants
      <3>2. N \in Images
        BY ScopeConstants DEF Images
      <3> QED
        BY <1>1, <3>1, <3>2 DEF ScopeInv, DiskInv
    <2>2. CASE active = {}
      BY <1>1, <2>1, <2>2 DEF DiskInv, QuietSound
    <2>3. ASSUME NEW u \in active
          PROVE  files[i] \in {t} \cup Thirds \cup active
      <3>1. u \in Txs /\ PlanSound(u) /\ files[i] \in {Pre(u, i), Post(u, i)} \cup Thirds
        BY <2>1 DEF DiskInv, DiskOK, PendingSound, PlansSound
      <3>2. CASE u = t
        BY <1>1, <2>1, <3>2 DEF DiskInv, PendingSound, Done, Theirs, Post
      <3>3. CASE u # t
        <4>1. Pre(u, N) = t
          BY <1>1, <2>1, <3>3, ScopeConstants DEF DiskInv, PendingSound, Post
        <4> QED
          BY <1>1, <3>1, <4>1 DEF PlanSound, Post
      <3> QED
        BY <3>2, <3>3
    <2> QED
      BY <2>2, <2>3
  <1>2. ScopeInv => BaselineLast
    BY <1>1 DEF BaselineLast
  <1> QED
    BY <1>2, ScopeInvariant, PTL

\* The steps that change the formal files, the intents or the recorded ends.
Writes == \/ \E p \in Procs : SaveIntent(p) \/ Publish(p) \/ Restore(p) \/ RemoveActive(p)
          \/ \E i \in Images, w \in Thirds : ExternalWrite(i, w)

\* Any other step leaves what the abstract specification sees.
LEMMA WhoWrites ==
    ASSUME Next, ~Writes
    PROVE  UNCHANGED <<files, active, ended>> /\ (active # {} => UNCHANGED plan)
  <1> USE DEF disk, proc
  <1>1. ASSUME NEW p \in Procs, Step(p)
        PROVE  UNCHANGED <<files, active, ended, plan>>
    <2>1. CheckArchive(p) \/ CheckActive(p) \/ Authorize(p) \/ LockApply(p) \/ Replay(p) \/ Capture(p)
             => UNCHANGED <<files, active, ended, plan>>
      BY DEF CheckArchive, CheckActive, Authorize, LockApply, Replay, Capture
    <2>2. (\E j \in Images : Stage(p, j)) \/ LockResume(p) \/ LockRollback(p)
             => UNCHANGED <<files, active, ended, plan>>
      BY DEF Stage, LockResume, LockRollback, LoadIntent
    <2>3. Inspect(p) \/ Reinspect(p) \/ InspectRollback(p) \/ ReinspectRollback(p)
             => UNCHANGED <<files, active, ended, plan>>
      BY DEF Inspect, Reinspect, InspectRollback, ReinspectRollback, Inspection
    <2>4. SkipPost(p) \/ SkipPre(p) \/ GuardSources(p) \/ InternalVerify(p) \/ SaveApplied(p)
             => UNCHANGED <<files, active, ended, plan>>
      BY DEF SkipPost, SkipPre, GuardSources, InternalVerify, SaveApplied
    <2>5. LedgerApply(p) \/ SaveRolledBack(p) \/ LedgerRollback(p) \/ SaveArchive(p)
             => UNCHANGED <<files, active, ended, plan>>
      BY DEF LedgerApply, LedgerRollback, EnsureLedger, SaveRolledBack, SaveArchive
    <2> QED
      BY <1>1, <2>1, <2>2, <2>3, <2>4, <2>5 DEF Step, Writes
  <1>2. ASSUME NEW p \in Procs, NEW t \in Txs,
               StartApply(p, t) \/ StartResume(p, t) \/ StartRollback(p, t)
        PROVE  UNCHANGED <<files, active, ended, plan>>
    BY <1>2 DEF StartApply, StartResume, StartRollback, Start
  <1>3. ASSUME NEW t \in Txs, Build(t)
        PROVE  UNCHANGED <<files, active, ended>> /\ active = {}
    BY <1>3 DEF Build
  <1>4. ASSUME NEW p \in Procs, Stop(p)
        PROVE  UNCHANGED <<files, active, ended, plan>>
    BY <1>4 DEF Stop
  <1>5. ASSUME NEW w \in Thirds, ExternalEdit(w)
        PROVE  UNCHANGED <<files, active, ended, plan>>
    BY <1>5 DEF ExternalEdit
  <1> QED
    BY <1>1, <1>2, <1>3, <1>4, <1>5 DEF Next, Writes

\* Publish and Restore move one file of the pending transaction between its images.
LEMMA CommandWrite ==
    ASSUME ScopeInv, NEW p \in Procs, Publish(p) \/ Restore(p), files' # files
    PROVE  /\ active = {tx[p]} /\ pos[p] \in Images /\ UNCHANGED <<active, ended, plan>>
           /\ files[pos[p]] \in {Pre(tx[p], pos[p]), Post(tx[p], pos[p])}
           /\ files'[pos[p]] \in {Pre(tx[p], pos[p]), Post(tx[p], pos[p])}
           /\ \A j \in Images : j # pos[p] => files'[j] = files[j]
  <1>1. pc[p] \in Locked /\ pc[p] \in Advancing \cup Retreating
    BY DEF Publish, Restore, Locked, Advancing, Retreating
  <1>2. active = {tx[p]} /\ files \in [Images -> Versions]
    BY <1>1, HolderState DEF HolderRecords, DiskOK
  <1>3. pos[p] \in Images
    BY <1>1, HolderState, ScopeConstants DEF Publish, Restore, HolderPosition, Images
  <1> QED
    BY <1>2, <1>3 DEF Publish, Restore

\* The commands replace nothing that somebody else wrote, unless it is what the
\* pending transaction's preview has seen.
THEOREM ThirdPartyUntouchedAlways == Spec => ThirdPartyUntouched
  <1> DEFINE A == \A i \in Images : files[i] \in Thirds /\ files'[i] \notin Thirds =>
                      \E t \in active : files[i] \in {Pre(t, i), Post(t, i)}
  <1>1. ScopeInv /\ [Next]_vars => [A]_vars
    <2> SUFFICES ASSUME ScopeInv, Next, NEW i \in Images, files[i] \in Thirds, files'[i] \notin Thirds
                 PROVE  \E t \in active : files[i] \in {Pre(t, i), Post(t, i)}
      OBVIOUS
    <2>1. files' # files /\ files \in [Images -> Versions]
      BY DEF ScopeInv, DiskInv, DiskOK
    <2>2. ASSUME NEW p \in Procs, Publish(p) \/ Restore(p)
          PROVE  \E t \in active : files[i] \in {Pre(t, i), Post(t, i)}
      <3>1. i = pos[p]
        BY <2>1, <2>2, CommandWrite
      <3> QED
        BY <2>1, <2>2, <3>1, CommandWrite
    <2>3. ~(\E j \in Images, w \in Thirds : ExternalWrite(j, w))
      BY <2>1 DEF ExternalWrite
    <2>4. ~(\E p \in Procs : SaveIntent(p) \/ RemoveActive(p))
      BY <2>1 DEF SaveIntent, RemoveActive
    <2> QED
      BY <2>1, <2>2, <2>3, <2>4, WhoWrites DEF Writes
  <1> QED
    BY <1>1, ScopeInvariant, PTL DEF Spec, ThirdPartyUntouched

-----------------------------------------------------------------------------
(* The refinement of AtomicChange.                                         *)

\* The pending transaction of the refinement mapping.
LEMMA PendingIs ==
    ASSUME NEW t
    PROVE  (active = {t} => Pending = t) /\ (active' = {t} => Pending' = t)
  BY DEF Pending

\* Saving the intent begins the change: what differs from its preimages is foreign.
LEMMA BeginStep ==
    ASSUME ScopeInv, NEW p \in Procs, SaveIntent(p)
    PROVE  Change!Next
  <1>1. pc[p] = "stage" /\ pc[p] \in Locked
    BY DEF SaveIntent, Locked, Preparing
  <1>2. PICK t \in Txs : t = tx[p]
    BY <1>1, HolderState
  <1>3. /\ active = {} /\ active' = {t} /\ ended[t] = "open" /\ plan[t] # NoPlan
        /\ UNCHANGED <<files, plan, ended>> /\ files \in [Images -> Versions] /\ PlanSound(t)
    BY <1>1, <1>2, HolderState
    DEF SaveIntent, HolderRecords, Preparing, DiskInv, DiskOK, RecordsSound, EndRecorded
  <1>4. \A i \in Images : files[i] = Pre(t, i) \/ Theirs(t, i)
    BY <1>1, <1>2, HolderState DEF HolderPosition, Back
  <1>5. Pending = None /\ Pending' = t /\ Foreign = {}
    BY <1>3, PendingIs DEF Pending, Foreign
  <1>6. Foreign' = {i \in Images : plan[t].pre[i] # files[i]}
    BY <1>3, <1>4, <1>5 DEF Foreign, Theirs, Pre, Post
  <1>7. Change!Begin(t)
    BY <1>3, <1>5, <1>6 DEF Change!Begin, PlanSound
  <1> QED
    BY <1>7 DEF Change!Next

\* Removing the intent ends it: the files are as the end says, but for the foreign.
LEMMA EndStep ==
    ASSUME ScopeInv, NEW p \in Procs, RemoveActive(p)
    PROVE  Change!Next
  <1>1. pc[p] \in {"close", "rclose"} /\ pc[p] \in Locked
    BY DEF RemoveActive, Locked, Advancing, Retreating
  <1>2. PICK t \in Txs : t = tx[p]
    BY <1>1, HolderState
  <1>3. PICK how \in {"applied", "rolled_back"} :
            /\ ended' = [ended EXCEPT ![t] = how]
            /\ (pc[p] = "close" /\ how = "applied") \/ (pc[p] = "rclose" /\ how = "rolled_back")
    BY <1>2 DEF RemoveActive
  <1>4. /\ active = {t} /\ active' = {} /\ UNCHANGED <<files, plan>>
        /\ files \in [Images -> Versions]
    BY <1>1, <1>2, HolderState DEF RemoveActive, HolderRecords, Advancing, Retreating, DiskOK
  <1>5. Pending = t /\ Pending' = None /\ Foreign' = {}
    BY <1>4, PendingIs DEF Pending, Foreign
  <1>6. Foreign = {i \in Images : files[i] \notin {Pre(t, i), Post(t, i)}}
    BY <1>4, <1>5 DEF Foreign
  <1>7. CASE how = "applied"
    <2>1. \A i \in Images : Done(t, i)
      BY <1>1, <1>2, <1>3, <1>7, HolderState DEF HolderPosition
    <2>2. \A i \in Images \ Foreign : files[i] = Post(t, i)
      BY <1>6, <2>1 DEF Done, Theirs
    <2>3. Change!Commit(t)
      BY <1>3, <1>4, <1>5, <1>7, <2>2 DEF Change!Commit, Change!End, Change!After, Post, Pre
    <2> QED
      BY <2>3 DEF Change!Next
  <1>8. CASE how = "rolled_back"
    <2>1. \A i \in Images : Back(t, i)
      BY <1>1, <1>2, <1>3, <1>8, HolderState DEF HolderPosition
    <2>2. \A i \in Images \ Foreign : files[i] = Pre(t, i)
      BY <1>6, <2>1 DEF Back, Theirs
    <2>3. Change!Abort(t)
      BY <1>3, <1>4, <1>5, <1>8, <2>2 DEF Change!Abort, Change!End, Pre
    <2> QED
      BY <2>3 DEF Change!Next
  <1> QED
    BY <1>7, <1>8

\* An outside write is one, and makes its file foreign while a change is pending.
LEMMA OutsideStep ==
    ASSUME ScopeInv, NEW i \in Images, NEW w \in Thirds, ExternalWrite(i, w)
    PROVE  Change!Next
  <1>1. /\ UNCHANGED <<active, plan, ended>> /\ files' = [files EXCEPT ![i] = w] /\ Fresh(w)
        /\ files \in [Images -> Versions] /\ active \in SUBSET Txs
    BY DEF ExternalWrite, ScopeInv, DiskInv, DiskOK
  <1>2. files'[i] = w /\ \A j \in Images : j # i => files'[j] = files[j]
    BY <1>1
  <1>3. CASE active = {}
    <2>1. Pending = None /\ Pending' = None /\ Foreign = {} /\ Foreign' = {}
      BY <1>1, <1>3 DEF Pending, Foreign
    <2>2. Change!Outside(i)
      BY <1>1, <1>2, <1>3, <2>1 DEF Change!Outside
    <2> QED
      BY <2>2 DEF Change!Next
  <1>4. CASE active # {}
    <2>1. PICK t \in Txs : active = {t}
      BY <1>1, <1>4 DEF ScopeInv, DiskInv, PendingSound
    <2>2. Pending = t /\ Pending' = t /\ t # None
      BY <1>1, <2>1, PendingIs, ScopeConstants
    <2>3. w \notin {Pre(t, i), Post(t, i)}
      BY <1>1, ScopeConstants DEF Fresh, Post
    <2>4. Foreign' = Foreign \cup {i}
      BY <1>1, <1>2, <2>1, <2>2, <2>3 DEF Foreign, Pre, Post
    <2>5. Change!Outside(i)
      BY <1>1, <2>1, <2>2, <2>4 DEF Change!Outside
    <2> QED
      BY <2>5 DEF Change!Next
  <1> QED
    BY <1>3, <1>4

\* Every other step, Publish and Restore among them, is hidden by the gate.
LEMMA HiddenStep ==
    ASSUME UNCHANGED <<active, ended>>, active = {} => UNCHANGED files,
           active # {} => UNCHANGED <<plan, Foreign>>
    PROVE  UNCHANGED Change!vars
  <1>1. Pending' = Pending
    BY DEF Pending
  <1>2. Foreign' = Foreign
    BY DEF Foreign
  <1> QED
    BY <1>1, <1>2 DEF Change!vars

\* Behind the gate of pending transactions a scope change is atomic.
THEOREM ImplementsAtomicChangeAlways == Spec => ImplementsAtomicChange
  <1>1. Init => Change!Init
    BY ScopeConstants DEF Init, Change!Init, Pending, Foreign
  <1>2. ScopeInv /\ [Next]_vars => [Change!Next]_(Change!vars)
    <2> SUFFICES ASSUME ScopeInv, [Next]_vars
                 PROVE  Change!Next \/ UNCHANGED Change!vars
      OBVIOUS
    <2>1. CASE UNCHANGED vars
      BY <2>1, HiddenStep DEF vars, disk, Foreign, Pending, Pre, Post
    <2>2. ASSUME NEW p \in Procs, Publish(p) \/ Restore(p)
          PROVE  UNCHANGED Change!vars
      <3>1. UNCHANGED <<active, ended, plan>>
        BY <2>2 DEF Publish, Restore
      <3>2. CASE files' = files
        BY <3>1, <3>2, HiddenStep DEF Foreign, Pending, Pre, Post
      <3>3. CASE files' # files
        <4>1. PICK t : t = tx[p] /\ active = {t}
          BY <2>2, <3>3, CommandWrite
        <4>2. Pending = t /\ Pending' = t
          BY <3>1, <4>1, PendingIs
        <4>3. Foreign' = Foreign
          BY <2>2, <3>1, <3>3, <4>1, <4>2, CommandWrite DEF Foreign, Pre, Post
        <4> QED
          BY <3>1, <4>1, <4>3, HiddenStep
      <3> QED
        BY <3>2, <3>3
    <2>3. CASE Next /\ ~Writes
      <3>1. UNCHANGED <<files, active, ended>> /\ (active # {} => UNCHANGED plan)
        BY <2>3, WhoWrites
      <3>2. active # {} => Foreign' = Foreign
        BY <3>1 DEF Foreign, Pending, Pre, Post
      <3> QED
        BY <3>1, <3>2, HiddenStep
    <2> QED
      BY <2>1, <2>2, <2>3, BeginStep, EndStep, OutsideStep DEF Writes
  <1> QED
    BY <1>1, <1>2, ScopeInvariant, PTL DEF Spec, ImplementsAtomicChange, Change!Spec
=============================================================================
