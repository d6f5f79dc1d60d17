------------------------- MODULE BootstrapTxnProofs -------------------------
(***************************************************************************)
(* The safety of the Bootstrap transaction and its refinement of           *)
(* AtomicChange, for every number of plans, formal files, outside writes   *)
(* and stops.                                                              *)
(***************************************************************************)
EXTENDS BootstrapTxn, TLAPS

Versions == Txs \cup {Base, Third, None}

\* Steps with an intent, forward and back.
Advancing == {"inspect", "publish", "reinspect", "verify", "completion", "ledger", "archive", "close"}
Retreating == {"rinspect", "restore", "rreceipt", "rarchive", "rclose"}

Plans == [root : {Base, None}, src : {Base, Third}]

\* The states of the variables.
TypeOK ==
    /\ files \in [Images -> Versions] /\ source \in {Base, Third}
    /\ plan \in [Txs -> Plans \cup {NoPlan}]
    /\ staged \in [Txs -> SUBSET Images] /\ moved \in [Txs -> SUBSET (BOOLEAN \X Images)]
    /\ active \in SUBSET Txs /\ archived \in SUBSET Txs
    /\ completion \in SUBSET Txs /\ ledger \in SUBSET Txs
    /\ undone \in [Txs -> SUBSET SUBSET Images]
    /\ ended \in [Txs -> {"open", "applied", "rolled_back"}] /\ touched \in SUBSET Images
    /\ budget \in [external : Nat, stops : Nat]
    /\ pc \in {"idle", "stage"} \cup Advancing \cup Retreating
    /\ tx \in Txs \cup {None} /\ seen \in [Images -> Versions]
    /\ pos \in 0..(N + 1) /\ recovered \in SUBSET Images

-----------------------------------------------------------------------------
(* The inductive invariant.                                                *)

\* Every file that nobody else touched is as t wants it; as it was before t.
AllPost(t) == \A i \in Images \ touched : files[i] = t
AllPre(t) == \A i \in Images \ touched : files[i] = Pre(t, i)

\* A pending transaction is alone and open, and its files are its own two images but
\* for what somebody else wrote or deleted.
PendingSound ==
    \A t \in active :
        /\ active = {t} /\ plan[t] # NoPlan /\ ended[t] = "open"
        /\ \A i \in Images : files[i] \in {None, Base, Third, t}
        /\ \A i \in Images \ touched : files[i] \in {Pre(t, i), t}

ReceiptsSound ==
    \A t \in Txs : /\ t \in archived => undone[t] # {} \/ t \in completion
                   /\ ended[t] # "open" => t \in archived

\* Where the running command is with the files.
PositionSound ==
    /\ pc = "stage" => AllPre(tx) /\ \A i \in Images : files[i] \in {None, Base, Third}
    /\ pc = "publish" => /\ pos \in 1..(N + 1)
                         /\ \A i \in Images \ touched : i < pos \/ seen[i] = tx => files[i] = tx
    /\ pc = "reinspect" => pos \in Images /\ \A i \in Images \ touched : i <= pos => files[i] = tx
    /\ pc \in {"completion", "ledger", "archive", "close"} => AllPost(tx)
    /\ pc = "restore" => /\ pos \in 0..N
                         /\ pos # Root \/ seen[Root] # tx => files[Root] # tx
    /\ pc \in {"rreceipt", "rarchive", "rclose"} => AllPre(tx)

\* What it has recorded.
RecordsSound ==
    /\ pc # "idle" => tx \in Txs /\ plan[tx] # NoPlan
    /\ pc = "stage" => active = {} /\ tx \notin archived
    /\ pc \in Advancing \cup Retreating => active = {tx}
    /\ pc \in Retreating => tx \notin completion
    /\ pc \in {"ledger", "archive", "close"} => tx \in completion
    /\ pc \in {"rarchive", "rclose"} => undone[tx] # {}
    /\ pc \in {"close", "rclose"} => tx \in archived

BootInv ==
    TypeOK /\ PendingSound /\ ReceiptsSound /\ RootLast /\ PositionSound /\ RecordsSound

-----------------------------------------------------------------------------
(* Steps of the command.                                                   *)

\* The positions of Root and Baseline among the files.
LEMMA Positions ==
    /\ Root \in Images /\ Baseline \in Images /\ Volumes = Images \ {Root, Baseline}
    /\ Root \in Nat /\ Root >= 2 /\ Baseline = Root + 1 /\ N = Root + 1
    /\ \A i \in Images : i \in Nat
  BY BootstrapConstants DEF Root, Baseline, Volumes, Images

\* A preimage is the skeleton or an absent file, never the work of a transaction.
LEMMA Preimage ==
    ASSUME TypeOK, NEW t \in Txs, plan[t] # NoPlan, NEW i \in Images
    PROVE  Pre(t, i) \in {Base, None} /\ Pre(t, i) \notin Txs /\ Pre(t, i) # Third
  BY BootstrapConstants DEF TypeOK, Plans, Pre

\* What the disk says does not depend on the command.
DiskSound == PendingSound /\ ReceiptsSound /\ RootLast

\* A command that returns forgets what it knew.
LEMMA ReturnInv ==
    ASSUME BootInv, NEW o, Return(o), TypeOK', DiskSound'
    PROVE  BootInv'
  BY DEF Return, BootInv, DiskSound, PositionSound, RecordsSound, Advancing, Retreating

\* A return changes nothing else of the types.
LEMMA ReturnType ==
    ASSUME TypeOK, NEW o, Return(o), UNCHANGED <<disk, history, budget>>
    PROVE  TypeOK'
  BY BootstrapConstants DEF Return, TypeOK, disk, receipts, history, Versions

\* The disk is as sound as it was if it is what it was.
LEMMA SameDisk == ASSUME BootInv, UNCHANGED <<disk, history>> PROVE DiskSound'
  BY DEF BootInv, DiskSound, PendingSound, ReceiptsSound, RootLast, disk, receipts, history, Pre

\* Every answer that leaves the disk alone.
LEMMA AnswerInv ==
    ASSUME BootInv, NEW o, Return(o), UNCHANGED <<disk, history, budget>>
    PROVE  BootInv'
  BY ReturnInv, ReturnType, SameDisk DEF BootInv

\* A stop leaves the disk and ends the command.
LEMMA StopInv == ASSUME BootInv, Stop PROVE BootInv'
  <1>1. TypeOK'
    BY BootstrapConstants DEF Stop, Return, BootInv, TypeOK, disk, receipts, history, Versions
  <1> QED
    BY <1>1, ReturnInv, SameDisk DEF Stop

\* A preview changes nothing but its own plan, which no command works on.
LEMMA PrepareInv == ASSUME BootInv, NEW t \in Txs, Prepare(t) PROVE BootInv'
  <1>1. TypeOK'
    BY DEF Prepare, Uninitialized, BootInv, TypeOK, Plans, receipts, local, history
  <1>2. \A u \in Txs : plan[u] # NoPlan => plan'[u] = plan[u]
    BY DEF Prepare, BootInv, TypeOK
  <1>3. DiskSound'
    BY DEF Prepare, BootInv, DiskSound, PendingSound, ReceiptsSound, RootLast, receipts, history
  <1>4. PositionSound'
    BY <1>2 DEF Prepare, BootInv, PositionSound, RecordsSound, AllPre, AllPost, Pre, local, history,
                receipts
  <1>5. RecordsSound'
    BY <1>2 DEF Prepare, BootInv, RecordsSound, local, receipts
  <1> QED
    BY <1>1, <1>3, <1>4, <1>5 DEF BootInv, DiskSound

\* A command enters its body with nothing pending but its own transaction, and a new
\* one with the files it was planned over.
LEMMA CommandInv ==
    ASSUME BootInv, NEW t \in Txs, Apply(t) \/ Resume(t) \/ Rollback(t)
    PROVE  BootInv'
  <1>1. plan[t] # NoPlan /\ UNCHANGED <<disk, history, budget>>
    BY DEF Apply, Resume, Rollback
  <1>2. ASSUME NEW o, Return(o) PROVE BootInv'
    BY <1>1, <1>2, AnswerInv
  <1>3. ASSUME NEW l \in {"inspect", "stage", "rinspect"}, Enter(t, l),
               l # "stage" => active = {t},
               l = "stage" => /\ active = {} /\ t \notin archived
                              /\ Uninitialized /\ files[Root] = plan[t].root,
               l = "rinspect" => t \notin completion
        PROVE  BootInv'
    <2>1. TypeOK'
      BY <1>1, <1>3 DEF Enter, BootInv, TypeOK, disk, receipts, history, Advancing, Retreating
    <2>2. PositionSound'
      <3>1. l = "stage" => AllPre(t) /\ \A i \in Images : files[i] \in {None, Base, Third}
        BY <1>3, Positions DEF Uninitialized, AllPre, Pre
      <3> QED
        BY <1>1, <1>3, <3>1 DEF Enter, PositionSound, AllPre, AllPost, Pre, disk, history
    <2>3. RecordsSound'
      BY <1>1, <1>3 DEF Enter, RecordsSound, disk, receipts, Advancing, Retreating
    <2> QED
      BY <1>1, <2>1, <2>2, <2>3, SameDisk DEF BootInv, DiskSound
  <1>4. t \in active /\ ~OtherPending(t) => active = {t}
    BY DEF OtherPending
  <1>5. t \notin active /\ ~OtherPending(t) => active = {}
    BY DEF OtherPending
  <1>6. CASE Apply(t)
    BY <1>2, <1>3, <1>4, <1>5, <1>6 DEF Apply, Answer
  <1>7. CASE Resume(t)
    BY <1>2, <1>3, <1>4, <1>7 DEF Resume, Answer
  <1>8. CASE Rollback(t)
    BY <1>2, <1>3, <1>4, <1>8 DEF Rollback
  <1> QED
    BY <1>6, <1>7, <1>8

\* Staging only adds to what is staged.
LEMMA StageInv == ASSUME BootInv, NEW i \in Images, Stage(i) PROVE BootInv'
  <1>1. TypeOK'
    BY DEF Stage, BootInv, TypeOK, receipts, local, history
  <1> QED
    BY <1>1 DEF Stage, BootInv, PendingSound, ReceiptsSound, RootLast, PositionSound, RecordsSound,
                AllPre, AllPost, Pre, receipts, local, history

\* The intent is saved over the preimages, with nothing else pending.
LEMMA SaveIntentInv == ASSUME BootInv, SaveIntent PROVE BootInv'
  <1>1. active' = {tx} /\ tx \in Txs /\ tx \notin archived /\ plan[tx] # NoPlan
    BY DEF SaveIntent, BootInv, RecordsSound
  <1>2. TypeOK'
    BY <1>1 DEF SaveIntent, Goto, BootInv, TypeOK, local, history, Advancing
  <1>3. PendingSound'
    <2>1. ended[tx] = "open"
      BY <1>1 DEF BootInv, ReceiptsSound
    <2> QED
      BY <1>1, <2>1 DEF SaveIntent, BootInv, PositionSound, PendingSound, AllPre, Pre, history
  <1> QED
    BY <1>1, <1>2, <1>3
    DEF SaveIntent, Goto, BootInv, ReceiptsSound, RootLast, PositionSound, RecordsSound, local,
        history, Advancing, Retreating

-----------------------------------------------------------------------------
(* advanceTransaction.                                                     *)

\* What the invariant says while a command works on an intent.
LEMMA HolderState ==
    ASSUME BootInv, pc \in Advancing \cup Retreating
    PROVE  /\ tx \in Txs /\ active = {tx} /\ plan[tx] # NoPlan /\ pc # "stage" /\ pc # "idle"
           /\ tx \notin {Base, Third, None}
           /\ \A i \in Images : files[i] \in {None, Base, Third, tx}
           /\ \A i \in Images \ touched : files[i] \in {Pre(tx, i), tx}
           /\ \A i \in Images : Pre(tx, i) \in {Base, None}
  BY BootstrapConstants, Preimage DEF BootInv, RecordsSound, PendingSound, Advancing, Retreating

\* An inspection without conflict finds a prefix of the files published.
LEMMA InspectInv == ASSUME BootInv, Inspect \/ Reinspect PROVE BootInv'
  <1>1. pc \in {"inspect", "reinspect"} /\ pc \in Advancing
    BY DEF Inspect, Reinspect, Advancing
  <1>2. UNCHANGED <<disk, history, budget>>
    BY DEF Inspect, Reinspect, Inspection
  <1>3. ASSUME Return("conflict") PROVE BootInv'
    BY <1>2, <1>3, AnswerInv
  <1>4. ASSUME NEW start \in Nat, start = IF pc = "inspect" THEN 1 ELSE pos + 1,
               pc' = "publish", seen' = files, pos' = start, UNCHANGED <<tx, recovered, outcome>>
        PROVE  BootInv'
    <2>1. start \in 1..(N + 1)
      BY <1>1, <1>4, BootstrapConstants DEF BootInv, PositionSound, Images
    <2>2. TypeOK'
      BY <1>2, <1>4, <2>1, BootstrapConstants
      DEF BootInv, TypeOK, disk, receipts, history, Advancing
    <2>3. PositionSound'
      <3>1. \A i \in Images \ touched : i < start \/ files[i] = tx => files[i] = tx
        BY <1>1, <1>4, BootstrapConstants DEF BootInv, PositionSound, Images
      <3> QED
        BY <1>2, <1>4, <2>1, <3>1 DEF PositionSound, disk, history
    <2>4. RecordsSound'
      BY <1>1, <1>2, <1>4, HolderState DEF BootInv, RecordsSound, disk, receipts, Advancing, Retreating
    <2> QED
      BY <1>2, <2>2, <2>3, <2>4, SameDisk DEF BootInv, DiskSound
  <1>5. pos \in Nat
    BY DEF BootInv, TypeOK
  <1> QED
    BY <1>3, <1>4, <1>5 DEF Inspect, Reinspect, Inspection

\* A file that was found published is left as it is.
LEMMA SkipPostInv == ASSUME BootInv, SkipPost PROVE BootInv'
  <1>1. pos \in Images /\ pos \in Nat /\ pos + 1 \in 1..(N + 1)
    BY BootstrapConstants DEF SkipPost, Images
  <1>2. TypeOK'
    BY <1>1 DEF SkipPost, BootInv, TypeOK, disk, receipts, history
  <1>3. PositionSound'
    BY <1>1, Positions
    DEF SkipPost, IsPost, BootInv, PositionSound, disk, history
  <1>4. RecordsSound'
    BY DEF SkipPost, BootInv, RecordsSound, disk, receipts
  <1> QED
    BY <1>2, <1>3, <1>4, SameDisk DEF SkipPost, BootInv, DiskSound

\* The Root is published over Volumes that are all published.
LEMMA PublishInv == ASSUME BootInv, Publish PROVE BootInv'
  <1>1. pc = "publish" /\ pc \in Advancing /\ pos \in Images /\ pos \in Nat
    BY Positions DEF Publish, Advancing
  <1>2. ASSUME Return("publish_failed"), UNCHANGED files PROVE BootInv'
    BY <1>2, AnswerInv DEF Publish, disk
  <1>3. ASSUME files[pos] = Pre(tx, pos), files' = [files EXCEPT ![pos] = tx],
               NEW l \in {"verify", "reinspect"}, Goto(l)
        PROVE  BootInv'
    <2> USE <1>1, <1>3, HolderState
    <2>1. TypeOK'
      BY DEF Publish, Goto, BootInv, TypeOK, Versions, receipts, local, history, Advancing
    <2>2. /\ \A i \in Images : files'[i] = IF i = pos THEN tx ELSE files[i]
          /\ UNCHANGED <<source, plan, staged, moved, receipts, history, budget, tx, pos, seen>>
      BY DEF Publish, Goto, BootInv, TypeOK, local
    <2>3. PendingSound'
      BY <2>2 DEF BootInv, PendingSound, Pre, receipts, history
    <2>4. RootLast'
      <3>1. ASSUME NEW t \in Txs, files'[Root] = t, NEW i \in Volumes \ touched
            PROVE  files'[i] = t
        <4>1. t = tx /\ i \in Images \ touched /\ i < Root
          <5>1. files'[Root] \in {None, Base, Third, tx}
            BY <2>2, Positions
          <5> QED
            BY <3>1, <5>1, BootstrapConstants DEF Volumes, Images, Root
        <4>2. CASE pos = Root
          BY <2>2, <4>1, <4>2 DEF BootInv, PositionSound
        <4>3. CASE pos # Root
          BY <2>2, <3>1, <4>1, <4>3, Positions DEF BootInv, RootLast
        <4> QED
          BY <4>2, <4>3
      <3> QED
        BY <2>2, <3>1 DEF RootLast, history
    <2>5. PositionSound'
      BY <2>2, Positions DEF Goto, BootInv, PositionSound, history
    <2>6. RecordsSound'
      BY <2>2 DEF Goto, BootInv, RecordsSound, receipts, Advancing, Retreating
    <2>7. ReceiptsSound'
      BY <2>2 DEF BootInv, ReceiptsSound, receipts, history
    <2> QED
      BY <2>1, <2>3, <2>4, <2>5, <2>6, <2>7 DEF BootInv
  <1> QED
    BY <1>2, <1>3 DEF Publish

\* Everything is in place when the receipts are written.
LEMMA InternalVerifyInv == ASSUME BootInv, InternalVerify PROVE BootInv'
  <1>1. pc \in Advancing /\ UNCHANGED <<disk, history, budget>>
    BY DEF InternalVerify, Advancing
  <1>2. ASSUME Return("verify_failed") PROVE BootInv'
    BY <1>1, <1>2, AnswerInv
  <1>3. ASSUME \A i \in Images : IsPost(tx, files, i), Goto("completion") PROVE BootInv'
    <2>1. TypeOK'
      BY <1>1, <1>3 DEF Goto, BootInv, TypeOK, disk, receipts, history, local, Advancing
    <2>2. PositionSound'
      BY <1>1, <1>3 DEF IsPost, Goto, PositionSound, AllPost, disk, history, local
    <2>3. RecordsSound'
      BY <1>1, <1>3, HolderState
      DEF Goto, RecordsSound, disk, receipts, local, Advancing, Retreating
    <2> QED
      BY <1>1, <2>1, <2>2, <2>3, SameDisk DEF BootInv, DiskSound
  <1> QED
    BY <1>2, <1>3 DEF InternalVerify

\* The completion receipt comes when everything is published.
LEMMA SaveCompletionInv == ASSUME BootInv, SaveCompletion PROVE BootInv'
  <1>1. pc = "completion" /\ pc \in Advancing
    BY DEF SaveCompletion, Advancing
  <1>2. TypeOK'
    BY <1>1, HolderState DEF SaveCompletion, Goto, BootInv, TypeOK, local, history, Advancing
  <1> QED
    BY <1>1, <1>2, HolderState
    DEF SaveCompletion, Goto, BootInv, PendingSound, ReceiptsSound, RootLast, PositionSound,
        RecordsSound, AllPost, Pre, local, history, Advancing, Retreating

\* The ledger gets its line after the completion receipt.
LEMMA EnsureLedgerInv == ASSUME BootInv, EnsureLedger PROVE BootInv'
  <1>1. pc = "ledger" /\ pc \in Advancing
    BY DEF EnsureLedger, Advancing
  <1>2. TypeOK'
    BY <1>1, HolderState DEF EnsureLedger, Goto, BootInv, TypeOK, local, history, Advancing
  <1> QED
    BY <1>1, <1>2, HolderState
    DEF EnsureLedger, Goto, BootInv, PendingSound, ReceiptsSound, RootLast, PositionSound,
        RecordsSound, AllPost, Pre, local, history, Advancing, Retreating

-----------------------------------------------------------------------------
(* Rollback.                                                               *)

\* An active layout is taken back from its Root.
LEMMA InspectRollbackInv == ASSUME BootInv, InspectRollback PROVE BootInv'
  <1>1. pc = "rinspect" /\ pc \in Retreating /\ UNCHANGED <<disk, history, budget>>
    BY DEF InspectRollback, Inspection, Retreating
  <1>2. ASSUME Return("conflict") PROVE BootInv'
    BY <1>1, <1>2, AnswerInv
  <1>3. ASSUME pc' = "restore", seen' = files, UNCHANGED <<tx, recovered, outcome>>,
               pos' = IF IsPost(tx, files, Root) THEN Root ELSE Root - 1
        PROVE  BootInv'
    <2>1. pos' \in 0..N /\ (pos' = Root <=> files[Root] = tx)
      BY <1>3, Positions DEF IsPost
    <2>2. TypeOK'
      BY <1>1, <1>3, <2>1, BootstrapConstants
      DEF BootInv, TypeOK, disk, receipts, history, Retreating
    <2>3. PositionSound'
      BY <1>1, <1>3, <2>1 DEF PositionSound, disk
    <2>4. RecordsSound'
      BY <1>1, <1>3, HolderState DEF BootInv, RecordsSound, disk, receipts, Advancing, Retreating
    <2> QED
      BY <1>1, <2>2, <2>3, <2>4, SameDisk DEF BootInv, DiskSound
  <1> QED
    BY <1>2, <1>3 DEF InspectRollback, Inspection

\* From Root the order goes to Baseline, from there down the Volumes.
LEMMA OrderDown ==
    ASSUME NEW i \in 1..N
    PROVE  RollbackOrder(i) \in 0..N /\ RollbackOrder(i) # Root
  BY Positions DEF RollbackOrder

\* An image that is the preimage already counts as restored.
LEMMA SkipPreInv == ASSUME BootInv, SkipPre PROVE BootInv'
  <1>1. pc = "restore" /\ pos \in 1..N
    BY BootstrapConstants DEF SkipPre, BootInv, PositionSound
  <1>2. pos' \in 0..N /\ pos' # Root
    BY <1>1, OrderDown DEF SkipPre
  <1>3. TypeOK'
    BY <1>2, BootstrapConstants DEF SkipPre, BootInv, TypeOK, disk, receipts, history
  <1>4. files[Root] # tx
    BY <1>1 DEF SkipPre, IsPost, BootInv, PositionSound
  <1>5. PositionSound'
    BY <1>1, <1>2, <1>4 DEF SkipPre, PositionSound, disk
  <1>6. RecordsSound'
    BY DEF SkipPre, BootInv, RecordsSound, disk, receipts
  <1> QED
    BY <1>3, <1>5, <1>6, SameDisk DEF SkipPre, BootInv, DiskSound

\* A Volume is taken back only after the Root.
LEMMA RestoreInv == ASSUME BootInv, Restore PROVE BootInv'
  <1>1. pc = "restore" /\ pc \in Retreating /\ pos \in 1..N /\ pos \in Images
    BY BootstrapConstants DEF Restore, Retreating, BootInv, PositionSound, Images
  <1>2. ASSUME Return("rollback_failed"), UNCHANGED <<files, moved>> PROVE BootInv'
    BY <1>2, AnswerInv DEF Restore, disk
  <1>3. ASSUME files[pos] = tx, files' = [files EXCEPT ![pos] = Pre(tx, pos)],
               moved' \in {moved, [moved EXCEPT ![tx] = @ \cup {<<Activated, pos>>}]},
               recovered' = recovered \cup {pos}, pos' = RollbackOrder(pos),
               UNCHANGED <<pc, tx, seen, outcome>>
        PROVE  BootInv'
    <2> USE <1>1, <1>3, HolderState
    <2>1. pos' \in 0..N /\ pos' # Root /\ Pre(tx, pos) \in {Base, None}
      BY OrderDown
    <2>2. Activated \in BOOLEAN
      BY DEF Activated, IsPost
    <2>3. TypeOK'
      <3>1. moved' \in [Txs -> SUBSET (BOOLEAN \X Images)]
        BY <2>2 DEF BootInv, TypeOK
      <3> QED
        BY <2>1, <3>1, BootstrapConstants
        DEF Restore, BootInv, TypeOK, Versions, receipts, history
    <2>4. /\ \A i \in Images : files'[i] = IF i = pos THEN Pre(tx, pos) ELSE files[i]
          /\ UNCHANGED <<plan, active, archived, completion, undone, ledger, ended, touched>>
      BY DEF Restore, BootInv, TypeOK, receipts, history
    <2>5. PendingSound'
      <3>1. \A i \in Images : Pre(tx, i)' = Pre(tx, i)
        BY <2>4 DEF Pre
      <3>2. tx \in active /\ ended[tx] = "open"
        BY DEF BootInv, PendingSound
      <3> QED
        BY <2>1, <2>4, <3>1, <3>2 DEF PendingSound
    <2>6. files'[Root] # tx
      BY <2>1, <2>4, Positions DEF BootInv, PositionSound
    <2>7. RootLast'
      BY <2>4, <2>6, Positions, BootstrapConstants DEF RootLast
    <2>8. PositionSound'
      BY <2>1, <2>6 DEF PositionSound
    <2>9. RecordsSound' /\ ReceiptsSound'
      BY <2>4 DEF BootInv, RecordsSound, ReceiptsSound
    <2> QED
      BY <2>3, <2>5, <2>7, <2>8, <2>9 DEF BootInv
  <1> QED
    BY <1>2, <1>3 DEF Restore

\* All images were walked back.
LEMMA VerifyRollbackInv == ASSUME BootInv, VerifyRollback PROVE BootInv'
  <1>1. pc = "restore" /\ pc \in Retreating /\ UNCHANGED <<disk, history, budget>>
    BY DEF VerifyRollback, Retreating
  <1>2. ASSUME Return("incomplete") PROVE BootInv'
    BY <1>1, <1>2, AnswerInv
  <1>3. ASSUME \A i \in Images : IsPre(tx, files, i), Goto("rreceipt") PROVE BootInv'
    <2>1. AllPre(tx)
      BY <1>1, <1>3, HolderState DEF IsPre, AllPre
    <2>2. TypeOK'
      BY <1>1, <1>3 DEF Goto, BootInv, TypeOK, disk, receipts, history, local, Retreating
    <2>3. PositionSound'
      BY <1>1, <1>3, <2>1 DEF Goto, PositionSound, AllPre, Pre, disk, history, local
    <2>4. RecordsSound'
      BY <1>1, <1>3, HolderState
      DEF BootInv, Goto, RecordsSound, disk, receipts, local, Advancing, Retreating
    <2> QED
      BY <1>1, <2>2, <2>3, <2>4, SameDisk DEF BootInv, DiskSound
  <1> QED
    BY <1>2, <1>3 DEF VerifyRollback

\* The rollback receipt comes when everything is restored.
LEMMA SaveRolledBackInv == ASSUME BootInv, SaveRolledBack PROVE BootInv'
  <1>1. pc = "rreceipt" /\ pc \in Retreating
    BY DEF SaveRolledBack, Retreating
  <1>2. ASSUME Return("receipt_conflict"), UNCHANGED undone PROVE BootInv'
    BY <1>2, AnswerInv DEF SaveRolledBack, disk, receipts
  <1>3. ASSUME undone' = [undone EXCEPT ![tx] = {recovered}], Goto("rarchive") PROVE BootInv'
    <2>1. TypeOK'
      BY <1>1, <1>3, HolderState
      DEF SaveRolledBack, Goto, BootInv, TypeOK, local, history, Retreating
    <2>2. \A t \in Txs : undone'[t] = IF t = tx THEN {recovered} ELSE undone[t]
      BY <1>3 DEF BootInv, TypeOK
    <2>3. undone'[tx] # {} /\ \A t \in Txs : undone[t] # {} => undone'[t] # {}
      BY <1>1, <2>2, HolderState
    <2> QED
      BY <1>1, <1>3, <2>1, <2>3, HolderState
      DEF SaveRolledBack, Goto, BootInv, PendingSound, ReceiptsSound, RootLast, PositionSound,
          RecordsSound, AllPre, Pre, local, history, Advancing, Retreating
  <1> QED
    BY <1>2, <1>3 DEF SaveRolledBack

-----------------------------------------------------------------------------
(* archiveRecovery and the world around the commands.                      *)

\* The archive copy has the receipt of its own direction beside it.
LEMMA SaveArchiveInv == ASSUME BootInv, SaveArchive PROVE BootInv'
  <1>1. pc \in {"archive", "rarchive"} /\ pc \in Advancing \cup Retreating
    BY DEF SaveArchive, Advancing, Retreating
  <1>2. TypeOK'
    BY <1>1, HolderState
    DEF SaveArchive, Goto, BootInv, TypeOK, local, history, Advancing, Retreating
  <1>3. ReceiptsSound'
    BY <1>1, HolderState DEF SaveArchive, BootInv, ReceiptsSound, RecordsSound, history
  <1>4. PositionSound'
    BY <1>1 DEF SaveArchive, Goto, BootInv, PositionSound, AllPre, AllPost, Pre, local, history
  <1>5. RecordsSound'
    BY <1>1, HolderState
    DEF SaveArchive, Goto, BootInv, RecordsSound, local, history, Advancing, Retreating
  <1> QED
    BY <1>2, <1>3, <1>4, <1>5 DEF SaveArchive, BootInv, PendingSound, RootLast, Pre, history

\* The intent goes last, and what it did is in a receipt.
LEMMA RemoveActiveInv == ASSUME BootInv, RemoveActive PROVE BootInv'
  <1>1. pc \in {"close", "rclose"} /\ pc \in Advancing \cup Retreating
    BY DEF RemoveActive, Advancing, Retreating
  <1>2. PICK how \in {"applied", "rolled_back"} :
            ended' = [ended EXCEPT ![tx] = how] /\ Return(how)
    BY DEF RemoveActive
  <1>3. active' = {}
    BY <1>1, HolderState DEF RemoveActive
  <1>4. TypeOK'
    <2>1. ended' \in [Txs -> {"open", "applied", "rolled_back"}]
      BY <1>2 DEF BootInv, TypeOK
    <2> QED
      BY <1>2, <1>3, <2>1, BootstrapConstants DEF RemoveActive, Return, BootInv, TypeOK, Versions
  <1>5. DiskSound'
    BY <1>1, <1>2, <1>3, HolderState
    DEF RemoveActive, BootInv, TypeOK, DiskSound, PendingSound, ReceiptsSound, RecordsSound, RootLast
  <1> QED
    BY <1>2, <1>4, <1>5, ReturnInv

\* What somebody else writes or deletes is excepted from then on.
LEMMA ExternalWriteInv ==
    ASSUME BootInv, NEW i \in Images, NEW v \in {Third, None}, ExternalWrite(i, v)
    PROVE  BootInv'
  <1>1. /\ \A j \in Images : files'[j] = IF j = i THEN v ELSE files[j]
        /\ touched' = touched \cup {i}
        /\ UNCHANGED <<source, plan, staged, moved, receipts, pc, local, outcome, ended>>
    BY DEF ExternalWrite, BootInv, TypeOK
  <1>2. TypeOK'
    BY DEF ExternalWrite, BootInv, TypeOK, Versions, receipts, local
  <1>3. v \notin Txs
    BY BootstrapConstants
  <1>4. PendingSound'
    BY <1>1 DEF BootInv, PendingSound, Pre, receipts
  <1>5. RootLast'
    BY <1>1, <1>3, Positions DEF BootInv, RootLast
  <1>6. PositionSound'
    BY <1>1, <1>3, Positions DEF BootInv, PositionSound, RecordsSound, AllPre, AllPost, Pre, local
  <1>7. RecordsSound' /\ ReceiptsSound'
    BY <1>1 DEF BootInv, RecordsSound, ReceiptsSound, receipts, local
  <1> QED
    BY <1>2, <1>4, <1>5, <1>6, <1>7 DEF BootInv

\* The guarded facts are no part of the invariant.
LEMMA ExternalEditInv == ASSUME BootInv, ExternalEdit PROVE BootInv'
  <1>1. TypeOK'
    BY DEF ExternalEdit, BootInv, TypeOK, receipts, local, history
  <1> QED
    BY <1>1 DEF ExternalEdit, BootInv, PendingSound, ReceiptsSound, RootLast, PositionSound,
                RecordsSound, AllPre, AllPost, Pre, receipts, local, history

-----------------------------------------------------------------------------
(* The theorems.                                                           *)

\* The invariant the other theorems rest on.
THEOREM BootInvariant == Spec => []BootInv
  <1>1. Init => BootInv
    <2> SUFFICES ASSUME Init PROVE BootInv
      OBVIOUS
    <2>1. TypeOK
      BY BootstrapConstants DEF Init, TypeOK, Versions, NoPlan
    <2>2. files[Root] \notin Txs
      BY BootstrapConstants, Positions DEF Init
    <2> QED
      BY <2>1, <2>2
      DEF Init, BootInv, PendingSound, ReceiptsSound, RootLast, PositionSound, RecordsSound,
          Advancing, Retreating
  <1>2. BootInv /\ [Next]_vars => BootInv'
    <2> SUFFICES ASSUME BootInv, [Next]_vars PROVE BootInv'
      OBVIOUS
    <2>1. CASE UNCHANGED vars
      BY <2>1 DEF vars, disk, receipts, local, history, BootInv, TypeOK, PendingSound, ReceiptsSound,
                  RootLast, PositionSound, RecordsSound, AllPre, AllPost, Pre
    <2>2. CASE Step
      BY <2>2, StageInv, SaveIntentInv, InspectInv, SkipPostInv, PublishInv, InternalVerifyInv,
         SaveCompletionInv, EnsureLedgerInv, InspectRollbackInv, SkipPreInv, RestoreInv,
         VerifyRollbackInv, SaveRolledBackInv, SaveArchiveInv, RemoveActiveInv DEF Step
    <2> QED
      BY <2>1, <2>2, PrepareInv, CommandInv, StopInv, ExternalWriteInv, ExternalEditInv DEF Next
  <1> QED
    BY <1>1, <1>2, PTL DEF Spec

\* Whatever stops where and whoever writes in between, a Root that a transaction
\* published stands over the Volumes of that same transaction.
THEOREM RootLastAlways == Spec => []RootLast
  BY BootInvariant, PTL DEF BootInv

\* An archived transaction that is no longer pending has the receipt of an end.
THEOREM TerminalReceiptAlways == Spec => []TerminalReceipt
  <1>1. BootInv => TerminalReceipt
    BY DEF BootInv, TypeOK, ReceiptsSound, TerminalReceipt, Status
  <1> QED
    BY <1>1, BootInvariant, PTL

\* The steps that write formal files.
Writes == Publish \/ Restore \/ \E i \in Images, v \in {Third, None} : ExternalWrite(i, v)

\* Every other step leaves the formal files alone.
LEMMA WhoWrites == ASSUME Next, ~Writes PROVE UNCHANGED files
  BY DEF Next, Step, Writes, Prepare, Apply, Resume, Rollback, Stage, SaveIntent, Inspect, SkipPost,
         Reinspect, Inspection, InternalVerify, SaveCompletion, EnsureLedger, InspectRollback,
         SkipPre, VerifyRollback, SaveRolledBack, SaveArchive, RemoveActive, Stop, ExternalEdit, disk

\* A command replaces a preimage by its postimage, or, of a transaction without a
\* completion receipt, a postimage by its preimage.
LEMMA CommandWrite ==
    ASSUME BootInv, Publish \/ Restore, NEW i \in Images, files'[i] # files[i]
    PROVE  /\ tx \in Txs
           /\ \/ files[i] = Pre(tx, i) /\ files'[i] = tx
              \/ files[i] = tx /\ files'[i] = Pre(tx, i) /\ tx \notin completion
           /\ Pre(tx, i) \in {Base, None}
  <1>1. pc \in Advancing \cup Retreating /\ (Restore => pc \in Retreating)
    BY DEF Publish, Restore, Advancing, Retreating
  <1>2. files \in [Images -> Versions]
    BY DEF BootInv, TypeOK
  <1>3. CASE Publish
    BY <1>1, <1>2, <1>3, HolderState DEF Publish
  <1>4. CASE Restore
    BY <1>1, <1>2, <1>4, HolderState DEF Restore, BootInv, RecordsSound
  <1> QED
    BY <1>3, <1>4

\* An outside write is counted.
LEMMA OutsideWrite ==
    ASSUME BootInv, NEW i \in Images, NEW v, ExternalWrite(i, v)
    PROVE  budget'.external < budget.external
  BY DEF BootInv, TypeOK, ExternalWrite

\* From the completion receipt on, no command takes a postimage away.
THEOREM CompletedStaysAlways == Spec => CompletedStays
  <1>1. BootInv /\ [Next]_vars =>
            [\A t \in completion, i \in Images :
                files[i] = t /\ files'[i] # t => budget'.external < budget.external]_vars
    <2> SUFFICES ASSUME BootInv, Next, NEW t \in completion, NEW i \in Images,
                        files[i] = t, files'[i] # t
                 PROVE  budget'.external < budget.external
      OBVIOUS
    <2>1. t \in Txs
      BY DEF BootInv, TypeOK
    <2>2. Writes
      BY WhoWrites
    <2>3. CASE Publish \/ Restore
      BY <2>1, <2>3, CommandWrite, BootstrapConstants
    <2> QED
      BY <2>2, <2>3, OutsideWrite DEF Writes
  <1> QED
    BY <1>1, BootInvariant, PTL DEF Spec, CompletedStays

\* The commands replace or remove nothing that somebody else wrote.
THEOREM ThirdPartyUntouchedAlways == Spec => ThirdPartyUntouched
  <1>1. BootInv /\ [Next]_vars =>
            [\A i \in Images :
                files[i] = Third => files'[i] = Third \/ budget'.external < budget.external]_vars
    <2> SUFFICES ASSUME BootInv, Next, NEW i \in Images, files[i] = Third, files'[i] # Third
                 PROVE  budget'.external < budget.external
      OBVIOUS
    <2>1. Writes
      BY WhoWrites
    <2>2. CASE Publish \/ Restore
      BY <2>2, CommandWrite, BootstrapConstants
    <2> QED
      BY <2>1, <2>2, OutsideWrite DEF Writes
  <1> QED
    BY <1>1, BootInvariant, PTL DEF Spec, ThirdPartyUntouched

-----------------------------------------------------------------------------
(* The refinement.                                                         *)

\* The pending transaction is the one with an intent.
LEMMA PendingIs == ASSUME NEW t, active = {t} PROVE Pending = t
  BY DEF Pending

\* SaveIntent begins the change: what differs from its preimages was touched.
LEMMA BeginStep == ASSUME BootInv, SaveIntent PROVE Change!Next
  <1>1. PICK t \in Txs : t = tx
    BY DEF SaveIntent, BootInv, RecordsSound
  <1>2. /\ active = {} /\ active' = {t} /\ ended[t] = "open"
        /\ \A i \in Images \ touched : files[i] = Pre(t, i)
        /\ UNCHANGED <<files, plan, ended, touched>>
    BY <1>1 DEF SaveIntent, BootInv, RecordsSound, ReceiptsSound, PositionSound, AllPre, history
  <1>3. Pending = None /\ Pending' = t
    BY <1>2 DEF Pending
  <1>4. \A i \in Images : Pre(t, i)' = Pre(t, i)
    BY <1>2 DEF Pre
  <1>5. Change!Begin(t)
    BY <1>2, <1>3, <1>4 DEF Change!Begin, BootInv, TypeOK
  <1> QED
    BY <1>1, <1>5 DEF Change!Next

\* RemoveActive ends it: the files nobody touched are all post- or all preimages.
LEMMA EndStep == ASSUME BootInv, RemoveActive PROVE Change!Next
  <1>1. pc \in {"close", "rclose"} /\ pc \in Advancing \cup Retreating
    BY DEF RemoveActive, Advancing, Retreating
  <1>2. PICK t \in Txs : t = tx /\ active = {t} /\ active' = {}
    BY <1>1, HolderState DEF RemoveActive
  <1>3. Pending = t /\ Pending' = None /\ UNCHANGED <<files, touched>> /\ t # None
    BY <1>2, BootstrapConstants DEF Pending, RemoveActive
  <1>4. CASE pc = "close"
    <2>1. ended' = [ended EXCEPT ![t] = "applied"] /\ \A i \in Images \ touched : files[i] = t
      BY <1>2, <1>4 DEF RemoveActive, BootInv, PositionSound, AllPost
    <2>2. Change!Commit(t)
      BY <1>2, <1>3, <2>1 DEF Change!Commit, Change!End, Change!After, BootInv, TypeOK
    <2> QED
      BY <2>2 DEF Change!Next
  <1>5. CASE pc = "rclose"
    <2>1. ended' = [ended EXCEPT ![t] = "rolled_back"]
          /\ \A i \in Images \ touched : files[i] = Pre(t, i)
      BY <1>2, <1>5 DEF RemoveActive, BootInv, PositionSound, AllPre
    <2>2. Change!Abort(t)
      BY <1>2, <1>3, <2>1 DEF Change!Abort, Change!End, BootInv, TypeOK
    <2> QED
      BY <2>2 DEF Change!Next
  <1> QED
    BY <1>1, <1>4, <1>5

\* What others write is foreign.
LEMMA OutsideStep ==
    ASSUME BootInv, NEW i \in Images, NEW v \in {Third, None}, ExternalWrite(i, v)
    PROVE  Change!Next
  <1>1. /\ UNCHANGED <<active, plan, ended>> /\ touched' = touched \cup {i}
        /\ DOMAIN files' = Images /\ \A j \in Images \ {i} : files'[j] = files[j]
    BY DEF ExternalWrite, receipts, BootInv, TypeOK
  <1>2. Pending' = Pending /\ \A j : Pre(Pending, j)' = Pre(Pending, j)
    BY <1>1 DEF Pending, Pre
  <1>3. active # {} => Pending # None
    BY BootstrapConstants, PendingIs DEF BootInv, PendingSound, TypeOK
  <1>4. Change!Outside(i)
    BY <1>1, <1>2, <1>3 DEF Change!Outside, Pending
  <1> QED
    BY <1>4 DEF Change!Next

\* Any other step is hidden.
LEMMA HiddenStep ==
    ASSUME UNCHANGED <<active, ended, touched>>, active = {} => UNCHANGED files,
           active # {} => UNCHANGED plan
    PROVE  UNCHANGED Change!vars
  <1>1. Pending' = Pending
    BY DEF Pending
  <1>2. active # {} => \A j : Pre(Pending, j)' = Pre(Pending, j)
    BY <1>1 DEF Pre
  <1> QED
    BY <1>1, <1>2 DEF Change!vars

\* Behind the gate of pending transactions Bootstrap is atomic.
THEOREM ImplementsAtomicChangeAlways == Spec => ImplementsAtomicChange
  <1>1. Init => Change!Init
    BY DEF Init, Change!Init, Pending
  <1>2. BootInv /\ [Next]_vars => [Change!Next]_(Change!vars)
    <2> SUFFICES ASSUME BootInv, [Next]_vars
                 PROVE  Change!Next \/ UNCHANGED Change!vars
      OBVIOUS
    <2>1. CASE UNCHANGED vars
      BY <2>1, HiddenStep DEF vars, disk, receipts, history
    <2>2. CASE Publish \/ Restore
      <3>1. pc \in Advancing \cup Retreating
        BY <2>2 DEF Publish, Restore, Advancing, Retreating
      <3> QED
        BY <2>2, <3>1, HolderState, HiddenStep DEF Publish, Restore, receipts, history
    <2>3. CASE /\ Next /\ ~SaveIntent /\ ~RemoveActive /\ ~Publish /\ ~Restore
               /\ ~\E i \in Images, v \in {Third, None} : ExternalWrite(i, v)
      <3>1. /\ UNCHANGED <<files, active, ended, touched>>
            /\ active # {} => UNCHANGED plan
        BY <2>3
        DEF Next, Step, Prepare, Apply, Resume, Rollback, Stage, Inspect, SkipPost, Reinspect,
            Inspection, InternalVerify, SaveCompletion, EnsureLedger, InspectRollback, SkipPre,
            VerifyRollback, SaveRolledBack, SaveArchive, Stop, ExternalEdit, disk, receipts, history
      <3> QED
        BY <3>1, HiddenStep
    <2> QED
      BY <2>1, <2>2, <2>3, BeginStep, EndStep, OutsideStep
  <1> QED
    BY <1>1, <1>2, BootInvariant, PTL DEF Spec, ImplementsAtomicChange, Change!Spec
=============================================================================
