------------------------- MODULE VolumeCommitProofs -------------------------
(***************************************************************************)
(* Five promises of the Entry batches, for any number of processes,        *)
(* targets and siblings, under every hand edit and wherever a process      *)
(* stops.  A batch changes a Volume by what its texts make of the bytes    *)
(* that are there, or takes back exactly that; here only matters that the  *)
(* editor is applied to the bytes that are replaced.  A sibling lands on   *)
(* nothing by hand that its plan did not know; here it matters what the    *)
(* editor makes of a Volume.  A closed batch leaves the Baseline at the    *)
(* source version it told of or a later one; here it matters in which      *)
(* order versions reach the Baseline.  What the Baseline calls aligned an  *)
(* Entry describes; here it matters what every Entry and every record was  *)
(* made from.  And what one process leaves out of step a record explains;  *)
(* here it matters that Volumes never return to bytes they had before.     *)
(***************************************************************************)
EXTENDS VolumeCommit, FiniteSetTheorems, SequenceTheorems, TLAPS

Fields == {"op", "b", "snap", "pre", "post", "tgt", "todo", "rec", "base", "src", "plan"}

\* The steps that run under the index lock.
Locked == {"record", "write", "advance", "recheck", "govern", "apply_record", "ledger",
           "archive", "unlink", "restore"}

-----------------------------------------------------------------------------
(* The inductive invariant.                                                *)

\* A record binds the bytes before and after by its own batch.
RecordSound(rec) ==
    /\ WriteSet(rec.b) \subseteq Volumes /\ DOMAIN rec.pre \subseteq WriteSet(rec.b)
    /\ \A v \in DOMAIN rec.pre : rec.post[v] = Project(rec.b, v, rec.pre[v])

\* So does a plan, beside the record that it resumes.
PlanSound(l) ==
    /\ WriteSet(l.b) \subseteq Volumes /\ l.tgt \subseteq WriteSet(l.b)
    /\ DOMAIN l.pre = WriteSet(l.b) /\ DOMAIN l.post = WriteSet(l.b)
    /\ \A v \in l.tgt : l.post[v] = Project(l.b, v, l.pre[v])
    /\ l.rec # None => RecordSound(l.rec) /\ l.rec.b = l.b

\* What a process at step k has in memory.
MemorySound(k, l) ==
    /\ DOMAIN l = Fields
    /\ k = "bind" => WriteSet(l.b) \subseteq Volumes
    /\ k \in {"lock"} \cup Locked => PlanSound(l)
    /\ k = "lock" /\ l.op = "rollback" => l.rec # None
    /\ k \in {"record", "write"} => l.todo \subseteq l.tgt
    /\ k = "restore" => l.op = "rollback" /\ l.rec # None /\ l.todo \subseteq DOMAIN l.rec.pre

RecordsSound == \A rec \in active \cup archive : RecordSound(rec)

BudgetSound == DOMAIN budget = {"calls", "edits", "moves", "stops"} /\ budget.edits \in Nat

DiskSound == DOMAIN vol = Assets /\ RecordsSound /\ BudgetSound

CommitInv ==
    /\ DOMAIN pc = Procs /\ DOMAIN loc = Procs
    /\ DiskSound
    /\ \A p \in Procs : /\ pc[p] \in Locked => lock = p
                        /\ MemorySound(pc[p], loc[p])

-----------------------------------------------------------------------------
(* Steps of one process.                                                   *)

\* What the invariant says of one process.
LEMMA OwnState ==
    ASSUME CommitInv, NEW p \in Procs
    PROVE  /\ DOMAIN loc[p] = Fields /\ MemorySound(pc[p], loc[p])
           /\ pc[p] \in Locked => lock = p /\ PlanSound(loc[p])
           /\ DiskSound /\ DOMAIN vol = Assets /\ RecordsSound /\ BudgetSound
  BY DEF CommitInv, MemorySound, DiskSound

\* A step of p keeps the invariant if it leaves p's memory and the records sound and
\* moves the lock between p and nobody.
LEMMA OwnStep ==
    ASSUME CommitInv, NEW p \in Procs, NEW k, NEW l,
           Goto(p, k), loc' = [loc EXCEPT ![p] = l] \/ (UNCHANGED loc /\ l = loc[p]),
           lock' = lock \/ (lock = None /\ lock' = p) \/ (lock = p /\ lock' = None),
           k \in Locked => lock' = p, MemorySound(k, l), DiskSound'
    PROVE  CommitInv'
  <1>1. /\ DOMAIN pc' = Procs /\ DOMAIN loc' = Procs
        /\ pc'[p] = k /\ loc'[p] = l
        /\ \A q \in Procs \ {p} : pc'[q] = pc[q] /\ loc'[q] = loc[q]
    BY DEF Goto, CommitInv
  <1>2. ASSUME NEW q \in Procs PROVE /\ pc'[q] \in Locked => lock' = q
                                     /\ MemorySound(pc'[q], loc'[q])
    <2>1. CASE q = p
      BY <1>1, <2>1
    <2>2. CASE q # p
      <3>1. /\ pc[q] \in Locked => lock = q
            /\ MemorySound(pc[q], loc[q])
        BY DEF CommitInv
      <3> QED
        BY <1>1, <2>2, <3>1, VolumeConstants
    <2> QED
      BY <2>1, <2>2
  <1> QED
    BY <1>1, <1>2 DEF CommitInv

\* Spending does not add to what outsiders may still do, and keeps the rest of it.
LEMMA SpendSound ==
    ASSUME CommitInv, NEW what \in {"calls", "moves", "stops"}, Spend(what)
    PROVE  BudgetSound' /\ budget'.edits = budget.edits
  BY DEF CommitInv, DiskSound, BudgetSound, Spend

\* A step that leaves the Volumes and the records alone.
LEMMA SameDisk ==
    ASSUME CommitInv, UNCHANGED <<vol, active, archive>>,
           UNCHANGED budget \/ \E what \in {"calls", "moves", "stops"} : Spend(what)
    PROVE  DiskSound' /\ budget'.edits = budget.edits
  <1>1. BudgetSound' /\ budget'.edits = budget.edits
    <2>1. CASE UNCHANGED budget
      BY <2>1 DEF CommitInv, DiskSound, BudgetSound
    <2> QED
      BY <2>1, SpendSound
  <1> QED
    BY <1>1 DEF CommitInv, DiskSound, RecordsSound

\* A process that does nothing holds nothing.
LEMMA IdleSound == MemorySound("idle", Idle)
  BY DEF Idle, MemorySound, Fields, Locked

\* A call that returns.
LEMMA ReturnInv ==
    ASSUME CommitInv, NEW p \in Procs, Return(p), DiskSound'
    PROVE  CommitInv'
  <1>1. "idle" \notin Locked
    BY DEF Locked
  <1>2. lock' = lock \/ (lock = p /\ lock' = None)
    BY DEF Return
  <1> QED
    BY <1>1, <1>2, IdleSound, OwnStep DEF Return

\* A process goes on without touching the lock: into its critical section only from
\* another step of it.
LEMMA HoldInv ==
    ASSUME CommitInv, NEW p \in Procs, NEW k, NEW l, Hold(p, k, l), DiskSound',
           MemorySound(k, l), k \in Locked => pc[p] \in Locked
    PROVE  CommitInv'
  BY OwnState, OwnStep DEF Hold

\* A process that takes the lock enters its critical section.
LEMMA TakeInv ==
    ASSUME CommitInv, NEW p \in Procs, NEW k, NEW l, Take(p, k, l), DiskSound',
           MemorySound(k, l)
    PROVE  CommitInv'
  BY OwnStep DEF Take

\* A step under the lock that keeps what the process holds.
LEMMA ContinueInv ==
    ASSUME CommitInv, NEW p \in Procs, NEW k, Continue(p, k), DiskSound',
           MemorySound(k, loc[p]), k \in Locked => pc[p] \in Locked
    PROVE  CommitInv'
  BY OwnState, OwnStep DEF Continue

\* The steps that close a batch keep what the process holds.
Closing == {"advance", "recheck", "govern", "apply_record", "ledger", "archive", "unlink"}

\* A step that closes a batch, or gives it up, keeps the invariant.
LEMMA ClosingInv ==
    ASSUME CommitInv, NEW p \in Procs, pc[p] \in Locked, DiskSound',
           Return(p) \/ \E k \in Closing : Continue(p, k)
    PROVE  CommitInv'
  <1>1. ASSUME NEW k \in Closing PROVE MemorySound(k, loc[p])
    BY OwnState DEF MemorySound, Closing
  <1> QED
    BY <1>1, ReturnInv, ContinueInv

\* Taking records away leaves the others sound.
LEMMA FewerRecords ==
    ASSUME CommitInv, active' \subseteq active, UNCHANGED archive PROVE RecordsSound'
  BY OwnState DEF CommitInv, DiskSound, RecordsSound

-----------------------------------------------------------------------------
(* Maintain.                                                               *)

\* Maintain reads the Volumes and writes drafts, never a record or a Volume.
LEMMA MaintainInv ==
    ASSUME CommitInv, NEW p \in Procs, Maintain(p)
    PROVE  CommitInv' /\ UNCHANGED vol
  <1> DEFINE Reading == {"assess", "start", "record_plan", "issue", "deliver"}
  <1>1. /\ UNCHANGED <<vol, active, archive>>
        /\ UNCHANGED budget \/ Spend("calls")
    BY DEF Maintain, MaintainLoad, MaintainAssess, MaintainStart, MaintainRecord, MaintainIssue,
           MaintainDeliver, formal, record
  <1> SUFFICES CommitInv'
    BY <1>1
  <1>2. DiskSound'
    BY <1>1, SameDisk
  <1>3. ASSUME NEW k \in Reading, NEW l, DOMAIN l = Fields PROVE MemorySound(k, l)
    BY <1>3 DEF MemorySound, Locked
  <1>4. ASSUME NEW k \in Reading PROVE k \notin Locked
    BY DEF Locked
  <1>5. ASSUME NEW k \in Reading, NEW l, DOMAIN l = Fields, Hold(p, k, l) PROVE CommitInv'
    BY <1>2, <1>3, <1>4, <1>5, HoldInv
  <1>6. ASSUME NEW k \in Reading, Continue(p, k) PROVE CommitInv'
    BY <1>2, <1>3, <1>4, <1>6, OwnState, ContinueInv
  <1>7. ASSUME NEW l, NEW x, NEW y, DOMAIN l = Fields
        PROVE  /\ DOMAIN [l EXCEPT !.plan = x, !.todo = y] = Fields
               /\ DOMAIN [l EXCEPT !.src = x] = Fields /\ DOMAIN [l EXCEPT !.snap = x] = Fields
    BY <1>7
  <1>8. DOMAIN Idle = Fields /\ DOMAIN loc[p] = Fields
    BY OwnState DEF Idle, Fields
  <1>9. CASE MaintainLoad(p)
    BY <1>5, <1>7, <1>8, <1>9 DEF MaintainLoad
  <1>10. CASE MaintainAssess(p)
    <2>1. ASSUME NEW s, IssueParallel(p, s) PROVE CommitInv'
      BY <1>2, <1>5, <1>7, <1>8, <2>1, ReturnInv DEF IssueParallel
    <2> QED
      BY <1>2, <1>10, <2>1, ReturnInv DEF MaintainAssess, IssueSingle
  <1>11. CASE MaintainStart(p) \/ MaintainRecord(p)
    BY <1>6, <1>11 DEF MaintainStart, MaintainRecord
  <1>12. CASE MaintainIssue(p)
    BY <1>5, <1>7, <1>8, <1>12 DEF MaintainIssue
  <1>13. CASE MaintainDeliver(p)
    BY <1>2, <1>13, ReturnInv DEF MaintainDeliver
  <1> QED
    BY <1>9, <1>10, <1>11, <1>12, <1>13 DEF Maintain

-----------------------------------------------------------------------------
(* Submitting and planning a batch.                                        *)

\* What is submitted writes Volumes: by its receipts, or by the record it was kept in.
LEMMA StartInv ==
    ASSUME CommitInv, NEW p \in Procs, NEW op, NEW b, Start(p, op, b),
           WriteSet(b) \subseteq Volumes, UNCHANGED budget \/ Spend("calls")
    PROVE  CommitInv' /\ UNCHANGED vol
  <1>1. UNCHANGED <<vol, active, archive>>
    BY DEF Start, formal, record
  <1>2. DiskSound'
    BY <1>1, SameDisk
  <1>3. PICK l : /\ l = [Idle EXCEPT !.op = op, !.b = b, !.snap = vol, !.base = baseline]
                 /\ Hold(p, "bind", l)
    BY DEF Start
  <1>4. DOMAIN l = Fields /\ l.b = b
    BY <1>3 DEF Idle, Fields
  <1>5. MemorySound("bind", l) /\ "bind" \notin Locked
    BY <1>4 DEF MemorySound, Locked
  <1> QED
    BY <1>1, <1>2, <1>3, <1>5, HoldInv

\* What Submit, Resubmit and SubmitRollback start is a batch for Volumes.
LEMMA SubmitInv ==
    ASSUME CommitInv, NEW p \in Procs, Submit(p) \/ Resubmit(p) \/ SubmitRollback(p)
    PROVE  CommitInv' /\ UNCHANGED vol
  <1>1. CASE Submit(p)
    <2>1. PICK W \in SUBSET Volumes : \E r \in [W -> receipts] : \E text \in Texts(r) :
              Start(p, "apply", [r |-> r, text |-> text]) /\ Spend("calls")
      BY <1>1 DEF Submit
    <2>2. PICK r \in [W -> receipts] : \E text :
              Start(p, "apply", [r |-> r, text |-> text]) /\ Spend("calls")
      BY <2>1
    <2>3. PICK text : Start(p, "apply", [r |-> r, text |-> text]) /\ Spend("calls")
      BY <2>2
    <2>4. WriteSet([r |-> r, text |-> text]) \subseteq Volumes
      BY DEF WriteSet
    <2> QED
      BY <2>3, <2>4, StartInv
  <1>2. \A rec \in active \cup archive : WriteSet(rec.b) \subseteq Volumes
    BY DEF CommitInv, DiskSound, RecordsSound, RecordSound
  <1>3. CASE Resubmit(p)
    BY <1>2, <1>3, StartInv DEF Resubmit
  <1>4. CASE SubmitRollback(p)
    BY <1>2, <1>4, StartInv DEF SubmitRollback
  <1> QED
    BY <1>1, <1>3, <1>4

\* The record that Bind finds is one of this batch, and its transition the plan's.
LEMMA BindInv ==
    ASSUME CommitInv, NEW p \in Procs, Bind(p)
    PROVE  CommitInv' /\ UNCHANGED vol
  <1>1. UNCHANGED <<vol, active, archive, budget>> /\ pc[p] = "bind"
    BY DEF Bind, formal, record
  <1>2. DiskSound'
    BY <1>1, SameDisk
  <1> DEFINE b == loc[p].b
             snap == loc[p].snap
             rec == IF Recorded(b) = {} THEN None ELSE CHOOSE x \in Recorded(b) : TRUE
             pre == Preimage(b, rec, snap)
             post == [v \in WriteSet(b) |-> Project(b, v, snap[v])]
             tgt == {v \in WriteSet(b) : rec # None \/ pre[v] # post[v]}
             op == IF loc[p].op = "rollback" THEN "rollback"
                   ELSE IF AllPost(b, rec, snap, tgt, post, loc[p].base)
                   THEN "reconcile" ELSE "commit"
             l == [loc[p] EXCEPT !.op = op, !.rec = rec, !.pre = pre, !.post = post, !.tgt = tgt]
  <1>3. \/ Return(p)
        \/ Accepted(b, rec, snap) /\ (op = "rollback" => rec # None) /\ Hold(p, "lock", l)
    BY DEF Bind
  <1>4. WriteSet(b) \subseteq Volumes /\ DOMAIN loc[p] = Fields
    BY <1>1, OwnState DEF MemorySound
  <1>5. rec # None => RecordSound(rec) /\ rec.b = b
    BY DEF Recorded, RecordsOf, CommitInv, DiskSound, RecordsSound
  <1>6. DOMAIN pre = WriteSet(b) /\ DOMAIN post = WriteSet(b) /\ tgt \subseteq WriteSet(b)
    BY DEF Preimage
  <1>7. ASSUME Accepted(b, rec, snap), NEW v \in tgt PROVE post[v] = Project(b, v, pre[v])
    <2>1. CASE rec = None
      BY <2>1 DEF Preimage
    <2>2. CASE rec # None
      <3>1. v \in DOMAIN rec.pre /\ Project(b, v, snap[v]) = rec.post[v]
        BY <1>5, <1>7, <2>2 DEF Accepted, Decodes, RecordBinds
      <3>2. rec.post[v] = Project(b, v, rec.pre[v])
        BY <1>5, <2>2, <3>1 DEF RecordSound
      <3>3. pre[v] = rec.pre[v]
        BY <2>2, <3>1 DEF Preimage
      <3> QED
        BY <3>1, <3>2, <3>3
    <2> QED
      BY <2>1, <2>2
  <1>8. /\ DOMAIN l = Fields /\ l.b = b /\ l.op = op /\ l.rec = rec /\ l.pre = pre /\ l.post = post
        /\ l.tgt = tgt
    <2> HIDE DEF op, rec, pre, post, tgt
    <2> QED
      BY <1>4 DEF Fields
  <1>9. ASSUME Accepted(b, rec, snap), op = "rollback" => rec # None PROVE MemorySound("lock", l)
    <2>1. \A v \in tgt : post[v] = Project(b, v, pre[v])
      BY <1>7, <1>9
    <2> HIDE DEF op, rec, pre, post, tgt, l, b
    <2> QED
      BY <1>4, <1>5, <1>6, <1>8, <1>9, <2>1 DEF MemorySound, PlanSound, Locked
  <1>10. "lock" \notin Locked
    BY DEF Locked
  <1> QED
    BY <1>1, <1>2, <1>3, <1>9, <1>10, HoldInv, ReturnInv

\* A call that does not get the lock leaves everything alone.
LEMMA LockTimeoutInv ==
    ASSUME CommitInv, NEW p \in Procs, LockTimeout(p)
    PROVE  CommitInv' /\ UNCHANGED vol
  BY SameDisk, ReturnInv DEF LockTimeout, formal, record

-----------------------------------------------------------------------------
(* The steps under the lock.                                               *)

\* A sibling that is projected again, on the bytes it met, is still a sound plan.
LEMMA ReprojectSound ==
    ASSUME NEW l, DOMAIN l = Fields, PlanSound(l)
    PROVE  /\ DOMAIN Reproject(l) = Fields /\ PlanSound(Reproject(l))
           /\ Reproject(l).tgt = l.tgt
  <1>1. CASE ~Reprojects(l)
    BY <1>1 DEF Reproject
  <1>2. CASE Reprojects(l)
    <2> DEFINE c == Project(l.b, "code", vol["code"])
               m == [l EXCEPT !.pre["code"] = vol["code"], !.post["code"] = c]
    <2>1. Reproject(l) = m
      BY <1>2 DEF Reproject, Reprojection
    <2>2. /\ DOMAIN m = Fields /\ m.b = l.b /\ m.rec = l.rec /\ m.tgt = l.tgt
          /\ m.pre = [l.pre EXCEPT !["code"] = vol["code"]]
          /\ m.post = [l.post EXCEPT !["code"] = c]
      <3> HIDE DEF c
      <3> QED
        BY DEF Fields
    <2>3. "code" \in l.tgt /\ l.rec = None
      BY <1>2 DEF Reprojects
    <2> HIDE DEF m
    <2>4. ASSUME NEW v \in m.tgt PROVE m.post[v] = Project(m.b, v, m.pre[v])
      <3>1. v \in DOMAIN l.pre /\ v \in DOMAIN l.post /\ l.post[v] = Project(l.b, v, l.pre[v])
        BY <2>2 DEF PlanSound
      <3>2. CASE v = "code"
        BY <2>2, <3>1, <3>2
      <3>3. CASE v # "code"
        BY <2>2, <3>1, <3>3
      <3> QED
        BY <3>2, <3>3
    <2> QED
      BY <2>1, <2>2, <2>3, <2>4 DEF PlanSound
  <1> QED
    BY <1>1, <1>2

\* A commit enters its critical section with a sound plan, projected again or not.
LEMMA LockCommitInv ==
    ASSUME CommitInv, NEW p \in Procs, LockCommit(p)
    PROVE  CommitInv' /\ UNCHANGED vol
  <1>1. UNCHANGED <<vol, active, archive, budget>> /\ pc[p] = "lock"
    BY DEF LockCommit, formal, record
  <1>2. DiskSound'
    BY <1>1, SameDisk
  <1> DEFINE l == Reproject(loc[p])
             m == [l EXCEPT !.base = baseline, !.todo = l.tgt]
             k == IF l.rec = None /\ l.tgt # {} THEN "record" ELSE "write"
  <1>3. Return(p) \/ Take(p, k, m)
    BY DEF LockCommit
  <1>4. DOMAIN l = Fields /\ PlanSound(l)
    BY <1>1, OwnState, ReprojectSound DEF MemorySound
  <1> HIDE DEF l
  <1>5. /\ DOMAIN m = Fields /\ m.b = l.b /\ m.rec = l.rec /\ m.tgt = l.tgt /\ m.todo = l.tgt
        /\ m.pre = l.pre /\ m.post = l.post
    BY <1>4 DEF Fields
  <1>6. k \in {"record", "write"}
    OBVIOUS
  <1> HIDE DEF m, k
  <1>7. PlanSound(m)
    BY <1>4, <1>5 DEF PlanSound
  <1>8. MemorySound(k, m)
    BY <1>5, <1>6, <1>7 DEF MemorySound
  <1> QED
    BY <1>1, <1>2, <1>3, <1>8, TakeInv, ReturnInv

\* The recovery record of a sound plan is sound.
LEMMA SaveRecordInv ==
    ASSUME CommitInv, NEW p \in Procs, SaveRecord(p)
    PROVE  CommitInv' /\ UNCHANGED vol
  <1> DEFINE l == loc[p]
             rec == RecordFor(l)
             m == [l EXCEPT !.rec = rec]
  <1>1. UNCHANGED <<vol, archive, budget>> /\ pc[p] = "record"
    BY DEF SaveRecord, formal
  <1>2. DOMAIN l = Fields /\ PlanSound(l) /\ l.todo \subseteq l.tgt
    BY <1>1, OwnState DEF MemorySound, Locked
  <1>3. RecordSound(rec) /\ rec.b = l.b
    BY <1>2 DEF PlanSound, RecordSound, RecordFor
  <1>4. RecordsSound' /\ BudgetSound' /\ DOMAIN vol' = Assets
    <2>1. active' \subseteq active \cup {rec}
      BY DEF SaveRecord
    <2> HIDE DEF rec
    <2> QED
      BY <1>1, <1>3, <2>1, OwnState DEF RecordsSound, BudgetSound
  <1> HIDE DEF rec
  <1>5. /\ DOMAIN m = Fields /\ m.b = l.b /\ m.rec = rec /\ m.tgt = l.tgt /\ m.todo = l.todo
        /\ m.pre = l.pre /\ m.post = l.post
    BY <1>2 DEF Fields
  <1>6. Return(p) \/ Hold(p, "write", m)
    BY DEF SaveRecord, rec
  <1> HIDE DEF m
  <1>7. PlanSound(m)
    BY <1>2, <1>3, <1>5 DEF PlanSound
  <1>8. MemorySound("write", m) /\ "record" \in Locked
    BY <1>2, <1>5, <1>7 DEF MemorySound, Locked
  <1> QED
    BY <1>1, <1>4, <1>6, <1>8, HoldInv, ReturnInv DEF DiskSound

\* A Volume becomes what the batch makes of the bytes that are in it, ...
LEMMA WriteVolumeInv ==
    ASSUME CommitInv, NEW p \in Procs, WriteVolume(p)
    PROVE  /\ CommitInv'
           /\ \A v \in Volumes : vol'[v] # vol[v] =>
                  /\ lock = p /\ vol'[v] = Project(loc[p].b, v, vol[v])
                  /\ v \in loc[p].tgt /\ vol[v] = loc[p].pre[v]
  <1> DEFINE l == loc[p]
             w == NextVolume(l)
             m == [l EXCEPT !.todo = @ \ {w}]
  <1>1. /\ UNCHANGED <<active, archive, budget>> /\ pc[p] = "write" /\ l.todo # {}
        /\ vol[w] \in {l.pre[w], l.post[w]} /\ vol' = [vol EXCEPT ![w] = l.post[w]]
        /\ Hold(p, "write", m)
    BY DEF WriteVolume, record
  <1>2. DOMAIN l = Fields /\ PlanSound(l) /\ l.todo \subseteq l.tgt /\ lock = p /\ pc[p] \in Locked
    BY <1>1, OwnState DEF MemorySound, Locked
  <1>3. w \in l.tgt /\ l.tgt \subseteq Volumes
    BY <1>1, <1>2 DEF NextVolume, PlanSound, Volumes
  <1>4. DiskSound'
    BY <1>1, OwnState DEF DiskSound, RecordsSound, BudgetSound
  <1>5. /\ DOMAIN m = Fields /\ m.b = l.b /\ m.rec = l.rec /\ m.tgt = l.tgt
        /\ m.todo \subseteq l.todo /\ m.pre = l.pre /\ m.post = l.post
    <2> HIDE DEF w
    <2> QED
      BY <1>2 DEF Fields
  <1> HIDE DEF m, w
  <1>6. PlanSound(m)
    BY <1>2, <1>5 DEF PlanSound
  <1>7. MemorySound("write", m)
    BY <1>2, <1>5, <1>6 DEF MemorySound
  <1>8. CommitInv'
    BY <1>1, <1>2, <1>4, <1>7, HoldInv
  <1>9. ASSUME NEW v \in Volumes, vol'[v] # vol[v] PROVE /\ vol'[v] = Project(l.b, v, vol[v])
                                                               /\ v \in l.tgt /\ vol[v] = l.pre[v]
    <2>1. DOMAIN vol = Assets /\ v \in Assets
      BY OwnState DEF Assets
    <2>2. v = w /\ vol'[v] = l.post[v]
      BY <1>1, <1>9, <2>1
    <2>3. vol[v] = l.pre[v]
      BY <1>1, <1>9, <2>2
    <2> QED
      BY <1>2, <1>3, <2>2, <2>3 DEF PlanSound
  <1> QED
    BY <1>2, <1>8, <1>9

\* A refused write takes at most the batch's own record away.
LEMMA WriteRefusedInv ==
    ASSUME CommitInv, NEW p \in Procs, WriteRefused(p)
    PROVE  CommitInv' /\ UNCHANGED vol
  <1>1. /\ active' \subseteq active /\ UNCHANGED <<vol, archive>> /\ Return(p)
        /\ UNCHANGED budget \/ Spend("stops")
    BY DEF WriteRefused, formal
  <1>2. BudgetSound'
    <2>1. CASE UNCHANGED budget
      BY <2>1, OwnState DEF BudgetSound
    <2> QED
      BY <1>1, <2>1, SpendSound
  <1>3. DiskSound'
    BY <1>1, <1>2, OwnState, FewerRecords DEF DiskSound
  <1> QED
    BY <1>1, <1>3, ReturnInv

\* A reconcile enters its critical section with the plan it made.
LEMMA LockReconcileInv ==
    ASSUME CommitInv, NEW p \in Procs, LockReconcile(p)
    PROVE  CommitInv' /\ UNCHANGED vol
  <1> DEFINE l == loc[p]
             m == [l EXCEPT !.base = baseline]
  <1>1. /\ UNCHANGED <<vol, active, archive, budget>> /\ pc[p] = "lock"
        /\ Return(p) \/ Take(p, "advance", m)
    BY DEF LockReconcile, formal, record
  <1>2. DiskSound'
    BY <1>1, SameDisk
  <1>3. DOMAIN l = Fields /\ PlanSound(l)
    BY <1>1, OwnState DEF MemorySound
  <1>4. /\ DOMAIN m = Fields /\ m.b = l.b /\ m.rec = l.rec /\ m.tgt = l.tgt
        /\ m.pre = l.pre /\ m.post = l.post
    BY <1>3 DEF Fields
  <1> HIDE DEF m
  <1>5. MemorySound("advance", m)
    BY <1>3, <1>4 DEF MemorySound, PlanSound
  <1> QED
    BY <1>1, <1>2, <1>5, TakeInv, ReturnInv

\* What closes a batch leaves the Volumes alone.
LEMMA CloseInv ==
    ASSUME CommitInv, NEW p \in Procs,
           \/ Verify(p) \/ Advance(p) \/ Recheck(p) \/ Govern(p) \/ RecordApplied(p)
           \/ EnsureLedger(p) \/ Archive(p) \/ Unlink(p) \/ RestoreVerify(p)
    PROVE  CommitInv' /\ UNCHANGED vol
  <1>1. pc[p] \in Locked /\ UNCHANGED <<vol, budget>>
    BY DEF Verify, Advance, Recheck, Govern, RecordApplied, EnsureLedger, Archive, Unlink,
           RestoreVerify, Locked, formal
  <1>2. Return(p) \/ \E k \in Closing : Continue(p, k)
    BY DEF Verify, Advance, Recheck, Govern, RecordApplied, EnsureLedger, Archive, Unlink,
           RestoreVerify, Closing
  <1>3. active' \subseteq active /\ archive' \subseteq archive \cup active
    BY DEF Verify, Advance, Recheck, Govern, RecordApplied, EnsureLedger, Archive, Unlink,
           RestoreVerify, record, RecordsOf
  <1>4. DiskSound'
    BY <1>1, <1>3, OwnState DEF DiskSound, RecordsSound, BudgetSound
  <1> QED
    BY <1>1, <1>2, <1>4, ClosingInv

-----------------------------------------------------------------------------
(* Rollback.                                                               *)

\* A rollback enters its critical section with the record's own Volumes to restore.
LEMMA LockRollbackInv ==
    ASSUME CommitInv, NEW p \in Procs, LockRollback(p)
    PROVE  CommitInv' /\ UNCHANGED vol
  <1> DEFINE l == loc[p]
             back == {v \in DOMAIN l.rec.pre : vol[v] # l.rec.pre[v]}
             m == [l EXCEPT !.todo = back]
  <1>1. /\ UNCHANGED <<vol, active, archive, budget>> /\ pc[p] = "lock" /\ l.op = "rollback"
        /\ Return(p) \/ Take(p, "restore", m)
    BY DEF LockRollback, formal, record
  <1>2. DiskSound'
    BY <1>1, SameDisk
  <1>3. DOMAIN l = Fields /\ PlanSound(l) /\ l.rec # None
    BY <1>1, OwnState DEF MemorySound
  <1>4. back \subseteq DOMAIN l.rec.pre
    OBVIOUS
  <1> HIDE DEF back
  <1>5. /\ DOMAIN m = Fields /\ m.op = l.op /\ m.b = l.b /\ m.rec = l.rec /\ m.tgt = l.tgt
        /\ m.todo = back /\ m.pre = l.pre /\ m.post = l.post
    BY <1>3 DEF Fields
  <1> HIDE DEF m
  <1>6. MemorySound("restore", m)
    BY <1>1, <1>3, <1>4, <1>5 DEF MemorySound, PlanSound
  <1> QED
    BY <1>1, <1>2, <1>6, TakeInv, ReturnInv

\* ... and only a rollback takes back what the batch had made of it.
LEMMA RestoreInv ==
    ASSUME CommitInv, NEW p \in Procs, Restore(p)
    PROVE  /\ CommitInv'
           /\ \A v \in Volumes : vol'[v] # vol[v] =>
                  lock = p /\ loc[p].op = "rollback" /\ vol[v] = Project(loc[p].b, v, vol'[v])
  <1> DEFINE l == loc[p]
             w == IF "database" \in l.todo THEN "database" ELSE "code"
             m == [l EXCEPT !.todo = @ \ {w}]
  <1>1. /\ UNCHANGED <<active, archive, budget>> /\ pc[p] = "restore" /\ l.todo # {}
        /\ \/ /\ vol[w] = l.rec.post[w] /\ vol' = [vol EXCEPT ![w] = l.rec.pre[w]]
              /\ Hold(p, "restore", m)
           \/ Return(p) /\ UNCHANGED vol
    BY DEF Restore, record
  <1>2. /\ DOMAIN l = Fields /\ PlanSound(l) /\ lock = p /\ pc[p] \in Locked
        /\ l.op = "rollback" /\ l.rec # None /\ l.todo \subseteq DOMAIN l.rec.pre
    BY <1>1, OwnState DEF MemorySound, Locked
  <1>3. w \in DOMAIN l.rec.pre
    BY <1>1, <1>2 DEF PlanSound, RecordSound, Volumes
  <1>4. DiskSound'
    BY <1>1, OwnState DEF DiskSound, RecordsSound, BudgetSound
  <1>5. /\ DOMAIN m = Fields /\ m.op = l.op /\ m.b = l.b /\ m.rec = l.rec /\ m.tgt = l.tgt
        /\ m.todo \subseteq l.todo /\ m.pre = l.pre /\ m.post = l.post
    <2> HIDE DEF w
    <2> QED
      BY <1>2 DEF Fields
  <1> HIDE DEF m, w
  <1>6. MemorySound("restore", m)
    BY <1>2, <1>5 DEF MemorySound, PlanSound
  <1>7. CommitInv'
    BY <1>1, <1>2, <1>4, <1>6, HoldInv, ReturnInv
  <1>8. ASSUME NEW v \in Volumes, vol'[v] # vol[v] PROVE vol[v] = Project(l.b, v, vol'[v])
    <2>1. DOMAIN vol = Assets /\ v \in Assets
      BY OwnState DEF Assets
    <2>2. v = w /\ vol'[v] = l.rec.pre[v] /\ vol[v] = l.rec.post[v]
      BY <1>1, <1>8, <2>1
    <2> QED
      BY <1>2, <1>3, <2>2 DEF PlanSound, RecordSound
  <1> QED
    BY <1>2, <1>7, <1>8

-----------------------------------------------------------------------------
(* Around the processes, and the theorems.                                 *)

\* A process that dies leaves the Volumes and the records as they are.
LEMMA StopInv ==
    ASSUME CommitInv, NEW p \in Procs, Stop(p)
    PROVE  CommitInv' /\ UNCHANGED vol
  <1>1. UNCHANGED <<vol, active, archive>> /\ Spend("stops") /\ Return(p)
    BY DEF Stop, formal, record
  <1> QED
    BY <1>1, SameDisk, ReturnInv

\* A hand edit is counted.
LEMMA OutsideEditInv ==
    ASSUME CommitInv, OutsideEdit PROVE CommitInv' /\ budget'.edits # budget.edits
  <1>1. UNCHANGED <<active, archive, lock, pc, loc>> /\ Spend("edits")
    BY DEF OutsideEdit, record, proc
  <1>2. DOMAIN vol' = Assets
    BY DEF OutsideEdit, CommitInv, DiskSound
  <1>3. BudgetSound' /\ budget'.edits # budget.edits
    BY <1>1 DEF CommitInv, DiskSound, BudgetSound, Spend
  <1> QED
    BY <1>1, <1>2, <1>3 DEF CommitInv, DiskSound, RecordsSound

\* A source that moves changes no Volume and no record.
LEMMA SourceEditInv == ASSUME CommitInv, SourceEdit PROVE CommitInv' /\ UNCHANGED vol
  <1>1. UNCHANGED <<vol, active, archive, lock, pc, loc>> /\ Spend("moves")
    BY DEF SourceEdit, record, proc
  <1> QED
    BY <1>1, SameDisk DEF CommitInv

\* Initially nothing is recorded and every process is idle.
LEMMA InitInv == Init => CommitInv
  <1> SUFFICES ASSUME Init PROVE CommitInv
    OBVIOUS
  <1>1. DiskSound
    BY VolumeConstants DEF Init, DiskSound, RecordsSound, BudgetSound
  <1>2. \A p \in Procs : pc[p] = "idle" /\ loc[p] = Idle
    BY DEF Init
  <1>3. "idle" \notin Locked
    BY DEF Locked
  <1> QED
    BY <1>1, <1>2, <1>3, IdleSound DEF CommitInv, Init

\* Which step changes a Volume, and into what.
Changes(v) ==
    \E p \in Procs :
        /\ lock = p
        /\ \/ vol'[v] = Project(loc[p].b, v, vol[v])
           \/ loc[p].op = "rollback" /\ vol[v] = Project(loc[p].b, v, vol'[v])

\* One step: the invariant is kept, and a Volume that changes is explained.
LEMMA StepInv ==
    ASSUME CommitInv, [Next]_vars
    PROVE  /\ CommitInv'
           /\ budget'.edits = budget.edits =>
                  \A v \in Volumes : vol'[v] # vol[v] => Changes(v)
  <1>1. ASSUME NEW p \in Procs, Work(p)
        PROVE  CommitInv' /\ \A v \in Volumes : vol'[v] # vol[v] => Changes(v)
    <2>1. CASE WriteVolume(p) \/ Restore(p)
      BY <2>1, WriteVolumeInv, RestoreInv DEF Changes
    <2>2. CASE \/ Bind(p) \/ LockTimeout(p) \/ LockCommit(p) \/ SaveRecord(p) \/ WriteRefused(p)
               \/ LockReconcile(p) \/ LockRollback(p)
      BY <2>2, BindInv, LockTimeoutInv, LockCommitInv, SaveRecordInv, WriteRefusedInv,
         LockReconcileInv, LockRollbackInv
    <2>3. CASE \/ Verify(p) \/ Advance(p) \/ Recheck(p) \/ Govern(p) \/ RecordApplied(p)
               \/ EnsureLedger(p) \/ Archive(p) \/ Unlink(p) \/ RestoreVerify(p)
      BY <2>3, CloseInv
    <2> QED
      BY <1>1, <2>1, <2>2, <2>3 DEF Work
  <1>2. ASSUME NEW p \in Procs,
               Maintain(p) \/ Stop(p) \/ Submit(p) \/ Resubmit(p) \/ SubmitRollback(p)
        PROVE  CommitInv' /\ UNCHANGED vol
    BY <1>2, MaintainInv, StopInv, SubmitInv
  <1>3. CASE UNCHANGED vars
    <2>1. UNCHANGED <<vol, active, archive, lock, pc, loc, budget>>
      BY <1>3 DEF vars, formal, record, proc
    <2> QED
      BY <2>1, SameDisk DEF CommitInv
  <1> QED
    BY <1>1, <1>2, <1>3, OutsideEditInv, SourceEditInv DEF Next

\* In every reachable state the records on disk and the plan of every process at work bind
\* the bytes before and after by their own batch.
THEOREM CommitInvariant == Spec => []CommitInv
  <1>1. CommitInv /\ [Next]_vars => CommitInv'
    BY StepInv
  <1> QED
    BY <1>1, InitInv, PTL DEF Spec

\* Apply and its rollback only ever replace the bytes of a Volume by what the batch's texts
\* make of exactly these bytes, or take exactly that back, holding the lock: no Entry of
\* another host is overwritten by a plan made before the lock (writeAtomicIndex,
\* reprojectParallelSiblingUnderLock, RollbackUpdateEntriesAtomicRecovery).
THEOREM NoEntryLostAlways == Spec => NoEntryLost
  <1>1. CommitInv /\ [Next]_vars =>
            [budget'.edits = budget.edits =>
                \A v \in Volumes : vol'[v] # vol[v] =>
                    \E p \in Procs :
                        /\ lock = p
                        /\ \/ vol'[v] = Project(loc[p].b, v, vol[v])
                           \/ loc[p].op = "rollback" /\ vol[v] = Project(loc[p].b, v, vol'[v])]_vars
    BY StepInv DEF Changes
  <1> QED
    BY <1>1, CommitInvariant, PTL DEF Spec, NoEntryLost
-----------------------------------------------------------------------------
(* The editor.                                                             *)

\* Induction, with a set in the place of a predicate.
LEMMA SetInduction ==
    ASSUME NEW S, 0 \in S, \A n \in Nat : n \in S => n + 1 \in S
    PROVE  Nat \subseteq S
  <1> SUFFICES ASSUME Nat \ S # {} PROVE FALSE
    OBVIOUS
  <1>1. PICK n \in Nat \ S : \A m \in Nat \ S : ~(<<m, n>> \in OpToRel(<, Nat))
    BY WFMin, NatLessThanWellFounded
  <1>2. \A m \in Nat \ S : ~(m < n)
    BY <1>1, Zenon DEF OpToRel
  <1>3. n # 0 /\ n - 1 \in Nat /\ n - 1 < n
    BY SMT
  <1>4. n - 1 \in S
    BY <1>2, <1>3
  <1> QED
    BY <1>3, <1>4, SMT

\* q lists S in the order of the identities.
InOrderOf(q, S) ==
    /\ q \in [1..Cardinality(S) -> S]
    /\ \A i, j \in 1..Cardinality(S) : i < j => q[i] < q[j]

\* Every set of identities has such an order: by induction on the largest of them.
LEMMA OrderExists ==
    \A n \in Nat : \A S \in SUBSET (1..n) :
        IsFiniteSet(S) /\ Cardinality(S) \in Nat /\ \E q : InOrderOf(q, S)
  <1> DEFINE Ordered(S) == IsFiniteSet(S) /\ Cardinality(S) \in Nat /\ \E q : InOrderOf(q, S)
             Good == {n \in Nat : \A S \in SUBSET (1..n) : Ordered(S)}
  <1>1. 0 \in Good
    <2>1. Ordered({})
      <3>1. InOrderOf([i \in {} |-> i], {})
        BY FS_EmptySet DEF InOrderOf
      <3> QED
        BY <3>1, FS_EmptySet
    <2>2. \A S \in SUBSET (1..0) : S = {}
      OBVIOUS
    <2> HIDE DEF Ordered
    <2> QED
      BY <2>1, <2>2
  <1>2. ASSUME NEW n \in Nat, n \in Good, NEW S \in SUBSET (1..(n + 1)) PROVE Ordered(S)
    <2>1. CASE n + 1 \notin S
      BY <1>2, <2>1
    <2>2. CASE n + 1 \in S
      <3> DEFINE R == S \ {n + 1}
                 c == Cardinality(R)
      <3>1. R \in SUBSET (1..n) /\ S = R \cup {n + 1} /\ n + 1 \notin R
        BY <2>2
      <3>2. IsFiniteSet(R) /\ c \in Nat
        BY <1>2, <3>1
      <3>3. PICK q : InOrderOf(q, R)
        BY <1>2, <3>1
      <3>4. IsFiniteSet(S) /\ Cardinality(S) = c + 1
        BY <3>1, <3>2, FS_AddElement
      <3> DEFINE r == [i \in 1..(c + 1) |-> IF i <= c THEN q[i] ELSE n + 1]
      <3>5. q \in [1..c -> R] /\ \A i, j \in 1..c : i < j => q[i] < q[j]
        BY <3>3 DEF InOrderOf
      <3> HIDE DEF c, R
      <3>6. r \in [1..(c + 1) -> S]
        BY <3>1, <3>2, <3>5
      <3>7. ASSUME NEW i \in 1..(c + 1), NEW j \in 1..(c + 1), i < j PROVE r[i] < r[j]
        <4>1. i \in 1..c /\ r[i] = q[i] /\ q[i] \in 1..n
          <5>1. i \in 1..c
            BY <3>2, <3>7
          <5>2. q[i] \in R
            BY <3>5, <5>1
          <5>3. q[i] \in 1..n
            BY <3>1, <5>2
          <5>4. i <= c
            BY <3>2, <5>1
          <5> QED
            BY <5>1, <5>3, <5>4
        <4>2. CASE j = c + 1
          BY <3>2, <4>1, <4>2
        <4>3. CASE j \in 1..c
          BY <3>2, <3>5, <3>7, <4>1, <4>3
        <4> QED
          BY <3>2, <4>2, <4>3
      <3> HIDE DEF r
      <3>8. InOrderOf(r, S)
        BY <3>4, <3>6, <3>7 DEF InOrderOf
      <3> QED
        BY <3>2, <3>4, <3>8
    <2> QED
      BY <2>1, <2>2
  <1>3. \A n \in Nat : n \in Good => n + 1 \in Good
    <2> HIDE DEF Ordered
    <2> QED
      BY <1>2
  <1>4. Nat \subseteq Good
    <2> HIDE DEF Good
    <2> QED
      BY <1>1, <1>3, SetInduction
  <1> QED
    BY <1>4

\* InOrder lists the targets it is given and nothing else.
LEMMA InOrderSound ==
    ASSUME NEW S \in SUBSET Targets
    PROVE  /\ InOrder(S) \in [1..Cardinality(S) -> S] /\ Cardinality(S) \in Nat
           /\ InOrder(S) \in Seq(S)
  <1>1. /\ Cardinality(S) \in Nat
        /\ \E q \in [1..Cardinality(S) -> S] :
               \A i, j \in 1..Cardinality(S) : i < j => q[i] < q[j]
    BY OrderExists, VolumeConstants DEF Targets, InOrderOf
  <1>2. InOrder(S) \in [1..Cardinality(S) -> S]
    BY <1>1 DEF InOrder
  <1> QED
    BY <1>1, <1>2

\* The Entries of a Volume, and an asset that holds some.
Books == Seq([t : Nat, k : Nat])

\* The editor makes Entries of Entries, and what is there by hand afterwards was there
\* before or is a text that it was given.
LEMMA EditSound ==
    ASSUME NEW s \in Books, NEW u, DOMAIN u \subseteq Targets, \A t \in DOMAIN u : u[t] \in Nat
    PROVE  /\ Edit(s, u) \in Books
           /\ \A e \in ByHand(Edit(s, u)) :
                  e \in ByHand(s) \/ \E t \in DOMAIN u : u[t] = Foreign /\ e = Entry(t, Foreign)
  <1> DEFINE fresh == InOrder(DOMAIN u \ Described(s))
             old == [i \in DOMAIN s |->
                        IF s[i].t \in DOMAIN u THEN Entry(s[i].t, u[s[i].t]) ELSE s[i]]
             new == [i \in DOMAIN fresh |-> Entry(fresh[i], u[fresh[i]])]
  <1>1. fresh \in Seq(DOMAIN u) /\ DOMAIN u \subseteq Nat
    <2>1. fresh \in Seq(DOMAIN u \ Described(s))
      BY InOrderSound
    <2> QED
      BY <2>1, VolumeConstants DEF Targets
  <1>2. Edit(s, u) = old \o new
    BY DEF Edit
  <1> HIDE DEF fresh
  <1>3. old \in Books
    <2>1. \A i \in DOMAIN s : old[i] \in [t : Nat, k : Nat]
      <3>1. \A i \in DOMAIN s : s[i] \in [t : Nat, k : Nat]
        BY LenProperties, ElementOfSeq DEF Books
      <3> QED
        BY <3>1 DEF Entry
    <2>2. old \in [1..Len(s) -> [t : Nat, k : Nat]] /\ Len(s) \in Nat
      <3> HIDE DEF old
      <3>1. DOMAIN s = 1..Len(s) /\ Len(s) \in Nat
        BY DEF Books
      <3> QED
        BY <2>1, <3>1 DEF old
    <2> HIDE DEF old
    <2> QED
      BY <2>2, SeqDef DEF Books
  <1>4. new \in Books
    <2>1. DOMAIN fresh = 1..Len(fresh) /\ Len(fresh) \in Nat
      BY <1>1
    <2>2. \A i \in DOMAIN fresh : new[i] \in [t : Nat, k : Nat]
      BY <1>1 DEF Entry
    <2>3. new \in [1..Len(fresh) -> [t : Nat, k : Nat]]
      BY <2>1, <2>2
    <2> HIDE DEF new
    <2> QED
      BY <2>1, <2>3, SeqDef DEF Books
  <1>5. \A i \in DOMAIN old : old[i].k = Foreign =>
            old[i] \in ByHand(s) \/ \E t \in DOMAIN u : u[t] = Foreign /\ old[i] = Entry(t, Foreign)
    BY DEF ByHand, Entry
  <1>6. \A i \in DOMAIN new : new[i].k = Foreign =>
            \E t \in DOMAIN u : u[t] = Foreign /\ new[i] = Entry(t, Foreign)
    BY <1>1 DEF Entry
  <1> HIDE DEF old, new
  <1>7. /\ old \o new \in Books
        /\ \A i \in DOMAIN (old \o new) :
               \/ i \in DOMAIN old /\ (old \o new)[i] = old[i]
               \/ i - Len(old) \in DOMAIN new /\ (old \o new)[i] = new[i - Len(old)]
    BY <1>3, <1>4 DEF Books
  <1> QED
    BY <1>2, <1>5, <1>6, <1>7 DEF ByHand

-----------------------------------------------------------------------------
(* What is there by hand.  The second invariant: the bytes a sibling works *)
(* on, wherever they come from, hold nothing by hand that the Volume of    *)
(* its plan did not hold.                                                  *)

ReceiptSound(r) ==
    /\ DOMAIN r = {"at", "src", "sibling"}
    /\ r.at \in [Assets -> Books]
    /\ DOMAIN r.src \subseteq Targets /\ \A t \in DOMAIN r.src : r.src[t] \in Nat

\* The siblings of a plan were issued on its preimage.
PlanMade(x) == DOMAIN x = {"at", "siblings", "delivered"} /\ \A r \in x.siblings : r.at = x.at

\* A host hands back an Entry made by hand only where its receipt has it.
BatchSound(b) ==
    \A v \in WriteSet(b) :
        /\ ReceiptSound(b.r[v])
        /\ \A t \in DOMAIN b.r[v].src :
               /\ b.text[t] \in Nat
               /\ b.text[t] = Foreign => Entry(t, Foreign) \in ByHand(b.r[v].at[v])

\* Nothing by hand in s that a sibling's plan does not know.
Clean(b, s) == Sibling(b) => ByHand(s) \subseteq ByHand(b.r["code"].at["code"])

RecordClean(rec) ==
    /\ BatchSound(rec.b)
    /\ \A v \in DOMAIN rec.pre : rec.pre[v] \in Books
    /\ "code" \in DOMAIN rec.pre => Clean(rec.b, rec.pre["code"])

PlanClean(l) ==
    /\ BatchSound(l.b)
    /\ \A v \in WriteSet(l.b) : l.pre[v] \in Books
    /\ "code" \in l.tgt => Clean(l.b, l.pre["code"])
    /\ l.rec # None => RecordClean(l.rec)

MemoryClean(k, l) ==
    /\ k # "idle" => l.snap \in [Assets -> Books]
    /\ k \in {"start", "record_plan", "issue"} => ReceiptSound(l.src) /\ l.src.at = l.snap
    /\ k = "deliver" => PlanMade(l.plan)
    /\ k = "bind" => BatchSound(l.b)
    /\ k \in {"lock"} \cup Locked => PlanClean(l)

FormalClean == vol \in [Assets -> Books] /\ source \in [Targets -> Nat]
RecordsClean == \A rec \in active \cup archive : RecordClean(rec)
DraftsClean ==
    /\ \A r \in receipts : ReceiptSound(r)
    /\ \A x \in plans : PlanMade(x)
    /\ \A x \in applied : ByHand(x.post) \subseteq ByHand(x.r.at["code"])
DiskClean == FormalClean /\ RecordsClean /\ DraftsClean

HandInv == DiskClean /\ \A p \in Procs : MemoryClean(pc[p], loc[p])

\* A batch makes Entries of Entries, and keeps clean bytes clean.
LEMMA ProjectSound ==
    ASSUME NEW b, BatchSound(b), NEW v \in WriteSet(b), NEW s \in Books
    PROVE  /\ Project(b, v, s) \in Books
           /\ v = "code" /\ Clean(b, s) => Clean(b, Project(b, v, s))
  <1> DEFINE u == TextsFor(b, v)
  <1>1. /\ DOMAIN u \subseteq Targets
        /\ \A t \in DOMAIN u : u[t] \in Nat
        /\ \A t \in DOMAIN u : u[t] = Foreign => Entry(t, Foreign) \in ByHand(b.r[v].at[v])
    BY DEF BatchSound, ReceiptSound, TextsFor
  <1> HIDE DEF u
  <1>2. /\ Edit(s, u) \in Books
        /\ \A e \in ByHand(Edit(s, u)) :
               e \in ByHand(s) \/ \E t \in DOMAIN u : u[t] = Foreign /\ e = Entry(t, Foreign)
    BY <1>1, EditSound
  <1>3. Project(b, v, s) = Edit(s, u)
    BY DEF Project, u
  <1> QED
    BY <1>1, <1>2, <1>3 DEF Clean

\* The plan on record is one of the plans.
LEMMA PlanOnRecordSound == ASSUME PlanOnRecord # None PROVE PlanOnRecord \in plans
  <1>1. Cardinality(plans) = 1
    BY DEF PlanOnRecord
  <1>2. plans # {}
    BY <1>1, FS_EmptySet
  <1> QED
    BY <1>1, <1>2 DEF PlanOnRecord

\* What the replay of a plan proves holds nothing by hand that its preimage does not.
LEMMA ReplayClean ==
    ASSUME DraftsClean, PlanOnRecord # None, NEW b, PlanOnRecord.at = b.r["code"].at,
           NEW s, ReplayProves(PlanOnRecord, s)
    PROVE  Clean(b, s)
  <1> DEFINE x == PlanOnRecord
  <1>1. \A r \in x.siblings : r.at = x.at
    BY PlanOnRecordSound DEF DraftsClean, PlanMade
  <1>2. \/ s = x.at["code"]
        \/ \E y \in applied : y.r \in x.siblings /\ y.post = s
    BY DEF ReplayProves, AppliedOf
  <1> HIDE DEF x
  <1> QED
    BY <1>1, <1>2 DEF Clean, DraftsClean, x

-----------------------------------------------------------------------------
(* Steps of one process, for the second invariant.                         *)

\* What the invariant says of one process.
LEMMA OwnClean ==
    ASSUME HandInv, NEW p \in Procs
    PROVE  /\ MemoryClean(pc[p], loc[p]) /\ DiskClean
           /\ pc[p] \in Locked => PlanClean(loc[p]) /\ loc[p].snap \in [Assets -> Books]
  BY DEF HandInv, MemoryClean, Locked

\* A step of p keeps the invariant if it leaves p's memory and the disk clean.
LEMMA CleanStep ==
    ASSUME CommitInv, HandInv, NEW p \in Procs, NEW k, NEW l,
           Goto(p, k), loc' = [loc EXCEPT ![p] = l] \/ (UNCHANGED loc /\ l = loc[p]),
           MemoryClean(k, l), DiskClean'
    PROVE  HandInv'
  <1>1. /\ pc'[p] = k /\ loc'[p] = l
        /\ \A q \in Procs \ {p} : pc'[q] = pc[q] /\ loc'[q] = loc[q]
    BY DEF Goto, CommitInv
  <1> QED
    BY <1>1 DEF HandInv

\* A call that returns.
LEMMA ReturnClean ==
    ASSUME CommitInv, HandInv, NEW p \in Procs, Return(p), DiskClean' PROVE HandInv'
  <1>1. MemoryClean("idle", Idle)
    BY DEF MemoryClean, Locked
  <1> QED
    BY <1>1, CleanStep DEF Return

\* A process goes on with something new in memory, ...
LEMMA HoldClean ==
    ASSUME CommitInv, HandInv, NEW p \in Procs, NEW k, NEW l, Hold(p, k, l) \/ Take(p, k, l),
           DiskClean', MemoryClean(k, l)
    PROVE  HandInv'
  BY CleanStep DEF Hold, Take

\* ... or with what it has.
LEMMA ContinueClean ==
    ASSUME CommitInv, HandInv, NEW p \in Procs, NEW k, Continue(p, k),
           DiskClean', MemoryClean(k, loc[p])
    PROVE  HandInv'
  BY CleanStep DEF Continue

\* The files that a step leaves alone stay clean.
LEMMA SameClean ==
    ASSUME HandInv
    PROVE  /\ UNCHANGED <<vol, source>> => FormalClean'
           /\ UNCHANGED <<active, archive>> => RecordsClean'
           /\ UNCHANGED <<receipts, plans, applied>> => DraftsClean'
  BY DEF HandInv, DiskClean, FormalClean, RecordsClean, DraftsClean

\* A receipt for some targets, on the Volumes as they were loaded.
LEMMA ReceiptMade ==
    ASSUME FormalClean, NEW S \in SUBSET Targets, NEW snap \in [Assets -> Books], NEW y
    PROVE  ReceiptSound(Receipt(S, snap, y)) /\ Receipt(S, snap, y).at = snap
  BY DEF FormalClean, ReceiptSound, Receipt

\* Maintain issues receipts on the Volumes it loaded, and plans for their siblings.
LEMMA MaintainClean ==
    ASSUME CommitInv, HandInv, NEW p \in Procs, Maintain(p)
    PROVE  HandInv'
  <1> DEFINE l == loc[p]
             snap == l.snap
  <1>1. FormalClean /\ FormalClean' /\ RecordsClean' /\ DraftsClean
    <2>1. UNCHANGED <<vol, source, active, archive>>
      BY DEF Maintain, MaintainLoad, MaintainAssess, MaintainStart, MaintainRecord, MaintainIssue,
             MaintainDeliver, formal, record
    <2> QED
      BY <2>1, SameClean DEF HandInv, DiskClean
  <1>2. DOMAIN l = Fields /\ MemoryClean(pc[p], l)
    BY OwnState, OwnClean
  <1>3. \A S : \A n : Cut(S, n) \subseteq S /\ DatabaseCut(S, n) \subseteq S
    BY DEF Cut, DatabaseCut
  <1>4. \A v : Actionable(snap, v) \subseteq Targets
    BY DEF Actionable
  <1>5. /\ "idle" \notin Locked
        /\ {"assess", "start", "record_plan", "issue", "deliver"} \cap Locked = {}
    BY DEF Locked
  <1>6. CASE MaintainLoad(p)
    <2> DEFINE m == [Idle EXCEPT !.snap = vol]
    <2>1. m.snap = vol
      BY DEF Idle
    <2>2. DraftsClean'
      BY <1>6, SameClean DEF MaintainLoad, drafts
    <2> HIDE DEF m
    <2>3. MemoryClean("assess", m)
      BY <1>1, <1>5, <2>1 DEF MemoryClean, FormalClean
    <2>4. Hold(p, "assess", m)
      BY <1>6 DEF MaintainLoad, m
    <2> QED
      BY <1>1, <2>2, <2>3, <2>4, HoldClean DEF DiskClean
  <1>7. CASE MaintainAssess(p)
    <2>1. snap \in [Assets -> Books]
      BY <1>2, <1>7 DEF MaintainAssess, MemoryClean
    <2>2. \A S \in SUBSET Targets : \A y :
              ReceiptSound(Receipt(S, snap, y)) /\ Receipt(S, snap, y).at = snap
      BY <1>1, <2>1, ReceiptMade
    <2>3. \A v : \A n : \A y :
              /\ ReceiptSound(Receipt(Cut(Actionable(snap, v), n), snap, y))
              /\ ReceiptSound(Receipt(DatabaseCut(Actionable(snap, v), n), snap, y))
      BY <1>3, <1>4, <2>2
    <2>r. /\ \A n : \A r \in DatabaseReceipts(snap, n) : ReceiptSound(r)
          /\ \A S \in {Cut(Actionable(snap, "code"), 1)} \ {{}} : ReceiptSound(Receipt(S, snap, FALSE))
      BY <2>3 DEF DatabaseReceipts
    <2>4. CASE Return(p) /\ UNCHANGED drafts
      BY <1>1, <2>4, SameClean, ReturnClean DEF DiskClean, drafts
    <2>5. CASE IssueSingle(p, snap)
      <3>1. \A r \in receipts' : ReceiptSound(r)
        <4>1. receipts' = receipts
                  \cup {Receipt(S, snap, FALSE) : S \in {Cut(Actionable(snap, "code"), 1)} \ {{}}}
                  \cup DatabaseReceipts(snap, Cardinality(Cut(Actionable(snap, "code"), 1)))
          BY <2>5 DEF IssueSingle
        <4> QED
          BY <1>1, <2>r, <4>1, Zenon DEF DraftsClean
      <3>2. DraftsClean'
        BY <2>5, <3>1 DEF IssueSingle, RemoveParallelPlans, DraftsClean
      <3> QED
        BY <1>1, <2>5, <3>2, ReturnClean DEF IssueSingle, DiskClean
    <2>6. CASE IssueParallel(p, snap)
      <3> DEFINE plan == PlanOnRecord
                 live == PlanCurrent(plan, snap) /\ Outstanding(plan) # {}
                 work == Actionable(snap, "code")
                 d == [l EXCEPT !.plan = plan, !.todo = Outstanding(plan) \ plan.delivered]
                 m == [l EXCEPT !.src = Receipt(work, snap, TRUE)]
      <3>1. /\ UNCHANGED <<plans, preimages, applied>> \/ RemoveParallelPlans
            /\ Return(p) \/ (live /\ Hold(p, "deliver", d)) \/ Hold(p, "start", m)
            /\ \E sibling : IssueDatabase(snap, sibling)
        BY <2>6 DEF IssueParallel
      <3>2. DraftsClean'
        <4>1. \A r \in receipts' : ReceiptSound(r)
          BY <1>1, <2>r, <3>1, Zenon DEF IssueDatabase, DraftsClean
        <4> QED
          BY <1>1, <3>1, <4>1 DEF RemoveParallelPlans, DraftsClean
      <3>3. DiskClean'
        BY <1>1, <3>2 DEF DiskClean
      <3>4. ASSUME live, Hold(p, "deliver", d) PROVE HandInv'
        <4>1. PlanMade(plan)
          BY <1>1, <3>4, PlanOnRecordSound DEF PlanCurrent, DraftsClean
        <4> HIDE DEF plan
        <4>2. d.plan = plan /\ d.snap = snap
          BY <1>2 DEF Fields
        <4> HIDE DEF d
        <4>3. MemoryClean("deliver", d)
          BY <1>5, <2>1, <4>1, <4>2 DEF MemoryClean
        <4> QED
          BY <3>3, <3>4, <4>3, HoldClean
      <3>5. ASSUME Hold(p, "start", m) PROVE HandInv'
        <4>1. ReceiptSound(Receipt(work, snap, TRUE)) /\ Receipt(work, snap, TRUE).at = snap
          <5>1. work \in SUBSET Targets
            BY <1>4
          <5> HIDE DEF work
          <5> QED
            BY <1>1, <2>1, <5>1 DEF FormalClean, ReceiptSound, Receipt
        <4>2. m.src = Receipt(work, snap, TRUE) /\ m.snap = snap
          BY <1>2 DEF Fields
        <4> HIDE DEF m
        <4>3. MemoryClean("start", m)
          BY <1>5, <2>1, <4>1, <4>2 DEF MemoryClean
        <4> QED
          BY <3>3, <3>5, <4>3, HoldClean
      <3> QED
        BY <3>1, <3>3, <3>4, <3>5, ReturnClean
    <2> QED
      BY <1>7, <2>4, <2>5, <2>6 DEF MaintainAssess
  <1>8. CASE MaintainStart(p)
    <2>1. DraftsClean'
      BY <1>1, <1>8 DEF MaintainStart, RemoveParallelPlans, DraftsClean
    <2>2. MemoryClean("record_plan", l)
      BY <1>2, <1>5, <1>8 DEF MaintainStart, MemoryClean
    <2> QED
      BY <1>1, <1>8, <2>1, <2>2, ContinueClean DEF MaintainStart, DiskClean
  <1>9. CASE MaintainRecord(p)
    <2>1. DraftsClean'
      BY <1>1, <1>9 DEF MaintainRecord, WritePlan, DraftsClean, PlanMade
    <2>2. MemoryClean("issue", l)
      BY <1>2, <1>5, <1>9 DEF MaintainRecord, MemoryClean
    <2> QED
      BY <1>1, <1>9, <2>1, <2>2, ContinueClean DEF MaintainRecord, DiskClean
  <1>10. CASE MaintainIssue(p)
    <2> DEFINE all == l.src
               cuts == {Cut(DOMAIN all.src, i) : i \in 1..Parallel} \ {{}}
               one(c) == [all EXCEPT !.src = [t \in c |-> all.src[t]]]
               siblings == {one(c) : c \in cuts}
               plan == [at |-> snap, siblings |-> siblings, delivered |-> {}]
               m == [l EXCEPT !.plan = plan, !.todo = siblings]
    <2>1. /\ receipts' = receipts \cup siblings /\ WritePlan(plan) /\ UNCHANGED applied
          /\ Hold(p, "deliver", m)
      BY <1>10 DEF MaintainIssue
    <2>2. ReceiptSound(all) /\ all.at = snap /\ snap \in [Assets -> Books]
      BY <1>2, <1>10 DEF MaintainIssue, MemoryClean
    <2>3. ASSUME NEW c \in SUBSET DOMAIN all.src PROVE ReceiptSound(one(c)) /\ one(c).at = snap
      <3>1. /\ DOMAIN one(c) = {"at", "src", "sibling"} /\ one(c).at = all.at
            /\ one(c).src = [t \in c |-> all.src[t]]
        BY <2>2 DEF ReceiptSound
      <3> HIDE DEF one
      <3> QED
        BY <2>2, <3>1 DEF ReceiptSound
    <2>4. \A r \in siblings : ReceiptSound(r) /\ r.at = snap
      <3>1. \A c \in cuts : c \in SUBSET DOMAIN all.src
        BY <1>3
      <3>2. ASSUME NEW c \in cuts PROVE ReceiptSound(one(c)) /\ one(c).at = snap
        BY <2>3, <3>1
      <3> SUFFICES ASSUME NEW r \in siblings PROVE ReceiptSound(r) /\ r.at = snap
        OBVIOUS
      <3>3. PICK c \in cuts : r = one(c)
        OBVIOUS
      <3> QED
        BY <3>2, <3>3
    <2> HIDE DEF siblings
    <2>5. PlanMade(plan)
      BY <2>4 DEF PlanMade
    <2>6. m.plan = plan /\ m.snap = snap
      BY <1>2 DEF Fields
    <2> HIDE DEF plan, m
    <2>7. DraftsClean'
      BY <1>1, <2>1, <2>4, <2>5 DEF WritePlan, DraftsClean
    <2>8. MemoryClean("deliver", m)
      BY <1>5, <2>2, <2>5, <2>6 DEF MemoryClean
    <2> QED
      BY <1>1, <2>1, <2>7, <2>8, HoldClean DEF DiskClean
  <1>11. CASE MaintainDeliver(p)
    <2>1. PlanMade(l.plan)
      BY <1>2, <1>11 DEF MaintainDeliver, MemoryClean
    <2>2. \A r : PlanMade([l.plan EXCEPT !.delivered = @ \cup {r}])
      BY <2>1 DEF PlanMade
    <2>3. \A x \in plans' : PlanMade(x)
      BY <1>1, <1>11, <2>2 DEF MaintainDeliver, WritePlan, DraftsClean
    <2>4. DraftsClean'
      BY <1>1, <1>11, <2>3 DEF MaintainDeliver, DraftsClean
    <2> QED
      BY <1>1, <1>11, <2>4, ReturnClean DEF MaintainDeliver, DiskClean
  <1> QED
    BY <1>6, <1>7, <1>8, <1>9, <1>10, <1>11 DEF Maintain

\* A host words its Entries itself, or hands one back that its receipt has.
LEMMA StartClean ==
    ASSUME CommitInv, HandInv, NEW p \in Procs, NEW op, NEW b, Start(p, op, b), BatchSound(b)
    PROVE  HandInv'
  <1> DEFINE m == [Idle EXCEPT !.op = op, !.b = b, !.snap = vol, !.base = baseline]
  <1>1. DiskClean'
    BY SameClean DEF Start, formal, record, drafts, DiskClean
  <1>2. m.b = b /\ m.snap = vol
    BY DEF Idle
  <1>3. Hold(p, "bind", m)
    BY DEF Start
  <1> HIDE DEF m
  <1>4. MemoryClean("bind", m)
    BY <1>2 DEF MemoryClean, Locked, HandInv, DiskClean, FormalClean
  <1> QED
    BY <1>1, <1>3, <1>4, HoldClean

\* What Submit, Resubmit and SubmitRollback start is such a batch.
LEMMA SubmitClean ==
    ASSUME CommitInv, HandInv, NEW p \in Procs, Submit(p) \/ Resubmit(p) \/ SubmitRollback(p)
    PROVE  HandInv'
  <1>1. \A rec \in active \cup archive : BatchSound(rec.b)
    BY DEF HandInv, DiskClean, RecordsClean, RecordClean
  <1>2. CASE Submit(p)
    <2>1. PICK W \in SUBSET Volumes : \E r \in [W -> receipts] : \E text \in Texts(r) :
              /\ \A v \in W : \A t \in DOMAIN r[v].src : Home[t] = v
              /\ Start(p, "apply", [r |-> r, text |-> text])
      BY <1>2 DEF Submit
    <2>2. PICK r \in [W -> receipts] : \E text \in Texts(r) :
              /\ \A v \in W : \A t \in DOMAIN r[v].src : Home[t] = v
              /\ Start(p, "apply", [r |-> r, text |-> text])
      BY <2>1
    <2>3. PICK text \in Texts(r) :
              /\ \A v \in W : \A t \in DOMAIN r[v].src : Home[t] = v
              /\ Start(p, "apply", [r |-> r, text |-> text])
      BY <2>2
    <2>4. ASSUME NEW v \in W, NEW t \in DOMAIN r[v].src
          PROVE  /\ text[t] \in Nat
                 /\ text[t] = Foreign => Entry(t, Foreign) \in ByHand(r[v].at[v])
      <3>1. Home[t] = v /\ text[t] \in TextChoices(r, t) /\ ReceiptSound(r[v])
        BY <2>3 DEF Texts, TargetsOf, HandInv, DiskClean, DraftsClean
      <3>2. r[v].src[t] \in Nat /\ r[v].at[v] \in Books
        BY <3>1 DEF ReceiptSound, Assets
      <3>3. ASSUME NEW w \in Wordings, text[t] = Text(r[v].src[t], w)
            PROVE  text[t] \in Nat /\ text[t] # Foreign
        <4>1. w \in 1..9
          BY VolumeConstants
        <4> QED
          BY <3>2, <3>3, <4>1 DEF Text, Foreign
      <3>4. ASSUME t \in Described(r[v].at[v]), text[t] = TextOf(r[v].at[v], t)
            PROVE  /\ text[t] \in Nat
                   /\ text[t] = Foreign => Entry(t, Foreign) \in ByHand(r[v].at[v])
        <4> DEFINE s == r[v].at[v]
        <4>1. PICK i \in DOMAIN s : s[i].t = t /\ text[t] = s[i].k
          BY <3>4 DEF Described, TextOf
        <4>2. s[i] \in [t : Nat, k : Nat]
          BY <3>2, LenProperties, ElementOfSeq DEF Books
        <4>3. s[i] = Entry(t, text[t])
          BY <4>1, <4>2 DEF Entry
        <4> QED
          BY <4>1, <4>2, <4>3 DEF ByHand, Foreign
      <3> QED
        BY <3>1, <3>3, <3>4 DEF TextChoices
    <2>5. BatchSound([r |-> r, text |-> text])
      BY <2>4 DEF BatchSound, WriteSet, HandInv, DiskClean, DraftsClean
    <2> QED
      BY <2>3, <2>5, StartClean
  <1>3. CASE Resubmit(p)
    BY <1>1, <1>3, StartClean DEF Resubmit
  <1>4. CASE SubmitRollback(p)
    BY <1>1, <1>4, StartClean DEF SubmitRollback
  <1> QED
    BY <1>2, <1>3, <1>4

\* Bind works on clean bytes: the record has them, or the replay of the plan proves them.
LEMMA BindClean ==
    ASSUME CommitInv, HandInv, NEW p \in Procs, Bind(p)
    PROVE  HandInv'
  <1>1. /\ UNCHANGED <<vol, source, active, archive, receipts, plans, applied>> /\ pc[p] = "bind"
        /\ "bind" \notin Locked
    BY DEF Bind, formal, record, drafts, Locked
  <1>2. DiskClean'
    BY <1>1, SameClean DEF DiskClean
  <1> DEFINE b == loc[p].b
             snap == loc[p].snap
             rec == IF Recorded(b) = {} THEN None ELSE CHOOSE x \in Recorded(b) : TRUE
             pre == Preimage(b, rec, snap)
             post == [v \in WriteSet(b) |-> Project(b, v, snap[v])]
             tgt == {v \in WriteSet(b) : rec # None \/ pre[v] # post[v]}
             op == IF loc[p].op = "rollback" THEN "rollback"
                   ELSE IF AllPost(b, rec, snap, tgt, post, loc[p].base)
                   THEN "reconcile" ELSE "commit"
             l == [loc[p] EXCEPT !.op = op, !.rec = rec, !.pre = pre, !.post = post, !.tgt = tgt]
  <1>3. Return(p) \/ (Accepted(b, rec, snap) /\ Hold(p, "lock", l))
    BY DEF Bind
  <1>4. /\ WriteSet(b) \subseteq Volumes /\ DOMAIN loc[p] = Fields
        /\ BatchSound(b) /\ snap \in [Assets -> Books]
    BY <1>1, OwnState, OwnClean DEF MemorySound, MemoryClean
  <1>5. rec # None => RecordClean(rec) /\ rec.b = b
    BY DEF Recorded, RecordsOf, HandInv, DiskClean, RecordsClean
  <1>6. ASSUME NEW v \in WriteSet(b) PROVE pre[v] \in Books
    <2>1. snap[v] \in Books
      BY <1>4 DEF Assets
    <2>2. rec # None /\ v \in DOMAIN rec.pre => rec.pre[v] \in Books
      BY <1>5 DEF RecordClean
    <2> HIDE DEF rec, snap, b
    <2> QED
      BY <2>1, <2>2 DEF Preimage
  <1>7. ASSUME Accepted(b, rec, snap), "code" \in tgt PROVE Clean(b, pre["code"])
    <2>0. "code" \in WriteSet(b)
      BY <1>7
    <2>1. CASE rec # None
      <3>1. "code" \in DOMAIN rec.pre
        BY <1>5, <1>7, <2>0, <2>1 DEF Accepted, Decodes
      <3>2. pre["code"] = rec.pre["code"]
        BY <2>0, <2>1, <3>1 DEF Preimage
      <3> QED
        BY <1>5, <2>1, <3>1, <3>2 DEF RecordClean
    <2>2. CASE rec = None
      <3>1. pre["code"] = snap["code"]
        BY <2>0, <2>2 DEF Preimage
      <3>2. SUFFICES ASSUME Sibling(b) PROVE Clean(b, snap["code"])
        BY <3>1 DEF Clean
      <3>3. /\ PlanOnRecord # None /\ PlanOnRecord.at = b.r["code"].at
            /\ ReplayProves(PlanOnRecord, snap["code"])
        BY <1>7, <2>0, <2>2, <3>2 DEF Accepted, CodeReceiptStands, AtPostimage, Sibling, PlanCurrent
      <3> QED
        BY <3>3, ReplayClean DEF HandInv, DiskClean
    <2> QED
      BY <2>1, <2>2
  <1>8. /\ l.b = b /\ l.rec = rec /\ l.pre = pre /\ l.tgt = tgt /\ l.snap = snap
    <2> HIDE DEF op, rec, pre, post, tgt
    <2> QED
      BY <1>4 DEF Fields
  <1>9. ASSUME Accepted(b, rec, snap) PROVE MemoryClean("lock", l)
    <2>1. "code" \in tgt => Clean(b, pre["code"])
      BY <1>7, <1>9
    <2> HIDE DEF op, rec, pre, post, tgt, l, b, snap
    <2> QED
      BY <1>4, <1>5, <1>6, <1>8, <2>1 DEF MemoryClean, PlanClean
  <1> QED
    BY <1>2, <1>3, <1>9, HoldClean, ReturnClean

\* A sibling that is projected again works on bytes that the replay proves.
LEMMA LockCommitClean ==
    ASSUME CommitInv, HandInv, NEW p \in Procs, LockCommit(p)
    PROVE  HandInv'
  <1>1. UNCHANGED <<vol, source, active, archive, receipts, plans, applied>> /\ pc[p] = "lock"
    BY DEF LockCommit, formal, record, drafts
  <1>2. DiskClean' /\ FormalClean /\ DraftsClean
    BY <1>1, SameClean DEF DiskClean, HandInv
  <1> DEFINE o == loc[p]
             l == Reproject(o)
             m == [l EXCEPT !.base = baseline, !.todo = l.tgt]
             k == IF l.rec = None /\ l.tgt # {} THEN "record" ELSE "write"
  <1>3. Return(p) \/ (ReprojectionProven(o) /\ Take(p, k, m))
    BY DEF LockCommit
  <1>4. /\ DOMAIN o = Fields /\ PlanSound(o) /\ PlanClean(o) /\ o.snap \in [Assets -> Books]
    BY <1>1, OwnState, OwnClean DEF MemorySound, MemoryClean
  <1>5. ASSUME ReprojectionProven(o)
        PROVE  DOMAIN l = Fields /\ PlanClean(l) /\ l.snap = o.snap
    <2>1. CASE ~Reprojects(o)
      BY <1>4, <2>1 DEF Reproject
    <2>2. CASE Reprojects(o)
      <3> DEFINE c == Project(o.b, "code", vol["code"])
                 n == [o EXCEPT !.pre["code"] = vol["code"], !.post["code"] = c]
      <3>1. l = n
        BY <2>2 DEF Reproject, Reprojection
      <3>2. /\ DOMAIN n = Fields /\ n.b = o.b /\ n.rec = o.rec /\ n.tgt = o.tgt /\ n.snap = o.snap
            /\ n.pre = [o.pre EXCEPT !["code"] = vol["code"]]
        <4> HIDE DEF c
        <4> QED
          BY <1>4 DEF Fields
      <3> HIDE DEF n, l
      <3>3. Clean(o.b, vol["code"])
        BY <1>2, <1>5, <2>2, ReplayClean DEF ReprojectionProven
      <3>4. vol["code"] \in Books
        BY <1>2 DEF FormalClean, Assets, Volumes
      <3>5. "code" \in DOMAIN o.pre /\ DOMAIN o.pre = WriteSet(o.b)
        BY <1>4, <2>2 DEF Reprojects, PlanSound
      <3>6. \A v \in WriteSet(o.b) : n.pre[v] \in Books
        BY <1>4, <3>2, <3>4, <3>5 DEF PlanClean
      <3>7. n.pre["code"] = vol["code"]
        BY <3>2, <3>5
      <3> QED
        BY <1>4, <3>1, <3>2, <3>3, <3>6, <3>7 DEF PlanClean
    <2> QED
      BY <2>1, <2>2
  <1> HIDE DEF l
  <1>6. ASSUME DOMAIN l = Fields
        PROVE  /\ m.b = l.b /\ m.rec = l.rec /\ m.tgt = l.tgt /\ m.pre = l.pre /\ m.snap = l.snap
    BY <1>6 DEF Fields
  <1>7. k \in {"record", "write"}
    OBVIOUS
  <1> HIDE DEF m, k
  <1>8. ASSUME ReprojectionProven(o) PROVE MemoryClean(k, m)
    <2>1. PlanClean(m) /\ m.snap = o.snap
      BY <1>5, <1>6, <1>8 DEF PlanClean
    <2> QED
      BY <1>4, <1>7, <2>1 DEF MemoryClean
  <1> QED
    BY <1>2, <1>3, <1>8, HoldClean, ReturnClean

\* The record of a clean plan is clean.
LEMMA SaveRecordClean ==
    ASSUME CommitInv, HandInv, NEW p \in Procs, SaveRecord(p)
    PROVE  HandInv'
  <1> DEFINE l == loc[p]
             rec == RecordFor(l)
             m == [l EXCEPT !.rec = rec]
  <1>1. /\ UNCHANGED <<vol, source, archive, receipts, plans, applied>> /\ pc[p] = "record"
        /\ pc[p] \in Locked
    BY DEF SaveRecord, formal, drafts, Locked
  <1>2. /\ DOMAIN l = Fields /\ PlanSound(l) /\ PlanClean(l) /\ l.snap \in [Assets -> Books]
    BY <1>1, OwnState, OwnClean
  <1>3. RecordClean(rec)
    <2>1. rec.b = l.b /\ DOMAIN rec.pre = l.tgt /\ \A v \in l.tgt : rec.pre[v] = l.pre[v]
      BY DEF RecordFor
    <2> HIDE DEF rec
    <2> QED
      BY <1>2, <2>1 DEF RecordClean, PlanClean, PlanSound
  <1>4. active' \subseteq active \cup {rec} /\ (Return(p) \/ Hold(p, "write", m))
    BY DEF SaveRecord
  <1> HIDE DEF rec
  <1>5. DiskClean'
    BY <1>1, <1>3, <1>4, SameClean DEF DiskClean, HandInv, RecordsClean
  <1>6. m.b = l.b /\ m.rec = rec /\ m.tgt = l.tgt /\ m.pre = l.pre /\ m.snap = l.snap
    BY <1>2 DEF Fields
  <1> HIDE DEF m
  <1>7. MemoryClean("write", m)
    BY <1>2, <1>3, <1>6 DEF MemoryClean, PlanClean
  <1> QED
    BY <1>4, <1>5, <1>7, HoldClean, ReturnClean

\* What a batch writes, or puts back, are Entries.
LEMMA WriteVolumeClean ==
    ASSUME CommitInv, HandInv, NEW p \in Procs, WriteVolume(p)
    PROVE  HandInv'
  <1> DEFINE l == loc[p]
             w == NextVolume(l)
             m == [l EXCEPT !.todo = @ \ {w}]
  <1>1. /\ UNCHANGED <<source, active, archive, receipts, plans, applied>>
        /\ pc[p] = "write" /\ pc[p] \in Locked /\ l.todo # {}
        /\ vol' = [vol EXCEPT ![w] = l.post[w]] /\ Hold(p, "write", m)
    BY DEF WriteVolume, record, drafts, Locked
  <1>2. /\ DOMAIN l = Fields /\ PlanSound(l) /\ PlanClean(l) /\ l.snap \in [Assets -> Books]
        /\ l.todo \subseteq l.tgt
    BY <1>1, OwnState, OwnClean DEF MemorySound
  <1>3. w \in l.tgt /\ w \in WriteSet(l.b)
    BY <1>1, <1>2 DEF NextVolume, PlanSound, Volumes
  <1>4. m.b = l.b /\ m.rec = l.rec /\ m.tgt = l.tgt /\ m.pre = l.pre /\ m.snap = l.snap
    <2> HIDE DEF w
    <2> QED
      BY <1>2 DEF Fields
  <1> HIDE DEF m, w
  <1>5. l.post[w] \in Books
    BY <1>2, <1>3, ProjectSound DEF PlanSound, PlanClean
  <1>6. DiskClean'
    BY <1>1, <1>5, SameClean DEF DiskClean, HandInv, FormalClean
  <1>7. MemoryClean("write", m)
    BY <1>2, <1>4 DEF MemoryClean, PlanClean
  <1> QED
    BY <1>1, <1>6, <1>7, HoldClean

\* A rollback puts back Entries that its record kept.
LEMMA RestoreClean ==
    ASSUME CommitInv, HandInv, NEW p \in Procs, Restore(p)
    PROVE  HandInv'
  <1> DEFINE l == loc[p]
             w == IF "database" \in l.todo THEN "database" ELSE "code"
             m == [l EXCEPT !.todo = @ \ {w}]
  <1>1. /\ UNCHANGED <<source, active, archive, receipts, plans, applied>>
        /\ pc[p] = "restore" /\ pc[p] \in Locked /\ l.todo # {}
        /\ \/ vol' = [vol EXCEPT ![w] = l.rec.pre[w]] /\ Hold(p, "restore", m)
           \/ Return(p) /\ UNCHANGED vol
    BY DEF Restore, record, drafts, Locked
  <1>2. /\ DOMAIN l = Fields /\ PlanSound(l) /\ PlanClean(l) /\ l.snap \in [Assets -> Books]
        /\ l.rec # None /\ l.todo \subseteq DOMAIN l.rec.pre
    BY <1>1, OwnState, OwnClean DEF MemorySound
  <1>3. w \in DOMAIN l.rec.pre
    BY <1>1, <1>2 DEF PlanSound, RecordSound, Volumes
  <1>4. m.b = l.b /\ m.rec = l.rec /\ m.tgt = l.tgt /\ m.pre = l.pre /\ m.snap = l.snap
    <2> HIDE DEF w
    <2> QED
      BY <1>2 DEF Fields
  <1> HIDE DEF m, w
  <1>5. l.rec.pre[w] \in Books
    BY <1>2, <1>3 DEF PlanClean, RecordClean
  <1>6. DiskClean'
    BY <1>1, <1>5, SameClean DEF DiskClean, HandInv, FormalClean
  <1>7. MemoryClean("restore", m)
    BY <1>2, <1>4 DEF MemoryClean, PlanClean
  <1> QED
    BY <1>1, <1>6, <1>7, HoldClean, ReturnClean

\* The other two that take the lock keep the plan they made.
LEMMA LockOtherClean ==
    ASSUME CommitInv, HandInv, NEW p \in Procs, LockReconcile(p) \/ LockRollback(p)
    PROVE  HandInv'
  <1> DEFINE l == loc[p]
  <1>1. /\ UNCHANGED <<vol, source, active, archive, receipts, plans, applied>> /\ pc[p] = "lock"
        /\ \/ Return(p) \/ Take(p, "advance", [l EXCEPT !.base = baseline])
           \/ \E x : Take(p, "restore", [l EXCEPT !.todo = x])
    BY DEF LockReconcile, LockRollback, formal, record, drafts
  <1>2. DiskClean'
    BY <1>1, SameClean DEF DiskClean
  <1>3. DOMAIN l = Fields /\ PlanClean(l) /\ l.snap \in [Assets -> Books]
    BY <1>1, OwnState, OwnClean DEF MemoryClean
  <1>4. ASSUME NEW k \in {"advance", "restore"}, NEW m,
               m.b = l.b /\ m.rec = l.rec /\ m.tgt = l.tgt /\ m.pre = l.pre /\ m.snap = l.snap
        PROVE  MemoryClean(k, m)
    BY <1>3, <1>4 DEF MemoryClean, PlanClean
  <1>5. ASSUME Take(p, "advance", [l EXCEPT !.base = baseline]) PROVE HandInv'
    <2> DEFINE m == [l EXCEPT !.base = baseline]
    <2>1. m.b = l.b /\ m.rec = l.rec /\ m.tgt = l.tgt /\ m.pre = l.pre /\ m.snap = l.snap
      BY <1>3 DEF Fields
    <2> HIDE DEF m
    <2> QED
      BY <1>2, <1>4, <1>5, <2>1, HoldClean DEF m
  <1>6. ASSUME NEW x, Take(p, "restore", [l EXCEPT !.todo = x]) PROVE HandInv'
    <2> DEFINE m == [l EXCEPT !.todo = x]
    <2>1. m.b = l.b /\ m.rec = l.rec /\ m.tgt = l.tgt /\ m.pre = l.pre /\ m.snap = l.snap
      BY <1>3 DEF Fields
    <2> HIDE DEF m
    <2> QED
      BY <1>2, <1>4, <1>6, <2>1, HoldClean DEF m
  <1> QED
    BY <1>1, <1>2, <1>5, <1>6, ReturnClean

\* An applied record repeats what the batch made of clean bytes; nothing else that closes
\* a batch, or gives it up, writes what the invariant is about.
LEMMA RecordAppliedClean ==
    ASSUME CommitInv, HandInv, NEW p \in Procs, RecordApplied(p)
    PROVE  HandInv'
  <1> DEFINE l == loc[p]
             x == AppliedReceipt(l, OrderOf(l))
  <1>1. /\ UNCHANGED <<vol, source, active, archive, receipts, plans>>
        /\ pc[p] = "apply_record" /\ pc[p] \in Locked
        /\ Return(p) \/ Continue(p, "ledger")
    BY DEF RecordApplied, formal, record, Locked
  <1>2. PlanSound(l) /\ PlanClean(l) /\ l.snap \in [Assets -> Books]
    BY <1>1, OwnState, OwnClean
  <1>3. UNCHANGED applied \/ (Sibling(l.b) /\ "code" \in l.tgt /\ applied' = applied \cup {x})
    BY DEF RecordApplied
  <1>4. ASSUME Sibling(l.b), "code" \in l.tgt
        PROVE  ByHand(x.post) \subseteq ByHand(x.r.at["code"])
    <2>1. x.post = l.post["code"] /\ x.r = l.b.r["code"]
      BY DEF AppliedReceipt
    <2>2. /\ "code" \in WriteSet(l.b) /\ l.post["code"] = Project(l.b, "code", l.pre["code"])
          /\ l.pre["code"] \in Books /\ Clean(l.b, l.pre["code"]) /\ BatchSound(l.b)
      BY <1>2, <1>4 DEF PlanSound, PlanClean
    <2>3. Clean(l.b, l.post["code"])
      BY <2>2, ProjectSound
    <2> QED
      BY <1>4, <2>1, <2>3 DEF Clean
  <1> HIDE DEF x
  <1>5. DraftsClean'
    BY <1>1, <1>3, <1>4 DEF HandInv, DiskClean, DraftsClean
  <1>6. DiskClean'
    BY <1>1, <1>5, SameClean DEF DiskClean
  <1>7. MemoryClean("ledger", l)
    BY <1>2 DEF MemoryClean
  <1> QED
    BY <1>1, <1>6, <1>7, ContinueClean, ReturnClean

\* What else closes a batch moves clean records at most.
LEMMA CloseClean ==
    ASSUME CommitInv, HandInv, NEW p \in Procs,
           \/ Verify(p) \/ Advance(p) \/ Recheck(p) \/ Govern(p) \/ EnsureLedger(p)
           \/ Archive(p) \/ Unlink(p) \/ RestoreVerify(p)
    PROVE  HandInv'
  <1>1. pc[p] \in Locked /\ UNCHANGED <<vol, source, receipts, plans, applied>>
    BY DEF Verify, Advance, Recheck, Govern, EnsureLedger, Archive, Unlink, RestoreVerify, Locked,
           formal, drafts
  <1>2. Return(p) \/ \E k \in Closing : Continue(p, k)
    BY DEF Verify, Advance, Recheck, Govern, EnsureLedger, Archive, Unlink, RestoreVerify, Closing
  <1>3. active' \subseteq active /\ archive' \subseteq archive \cup active
    BY DEF Verify, Advance, Recheck, Govern, EnsureLedger, Archive, Unlink, RestoreVerify, record,
           RecordsOf
  <1>4. DiskClean'
    BY <1>1, <1>3, SameClean DEF DiskClean, HandInv, RecordsClean
  <1>5. ASSUME NEW k \in Closing PROVE MemoryClean(k, loc[p])
    BY <1>1, OwnClean DEF MemoryClean, Closing
  <1> QED
    BY <1>2, <1>4, <1>5, ContinueClean, ReturnClean

\* A call that ends early takes at most its own record away.
LEMMA GiveUpClean ==
    ASSUME CommitInv, HandInv, NEW p \in Procs, LockTimeout(p) \/ WriteRefused(p) \/ Stop(p)
    PROVE  HandInv'
  <1>1. /\ UNCHANGED <<vol, source, archive, receipts, plans, applied>> /\ active' \subseteq active
        /\ Return(p)
    BY DEF LockTimeout, WriteRefused, Stop, formal, record, drafts
  <1>2. DiskClean'
    BY <1>1, SameClean DEF DiskClean, HandInv, RecordsClean
  <1> QED
    BY <1>1, <1>2, ReturnClean

\* An outsider leaves Entries too: some of his own, or those of an older version.
LEMMA OutsideEditClean == ASSUME CommitInv, HandInv, OutsideEdit PROVE HandInv'
  <1>1. UNCHANGED <<source, active, archive, receipts, plans, applied, pc, loc>>
    BY DEF OutsideEdit, record, drafts, proc
  <1>2. vol \in [Assets -> Books] /\ \A r \in receipts : r.at \in [Assets -> Books]
    BY DEF HandInv, DiskClean, FormalClean, DraftsClean, ReceiptSound
  <1>3. ASSUME NEW a \in Assets, NEW s \in OutsideBytes(a) PROVE s \in Books
    <2> DEFINE old == vol[a]
    <2>1. old \in Books
      BY <1>2
    <2>2. Entry(Foreign, Foreign) \in [t : Nat, k : Nat]
      BY DEF Entry, Foreign
    <2>3. Append(old, Entry(Foreign, Foreign)) \in Books
      BY <2>1, <2>2 DEF Books
    <2>4. ASSUME NEW i \in DOMAIN old PROVE [old EXCEPT ![i].k = Foreign] \in Books
      <3>1. i \in 1..Len(old) /\ old[i] \in [t : Nat, k : Nat]
        BY <2>1, LenProperties, ElementOfSeq DEF Books
      <3>2. [old[i] EXCEPT !.k = Foreign] \in [t : Nat, k : Nat]
        BY <3>1 DEF Foreign
      <3>3. [old EXCEPT ![i] = [old[i] EXCEPT !.k = Foreign]] \in Books
        BY <2>1, <3>1, <3>2, ExceptSeq DEF Books
      <3> QED
        BY <3>3
    <2>5. \A r \in receipts : r.at[a] \in Books
      BY <1>2
    <2> QED
      BY <2>3, <2>4, <2>5 DEF OutsideBytes
  <1>4. vol' \in [Assets -> Books]
    BY <1>2, <1>3 DEF OutsideEdit
  <1> QED
    BY <1>1, <1>4, SameClean DEF HandInv, DiskClean, FormalClean

\* A source that moves changes nothing that hosts wrote.
LEMMA SourceEditClean == ASSUME CommitInv, HandInv, SourceEdit PROVE HandInv'
  <1>1. UNCHANGED <<vol, active, archive, receipts, plans, applied, pc, loc>>
    BY DEF SourceEdit, record, drafts, proc
  <1>2. source' \in [Targets -> Nat]
    BY DEF SourceEdit, HandInv, DiskClean, FormalClean
  <1> QED
    BY <1>1, <1>2, SameClean DEF HandInv, DiskClean, FormalClean

\* Initially the Volumes hold Entries, and nothing is issued or recorded.
LEMMA InitClean == Init => HandInv
  <1> SUFFICES ASSUME Init PROVE HandInv
    OBVIOUS
  <1>1. ASSUME NEW a \in Assets PROVE vol[a] \in Books
    <2> DEFINE S == {t \in Known : Home[t] = a}
               q == InOrder(S)
    <2>1. S \in SUBSET Targets
      BY VolumeConstants
    <2>2. q \in [1..Cardinality(S) -> S] /\ Cardinality(S) \in Nat
      BY <2>1, InOrderSound
    <2>3. vol[a] = [i \in 1..Cardinality(S) |-> Entry(q[i], Text(1, 1))]
      BY DEF Init
    <2> HIDE DEF q
    <2>4. \A i \in 1..Cardinality(S) : Entry(q[i], Text(1, 1)) \in [t : Nat, k : Nat]
      <3>1. \A i \in 1..Cardinality(S) : q[i] \in Nat
        BY <2>1, <2>2 DEF Targets
      <3> QED
        BY <3>1 DEF Entry, Text
    <2> DEFINE n == Cardinality(S)
    <2> HIDE DEF S
    <2>5. vol[a] \in [1..n -> [t : Nat, k : Nat]] /\ n \in Nat
      BY <2>2, <2>3, <2>4
    <2> HIDE DEF n
    <2> QED
      BY <2>5, SeqDef DEF Books
  <1>2. FormalClean
    <2>1. DOMAIN vol = Assets /\ vol = [a \in Assets |-> vol[a]]
      BY DEF Init
    <2>2. vol \in [Assets -> Books]
      BY <1>1, <2>1
    <2> QED
      BY <2>2 DEF Init, FormalClean
  <1>3. RecordsClean /\ DraftsClean
    BY DEF Init, RecordsClean, DraftsClean
  <1>4. \A p \in Procs : pc[p] = "idle"
    BY DEF Init
  <1>5. \A l : MemoryClean("idle", l)
    BY DEF MemoryClean, Locked
  <1> QED
    BY <1>2, <1>3, <1>4, <1>5 DEF HandInv, DiskClean

\* Every step keeps the second invariant.
LEMMA StepClean == ASSUME CommitInv, HandInv, [Next]_vars PROVE HandInv'
  <1>1. ASSUME NEW p \in Procs, Work(p) PROVE HandInv'
    <2>1. CASE \/ Bind(p) \/ LockCommit(p) \/ SaveRecord(p) \/ WriteVolume(p) \/ Restore(p)
               \/ LockReconcile(p) \/ LockRollback(p)
      BY <2>1, BindClean, LockCommitClean, SaveRecordClean, WriteVolumeClean, RestoreClean,
         LockOtherClean
    <2>2. CASE LockTimeout(p) \/ WriteRefused(p)
      BY <2>2, GiveUpClean
    <2>3. CASE \/ Verify(p) \/ Advance(p) \/ Recheck(p) \/ Govern(p) \/ RecordApplied(p)
               \/ EnsureLedger(p) \/ Archive(p) \/ Unlink(p) \/ RestoreVerify(p)
      BY <2>3, CloseClean, RecordAppliedClean
    <2> QED
      BY <1>1, <2>1, <2>2, <2>3 DEF Work
  <1>2. ASSUME NEW p \in Procs,
               Maintain(p) \/ Stop(p) \/ Submit(p) \/ Resubmit(p) \/ SubmitRollback(p)
        PROVE  HandInv'
    BY <1>2, MaintainClean, GiveUpClean, SubmitClean
  <1>3. CASE UNCHANGED vars
    <2>1. UNCHANGED <<vol, source, active, archive, receipts, plans, applied, pc, loc>>
      BY <1>3 DEF vars, formal, record, drafts, proc
    <2> QED
      BY <2>1, SameClean DEF HandInv, DiskClean
  <1> QED
    BY <1>1, <1>2, <1>3, OutsideEditClean, SourceEditClean DEF Next

\* In every reachable state the bytes that a sibling's plan, record or applied receipt works
\* on hold nothing by hand that the preimage of the logical plan does not hold.
THEOREM HandInvariant == Spec => []HandInv
  <1>1. CommitInv /\ HandInv /\ [Next]_vars => HandInv'
    BY StepClean
  <1> QED
    BY <1>1, InitClean, CommitInvariant, PTL DEF Spec

\* A sibling never lands on an Entry that somebody wrote by hand after its plan was issued,
\* for any number of hosts, siblings and hand edits: neither the replay before the lock
\* (ValidateParallelSubmission) nor the one under it (reprojectParallelSiblingUnderLock) can be
\* made to prove such bytes, and a record resumed later has none.
THEOREM ForeignFailsClosedAlways == Spec => ForeignFailsClosed
  <1>1. ASSUME CommitInv, HandInv, [Next]_vars, NEW p \in Procs, WriteVolume(p),
               vol'["code"] # vol["code"], Sibling(loc[p].b)
        PROVE  ByHand(vol["code"]) \subseteq ByHand(loc[p].b.r["code"].at["code"])
    <2>1. "code" \in loc[p].tgt /\ vol["code"] = loc[p].pre["code"]
      BY <1>1, WriteVolumeInv DEF Volumes
    <2>2. PlanClean(loc[p])
      BY <1>1, OwnClean DEF WriteVolume, Locked
    <2> QED
      BY <1>1, <2>1, <2>2 DEF PlanClean, Clean
  <1>2. CommitInv /\ HandInv /\ [Next]_vars =>
            [\A p \in Procs :
                (WriteVolume(p) /\ vol'["code"] # vol["code"] /\ Sibling(loc[p].b)) =>
                    ByHand(vol["code"]) \subseteq ByHand(loc[p].b.r["code"].at["code"])]_vars
    BY <1>1
  <1> QED
    BY <1>2, CommitInvariant, HandInvariant, PTL DEF Spec, ForeignFailsClosed
-----------------------------------------------------------------------------
(* What the Baseline says of the sources.  The third invariant: nobody has *)
(* a version that a source has not reached, a batch in memory or on disk   *)
(* says what a host claimed, and whoever is about to replace the Baseline  *)
(* has it as it is.  The parts of it name the state they speak of: the     *)
(* sources (now), the claims (said) and the Baseline (base).               *)

\* Versions that the sources have reached: of all of them, and of some.
Reached(src, now) == src \in [Targets -> Nat] /\ \A t \in Targets : src[t] <= now[t]
SomeReached(src, now) == \A t \in DOMAIN src : t \in Targets /\ src[t] \in 0..now[t]

\* The texts of a batch are claims about versions that the sources have reached.
BatchKnown(b, now, said) ==
    \A v \in WriteSet(b) :
        /\ SomeReached(b.r[v].src, now)
        /\ \A t \in DOMAIN b.r[v].src :
               Home[t] = v /\ <<t, b.text[t], b.r[v].src[t]>> \in said

RecordKnown(rec, now, said) == BatchKnown(rec.b, now, said) /\ Reached(rec.base.src, now)

\* The Baseline is not behind what a batch has entered for Code, ...
Entered(b, base) ==
    \A v \in WriteSet(b) : \A t \in DOMAIN b.r[v].src :
        Home[t] = "code" => base.src[t] >= b.r[v].src[t]

\* ... and not ahead of a batch that is being committed.
NotOvertaken(b, base) ==
    \A v \in WriteSet(b) : \A t \in DOMAIN b.r[v].src : base.src[t] <= b.r[v].src[t]

MemoryKnown(k, l, now, said, base) ==
    /\ k \in {"start", "record_plan", "issue"} => SomeReached(l.src.src, now)
    /\ k \in {"bind", "lock"} \cup Locked => BatchKnown(l.b, now, said)
    /\ k \in {"lock"} \cup Locked /\ l.rec # None => RecordKnown(l.rec, now, said)
    /\ k \in {"record", "write", "advance"} => l.base = base
    /\ k \in {"record", "write"} => NotOvertaken(l.b, base)
    /\ k \in {"recheck", "govern", "apply_record", "ledger"} => Entered(l.b, base)
    /\ k = "restore" => base = l.rec.base

ReceiptsKnown == \A r \in receipts : SomeReached(r.src, source)
RecordsKnown == \A rec \in active \cup archive : RecordKnown(rec, source, claims)
LedgerKnown == \A e \in ledger : BatchKnown(e[2], source, claims) /\ Entered(e[2], baseline)
DiskKnown == Reached(baseline.src, source) /\ ReceiptsKnown /\ RecordsKnown /\ LedgerKnown

VersionInv ==
    DiskKnown /\ \A p \in Procs : MemoryKnown(pc[p], loc[p], source, claims, baseline)

\* The other processes stay where they are.
OthersStay(p) == \A q \in Procs \ {p} : pc'[q] = pc[q] /\ loc'[q] = loc[q]

\* Where a step leaves its process, and the others.
LEMMA OwnMoves ==
    ASSUME CommitInv, NEW p \in Procs
    PROVE  /\ \A k, l : Hold(p, k, l) \/ Take(p, k, l) =>
                  pc'[p] = k /\ loc'[p] = l /\ OthersStay(p)
           /\ \A k : Continue(p, k) => pc'[p] = k /\ loc'[p] = loc[p] /\ OthersStay(p)
           /\ Return(p) => pc'[p] = "idle" /\ OthersStay(p)
  BY DEF CommitInv, Hold, Take, Continue, Return, Goto, OthersStay

\* Versions stay reached when the sources move on, and claims stay claims.
LEMMA KnownKept ==
    ASSUME NEW s \in [Targets -> Nat], NEW n \in [Targets -> Nat], \A t \in Targets : s[t] <= n[t],
           NEW c, NEW d, c \subseteq d
    PROVE  /\ \A src : Reached(src, s) => Reached(src, n)
           /\ \A src : SomeReached(src, s) => SomeReached(src, n)
           /\ \A b : BatchKnown(b, s, c) => BatchKnown(b, n, d)
           /\ \A rec : RecordKnown(rec, s, c) => RecordKnown(rec, n, d)
  <1>1. ASSUME NEW src, Reached(src, s) PROVE Reached(src, n)
    BY <1>1 DEF Reached
  <1>2. ASSUME NEW src, SomeReached(src, s) PROVE SomeReached(src, n)
    BY <1>2 DEF SomeReached
  <1>3. ASSUME NEW b, BatchKnown(b, s, c) PROVE BatchKnown(b, n, d)
    BY <1>2, <1>3 DEF BatchKnown
  <1>4. ASSUME NEW rec, RecordKnown(rec, s, c) PROVE RecordKnown(rec, n, d)
    BY <1>1, <1>3, <1>4 DEF RecordKnown
  <1> QED
    BY <1>1, <1>2, <1>3, <1>4

\* So does what a process has in memory, as long as the Baseline stays or the process has
\* no business with it.
LEMMA MemoryKept ==
    ASSUME NEW s \in [Targets -> Nat], NEW n \in [Targets -> Nat], \A t \in Targets : s[t] <= n[t],
           NEW c, NEW d, c \subseteq d, NEW k, NEW l, NEW base, NEW other,
           other = base \/ k \notin Locked, MemoryKnown(k, l, s, c, base)
    PROVE  MemoryKnown(k, l, n, d, other)
  <1>1. /\ \A src : SomeReached(src, s) => SomeReached(src, n)
        /\ \A b : BatchKnown(b, s, c) => BatchKnown(b, n, d)
        /\ \A rec : RecordKnown(rec, s, c) => RecordKnown(rec, n, d)
    BY KnownKept
  <1> QED
    BY <1>1 DEF MemoryKnown, Locked

\* A step of p keeps the invariant if it leaves p's memory and the disk so; the Baseline is
\* replaced by the holder of the lock.
LEMMA KnownStep ==
    ASSUME CommitInv, HandInv, VersionInv, NEW p \in Procs, OthersStay(p),
           UNCHANGED source, claims \subseteq claims', UNCHANGED baseline \/ lock = p,
           DiskKnown', MemoryKnown(pc'[p], loc'[p], source', claims', baseline')
    PROVE  VersionInv'
  <1>1. source \in [Targets -> Nat] /\ \A t \in Targets : source[t] <= source[t]
    BY DEF HandInv, DiskClean, FormalClean
  <1>2. ASSUME NEW q \in Procs \ {p} PROVE MemoryKnown(pc'[q], loc'[q], source', claims', baseline')
    <2>1. baseline' = baseline \/ pc[q] \notin Locked
      BY DEF CommitInv
    <2>2. MemoryKnown(pc[q], loc[q], source, claims, baseline)
      BY DEF VersionInv
    <2>3. MemoryKnown(pc[q], loc[q], source, claims', baseline')
      BY <1>1, <2>1, <2>2, MemoryKept
    <2> QED
      BY <2>3 DEF OthersStay
  <1> QED
    BY <1>2 DEF VersionInv

\* The files that a step leaves alone.
LEMMA SameKnown ==
    ASSUME HandInv, VersionInv, UNCHANGED source, claims \subseteq claims'
    PROVE  /\ UNCHANGED baseline => Reached(baseline.src, source)'
           /\ UNCHANGED receipts => ReceiptsKnown'
           /\ UNCHANGED <<active, archive>> => RecordsKnown'
           /\ UNCHANGED <<baseline, ledger>> => LedgerKnown'
  <1>1. source \in [Targets -> Nat] /\ \A t \in Targets : source[t] <= source[t]
    BY DEF HandInv, DiskClean, FormalClean
  <1>2. /\ \A b : BatchKnown(b, source, claims) => BatchKnown(b, source, claims')
        /\ \A rec : RecordKnown(rec, source, claims) => RecordKnown(rec, source, claims')
    BY <1>1, KnownKept
  <1>3. DiskKnown
    BY DEF VersionInv
  <1>4. UNCHANGED baseline => Reached(baseline.src, source)'
    BY <1>3 DEF DiskKnown, Reached
  <1>5. UNCHANGED receipts => ReceiptsKnown'
    BY <1>3 DEF DiskKnown, ReceiptsKnown
  <1>6. UNCHANGED <<active, archive>> => RecordsKnown'
    BY <1>2, <1>3 DEF DiskKnown, RecordsKnown
  <1>7. UNCHANGED <<baseline, ledger>> => LedgerKnown'
    BY <1>2, <1>3 DEF DiskKnown, LedgerKnown
  <1> QED
    BY <1>4, <1>5, <1>6, <1>7

\* A call that returns.
LEMMA ReturnKnown ==
    ASSUME CommitInv, HandInv, VersionInv, NEW p \in Procs, Return(p),
           UNCHANGED <<source, claims, baseline>>, DiskKnown'
    PROVE  VersionInv'
  <1>1. pc'[p] = "idle" /\ OthersStay(p)
    BY OwnMoves
  <1>2. MemoryKnown(pc'[p], loc'[p], source', claims', baseline')
    BY <1>1 DEF MemoryKnown, Locked
  <1> QED
    BY <1>1, <1>2, KnownStep

\* The receipts that Maintain issues are for the versions of this moment, or of the moment
\* it assessed the sources.
LEMMA MaintainKnown ==
    ASSUME CommitInv, HandInv, VersionInv, NEW p \in Procs, Maintain(p)
    PROVE  VersionInv'
  <1> DEFINE l == loc[p]
             snap == l.snap
             Reading == {"assess", "start", "record_plan", "issue", "deliver"}
  <1>1. UNCHANGED <<source, baseline, active, archive, ledger, claims>>
    BY DEF Maintain, MaintainLoad, MaintainAssess, MaintainStart, MaintainRecord, MaintainIssue,
           MaintainDeliver, formal, record, history
  <1>2. /\ Reached(baseline.src, source)' /\ RecordsKnown' /\ LedgerKnown'
        /\ UNCHANGED receipts => ReceiptsKnown'
    BY <1>1, SameKnown
  <1>3. ReceiptsKnown /\ DOMAIN l = Fields /\ MemoryKnown(pc[p], l, source, claims, baseline)
    BY OwnState DEF VersionInv, DiskKnown
  <1>4. \A S : \A n : Cut(S, n) \subseteq S /\ DatabaseCut(S, n) \subseteq S
    BY DEF Cut, DatabaseCut
  <1>5. \A S \in SUBSET Targets : \A y : SomeReached(Receipt(S, snap, y).src, source)
    BY DEF SomeReached, Receipt, HandInv, DiskClean, FormalClean
  <1>6. ASSUME NEW k \in Reading, pc'[p] = k, OthersStay(p), ReceiptsKnown',
               k \in {"start", "record_plan", "issue"} => SomeReached(loc'[p].src.src, source)
        PROVE  VersionInv'
    <2>1. MemoryKnown(pc'[p], loc'[p], source', claims', baseline')
      BY <1>1, <1>6 DEF MemoryKnown, Locked
    <2> QED
      BY <1>1, <1>2, <1>6, <2>1, KnownStep DEF DiskKnown
  <1>7. ASSUME Return(p), ReceiptsKnown' PROVE VersionInv'
    BY <1>1, <1>2, <1>7, ReturnKnown DEF DiskKnown
  <1>8. CASE MaintainLoad(p)
    <2>1. pc'[p] = "assess" /\ OthersStay(p) /\ UNCHANGED receipts
      BY <1>8, OwnMoves DEF MaintainLoad, drafts
    <2> QED
      BY <1>2, <1>6, <2>1
  <1>9. CASE MaintainAssess(p)
    <2>1. \A v : Actionable(snap, v) \in SUBSET Targets
      BY DEF Actionable
    <2>2. \A v : \A n : \A y :
              /\ SomeReached(Receipt(Cut(Actionable(snap, v), n), snap, y).src, source)
              /\ SomeReached(Receipt(DatabaseCut(Actionable(snap, v), n), snap, y).src, source)
      BY <1>4, <1>5, <2>1
    <2>3. CASE Return(p) /\ UNCHANGED drafts
      BY <1>2, <1>7, <2>3 DEF drafts
    <2>4. CASE IssueSingle(p, snap)
      <3>1. ReceiptsKnown'
        BY <1>1, <1>3, <2>2, <2>4 DEF IssueSingle, DatabaseReceipts, ReceiptsKnown
      <3> QED
        BY <1>7, <2>4, <3>1 DEF IssueSingle
    <2>5. CASE IssueParallel(p, snap)
      <3> DEFINE plan == PlanOnRecord
                 work == Actionable(snap, "code")
                 d == [l EXCEPT !.plan = plan, !.todo = Outstanding(plan) \ plan.delivered]
                 m == [l EXCEPT !.src = Receipt(work, snap, TRUE)]
      <3>1. /\ Return(p) \/ Hold(p, "deliver", d) \/ Hold(p, "start", m)
            /\ \E sibling : IssueDatabase(snap, sibling)
        BY <2>5 DEF IssueParallel
      <3>2. ReceiptsKnown'
        BY <1>1, <1>3, <2>2, <3>1 DEF IssueDatabase, DatabaseReceipts, ReceiptsKnown
      <3>3. ASSUME Hold(p, "deliver", d) PROVE VersionInv'
        BY <1>6, <3>2, <3>3, OwnMoves
      <3>4. ASSUME Hold(p, "start", m) PROVE VersionInv'
        <4>1. SomeReached(Receipt(work, snap, TRUE).src, source)
          BY <1>5, <2>1
        <4>2. m.src = Receipt(work, snap, TRUE)
          BY <1>3 DEF Fields
        <4>3. pc'[p] = "start" /\ loc'[p] = m /\ OthersStay(p)
          BY <3>4, OwnMoves
        <4> HIDE DEF m, work
        <4> QED
          BY <1>6, <3>2, <4>1, <4>2, <4>3
      <3> QED
        BY <1>7, <3>1, <3>2, <3>3, <3>4
    <2> QED
      BY <1>9, <2>3, <2>4, <2>5 DEF MaintainAssess
  <1>10. CASE MaintainStart(p) \/ MaintainRecord(p)
    <2>1. /\ UNCHANGED receipts /\ pc[p] \in {"start", "record_plan"}
          /\ Continue(p, "record_plan") \/ Continue(p, "issue")
      BY <1>10 DEF MaintainStart, MaintainRecord
    <2>2. pc'[p] \in {"record_plan", "issue"} /\ loc'[p] = l /\ OthersStay(p)
      BY <2>1, OwnMoves
    <2>3. SomeReached(l.src.src, source)
      BY <1>3, <2>1 DEF MemoryKnown
    <2> QED
      BY <1>2, <1>6, <2>1, <2>2, <2>3
  <1>11. CASE MaintainIssue(p)
    <2> DEFINE all == l.src
               cuts == {Cut(DOMAIN all.src, i) : i \in 1..Parallel} \ {{}}
               one(c) == [all EXCEPT !.src = [t \in c |-> all.src[t]]]
               siblings == {one(c) : c \in cuts}
    <2>1. /\ receipts' = receipts \cup siblings
          /\ pc'[p] = "deliver" /\ OthersStay(p)
      BY <1>11, OwnMoves DEF MaintainIssue
    <2>2. SomeReached(all.src, source) /\ ReceiptSound(all)
      BY <1>3, <1>11, OwnClean DEF MaintainIssue, MemoryKnown, MemoryClean
    <2>3. ASSUME NEW c \in SUBSET DOMAIN all.src PROVE SomeReached(one(c).src, source)
      <3>1. one(c).src = [t \in c |-> all.src[t]]
        BY <2>2 DEF ReceiptSound
      <3> HIDE DEF one
      <3> QED
        BY <2>2, <3>1 DEF SomeReached
    <2>4. \A c \in cuts : SomeReached(one(c).src, source)
      BY <1>4, <2>3
    <2> HIDE DEF one
    <2>5. ReceiptsKnown'
      BY <1>1, <1>3, <2>1, <2>4 DEF ReceiptsKnown
    <2> QED
      BY <1>6, <2>1, <2>5
  <1>12. CASE MaintainDeliver(p)
    BY <1>2, <1>7, <1>12 DEF MaintainDeliver
  <1> QED
    BY <1>8, <1>9, <1>10, <1>11, <1>12 DEF Maintain

\* A batch is submitted with its claims.
LEMMA StartKnown ==
    ASSUME CommitInv, HandInv, VersionInv, NEW p \in Procs, NEW op, NEW b, Start(p, op, b),
           \A v \in WriteSet(b) : /\ SomeReached(b.r[v].src, source)
                                  /\ \A t \in DOMAIN b.r[v].src : Home[t] = v
    PROVE  VersionInv'
  <1> DEFINE m == [Idle EXCEPT !.op = op, !.b = b, !.snap = vol, !.base = baseline]
  <1>1. /\ UNCHANGED <<source, baseline, active, archive, ledger, receipts>>
        /\ claims' = claims \cup {<<t, b.text[t], SourceVersion(b, t)>> : t \in TargetsOf(b.r)}
        /\ Hold(p, "bind", m)
    BY DEF Start, formal, record, drafts
  <1>2. pc'[p] = "bind" /\ loc'[p] = m /\ OthersStay(p)
    BY <1>1, OwnMoves
  <1>3. m.b = b
    BY DEF Idle
  <1> HIDE DEF m
  <1>4. BatchKnown(b, source, claims')
    BY <1>1 DEF BatchKnown, SourceVersion, TargetsOf, WriteSet
  <1>5. MemoryKnown(pc'[p], loc'[p], source', claims', baseline')
    BY <1>1, <1>2, <1>3, <1>4 DEF MemoryKnown, Locked
  <1>6. DiskKnown'
    BY <1>1, SameKnown DEF DiskKnown
  <1> QED
    BY <1>1, <1>2, <1>5, <1>6, KnownStep

\* What Submit, Resubmit and SubmitRollback start answers receipts, or is on record.
LEMMA SubmitKnown ==
    ASSUME CommitInv, HandInv, VersionInv, NEW p \in Procs,
           Submit(p) \/ Resubmit(p) \/ SubmitRollback(p)
    PROVE  VersionInv'
  <1>1. CASE Submit(p)
    <2>1. PICK W \in SUBSET Volumes : \E r \in [W -> receipts] : \E text :
              /\ \A v \in W : \A t \in DOMAIN r[v].src : Home[t] = v
              /\ Start(p, "apply", [r |-> r, text |-> text])
      BY <1>1 DEF Submit
    <2>2. PICK r \in [W -> receipts] : \E text :
              /\ \A v \in W : \A t \in DOMAIN r[v].src : Home[t] = v
              /\ Start(p, "apply", [r |-> r, text |-> text])
      BY <2>1
    <2>3. PICK text : /\ \A v \in W : \A t \in DOMAIN r[v].src : Home[t] = v
                      /\ Start(p, "apply", [r |-> r, text |-> text])
      BY <2>2
    <2>4. \A v \in W : SomeReached(r[v].src, source)
      BY DEF VersionInv, DiskKnown, ReceiptsKnown
    <2> DEFINE b == [r |-> r, text |-> text]
    <2>5. b.r = r /\ WriteSet(b) = W
      BY DEF WriteSet
    <2>6. Start(p, "apply", b)
      BY <2>3
    <2> HIDE DEF b
    <2> QED
      BY <2>3, <2>4, <2>5, <2>6, StartKnown
  <1>2. \A rec \in active \cup archive : BatchKnown(rec.b, source, claims)
    BY DEF VersionInv, DiskKnown, RecordsKnown, RecordKnown
  <1>3. CASE Resubmit(p) \/ SubmitRollback(p)
    <2>1. PICK rec \in active \cup archive : Start(p, "apply", rec.b) \/ Start(p, "rollback", rec.b)
      BY <1>3 DEF Resubmit, SubmitRollback
    <2> DEFINE b == rec.b
    <2>2. \A v \in WriteSet(b) : /\ SomeReached(b.r[v].src, source)
                                 /\ \A t \in DOMAIN b.r[v].src : Home[t] = v
      BY <1>2 DEF BatchKnown
    <2>3. Start(p, "apply", b) \/ Start(p, "rollback", b)
      BY <2>1
    <2> HIDE DEF b
    <2> QED
      BY <2>2, <2>3, StartKnown
  <1> QED
    BY <1>1, <1>3

\* What a batch says of a target, whichever way it is asked.
LEMMA VersionOf ==
    ASSUME NEW b, NEW now, NEW said, BatchKnown(b, now, said),
           NEW v \in WriteSet(b), NEW t \in DOMAIN b.r[v].src
    PROVE  /\ t \in Targets /\ Home[t] = v /\ b.r[v].src[t] \in 0..now[t]
           /\ <<t, b.text[t], b.r[v].src[t]>> \in said
  BY DEF BatchKnown, SomeReached

\* Its source version is the one of the receipt that has it.
LEMMA VersionIs ==
    ASSUME NEW b, NEW now, NEW said, BatchKnown(b, now, said),
           NEW v \in WriteSet(b), NEW t \in DOMAIN b.r[v].src
    PROVE  t \in TargetsOf(b.r) /\ SourceVersion(b, t) = b.r[v].src[t]
  BY DEF BatchKnown, TargetsOf, SourceVersion, WriteSet

\* The targets of a batch are those of its receipts.
LEMMA TargetOf ==
    ASSUME NEW b, NEW t \in TargetsOf(b.r)
    PROVE  \E v \in WriteSet(b) : t \in DOMAIN b.r[v].src
  BY DEF TargetsOf, WriteSet

\* The record that Bind finds is on disk.
LEMMA BindKnown ==
    ASSUME CommitInv, HandInv, VersionInv, NEW p \in Procs, Bind(p)
    PROVE  VersionInv'
  <1> DEFINE o == loc[p]
             rec == IF Recorded(o.b) = {} THEN None ELSE CHOOSE x \in Recorded(o.b) : TRUE
  <1>1. /\ UNCHANGED <<source, baseline, active, archive, ledger, receipts, claims>>
        /\ pc[p] = "bind"
    BY DEF Bind, formal, record, drafts, history
  <1>2. DiskKnown'
    BY <1>1, SameKnown DEF DiskKnown
  <1>3. \/ Return(p)
        \/ \E op, pre, post, tgt :
               Hold(p, "lock", [o EXCEPT !.op = op, !.rec = rec, !.pre = pre, !.post = post,
                                         !.tgt = tgt])
    BY DEF Bind
  <1>4. rec # None => RecordKnown(rec, source, claims)
    BY DEF Recorded, RecordsOf, VersionInv, DiskKnown, RecordsKnown
  <1>5. DOMAIN o = Fields /\ MemoryKnown(pc[p], o, source, claims, baseline)
    BY OwnState DEF VersionInv
  <1> HIDE DEF rec
  <1>6. ASSUME NEW op, NEW pre, NEW post, NEW tgt,
               Hold(p, "lock", [o EXCEPT !.op = op, !.rec = rec, !.pre = pre, !.post = post,
                                         !.tgt = tgt])
        PROVE  VersionInv'
    <2> DEFINE m == [o EXCEPT !.op = op, !.rec = rec, !.pre = pre, !.post = post, !.tgt = tgt]
    <2>1. pc'[p] = "lock" /\ loc'[p] = m /\ OthersStay(p)
      BY <1>6, OwnMoves
    <2>2. m.b = o.b /\ m.rec = rec
      BY <1>5 DEF Fields
    <2> HIDE DEF m
    <2>3. MemoryKnown(pc'[p], loc'[p], source', claims', baseline')
      BY <1>1, <1>4, <1>5, <2>1, <2>2 DEF MemoryKnown, Locked
    <2> QED
      BY <1>1, <1>2, <2>1, <2>3, KnownStep
  <1> QED
    BY <1>1, <1>2, <1>3, <1>6, ReturnKnown

\* A sibling that is projected again keeps its batch.
LEMMA ReprojectKeeps ==
    ASSUME NEW l, DOMAIN l = Fields
    PROVE  /\ DOMAIN Reproject(l) = Fields /\ Reproject(l).b = l.b /\ Reproject(l).rec = l.rec
           /\ Reproject(l).tgt = l.tgt
  <1> DEFINE c == Project(l.b, "code", vol["code"])
             m == [l EXCEPT !.pre["code"] = vol["code"], !.post["code"] = c]
  <1>1. Reproject(l) \in {l, m}
    BY DEF Reproject, Reprojection
  <1>2. DOMAIN m = Fields /\ m.b = l.b /\ m.rec = l.rec /\ m.tgt = l.tgt
    <2> HIDE DEF c
    <2> QED
      BY DEF Fields
  <1> HIDE DEF m
  <1> QED
    BY <1>1, <1>2

\* Who takes the lock reads the Baseline under it; a commit finds its sources as its batch
\* has them, and a rollback the Baseline as its record has it.
LEMMA LockKnown ==
    ASSUME CommitInv, HandInv, VersionInv, NEW p \in Procs,
           LockCommit(p) \/ LockReconcile(p) \/ LockRollback(p)
    PROVE  VersionInv'
  <1> DEFINE o == loc[p]
             l == Reproject(o)
  <1>1. /\ UNCHANGED <<source, baseline, active, archive, ledger, receipts, claims>>
        /\ pc[p] = "lock"
    BY DEF LockCommit, LockReconcile, LockRollback, formal, record, drafts, history
  <1>2. DiskKnown' /\ Reached(baseline.src, source)
    BY <1>1, SameKnown DEF DiskKnown, VersionInv
  <1>3. DOMAIN o = Fields /\ MemoryKnown(pc[p], o, source, claims, baseline)
    BY OwnState DEF VersionInv
  <1>4. BatchKnown(o.b, source, claims) /\ (o.rec # None => RecordKnown(o.rec, source, claims))
    BY <1>1, <1>3 DEF MemoryKnown
  <1>5. ASSUME NEW k \in {"record", "write", "advance", "restore"}, NEW m, Take(p, k, m),
               m.b = o.b, m.rec = o.rec, k # "restore" => m.base = baseline,
               k \in {"record", "write"} => NotOvertaken(o.b, baseline),
               k = "restore" => baseline = m.rec.base
        PROVE  VersionInv'
    <2>1. pc'[p] = k /\ loc'[p] = m /\ OthersStay(p)
      BY <1>5, OwnMoves
    <2>2. MemoryKnown(pc'[p], loc'[p], source', claims', baseline')
      BY <1>1, <1>4, <1>5, <2>1 DEF MemoryKnown
    <2> QED
      BY <1>1, <1>2, <2>1, <2>2, KnownStep
  <1>6. CASE LockCommit(p)
    <2> DEFINE m == [l EXCEPT !.base = baseline, !.todo = l.tgt]
               k == IF l.rec = None /\ l.tgt # {} THEN "record" ELSE "write"
    <2>1. Return(p) \/ (Prewrite(l) /\ Take(p, k, m))
      BY <1>6 DEF LockCommit
    <2>2. k \in {"record", "write"}
      OBVIOUS
    <2> HIDE DEF l, k
    <2>3. DOMAIN l = Fields /\ l.b = o.b /\ l.rec = o.rec
      BY <1>3, ReprojectKeeps DEF l
    <2>4. m.b = o.b /\ m.rec = o.rec /\ m.base = baseline
      BY <2>3 DEF Fields
    <2> HIDE DEF m
    <2>5. ASSUME Prewrite(l) PROVE NotOvertaken(o.b, baseline)
      <3> DEFINE b == o.b
      <3>1. \A t \in TargetsOf(b.r) : source[t] = SourceVersion(b, t)
        BY <2>3, <2>5 DEF Prewrite
      <3>2. BatchKnown(b, source, claims)
        BY <1>4
      <3> HIDE DEF b
      <3>3. ASSUME NEW v \in WriteSet(b), NEW t \in DOMAIN b.r[v].src
            PROVE  baseline.src[t] <= b.r[v].src[t]
        <4>1. t \in TargetsOf(b.r) /\ SourceVersion(b, t) = b.r[v].src[t]
          BY <3>2, VersionIs
        <4>2. t \in Targets
          BY <3>2, VersionOf
        <4> QED
          BY <1>2, <3>1, <4>1, <4>2 DEF Reached
      <3>4. NotOvertaken(b, baseline)
        BY <3>3 DEF NotOvertaken
      <3> QED
        BY <3>4 DEF b
    <2> QED
      BY <1>1, <1>2, <1>5, <2>1, <2>2, <2>4, <2>5, ReturnKnown
  <1>7. CASE LockReconcile(p)
    <2> DEFINE m == [o EXCEPT !.base = baseline]
    <2>1. Return(p) \/ Take(p, "advance", m)
      BY <1>7 DEF LockReconcile
    <2>2. m.b = o.b /\ m.rec = o.rec /\ m.base = baseline
      BY <1>3 DEF Fields
    <2> HIDE DEF m
    <2> QED
      BY <1>1, <1>2, <1>5, <2>1, <2>2, ReturnKnown
  <1>8. CASE LockRollback(p)
    <2> DEFINE back == {v \in DOMAIN o.rec.pre : vol[v] # o.rec.pre[v]}
               m == [o EXCEPT !.todo = back]
    <2>1. Return(p) \/ (baseline = o.rec.base /\ Take(p, "restore", m))
      BY <1>8 DEF LockRollback
    <2> HIDE DEF back
    <2>2. m.b = o.b /\ m.rec = o.rec
      BY <1>3 DEF Fields
    <2> HIDE DEF m
    <2> QED
      BY <1>1, <1>2, <1>5, <2>1, <2>2, ReturnKnown
  <1> QED
    BY <1>6, <1>7, <1>8

\* The record keeps the Baseline of this moment.
LEMMA SaveRecordKnown ==
    ASSUME CommitInv, HandInv, VersionInv, NEW p \in Procs, SaveRecord(p)
    PROVE  VersionInv'
  <1> DEFINE o == loc[p]
             rec == RecordFor(o)
             m == [o EXCEPT !.rec = rec]
  <1>1. /\ UNCHANGED <<source, baseline, archive, ledger, receipts, claims>> /\ pc[p] = "record"
        /\ active' \subseteq active \cup {rec} /\ (Return(p) \/ Hold(p, "write", m))
    BY DEF SaveRecord, formal, drafts, history
  <1>2. /\ DOMAIN o = Fields /\ MemoryKnown("record", o, source, claims, baseline)
        /\ Reached(baseline.src, source) /\ RecordsKnown
    BY <1>1, OwnState DEF VersionInv, DiskKnown
  <1>3. /\ BatchKnown(o.b, source, claims) /\ o.base = baseline /\ NotOvertaken(o.b, baseline)
    BY <1>2 DEF MemoryKnown, Locked
  <1>4. rec.b = o.b /\ rec.base = baseline
    BY DEF RecordFor
  <1> HIDE DEF rec
  <1>5. RecordKnown(rec, source, claims)
    BY <1>2, <1>3, <1>4 DEF RecordKnown
  <1>6. RecordsKnown'
    BY <1>1, <1>2, <1>5 DEF RecordsKnown
  <1>7. DiskKnown'
    BY <1>1, <1>6, SameKnown DEF DiskKnown
  <1>8. m.b = o.b /\ m.rec = rec /\ m.base = o.base
    BY <1>2 DEF Fields
  <1> HIDE DEF m
  <1>9. ASSUME Hold(p, "write", m) PROVE VersionInv'
    <2>1. pc'[p] = "write" /\ loc'[p] = m /\ OthersStay(p)
      BY <1>9, OwnMoves
    <2>2. MemoryKnown(pc'[p], loc'[p], source', claims', baseline')
      BY <1>1, <1>3, <1>5, <1>8, <2>1 DEF MemoryKnown
    <2> QED
      BY <1>1, <1>7, <2>1, <2>2, KnownStep
  <1> QED
    BY <1>1, <1>7, <1>9, ReturnKnown

\* Writing a Volume and putting it back leave everything else alone.
LEMMA BytesKnown ==
    ASSUME CommitInv, HandInv, VersionInv, NEW p \in Procs, WriteVolume(p) \/ Restore(p)
    PROVE  VersionInv'
  <1> DEFINE o == loc[p]
  <1>1. /\ UNCHANGED <<source, baseline, active, archive, ledger, receipts, claims>>
        /\ pc[p] \in {"write", "restore"}
        /\ Return(p) \/ \E v : Hold(p, pc[p], [o EXCEPT !.todo = @ \ {v}])
    BY DEF WriteVolume, Restore, record, drafts, history
  <1>2. DiskKnown'
    BY <1>1, SameKnown DEF DiskKnown
  <1>3. DOMAIN o = Fields /\ MemoryKnown(pc[p], o, source, claims, baseline)
    BY OwnState DEF VersionInv
  <1>4. ASSUME NEW v, Hold(p, pc[p], [o EXCEPT !.todo = @ \ {v}]) PROVE VersionInv'
    <2> DEFINE m == [o EXCEPT !.todo = @ \ {v}]
    <2>1. pc'[p] = pc[p] /\ loc'[p] = m /\ OthersStay(p)
      BY <1>4, OwnMoves
    <2>2. m.b = o.b /\ m.rec = o.rec /\ m.base = o.base
      BY <1>3 DEF Fields
    <2> HIDE DEF m
    <2>3. MemoryKnown(pc'[p], loc'[p], source', claims', baseline')
      BY <1>1, <1>3, <2>1, <2>2 DEF MemoryKnown
    <2> QED
      BY <1>1, <1>2, <2>1, <2>3, KnownStep
  <1> QED
    BY <1>1, <1>2, <1>4, ReturnKnown

\* The Baseline advances to the versions of the batch, which for Code are those of the
\* sources in this moment: no version that anybody has entered before is ahead of them.
LEMMA AdvanceKnown ==
    ASSUME CommitInv, HandInv, VersionInv, NEW p \in Procs, Advance(p)
    PROVE  VersionInv'
  <1> DEFINE o == loc[p]
             b == o.b
             new == AdvancedBaseline(o)
  <1>1. /\ UNCHANGED <<source, active, archive, ledger, receipts, claims>> /\ pc[p] = "advance"
        /\ \/ Return(p) /\ UNCHANGED baseline
           \/ /\ \A t \in TargetsOf(b.r) : Home[t] = "code" => source[t] = SourceVersion(b, t)
              /\ baseline' = new /\ Continue(p, "recheck")
    BY DEF Advance, record, drafts
  <1>2. CASE Return(p) /\ UNCHANGED baseline
    <2>1. DiskKnown'
      BY <1>1, <1>2, SameKnown DEF DiskKnown
    <2> QED
      BY <1>1, <1>2, <2>1, ReturnKnown
  <1>3. CASE /\ \A t \in TargetsOf(b.r) : Home[t] = "code" => source[t] = SourceVersion(b, t)
             /\ baseline' = new /\ Continue(p, "recheck")
    <2>1. MemoryKnown("advance", o, source, claims, baseline) /\ DiskKnown
      BY <1>1 DEF VersionInv
    <2>2. /\ BatchKnown(b, source, claims) /\ o.base = baseline
          /\ o.rec # None => RecordKnown(o.rec, source, claims)
      BY <2>1 DEF MemoryKnown, Locked
    <2>3. new.src = [t \in Targets |-> IF t \in TargetsOf(b.r) THEN SourceVersion(b, t)
                                                               ELSE baseline.src[t]]
      BY <2>2 DEF AdvancedBaseline
    <2>4. Reached(baseline.src, source) /\ source \in [Targets -> Nat]
      BY <2>1 DEF DiskKnown, HandInv, DiskClean, FormalClean
    <2> HIDE DEF new, b
    <2>5. ASSUME NEW t \in TargetsOf(b.r) PROVE SourceVersion(b, t) \in 0..source[t]
      <3>1. PICK v \in WriteSet(b) : t \in DOMAIN b.r[v].src
        BY TargetOf
      <3>2. b.r[v].src[t] \in 0..source[t]
        BY <2>2, <3>1, VersionOf
      <3>3. SourceVersion(b, t) = b.r[v].src[t]
        BY <2>2, <3>1, VersionIs
      <3> QED
        BY <3>2, <3>3
    <2>6. Reached(new.src, source)
      BY <2>3, <2>4, <2>5 DEF Reached
    <2>7. \A t \in Targets : Home[t] = "code" => new.src[t] >= baseline.src[t]
      BY <1>3, <2>3, <2>4 DEF Reached
    <2>8. ASSUME NEW x, BatchKnown(x, source, claims), Entered(x, baseline) PROVE Entered(x, new)
      <3>1. ASSUME NEW v \in WriteSet(x), NEW t \in DOMAIN x.r[v].src, Home[t] = "code"
            PROVE  new.src[t] >= x.r[v].src[t]
        <4>1. t \in Targets /\ x.r[v].src[t] \in 0..source[t]
          BY <2>8, VersionOf
        <4>2. baseline.src[t] >= x.r[v].src[t] /\ new.src[t] >= baseline.src[t]
          BY <2>7, <2>8, <3>1, <4>1 DEF Entered
        <4>3. new.src[t] \in Nat /\ baseline.src[t] \in Nat /\ source[t] \in Nat
          BY <2>4, <2>6, <4>1 DEF Reached
        <4> QED
          BY <4>1, <4>2, <4>3
      <3> QED
        BY <3>1 DEF Entered
    <2>9. Entered(b, new)
      <3>1. ASSUME NEW v \in WriteSet(b), NEW t \in DOMAIN b.r[v].src PROVE new.src[t] = b.r[v].src[t]
        <4>1. t \in Targets
          BY <2>2, VersionOf
        <4>2. t \in TargetsOf(b.r) /\ SourceVersion(b, t) = b.r[v].src[t]
          BY <2>2, VersionIs
        <4> QED
          BY <2>3, <4>1, <4>2
      <3>2. ASSUME NEW v \in WriteSet(b), NEW t \in DOMAIN b.r[v].src
            PROVE  new.src[t] >= b.r[v].src[t]
        <4>1. new.src[t] = b.r[v].src[t]
          BY <3>1
        <4>2. b.r[v].src[t] \in 0..source[t] /\ t \in Targets
          BY <2>2, VersionOf
        <4> QED
          BY <2>4, <4>1, <4>2
      <3> QED
        BY <3>2 DEF Entered
    <2>10. LedgerKnown'
      BY <1>1, <1>3, <2>1, <2>8 DEF DiskKnown, LedgerKnown
    <2>11. Reached(baseline.src, source)'
      BY <1>1, <1>3, <2>6 DEF Reached
    <2>12. DiskKnown'
      BY <1>1, <2>10, <2>11, SameKnown DEF DiskKnown
    <2>13. pc'[p] = "recheck" /\ loc'[p] = o /\ OthersStay(p) /\ lock = p
      BY <1>1, <1>3, OwnMoves, OwnState DEF Locked
    <2>14. MemoryKnown(pc'[p], loc'[p], source', claims', baseline')
      BY <1>1, <1>3, <2>2, <2>9, <2>13 DEF MemoryKnown, b
    <2> QED
      BY <1>1, <2>12, <2>13, <2>14, KnownStep
  <1> QED
    BY <1>1, <1>2, <1>3

\* What else closes a batch leaves the Baseline alone; the ledger closes a batch that the
\* Baseline has.
LEMMA CloseKnown ==
    ASSUME CommitInv, HandInv, VersionInv, NEW p \in Procs,
           \/ Verify(p) \/ Recheck(p) \/ Govern(p) \/ RecordApplied(p) \/ EnsureLedger(p)
           \/ Archive(p) \/ Unlink(p) \/ RestoreVerify(p)
    PROVE  VersionInv'
  <1> DEFINE o == loc[p]
  <1>1. UNCHANGED <<source, baseline, receipts, claims>>
    BY DEF Verify, Recheck, Govern, RecordApplied, EnsureLedger, Archive, Unlink, RestoreVerify,
           formal, drafts, history
  <1>2. \/ Return(p)
        \/ pc[p] = "write" /\ Continue(p, "advance")
        \/ pc[p] = "recheck" /\ Continue(p, "govern")
        \/ pc[p] = "govern" /\ (Continue(p, "apply_record") \/ Continue(p, "ledger"))
        \/ pc[p] = "apply_record" /\ Continue(p, "ledger")
        \/ pc[p] \in {"ledger", "restore"} /\ Continue(p, "archive")
        \/ pc[p] = "archive" /\ Continue(p, "unlink")
    BY DEF Verify, Recheck, Govern, RecordApplied, EnsureLedger, Archive, Unlink, RestoreVerify
  <1>3. active' \subseteq active /\ archive' \subseteq archive \cup active
    BY DEF Verify, Recheck, Govern, RecordApplied, EnsureLedger, Archive, Unlink, RestoreVerify,
           record, RecordsOf
  <1>4. UNCHANGED ledger \/ (pc[p] = "ledger" /\ ledger' = ledger \cup {<<o.op, o.b>>})
    BY DEF Verify, Recheck, Govern, RecordApplied, EnsureLedger, Archive, Unlink, RestoreVerify,
           record
  <1>5. MemoryKnown(pc[p], o, source, claims, baseline) /\ DiskKnown
    BY DEF VersionInv
  <1>6. pc[p] = "ledger" => BatchKnown(o.b, source, claims) /\ Entered(o.b, baseline)
    BY <1>5 DEF MemoryKnown, Locked
  <1>7. LedgerKnown'
    BY <1>1, <1>4, <1>5, <1>6 DEF DiskKnown, LedgerKnown
  <1>8. RecordsKnown'
    BY <1>1, <1>3, <1>5 DEF DiskKnown, RecordsKnown
  <1>9. DiskKnown'
    BY <1>1, <1>7, <1>8, SameKnown DEF DiskKnown
  <1>10. ASSUME NEW k, Continue(p, k), ~Return(p) PROVE VersionInv'
    <2>1. pc'[p] = k /\ loc'[p] = o /\ OthersStay(p)
      BY <1>10, OwnMoves
    <2>2. /\ Continue(p, "advance") => k = "advance"
          /\ Continue(p, "govern") => k = "govern"
          /\ Continue(p, "apply_record") => k = "apply_record"
          /\ Continue(p, "ledger") => k = "ledger"
          /\ Continue(p, "archive") => k = "archive"
          /\ Continue(p, "unlink") => k = "unlink"
      BY <2>1, OwnMoves
    <2>3. MemoryKnown(pc'[p], loc'[p], source', claims', baseline')
      BY <1>1, <1>2, <1>5, <1>10, <2>1, <2>2 DEF MemoryKnown, Locked
    <2> QED
      BY <1>1, <1>9, <2>1, <2>3, KnownStep
  <1> QED
    BY <1>1, <1>2, <1>9, <1>10, ReturnKnown

\* A call that ends early takes at most its own record away.
LEMMA GiveUpKnown ==
    ASSUME CommitInv, HandInv, VersionInv, NEW p \in Procs,
           LockTimeout(p) \/ WriteRefused(p) \/ Stop(p)
    PROVE  VersionInv'
  <1>1. /\ UNCHANGED <<source, baseline, archive, ledger, receipts, claims>>
        /\ active' \subseteq active /\ Return(p)
    BY DEF LockTimeout, WriteRefused, Stop, formal, record, drafts, history
  <1>2. RecordsKnown'
    BY <1>1 DEF VersionInv, DiskKnown, RecordsKnown
  <1>3. DiskKnown'
    BY <1>1, <1>2, SameKnown DEF DiskKnown
  <1> QED
    BY <1>1, <1>3, ReturnKnown

\* An outsider who edits an asset changes no version; a source that moves has still reached
\* what it had reached.
LEMMA OutsideKnown ==
    ASSUME CommitInv, HandInv, VersionInv, OutsideEdit \/ SourceEdit PROVE VersionInv'
  <1>1. UNCHANGED <<baseline, active, archive, ledger, receipts, claims, pc, loc>>
    BY DEF OutsideEdit, SourceEdit, record, drafts, proc, history
  <1>2. /\ source \in [Targets -> Nat] /\ source' \in [Targets -> Nat]
        /\ \A t \in Targets : source[t] <= source'[t]
    BY DEF OutsideEdit, SourceEdit, HandInv, DiskClean, FormalClean
  <1>3. /\ \A src : Reached(src, source) => Reached(src, source')
        /\ \A src : SomeReached(src, source) => SomeReached(src, source')
        /\ \A x : BatchKnown(x, source, claims) => BatchKnown(x, source', claims)
        /\ \A rec : RecordKnown(rec, source, claims) => RecordKnown(rec, source', claims)
    BY <1>2, KnownKept
  <1>4. DiskKnown
    BY DEF VersionInv
  <1>5. Reached(baseline.src, source)'
    BY <1>1, <1>2, <1>4 DEF DiskKnown, Reached
  <1>6. ReceiptsKnown' /\ RecordsKnown' /\ LedgerKnown'
    BY <1>1, <1>3, <1>4 DEF DiskKnown, ReceiptsKnown, RecordsKnown, LedgerKnown
  <1>7. ASSUME NEW p \in Procs PROVE MemoryKnown(pc[p], loc[p], source', claims, baseline)
    <2>1. MemoryKnown(pc[p], loc[p], source, claims, baseline)
      BY DEF VersionInv
    <2> QED
      BY <1>2, <2>1, MemoryKept
  <1> QED
    BY <1>1, <1>5, <1>6, <1>7 DEF VersionInv, DiskKnown

\* Initially the Baseline is one version behind, or knows nothing.
LEMMA InitKnown == Init => VersionInv
  <1> SUFFICES ASSUME Init PROVE VersionInv
    OBVIOUS
  <1>1. Reached(baseline.src, source)
    BY DEF Init, Reached
  <1>2. ReceiptsKnown /\ RecordsKnown /\ LedgerKnown
    BY DEF Init, ReceiptsKnown, RecordsKnown, LedgerKnown
  <1>3. \A p \in Procs : pc[p] = "idle"
    BY DEF Init
  <1>4. \A l : MemoryKnown("idle", l, source, claims, baseline)
    BY DEF MemoryKnown, Locked
  <1> QED
    BY <1>1, <1>2, <1>3, <1>4 DEF VersionInv, DiskKnown

\* Every step keeps the third invariant.
LEMMA StepKnown == ASSUME CommitInv, HandInv, VersionInv, [Next]_vars PROVE VersionInv'
  <1>1. ASSUME NEW p \in Procs, Work(p) PROVE VersionInv'
    <2>1. CASE \/ Bind(p) \/ LockCommit(p) \/ LockReconcile(p) \/ LockRollback(p) \/ SaveRecord(p)
               \/ WriteVolume(p) \/ Restore(p) \/ Advance(p)
      BY <2>1, BindKnown, LockKnown, SaveRecordKnown, BytesKnown, AdvanceKnown
    <2>2. CASE LockTimeout(p) \/ WriteRefused(p)
      BY <2>2, GiveUpKnown
    <2>3. CASE \/ Verify(p) \/ Recheck(p) \/ Govern(p) \/ RecordApplied(p) \/ EnsureLedger(p)
               \/ Archive(p) \/ Unlink(p) \/ RestoreVerify(p)
      BY <2>3, CloseKnown
    <2> QED
      BY <1>1, <2>1, <2>2, <2>3 DEF Work
  <1>2. ASSUME NEW p \in Procs,
               Maintain(p) \/ Stop(p) \/ Submit(p) \/ Resubmit(p) \/ SubmitRollback(p)
        PROVE  VersionInv'
    BY <1>2, MaintainKnown, GiveUpKnown, SubmitKnown
  <1>3. CASE UNCHANGED vars
    <2>1. UNCHANGED <<source, baseline, active, archive, ledger, receipts, claims, pc, loc>>
      BY <1>3 DEF vars, formal, record, drafts, proc, history
    <2>2. DiskKnown'
      BY <2>1, SameKnown DEF DiskKnown
    <2> QED
      BY <2>1, <2>2 DEF VersionInv
  <1> QED
    BY <1>1, <1>2, <1>3, OutsideKnown DEF Next

\* In every reachable state the batches, the records and the Baseline speak of versions that
\* the sources have reached, and a process that is about to replace the Baseline has read it
\* as it is.
THEOREM VersionInvariant == Spec => []VersionInv
  <1>1. CommitInv /\ HandInv /\ VersionInv /\ [Next]_vars => VersionInv'
    BY StepKnown
  <1> QED
    BY <1>1, InitKnown, CommitInvariant, HandInvariant, PTL DEF Spec

\* What a closed batch has entered into the Baseline for a Code target is never taken back,
\* for any number of hosts and siblings, under every hand edit and wherever a process stops:
\* the Baseline that commitCognitionVolumeBatchLocked and reconcileCognitionVolumeBatch
\* replace is the one they read under the lock, and advanceCognitionVolumeBaseline compares
\* the sources once more.
THEOREM ClosedStaysAlways == Spec => []ClosedStays
  <1>1. ASSUME VersionInv PROVE ClosedStays
    <2> SUFFICES ASSUME NEW e \in ledger, NEW t \in TargetsOf(e[2].r), Home[t] = "code"
                 PROVE  baseline.src[t] >= SourceVersion(e[2], t)
      BY DEF ClosedStays
    <2> DEFINE b == e[2]
    <2>1. BatchKnown(b, source, claims) /\ Entered(b, baseline)
      BY <1>1 DEF VersionInv, DiskKnown, LedgerKnown
    <2> HIDE DEF b
    <2>2. PICK v \in WriteSet(b) : t \in DOMAIN b.r[v].src
      BY TargetOf DEF b
    <2>3. SourceVersion(b, t) = b.r[v].src[t]
      BY <2>1, <2>2, VersionIs
    <2> QED
      BY <2>1, <2>2, <2>3 DEF Entered, b
  <1> QED
    BY <1>1, VersionInvariant, PTL

-----------------------------------------------------------------------------
(* What the Entries say.  The fourth invariant: as long as nobody edits by *)
(* hand, an Entry whose source is where the Baseline has it carries a text *)
(* that a host wrote for this version.  A rollback puts such Entries back, *)
(* so the records must have them too, each with the Baseline it keeps.     *)

\* The Entries s of Volume v are true where src has the version that the source has.
Told(s, v, src, now, said, blind) ==
    \A i \in DOMAIN s :
        s[i].t \in Targets \ blind /\ Home[s[i].t] = v /\ src[s[i].t] = now[s[i].t] =>
            <<s[i].t, s[i].k, now[s[i].t]>> \in said

RecordTold(rec, now, said, blind) ==
    \A v \in DOMAIN rec.pre : Told(rec.pre[v], v, rec.base.src, now, said, blind)

MemoryTold(k, l, now, said, blind, bytes) ==
    /\ k \in {"lock"} \cup Locked /\ l.rec # None => RecordTold(l.rec, now, said, blind)
    /\ k = "advance" => \A v \in l.tgt : bytes[v] = l.post[v]

VolumesTold == \A v \in Volumes : Told(vol[v], v, baseline.src, source, claims, unseen)
RecordsTold == \A rec \in active \cup archive : RecordTold(rec, source, claims, unseen)
AllTold ==
    /\ VolumesTold /\ RecordsTold
    /\ \A p \in Procs : MemoryTold(pc[p], loc[p], source, claims, unseen, vol)

ToldInv == budget.edits <= MaxEdits /\ (Undisturbed => AllTold)

\* What the editor makes of an Entry: it carries the text the editor was given for its
\* target, or it was there before.
LEMMA EditTexts ==
    ASSUME NEW s \in Books, NEW u, DOMAIN u \subseteq Targets, \A t \in DOMAIN u : u[t] \in Nat,
           NEW i \in DOMAIN Edit(s, u)
    PROVE  \/ /\ Edit(s, u)[i].t \in DOMAIN u
              /\ Edit(s, u)[i].k = u[Edit(s, u)[i].t]
           \/ /\ Edit(s, u)[i].t \notin DOMAIN u
              /\ \E j \in DOMAIN s : Edit(s, u)[i] = s[j]
  <1> DEFINE fresh == InOrder(DOMAIN u \ Described(s))
             old == [j \in DOMAIN s |->
                        IF s[j].t \in DOMAIN u THEN Entry(s[j].t, u[s[j].t]) ELSE s[j]]
             new == [j \in DOMAIN fresh |-> Entry(fresh[j], u[fresh[j]])]
             Good(e) == \/ e.t \in DOMAIN u /\ e.k = u[e.t]
                        \/ e.t \notin DOMAIN u /\ \E j \in DOMAIN s : e = s[j]
  <1>1. fresh \in Seq(DOMAIN u)
    <2>1. fresh \in Seq(DOMAIN u \ Described(s))
      BY InOrderSound
    <2> QED
      BY <2>1, VolumeConstants DEF Targets
  <1>2. Edit(s, u) = old \o new
    BY DEF Edit
  <1> HIDE DEF fresh
  <1>3. DOMAIN old = 1..Len(s) /\ Len(s) \in Nat /\ DOMAIN new = 1..Len(fresh) /\ Len(fresh) \in Nat
    BY <1>1 DEF Books
  <1>4. \A j \in DOMAIN old : Good(old[j])
    BY DEF Entry
  <1>5. \A j \in DOMAIN new : Good(new[j])
    BY <1>1 DEF Entry
  <1> HIDE DEF old, new, Good
  <1>6. old \in Seq({old[j] : j \in DOMAIN old}) /\ new \in Seq({new[j] : j \in DOMAIN new})
    <2>1. old \in [1..Len(s) -> {old[j] : j \in DOMAIN old}]
      BY <1>3 DEF old
    <2>2. new \in [1..Len(fresh) -> {new[j] : j \in DOMAIN new}]
      BY <1>3 DEF new
    <2> QED
      BY <1>3, <2>1, <2>2, SeqDef
  <1>7. \/ i \in DOMAIN old /\ (old \o new)[i] = old[i]
        \/ i - Len(old) \in DOMAIN new /\ (old \o new)[i] = new[i - Len(old)]
    BY <1>2, <1>6
  <1>8. Good(Edit(s, u)[i])
    BY <1>2, <1>4, <1>5, <1>7
  <1> QED
    BY <1>8 DEF Good

\* The same, for what a batch makes of a Volume.
LEMMA ProjectTexts ==
    ASSUME NEW b, BatchSound(b), NEW v \in WriteSet(b), NEW s \in Books,
           NEW i \in DOMAIN Project(b, v, s)
    PROVE  \/ /\ Project(b, v, s)[i].t \in DOMAIN b.r[v].src
              /\ Project(b, v, s)[i].k = b.text[Project(b, v, s)[i].t]
           \/ /\ Project(b, v, s)[i].t \notin DOMAIN b.r[v].src
              /\ \E j \in DOMAIN s : Project(b, v, s)[i] = s[j]
  <1> DEFINE u == TextsFor(b, v)
  <1>1. /\ DOMAIN u = DOMAIN b.r[v].src /\ DOMAIN u \subseteq Targets
        /\ \A t \in DOMAIN u : u[t] = b.text[t] /\ u[t] \in Nat
    BY DEF BatchSound, ReceiptSound, TextsFor
  <1>2. Project(b, v, s) = Edit(s, u)
    BY DEF Project
  <1> HIDE DEF u
  <1>3. \/ /\ Edit(s, u)[i].t \in DOMAIN u
           /\ Edit(s, u)[i].k = u[Edit(s, u)[i].t]
        \/ /\ Edit(s, u)[i].t \notin DOMAIN u
           /\ \E j \in DOMAIN s : Edit(s, u)[i] = s[j]
    BY <1>1, <1>2, EditTexts
  <1> QED
    BY <1>1, <1>2, <1>3

\* A batch that the Baseline has not overtaken keeps a Volume true.
LEMMA ProjectTold ==
    ASSUME NEW b, BatchSound(b), NEW v \in WriteSet(b), NEW s \in Books,
           NEW now \in [Targets -> Nat], NEW said, NEW blind, NEW base,
           BatchKnown(b, now, said), NotOvertaken(b, base), Reached(base.src, now),
           Told(s, v, base.src, now, said, blind)
    PROVE  Told(Project(b, v, s), v, base.src, now, said, blind)
  <1> DEFINE q == Project(b, v, s)
  <1> SUFFICES ASSUME NEW i \in DOMAIN q, q[i].t \in Targets \ blind, Home[q[i].t] = v,
                      base.src[q[i].t] = now[q[i].t]
               PROVE  <<q[i].t, q[i].k, now[q[i].t]>> \in said
    BY DEF Told
  <1>1. \/ q[i].t \in DOMAIN b.r[v].src /\ q[i].k = b.text[q[i].t]
        \/ q[i].t \notin DOMAIN b.r[v].src /\ \E j \in DOMAIN s : q[i] = s[j]
    BY ProjectTexts
  <1> HIDE DEF q
  <1>2. CASE q[i].t \in DOMAIN b.r[v].src /\ q[i].k = b.text[q[i].t]
    <2> DEFINE t == q[i].t
    <2>1. t \in Targets /\ b.r[v].src[t] \in 0..now[t] /\ <<t, b.text[t], b.r[v].src[t]>> \in said
      BY <1>2, VersionOf
    <2>2. base.src[t] <= b.r[v].src[t] /\ base.src[t] = now[t]
      BY <1>2 DEF NotOvertaken
    <2>3. now[t] \in Nat
      BY <2>1
    <2>4. b.r[v].src[t] = now[t]
      BY <2>1, <2>2, <2>3
    <2> QED
      BY <1>2, <2>1, <2>4
  <1>3. CASE \E j \in DOMAIN s : q[i] = s[j]
    BY <1>3 DEF Told
  <1> QED
    BY <1>1, <1>2, <1>3

\* What is true stays so when a source moves: its Entry is then behind.
LEMMA ToldKept ==
    ASSUME NEW x \in [Targets -> Nat], NEW n \in [Targets -> Nat], \A t \in Targets : x[t] <= n[t],
           NEW c, NEW d, c \subseteq d, NEW f, NEW g, f \subseteq g
    PROVE  /\ \A s, v, src : Reached(src, x) /\ Told(s, v, src, x, c, f) => Told(s, v, src, n, d, g)
           /\ \A rec : Reached(rec.base.src, x) /\ RecordTold(rec, x, c, f) =>
                           RecordTold(rec, n, d, g)
  <1>1. ASSUME NEW s, NEW v, NEW src, Reached(src, x), Told(s, v, src, x, c, f)
        PROVE  Told(s, v, src, n, d, g)
    <2> SUFFICES ASSUME NEW i \in DOMAIN s, s[i].t \in Targets \ g, Home[s[i].t] = v,
                        src[s[i].t] = n[s[i].t]
                 PROVE  <<s[i].t, s[i].k, n[s[i].t]>> \in d
      BY DEF Told
    <2>1. src[s[i].t] \in Nat /\ src[s[i].t] <= x[s[i].t]
      BY <1>1 DEF Reached
    <2>2. x[s[i].t] \in Nat /\ n[s[i].t] \in Nat /\ x[s[i].t] <= n[s[i].t]
      OBVIOUS
    <2>3. x[s[i].t] = n[s[i].t]
      BY <2>1, <2>2
    <2>4. <<s[i].t, s[i].k, x[s[i].t]>> \in c
      BY <1>1, <2>3 DEF Told
    <2> QED
      BY <2>3, <2>4
  <1> QED
    BY <1>1 DEF RecordTold

\* What the earlier invariants say of the sources and of what a process has in memory.
LEMMA OwnKnown ==
    ASSUME HandInv, VersionInv
    PROVE  /\ source \in [Targets -> Nat] /\ \A t \in Targets : source[t] <= source[t]
           /\ Reached(baseline.src, source)
           /\ \A rec \in active \cup archive : Reached(rec.base.src, source)
           /\ \A q \in Procs : pc[q] \in {"lock"} \cup Locked /\ loc[q].rec # None =>
                  Reached(loc[q].rec.base.src, source)
  <1>1. source \in [Targets -> Nat] /\ \A t \in Targets : source[t] <= source[t]
    BY DEF HandInv, DiskClean, FormalClean
  <1>2. DiskKnown /\ \A q \in Procs : MemoryKnown(pc[q], loc[q], source, claims, baseline)
    BY DEF VersionInv
  <1>3. \A q \in Procs : pc[q] \in {"lock"} \cup Locked /\ loc[q].rec # None =>
                             Reached(loc[q].rec.base.src, source)
    BY <1>2 DEF MemoryKnown, RecordKnown
  <1> QED
    BY <1>1, <1>2, <1>3 DEF DiskKnown, RecordsKnown, RecordKnown

\* A step of p keeps everything true if it leaves p's memory and the disk so; the Volumes
\* are replaced by the holder of the lock.
LEMMA ToldStep ==
    ASSUME CommitInv, HandInv, VersionInv, AllTold, NEW p \in Procs, OthersStay(p),
           UNCHANGED source, claims \subseteq claims', unseen \subseteq unseen',
           UNCHANGED vol \/ lock = p, VolumesTold', RecordsTold',
           MemoryTold(pc'[p], loc'[p], source', claims', unseen', vol')
    PROVE  AllTold'
  <1>1. \A rec : Reached(rec.base.src, source) /\ RecordTold(rec, source, claims, unseen) =>
                     RecordTold(rec, source, claims', unseen')
    BY OwnKnown, ToldKept
  <1>2. ASSUME NEW q \in Procs \ {p}
        PROVE  MemoryTold(pc'[q], loc'[q], source', claims', unseen', vol')
    <2>1. vol' = vol \/ pc[q] \notin Locked
      BY DEF CommitInv
    <2>2. MemoryTold(pc[q], loc[q], source, claims, unseen, vol)
      BY DEF AllTold
    <2>3. pc[q] \in {"lock"} \cup Locked /\ loc[q].rec # None =>
              Reached(loc[q].rec.base.src, source)
      BY OwnKnown
    <2>4. MemoryTold(pc[q], loc[q], source, claims', unseen', vol')
      BY <1>1, <2>1, <2>2, <2>3 DEF MemoryTold, Locked
    <2> QED
      BY <2>4 DEF OthersStay
  <1> QED
    BY <1>2 DEF AllTold

\* The files that a step leaves alone.
LEMMA SameTold ==
    ASSUME HandInv, VersionInv, AllTold, UNCHANGED source, claims \subseteq claims',
           unseen \subseteq unseen'
    PROVE  /\ UNCHANGED <<vol, baseline>> => VolumesTold'
           /\ active' \cup archive' \subseteq active \cup archive => RecordsTold'
  <1>1. /\ \A s, v, src : Reached(src, source) /\ Told(s, v, src, source, claims, unseen) =>
                              Told(s, v, src, source, claims', unseen')
        /\ \A rec : Reached(rec.base.src, source) /\ RecordTold(rec, source, claims, unseen) =>
                        RecordTold(rec, source, claims', unseen')
    BY OwnKnown, ToldKept
  <1>2. UNCHANGED <<vol, baseline>> => VolumesTold'
    BY <1>1, OwnKnown DEF AllTold, VolumesTold
  <1>3. active' \cup archive' \subseteq active \cup archive => RecordsTold'
    BY <1>1, OwnKnown DEF AllTold, RecordsTold
  <1> QED
    BY <1>2, <1>3

\* A step that leaves the files alone, and its process with nothing to be true: a call that
\* begins, reads or ends.
LEMMA AsideTold ==
    ASSUME CommitInv, HandInv, VersionInv, AllTold, NEW p \in Procs, OthersStay(p),
           UNCHANGED <<vol, source, baseline, unseen>>, claims \subseteq claims',
           active' \cup archive' \subseteq active \cup archive,
           pc'[p] \notin {"lock"} \cup Locked
    PROVE  AllTold'
  <1>1. MemoryTold(pc'[p], loc'[p], source', claims', unseen', vol')
    BY DEF MemoryTold, Locked
  <1> QED
    BY <1>1, SameTold, ToldStep

\* Maintain, a call that is submitted, and one that ends early.
LEMMA IdleTold ==
    ASSUME CommitInv, HandInv, VersionInv, AllTold, NEW p \in Procs,
           \/ Maintain(p) \/ Submit(p) \/ Resubmit(p) \/ SubmitRollback(p)
           \/ LockTimeout(p) \/ WriteRefused(p) \/ Stop(p)
    PROVE  AllTold'
  <1> DEFINE Outside == {"idle", "assess", "start", "record_plan", "issue", "deliver", "bind"}
  <1>1. \A k \in Outside : k \notin {"lock"} \cup Locked
    BY DEF Locked
  <1>2. \A k, l : Hold(p, k, l) => pc'[p] = k /\ OthersStay(p)
    BY OwnMoves
  <1>3. \A k : Continue(p, k) => pc'[p] = k /\ OthersStay(p)
    BY OwnMoves
  <1>4. Return(p) => pc'[p] = "idle" /\ OthersStay(p)
    BY OwnMoves
  <1>5. CASE Maintain(p)
    <2>1. UNCHANGED <<vol, source, baseline, unseen, claims, active, archive>>
      BY <1>5 DEF Maintain, MaintainLoad, MaintainAssess, MaintainStart, MaintainRecord,
         MaintainIssue, MaintainDeliver, formal, record, history
    <2>2. ASSUME MaintainAssess(p) PROVE pc'[p] \in Outside /\ OthersStay(p)
      <3>1. ASSUME NEW s, IssueParallel(p, s) PROVE pc'[p] \in Outside /\ OthersStay(p)
        BY <1>2, <1>4, <3>1 DEF IssueParallel
      <3> QED
        BY <1>4, <2>2, <3>1 DEF MaintainAssess, IssueSingle
    <2>3. pc'[p] \in Outside /\ OthersStay(p)
      BY <1>2, <1>3, <1>4, <1>5, <2>2 DEF Maintain, MaintainLoad, MaintainStart, MaintainRecord,
         MaintainIssue, MaintainDeliver
    <2> QED
      BY <1>1, <2>1, <2>3, AsideTold
  <1>6. CASE Submit(p) \/ Resubmit(p) \/ SubmitRollback(p)
    <2>1. \E op, b : Start(p, op, b)
      BY <1>6 DEF Submit, Resubmit, SubmitRollback
    <2>2. PICK op, b : Start(p, op, b)
      BY <2>1
    <2>3. UNCHANGED <<vol, source, baseline, unseen, active, archive>> /\ claims \subseteq claims'
      BY <2>2 DEF Start, formal, record
    <2>4. pc'[p] = "bind" /\ OthersStay(p)
      BY <1>2, <2>2 DEF Start
    <2> QED
      BY <1>1, <2>3, <2>4, AsideTold
  <1>7. CASE LockTimeout(p) \/ WriteRefused(p) \/ Stop(p)
    <2>1. /\ UNCHANGED <<vol, source, baseline, unseen, claims, archive>> /\ active' \subseteq active
          /\ Return(p)
      BY <1>7 DEF LockTimeout, WriteRefused, Stop, formal, record, history
    <2> QED
      BY <1>1, <1>4, <2>1, AsideTold
  <1> QED
    BY <1>5, <1>6, <1>7

\* The record that Bind finds is on disk, and who takes the lock keeps it; a reconcile finds
\* its postimages in place.
LEMMA LockTold ==
    ASSUME CommitInv, HandInv, VersionInv, AllTold, NEW p \in Procs,
           Bind(p) \/ LockCommit(p) \/ LockReconcile(p) \/ LockRollback(p)
    PROVE  AllTold'
  <1> DEFINE o == loc[p]
  <1>1. UNCHANGED <<vol, source, baseline, unseen, claims, active, archive>>
    BY DEF Bind, LockCommit, LockReconcile, LockRollback, formal, record, history
  <1>2. VolumesTold' /\ RecordsTold'
    BY <1>1, SameTold
  <1>3. DOMAIN o = Fields /\ MemoryTold(pc[p], o, source, claims, unseen, vol)
    BY OwnState DEF AllTold
  <1>4. ASSUME Return(p) PROVE AllTold'
    <2>1. pc'[p] = "idle" /\ OthersStay(p) /\ "idle" \notin {"lock"} \cup Locked
      BY <1>4, OwnMoves DEF Locked
    <2> QED
      BY <1>1, <2>1, AsideTold
  <1>5. ASSUME NEW k, NEW m, Hold(p, k, m) \/ Take(p, k, m),
               m.rec # None => RecordTold(m.rec, source, claims, unseen),
               k = "advance" => \A v \in m.tgt : vol[v] = m.post[v]
        PROVE  AllTold'
    <2>1. pc'[p] = k /\ loc'[p] = m /\ OthersStay(p)
      BY <1>5, OwnMoves
    <2>2. MemoryTold(pc'[p], loc'[p], source', claims', unseen', vol')
      BY <1>1, <1>5, <2>1 DEF MemoryTold
    <2> QED
      BY <1>1, <1>2, <2>1, <2>2, ToldStep
  <1>6. CASE Bind(p)
    <2> DEFINE rec == IF Recorded(o.b) = {} THEN None ELSE CHOOSE x \in Recorded(o.b) : TRUE
    <2>1. \/ Return(p)
          \/ \E op, pre, post, tgt :
                 Hold(p, "lock", [o EXCEPT !.op = op, !.rec = rec, !.pre = pre, !.post = post,
                                           !.tgt = tgt])
      BY <1>6 DEF Bind
    <2>2. rec # None => RecordTold(rec, source, claims, unseen)
      BY DEF Recorded, RecordsOf, AllTold, RecordsTold
    <2> HIDE DEF rec
    <2>3. ASSUME NEW op, NEW pre, NEW post, NEW tgt,
                 Hold(p, "lock", [o EXCEPT !.op = op, !.rec = rec, !.pre = pre, !.post = post,
                                           !.tgt = tgt])
          PROVE  AllTold'
      <3> DEFINE m == [o EXCEPT !.op = op, !.rec = rec, !.pre = pre, !.post = post, !.tgt = tgt]
      <3>1. m.rec = rec
        BY <1>3 DEF Fields
      <3>2. Hold(p, "lock", m)
        BY <2>3
      <3> HIDE DEF m
      <3> QED
        BY <1>5, <2>2, <3>1, <3>2
    <2> QED
      BY <1>4, <2>1, <2>3
  <1>7. pc[p] = "lock" /\ o.rec # None => RecordTold(o.rec, source, claims, unseen)
    BY <1>3 DEF MemoryTold
  <1>8. CASE LockCommit(p)
    <2> DEFINE l == Reproject(o)
               m == [l EXCEPT !.base = baseline, !.todo = l.tgt]
               k == IF l.rec = None /\ l.tgt # {} THEN "record" ELSE "write"
    <2>1. pc[p] = "lock" /\ (Return(p) \/ Take(p, k, m)) /\ k # "advance"
      BY <1>8 DEF LockCommit
    <2> HIDE DEF l, k
    <2>2. DOMAIN l = Fields /\ l.rec = o.rec
      BY <1>3, ReprojectKeeps DEF l
    <2>3. m.rec = o.rec
      BY <2>2 DEF Fields
    <2> HIDE DEF m
    <2> QED
      BY <1>4, <1>5, <1>7, <2>1, <2>3
  <1>9. CASE LockReconcile(p)
    <2> DEFINE m == [o EXCEPT !.base = baseline]
    <2>1. /\ pc[p] = "lock"
          /\ Return(p) \/ (Take(p, "advance", m) /\ \A v \in o.tgt : vol[v] = o.post[v])
      BY <1>9 DEF LockReconcile
    <2>2. m.rec = o.rec /\ m.tgt = o.tgt /\ m.post = o.post
      BY <1>3 DEF Fields
    <2> HIDE DEF m
    <2> QED
      BY <1>4, <1>5, <1>7, <2>1, <2>2
  <1>10. CASE LockRollback(p)
    <2> DEFINE back == {v \in DOMAIN o.rec.pre : vol[v] # o.rec.pre[v]}
               m == [o EXCEPT !.todo = back]
    <2>1. pc[p] = "lock" /\ (Return(p) \/ Take(p, "restore", m))
      BY <1>10 DEF LockRollback
    <2> HIDE DEF back
    <2>2. m.rec = o.rec
      BY <1>3 DEF Fields
    <2> HIDE DEF m
    <2> QED
      BY <1>4, <1>5, <1>7, <2>1, <2>2
  <1> QED
    BY <1>6, <1>8, <1>9, <1>10

\* The record keeps the Volumes of this moment, with the Baseline of this moment.
LEMMA SaveRecordTold ==
    ASSUME CommitInv, HandInv, VersionInv, AllTold, NEW p \in Procs, SaveRecord(p)
    PROVE  AllTold'
  <1> DEFINE o == loc[p]
             rec == RecordFor(o)
             m == [o EXCEPT !.rec = rec]
  <1>1. /\ UNCHANGED <<vol, source, baseline, unseen, claims, archive>> /\ pc[p] = "record"
        /\ \/ Return(p) /\ UNCHANGED active
           \/ /\ Hold(p, "write", m) /\ active' \subseteq active \cup {rec}
              /\ \A v \in o.tgt : vol[v] = o.pre[v]
    BY DEF SaveRecord, formal, history
  <1>2. DOMAIN o = Fields /\ o.tgt \subseteq Volumes
    BY <1>1, OwnState DEF Locked, PlanSound
  <1>3. CASE Return(p) /\ UNCHANGED active
    <2>1. pc'[p] = "idle" /\ OthersStay(p) /\ "idle" \notin {"lock"} \cup Locked
      BY <1>3, OwnMoves DEF Locked
    <2> QED
      BY <1>1, <1>3, <2>1, AsideTold
  <1>4. CASE /\ Hold(p, "write", m) /\ active' \subseteq active \cup {rec}
             /\ \A v \in o.tgt : vol[v] = o.pre[v]
    <2>1. /\ DOMAIN rec.pre = o.tgt /\ \A v \in o.tgt : rec.pre[v] = vol[v]
          /\ rec.base = baseline
      BY <1>4 DEF RecordFor
    <2> HIDE DEF rec
    <2>2. RecordTold(rec, source, claims, unseen)
      BY <1>2, <2>1 DEF RecordTold, AllTold, VolumesTold
    <2>3. RecordsTold'
      BY <1>1, <1>4, <2>2 DEF AllTold, RecordsTold
    <2>4. VolumesTold'
      BY <1>1, SameTold
    <2>5. pc'[p] = "write" /\ loc'[p] = m /\ OthersStay(p)
      BY <1>4, OwnMoves
    <2>6. m.rec = rec
      BY <1>2 DEF Fields
    <2> HIDE DEF m
    <2>7. MemoryTold(pc'[p], loc'[p], source', claims', unseen', vol')
      BY <1>1, <2>2, <2>5, <2>6 DEF MemoryTold
    <2> QED
      BY <1>1, <2>3, <2>4, <2>5, <2>7, ToldStep
  <1> QED
    BY <1>1, <1>3, <1>4

\* A batch writes what its host says of the sources as they are, or as they were.
LEMMA WriteVolumeTold ==
    ASSUME CommitInv, HandInv, VersionInv, AllTold, NEW p \in Procs, WriteVolume(p)
    PROVE  AllTold'
  <1> DEFINE o == loc[p]
             w == NextVolume(o)
             m == [o EXCEPT !.todo = @ \ {w}]
  <1>1. /\ UNCHANGED <<source, baseline, unseen, claims, active, archive>> /\ pc[p] = "write"
        /\ Hold(p, "write", m)
    BY DEF WriteVolume, record, history
  <1>2. /\ DOMAIN o = Fields /\ lock = p /\ PlanSound(o) /\ BatchSound(o.b)
        /\ vol \in [Assets -> Books]
    BY <1>1, OwnState, OwnClean DEF Locked, PlanClean, DiskClean, FormalClean
  <1>3. /\ MemoryKnown("write", o, source, claims, baseline)
        /\ MemoryTold("write", o, source, claims, unseen, vol)
    BY <1>1 DEF VersionInv, AllTold
  <1>4. BatchKnown(o.b, source, claims) /\ NotOvertaken(o.b, baseline)
    BY <1>3 DEF MemoryKnown, Locked
  <1>5. ASSUME NEW v \in Volumes PROVE Told(vol'[v], v, baseline.src, source, claims, unseen)
    <2>1. vol[v] \in Books /\ Told(vol[v], v, baseline.src, source, claims, unseen)
      BY <1>2 DEF AllTold, VolumesTold, Assets
    <2>2. CASE vol'[v] = vol[v]
      BY <2>1, <2>2
    <2>3. CASE vol'[v] # vol[v]
      <3>1. vol'[v] = Project(o.b, v, vol[v]) /\ v \in o.tgt
        BY <2>3, WriteVolumeInv
      <3>2. v \in WriteSet(o.b)
        BY <1>2, <3>1 DEF PlanSound
      <3>3. Told(Project(o.b, v, vol[v]), v, baseline.src, source, claims, unseen)
        BY <1>2, <1>4, <2>1, <3>2, OwnKnown, ProjectTold
      <3> QED
        BY <3>1, <3>3
    <2> QED
      BY <2>2, <2>3
  <1>6. VolumesTold' /\ RecordsTold'
    BY <1>1, <1>5, SameTold DEF VolumesTold
  <1>7. pc'[p] = "write" /\ loc'[p] = m /\ OthersStay(p)
    BY <1>1, OwnMoves
  <1>8. m.rec = o.rec
    <2> HIDE DEF w
    <2> QED
      BY <1>2 DEF Fields
  <1> HIDE DEF m
  <1>9. MemoryTold(pc'[p], loc'[p], source', claims', unseen', vol')
    BY <1>1, <1>3, <1>7, <1>8 DEF MemoryTold
  <1> QED
    BY <1>1, <1>2, <1>6, <1>7, <1>9, ToldStep

\* A rollback puts back what was true under the Baseline that is still there.
LEMMA RestoreTold ==
    ASSUME CommitInv, HandInv, VersionInv, AllTold, NEW p \in Procs, Restore(p)
    PROVE  AllTold'
  <1> DEFINE o == loc[p]
             w == IF "database" \in o.todo THEN "database" ELSE "code"
             m == [o EXCEPT !.todo = @ \ {w}]
  <1>1. /\ UNCHANGED <<source, baseline, unseen, claims, active, archive>> /\ pc[p] = "restore"
        /\ o.todo # {}
        /\ \/ vol' = [vol EXCEPT ![w] = o.rec.pre[w]] /\ Hold(p, "restore", m)
           \/ Return(p) /\ UNCHANGED vol
    BY DEF Restore, record, history
  <1>2. /\ DOMAIN o = Fields /\ lock = p /\ PlanSound(o) /\ o.rec # None
        /\ o.todo \subseteq DOMAIN o.rec.pre
    BY <1>1, OwnState DEF Locked, MemorySound
  <1>3. /\ MemoryKnown("restore", o, source, claims, baseline)
        /\ MemoryTold("restore", o, source, claims, unseen, vol)
    BY <1>1 DEF VersionInv, AllTold
  <1>4. baseline = o.rec.base /\ RecordTold(o.rec, source, claims, unseen)
    BY <1>2, <1>3 DEF MemoryKnown, MemoryTold, Locked
  <1>5. w \in DOMAIN o.rec.pre
    BY <1>1, <1>2 DEF PlanSound, RecordSound, Volumes
  <1>6. CASE Return(p) /\ UNCHANGED vol
    <2>1. pc'[p] = "idle" /\ OthersStay(p) /\ "idle" \notin {"lock"} \cup Locked
      BY <1>6, OwnMoves DEF Locked
    <2> QED
      BY <1>1, <1>6, <2>1, AsideTold
  <1>7. CASE vol' = [vol EXCEPT ![w] = o.rec.pre[w]] /\ Hold(p, "restore", m)
    <2>1. m.rec = o.rec
      <3> HIDE DEF w
      <3> QED
        BY <1>2 DEF Fields
    <2> HIDE DEF m, w
    <2>2. Told(o.rec.pre[w], w, baseline.src, source, claims, unseen)
      BY <1>4, <1>5 DEF RecordTold
    <2>3. \A v \in Volumes : Told(vol[v], v, baseline.src, source, claims, unseen)
      BY DEF AllTold, VolumesTold
    <2>4. \A v \in Volumes : vol'[v] = vol[v] \/ (v = w /\ vol'[v] = o.rec.pre[w])
      BY <1>7, OwnState DEF Assets
    <2>5. VolumesTold' /\ RecordsTold'
      BY <1>1, <2>2, <2>3, <2>4, SameTold DEF VolumesTold
    <2>6. pc'[p] = "restore" /\ loc'[p] = m /\ OthersStay(p)
      BY <1>7, OwnMoves
    <2>7. MemoryTold(pc'[p], loc'[p], source', claims', unseen', vol')
      BY <1>1, <1>4, <2>1, <2>6 DEF MemoryTold
    <2> QED
      BY <1>1, <1>2, <2>5, <2>6, <2>7, ToldStep
  <1> QED
    BY <1>1, <1>6, <1>7

\* The Baseline that advances speaks of the batch's own texts, which are in place in every
\* Volume that the batch has written.
LEMMA AdvanceTold ==
    ASSUME CommitInv, HandInv, VersionInv, AllTold, NEW p \in Procs, Advance(p)
    PROVE  AllTold'
  <1> DEFINE o == loc[p]
             b == o.b
             new == AdvancedBaseline(o)
             blind == {t \in TargetsOf(b.r) : Home[t] \notin o.tgt}
  <1>1. /\ UNCHANGED <<vol, source, claims, active, archive>> /\ pc[p] = "advance"
        /\ \/ Return(p) /\ UNCHANGED <<baseline, unseen>>
           \/ baseline' = new /\ unseen' = unseen \cup blind /\ Continue(p, "recheck")
    BY DEF Advance, record
  <1>2. CASE Return(p) /\ UNCHANGED <<baseline, unseen>>
    <2>1. pc'[p] = "idle" /\ OthersStay(p) /\ "idle" \notin {"lock"} \cup Locked
      BY <1>2, OwnMoves DEF Locked
    <2> QED
      BY <1>1, <1>2, <2>1, AsideTold
  <1>3. CASE baseline' = new /\ unseen' = unseen \cup blind /\ Continue(p, "recheck")
    <2>1. /\ MemoryKnown("advance", o, source, claims, baseline)
          /\ MemoryTold("advance", o, source, claims, unseen, vol)
      BY <1>1 DEF VersionInv, AllTold
    <2>2. /\ BatchKnown(b, source, claims) /\ o.base = baseline
          /\ \A v \in o.tgt : vol[v] = o.post[v]
          /\ o.rec # None => RecordTold(o.rec, source, claims, unseen)
      BY <2>1 DEF MemoryKnown, MemoryTold, Locked
    <2>3. new.src = [t \in Targets |-> IF t \in TargetsOf(b.r) THEN SourceVersion(b, t)
                                                               ELSE baseline.src[t]]
      BY <2>2 DEF AdvancedBaseline
    <2>4. /\ PlanSound(o) /\ BatchSound(b) /\ lock = p
          /\ \A v \in WriteSet(b) : o.pre[v] \in Books
      BY <1>1, OwnState, OwnClean DEF Locked, PlanClean
    <2>5. ASSUME NEW v \in Volumes, NEW i \in DOMAIN vol[v], vol[v][i].t \in Targets \ unseen',
                 Home[vol[v][i].t] = v, new.src[vol[v][i].t] = source[vol[v][i].t]
          PROVE  <<vol[v][i].t, vol[v][i].k, source[vol[v][i].t]>> \in claims
      <3> DEFINE t == vol[v][i].t
      <3>1. CASE t \notin TargetsOf(b.r)
        <4>1. baseline.src[t] = source[t] /\ t \in Targets \ unseen
          BY <1>3, <2>3, <2>5, <3>1
        <4>2. Told(vol[v], v, baseline.src, source, claims, unseen)
          BY DEF AllTold, VolumesTold
        <4> QED
          BY <2>5, <4>1, <4>2 DEF Told
      <3>2. CASE t \in TargetsOf(b.r)
        <4> HIDE DEF new, b
        <4>1. PICK x \in WriteSet(b) : t \in DOMAIN b.r[x].src
          BY <3>2, TargetOf
        <4>2. Home[t] = x /\ <<t, b.text[t], b.r[x].src[t]>> \in claims
          BY <2>2, <4>1, VersionOf
        <4>3. SourceVersion(b, t) = b.r[x].src[t]
          BY <2>2, <4>1, VersionIs
        <4>4. b.r[x].src[t] = source[t]
          BY <2>3, <2>5, <3>2, <4>3
        <4>5. x = v /\ v \in o.tgt
          BY <1>3, <2>5, <3>2, <4>2
        <4>6. vol[v] = Project(b, v, o.pre[v]) /\ o.pre[v] \in Books
          BY <2>2, <2>4, <4>1, <4>5 DEF PlanSound, b
        <4>7. vol[v][i].k = b.text[t]
          <5> DEFINE s == o.pre[v]
          <5>1. i \in DOMAIN Project(b, v, s) /\ s \in Books /\ v \in WriteSet(b)
            BY <4>1, <4>5, <4>6
          <5>2. Project(b, v, s)[i].t \in DOMAIN b.r[v].src
            BY <4>1, <4>5, <4>6
          <5> HIDE DEF s
          <5>3. Project(b, v, s)[i].k = b.text[Project(b, v, s)[i].t]
            BY <2>4, <5>1, <5>2, ProjectTexts
          <5> QED
            BY <4>6, <5>3 DEF s
        <4> QED
          BY <4>2, <4>4, <4>5, <4>7
      <3> QED
        BY <3>1, <3>2
    <2>6. VolumesTold'
      <3> HIDE DEF new, blind
      <3>1. \A v \in Volumes : Told(vol[v], v, new.src, source, claims, unseen')
        BY <2>5 DEF Told
      <3> QED
        BY <1>1, <1>3, <3>1 DEF VolumesTold
    <2>7. unseen \subseteq unseen' /\ RecordsTold'
      BY <1>1, <1>3, SameTold
    <2>8. pc'[p] = "recheck" /\ loc'[p] = o /\ OthersStay(p)
      BY <1>3, OwnMoves
    <2>9. o.rec # None => RecordTold(o.rec, source, claims, unseen')
      <3>1. o.rec # None => Reached(o.rec.base.src, source)
        BY <1>1, OwnKnown DEF Locked
      <3>2. \A rec : Reached(rec.base.src, source) /\ RecordTold(rec, source, claims, unseen) =>
                         RecordTold(rec, source, claims, unseen')
        BY <2>7, OwnKnown, ToldKept
      <3> QED
        BY <2>2, <3>1, <3>2
    <2>10. MemoryTold(pc'[p], loc'[p], source', claims', unseen', vol')
      BY <1>1, <2>8, <2>9 DEF MemoryTold
    <2> QED
      BY <1>1, <2>4, <2>6, <2>7, <2>8, <2>10, ToldStep
  <1> QED
    BY <1>1, <1>2, <1>3

\* What else closes a batch keeps its memory, and moves records at most; who goes on to
\* the Baseline has just seen the postimages in place.
LEMMA CloseTold ==
    ASSUME CommitInv, HandInv, VersionInv, AllTold, NEW p \in Procs,
           \/ Verify(p) \/ Recheck(p) \/ Govern(p) \/ RecordApplied(p) \/ EnsureLedger(p)
           \/ Archive(p) \/ Unlink(p) \/ RestoreVerify(p)
    PROVE  AllTold'
  <1> DEFINE o == loc[p]
  <1>1. UNCHANGED <<vol, source, baseline, unseen, claims>> /\ pc[p] \in Locked
    BY DEF Verify, Recheck, Govern, RecordApplied, EnsureLedger, Archive, Unlink, RestoreVerify,
           formal, history, Locked
  <1>2. \/ Return(p)
        \/ \E k \in Closing \ {"advance"} : Continue(p, k)
        \/ Continue(p, "advance") /\ \A v \in o.tgt : vol[v] = o.post[v]
    BY DEF Verify, Recheck, Govern, RecordApplied, EnsureLedger, Archive, Unlink, RestoreVerify,
           Closing
  <1>3. active' \cup archive' \subseteq active \cup archive
    BY DEF Verify, Recheck, Govern, RecordApplied, EnsureLedger, Archive, Unlink, RestoreVerify,
           record, RecordsOf
  <1>4. VolumesTold' /\ RecordsTold'
    BY <1>1, <1>3, SameTold
  <1>5. o.rec # None => RecordTold(o.rec, source, claims, unseen)
    BY <1>1 DEF AllTold, MemoryTold
  <1>6. CASE Return(p)
    <2>1. pc'[p] = "idle" /\ OthersStay(p) /\ "idle" \notin {"lock"} \cup Locked
      BY <1>6, OwnMoves DEF Locked
    <2> QED
      BY <1>1, <1>3, <2>1, AsideTold
  <1>7. ASSUME NEW k, Continue(p, k), k = "advance" => \A v \in o.tgt : vol[v] = o.post[v]
        PROVE  AllTold'
    <2>1. pc'[p] = k /\ loc'[p] = o /\ OthersStay(p)
      BY <1>7, OwnMoves
    <2>2. MemoryTold(pc'[p], loc'[p], source', claims', unseen', vol')
      BY <1>1, <1>5, <1>7, <2>1 DEF MemoryTold
    <2> QED
      BY <1>1, <1>4, <2>1, <2>2, ToldStep
  <1> QED
    BY <1>2, <1>6, <1>7

\* A source that moves leaves its Entry behind, and the others true.
LEMMA SourceEditTold ==
    ASSUME CommitInv, HandInv, VersionInv, AllTold, SourceEdit PROVE AllTold'
  <1>1. UNCHANGED <<vol, baseline, active, archive, claims, unseen, pc, loc>>
    BY DEF SourceEdit, record, proc, history
  <1>2. source' \in [Targets -> Nat] /\ \A t \in Targets : source[t] <= source'[t]
    BY OwnKnown DEF SourceEdit
  <1>3. /\ \A s, v, src : Reached(src, source) /\ Told(s, v, src, source, claims, unseen) =>
                              Told(s, v, src, source', claims, unseen)
        /\ \A rec : Reached(rec.base.src, source) /\ RecordTold(rec, source, claims, unseen) =>
                        RecordTold(rec, source', claims, unseen)
    BY <1>2, OwnKnown, ToldKept
  <1>4. VolumesTold'
    BY <1>1, <1>3, OwnKnown DEF AllTold, VolumesTold
  <1>5. RecordsTold'
    BY <1>1, <1>3, OwnKnown DEF AllTold, RecordsTold
  <1>6. ASSUME NEW q \in Procs PROVE MemoryTold(pc[q], loc[q], source', claims, unseen, vol)
    <2>1. MemoryTold(pc[q], loc[q], source, claims, unseen, vol)
      BY DEF AllTold
    <2> QED
      BY <1>3, <2>1, OwnKnown DEF MemoryTold
  <1> QED
    BY <1>1, <1>4, <1>5, <1>6 DEF AllTold

\* Initially every Entry is behind its source.
LEMMA InitTold == Init => ToldInv
  <1> SUFFICES ASSUME Init PROVE ToldInv
    OBVIOUS
  <1>1. ASSUME NEW v \in Volumes PROVE Told(vol[v], v, baseline.src, source, claims, unseen)
    <2> DEFINE S == {t \in Known : Home[t] = v}
               q == InOrder(S)
    <2>1. S \in SUBSET Targets /\ v \in Assets
      BY VolumeConstants DEF Assets
    <2>2. q \in [1..Cardinality(S) -> S]
      BY <2>1, InOrderSound
    <2>3. vol[v] = [i \in 1..Cardinality(S) |-> Entry(q[i], Text(1, 1))]
      BY <2>1 DEF Init
    <2> HIDE DEF q
    <2>4. ASSUME NEW i \in DOMAIN vol[v] PROVE baseline.src[vol[v][i].t] # source[vol[v][i].t]
      <3>1. i \in 1..Cardinality(S) /\ q[i] \in S /\ vol[v][i] = Entry(q[i], Text(1, 1))
        BY <2>2, <2>3
      <3>2. vol[v][i].t = q[i] /\ q[i] \in Known /\ q[i] \in Targets
        BY <2>1, <3>1 DEF Entry
      <3> QED
        BY <3>2 DEF Init
    <2> QED
      BY <2>4 DEF Told
  <1>2. VolumesTold
    BY <1>1 DEF VolumesTold
  <1>3. RecordsTold
    BY DEF Init, RecordsTold
  <1>4. \A p \in Procs : pc[p] = "idle"
    BY DEF Init
  <1>5. \A l : MemoryTold("idle", l, source, claims, unseen, vol)
    BY DEF MemoryTold, Locked
  <1>6. budget.edits = MaxEdits /\ MaxEdits \in Nat
    BY VolumeConstants DEF Init
  <1> QED
    BY <1>2, <1>3, <1>4, <1>5, <1>6 DEF ToldInv, AllTold

\* Only an outsider who edits is counted as one.
LEMMA EditsCounted ==
    ASSUME CommitInv, [Next]_vars
    PROVE  budget'.edits = budget.edits \/ (OutsideEdit /\ budget'.edits = budget.edits - 1)
  <1>1. \/ UNCHANGED budget
        \/ \E what \in {"calls", "moves", "stops"} : Spend(what)
        \/ OutsideEdit /\ Spend("edits")
    <2>1. ASSUME NEW p \in Procs, Work(p)
          PROVE  UNCHANGED budget \/ Spend("stops")
      BY <2>1 DEF Work, Bind, LockTimeout, LockCommit, SaveRecord, WriteVolume, WriteRefused, Verify,
         LockReconcile, Advance, Recheck, Govern, RecordApplied, EnsureLedger, Archive, Unlink,
         LockRollback, Restore, RestoreVerify
    <2>2. ASSUME NEW p \in Procs, Maintain(p)
          PROVE  UNCHANGED budget \/ Spend("calls")
      BY <2>2 DEF Maintain, MaintainLoad, MaintainAssess, MaintainStart, MaintainRecord,
         MaintainIssue, MaintainDeliver
    <2>3. ASSUME NEW p \in Procs, Stop(p) \/ Submit(p) \/ Resubmit(p) \/ SubmitRollback(p)
          PROVE  UNCHANGED budget \/ Spend("calls") \/ Spend("stops")
      BY <2>3 DEF Stop, Submit, Resubmit, SubmitRollback
    <2>4. OutsideEdit => Spend("edits")
      BY DEF OutsideEdit
    <2>5. SourceEdit => Spend("moves")
      BY DEF SourceEdit
    <2>6. UNCHANGED vars => UNCHANGED budget
      BY DEF vars
    <2> QED
      BY <2>1, <2>2, <2>3, <2>4, <2>5, <2>6 DEF Next
  <1> QED
    BY <1>1 DEF CommitInv, DiskSound, BudgetSound, Spend

\* Every step keeps the fourth invariant.
LEMMA StepTold ==
    ASSUME CommitInv, HandInv, VersionInv, ToldInv, [Next]_vars PROVE ToldInv'
  <1>1. budget.edits \in Nat /\ MaxEdits \in Nat /\ budget.edits <= MaxEdits
    BY VolumeConstants DEF CommitInv, DiskSound, BudgetSound, ToldInv
  <1>2. ASSUME AllTold, ~OutsideEdit PROVE AllTold'
    <2>1. ASSUME NEW p \in Procs, Work(p) PROVE AllTold'
      <3>1. CASE Bind(p) \/ LockCommit(p) \/ LockReconcile(p) \/ LockRollback(p)
        BY <1>2, <3>1, LockTold
      <3>2. CASE SaveRecord(p) \/ WriteVolume(p) \/ Restore(p) \/ Advance(p)
        BY <1>2, <3>2, SaveRecordTold, WriteVolumeTold, RestoreTold, AdvanceTold
      <3>3. CASE LockTimeout(p) \/ WriteRefused(p)
        BY <1>2, <3>3, IdleTold
      <3>4. CASE \/ Verify(p) \/ Recheck(p) \/ Govern(p) \/ RecordApplied(p) \/ EnsureLedger(p)
                 \/ Archive(p) \/ Unlink(p) \/ RestoreVerify(p)
        BY <1>2, <3>4, CloseTold
      <3> QED
        BY <2>1, <3>1, <3>2, <3>3, <3>4 DEF Work
    <2>2. ASSUME NEW p \in Procs,
                 Maintain(p) \/ Stop(p) \/ Submit(p) \/ Resubmit(p) \/ SubmitRollback(p)
          PROVE  AllTold'
      BY <1>2, <2>2, IdleTold
    <2>3. CASE SourceEdit
      BY <1>2, <2>3, SourceEditTold
    <2>4. CASE UNCHANGED vars
      <3>1. UNCHANGED <<vol, source, baseline, active, archive, claims, unseen, pc, loc>>
        BY <2>4 DEF vars, formal, record, proc, history
      <3> QED
        BY <1>2, <3>1 DEF AllTold, VolumesTold, RecordsTold
    <2> QED
      BY <1>2, <2>1, <2>2, <2>3, <2>4 DEF Next
  <1>3. CASE budget'.edits = budget.edits
    <2>1. ~OutsideEdit
      BY <1>3, OutsideEditInv
    <2> QED
      BY <1>1, <1>2, <1>3, <2>1 DEF ToldInv, Undisturbed
  <1>4. CASE budget'.edits = budget.edits - 1
    BY <1>1, <1>4 DEF ToldInv, Undisturbed
  <1> QED
    BY <1>3, <1>4, EditsCounted

\* In every reachable state that nobody disturbed, the Volumes are true under the Baseline,
\* and every record is under the Baseline it keeps.
THEOREM ToldInvariant == Spec => []ToldInv
  <1>1. CommitInv /\ HandInv /\ VersionInv /\ ToldInv /\ [Next]_vars => ToldInv'
    BY StepTold
  <1> QED
    BY <1>1, InitTold, CommitInvariant, HandInvariant, VersionInvariant, PTL DEF Spec

\* When Maintain finds a repository aligned, every Entry was written by a host for the very
\* version its source has, whatever the hosts did concurrently, wherever a process stopped
\* and whatever was rolled back.  The exception are the targets of a batch that found its
\* texts in place: validateVolumePlanPrewrite compares only the Volumes a batch writes, so
\* for them no such theorem holds.
THEOREM AlignedSoundAlways == Spec => []AlignedSound
  <1>1. ASSUME ToldInv PROVE AlignedSound
    <2> SUFFICES ASSUME Aligned, Undisturbed, NEW t \in Targets \ unseen
                 PROVE  <<t, TextOf(vol[Home[t]], t), source[t]>> \in claims
      BY DEF AlignedSound
    <2> DEFINE v == Home[t]
               s == vol[v]
    <2>1. v \in Volumes
      BY VolumeConstants
    <2>2. t \in Described(s) /\ baseline.src[t] = source[t]
      BY <2>1 DEF Aligned, Actionable
    <2>3. Told(s, v, baseline.src, source, claims, unseen)
      BY <1>1, <2>1 DEF ToldInv, AllTold, VolumesTold
    <2>4. PICK i \in DOMAIN s : s[i].t = t /\ TextOf(s, t) = s[i].k
      BY <2>2 DEF Described, TextOf
    <2> QED
      BY <2>2, <2>3, <2>4 DEF Told
  <1> QED
    BY <1>1, ToldInvariant, PTL

-----------------------------------------------------------------------------
(* What can be resumed.  The fifth invariant, for one process that issues  *)
(* one batch for each Volume and never rolls back: as long as nobody edits *)
(* by hand, Volumes only grow, in the order of Below, so that nothing ever *)
(* has the bytes again that a receipt was issued for or that an archived   *)
(* record has replaced.  A batch without a record is then never accepted   *)
(* on a Volume that another one left halfway, and an archived record is    *)
(* never taken for one that is still to be carried out.                    *)

Alone == Parallel = 1 /\ ~Rollbacks /\ \A p, q \in Procs : p = q

\* Every Entry of s is in q, with the same text or a later one, ...
Below(s, q) == \A i \in DOMAIN s : \E j \in DOMAIN q : q[j].t = s[i].t /\ s[i].k <= q[j].k

\* ... and q has an Entry that is new to s, or newer.
Ahead(s, q) == \E j \in DOMAIN q : \A i \in DOMAIN s : s[i].t = q[j].t => s[i].k < q[j].k

\* No target has two Entries.
Single(s) == \A i, j \in DOMAIN s : s[i].t = s[j].t => i = j

\* What a batch was issued on, and what it makes of that.
Was(b, v) == b.r[v].at[v]
Makes(b, v) == Project(b, v, Was(b, v))

\* A receipt was issued on what the Baseline was once, for later versions of the sources
\* than its Entries tell of.
ReceiptOld(r, base) ==
    /\ r.sibling = FALSE
    /\ \A v \in Volumes :
           /\ Single(r.at[v]) /\ Below(r.at[v], base.vol[v])
           /\ \A i \in DOMAIN r.at[v] :
                  r.at[v][i].t \in DOMAIN r.src /\ Home[r.at[v][i].t] = v =>
                      r.at[v][i].k < 10 * r.src[r.at[v][i].t]

\* A batch answers receipts, with new texts or with the ones that are there.
BatchFits(b, issued) ==
    \A v \in WriteSet(b) :
        /\ b.r[v] \in issued
        /\ \A t \in DOMAIN b.r[v].src :
               \/ \E w \in 1..9 : b.text[t] = Text(b.r[v].src[t], w)
               \/ \E i \in DOMAIN Was(b, v) : Was(b, v)[i].t = t /\ Was(b, v)[i].k = b.text[t]

RecordFits(rec, issued) ==
    /\ BatchFits(rec.b, issued)
    /\ \A v \in DOMAIN rec.pre : rec.pre[v] = Was(rec.b, v) /\ rec.post[v] # rec.pre[v]

\* A process has its record on disk.
Recording(l, records) == l.rec \in records /\ l.rec.b = l.b /\ l.tgt \subseteq DOMAIN l.rec.pre

MemoryFits(k, l, bytes, base, issued, records) ==
    /\ k \in {"idle", "assess", "bind", "lock", "record", "write"} \cup Closing
    /\ k \in {"assess", "bind"} => l.snap = bytes
    /\ k \in {"bind", "lock"} \cup Locked => BatchFits(l.b, issued) /\ l.op # "rollback"
    /\ k \in {"lock"} \cup Locked =>
           \A v \in WriteSet(l.b) :
               /\ l.pre[v] = Was(l.b, v) /\ l.post[v] = Makes(l.b, v)
               /\ v \in l.tgt <=> Was(l.b, v) # Makes(l.b, v)
               /\ v \notin l.tgt => bytes[v] = Was(l.b, v)
    /\ k \in {"lock", "record", "write", "advance"} => NotOvertaken(l.b, base)
    /\ k = "lock" /\ l.rec # None => Recording(l, records)
    /\ k = "write" /\ l.tgt # {} => Recording(l, records)
    /\ k \in Closing => \A v \in WriteSet(l.b) : bytes[v] = Makes(l.b, v)
    /\ k \in Closing \ {"advance"} => \A v \in WriteSet(l.b) : base.vol[v] = bytes[v]

Drift ==
    \A v \in Volumes : baseline.vol[v] # vol[v] =>
        \E rec \in active : /\ v \in DOMAIN rec.pre
                            /\ rec.pre[v] = baseline.vol[v] /\ rec.post[v] = vol[v]
BaselineFits ==
    \A v \in Volumes :
        /\ Single(baseline.vol[v])
        /\ \A i \in DOMAIN baseline.vol[v] :
               baseline.vol[v][i].t \in Targets /\ Home[baseline.vol[v][i].t] = v =>
                   baseline.vol[v][i].k < 10 * baseline.src[baseline.vol[v][i].t] + 10
ReceiptsOld == \A r \in receipts : ReceiptOld(r, baseline)
RecordsFit == \A rec \in active \cup archive : RecordFits(rec, receipts)
ArchiveDone ==
    \A rec \in archive : \A v \in DOMAIN rec.pre : Below(rec.post[v], baseline.vol[v])
FilesFit == Drift /\ BaselineFits /\ ReceiptsOld /\ RecordsFit /\ ArchiveDone
AllFits ==
    /\ FilesFit
    /\ \A p \in Procs :
           MemoryFits(pc[p], loc[p], vol, baseline, receipts, active \cup archive)

FitInv == Undisturbed => AllFits

\* InOrder lists every target once.
LEMMA InOrderOnce ==
    ASSUME NEW S \in SUBSET Targets
    PROVE  \A i, j \in 1..Cardinality(S) : InOrder(S)[i] = InOrder(S)[j] => i = j
  <1>1. /\ Cardinality(S) \in Nat
        /\ \E q \in [1..Cardinality(S) -> S] :
               \A i, j \in 1..Cardinality(S) : i < j => q[i] < q[j]
    BY OrderExists, VolumeConstants DEF Targets, InOrderOf
  <1> DEFINE q == InOrder(S)
  <1>2. q \in [1..Cardinality(S) -> S] /\ \A i, j \in 1..Cardinality(S) : i < j => q[i] < q[j]
    BY <1>1 DEF InOrder
  <1> HIDE DEF q
  <1> SUFFICES ASSUME NEW i \in 1..Cardinality(S), NEW j \in 1..Cardinality(S), q[i] = q[j]
               PROVE  i = j
    BY DEF q
  <1>3. q[i] \in Nat /\ q[j] \in Nat
    <2>1. S \subseteq Nat
      BY VolumeConstants DEF Targets
    <2> QED
      BY <1>2, <2>1
  <1>4. (i < j => q[i] < q[j]) /\ (j < i => q[j] < q[i])
    BY <1>2
  <1> QED
    BY <1>1, <1>3, <1>4

\* Two lists joined.
LEMMA Joined ==
    ASSUME NEW R, NEW n \in Nat, NEW c \in Nat, NEW f \in [1..n -> R], NEW g \in [1..c -> R]
    PROVE  /\ DOMAIN (f \o g) = 1..(n + c)
           /\ \A i \in 1..(n + c) : (f \o g)[i] = IF i <= n THEN f[i] ELSE g[i - n]
  <1>1. f \in Seq(R) /\ Len(f) = n
    BY SeqDef
  <1>2. g \in Seq(R) /\ Len(g) = c
    BY SeqDef
  <1> QED
    BY <1>1, <1>2

\* Where the editor puts things: the Entries that are there keep their places and their
\* targets, and new targets follow, each once.
LEMMA EditPlaces ==
    ASSUME NEW s \in Books, NEW u, DOMAIN u \subseteq Targets, \A t \in DOMAIN u : u[t] \in Nat
    PROVE  /\ Edit(s, u) \in Books /\ DOMAIN s \subseteq DOMAIN Edit(s, u)
           /\ \A i \in DOMAIN s :
                  Edit(s, u)[i] = IF s[i].t \in DOMAIN u THEN Entry(s[i].t, u[s[i].t]) ELSE s[i]
           /\ \A i \in DOMAIN Edit(s, u) \ DOMAIN s :
                  /\ Edit(s, u)[i].t \in DOMAIN u \ Described(s)
                  /\ Edit(s, u)[i].k = u[Edit(s, u)[i].t]
           /\ \A i, j \in DOMAIN Edit(s, u) \ DOMAIN s :
                  Edit(s, u)[i].t = Edit(s, u)[j].t => i = j
  <1> DEFINE new == DOMAIN u \ Described(s)
             fresh == InOrder(new)
             old == [i \in DOMAIN s |->
                        IF s[i].t \in DOMAIN u THEN Entry(s[i].t, u[s[i].t]) ELSE s[i]]
             more == [i \in DOMAIN fresh |-> Entry(fresh[i], u[fresh[i]])]
             q == Edit(s, u)
             n == Len(s)
             c == Cardinality(new)
  <1>1. /\ fresh \in [1..c -> new] /\ c \in Nat
        /\ \A i, j \in 1..c : fresh[i] = fresh[j] => i = j
    BY InOrderSound, InOrderOnce
  <1>2. q = old \o more /\ q \in Books
    BY EditSound DEF Edit
  <1>3. n \in Nat /\ DOMAIN s = 1..n
    BY DEF Books
  <1>4. DOMAIN old = 1..n /\ DOMAIN more = 1..c
    BY <1>1, <1>3
  <1>5. \A i \in 1..c : more[i] = Entry(fresh[i], u[fresh[i]])
    BY <1>1
  <1>6. \A i \in DOMAIN s :
            old[i] = IF s[i].t \in DOMAIN u THEN Entry(s[i].t, u[s[i].t]) ELSE s[i]
    OBVIOUS
  <1>7. /\ old \in [1..n -> {old[i] : i \in 1..n} \cup {more[i] : i \in 1..c}]
        /\ more \in [1..c -> {old[i] : i \in 1..n} \cup {more[i] : i \in 1..c}]
    BY <1>1, <1>3
  <1> HIDE DEF fresh, old, more, q, n, c
  <1>9. DOMAIN q = 1..(n + c) /\ \A i \in 1..(n + c) : q[i] = IF i <= n THEN old[i] ELSE more[i - n]
    BY <1>1, <1>2, <1>3, <1>7, Joined
  <1>10. \A i \in DOMAIN q \ DOMAIN s : i - n \in 1..c /\ q[i] = more[i - n]
    BY <1>1, <1>3, <1>9
  <1>11. \A i \in DOMAIN s : i \in DOMAIN q /\ q[i] = old[i]
    BY <1>1, <1>3, <1>9
  <1>12. \A i \in 1..c : fresh[i] \in new /\ more[i].t = fresh[i] /\ more[i].k = u[fresh[i]]
    <2> SUFFICES ASSUME NEW i \in 1..c
                 PROVE  fresh[i] \in new /\ more[i].t = fresh[i] /\ more[i].k = u[fresh[i]]
      OBVIOUS
    <2>1. fresh[i] \in new
      BY <1>1
    <2>2. more[i] = Entry(fresh[i], u[fresh[i]])
      BY <1>5
    <2>3. more[i].t = fresh[i] /\ more[i].k = u[fresh[i]]
      BY <2>2 DEF Entry
    <2> QED
      BY <2>1, <2>3
  <1>13. ASSUME NEW i \in DOMAIN q \ DOMAIN s PROVE q[i].t \in new /\ q[i].k = u[q[i].t]
    BY <1>10, <1>12
  <1>14. ASSUME NEW i \in DOMAIN q \ DOMAIN s, NEW j \in DOMAIN q \ DOMAIN s, q[i].t = q[j].t
         PROVE  i = j
    <2>1. i - n = j - n
      BY <1>1, <1>10, <1>12, <1>14
    <2>2. i \in Nat /\ j \in Nat
      BY <1>1, <1>3, <1>9
    <2> QED
      BY <1>3, <2>1, <2>2
  <1> QED
    BY <1>2, <1>6, <1>11, <1>13, <1>14 DEF q

\* The order of Volumes.
LEMMA BelowOrder ==
    /\ \A s \in Books : Below(s, s)
    /\ \A s, q, z \in Books : Below(s, q) /\ Below(q, z) => Below(s, z)
    /\ \A s, q \in Books : ~(Below(s, q) /\ Ahead(q, s))
  <1>1. \A s \in Books : \A i \in DOMAIN s : s[i].t \in Nat /\ s[i].k \in Nat
    <2>1. \A s \in Books : \A i \in DOMAIN s : s[i] \in [t : Nat, k : Nat]
      BY LenProperties, ElementOfSeq DEF Books
    <2> QED
      BY <2>1
  <1>2. ASSUME NEW s \in Books PROVE Below(s, s)
    BY <1>1 DEF Below
  <1>3. ASSUME NEW s \in Books, NEW q \in Books, NEW z \in Books, Below(s, q), Below(q, z)
        PROVE  Below(s, z)
    <2> SUFFICES ASSUME NEW i \in DOMAIN s
                 PROVE  \E j \in DOMAIN z : z[j].t = s[i].t /\ s[i].k <= z[j].k
      BY DEF Below
    <2>1. PICK j \in DOMAIN q : q[j].t = s[i].t /\ s[i].k <= q[j].k
      BY <1>3 DEF Below
    <2>2. PICK h \in DOMAIN z : z[h].t = q[j].t /\ q[j].k <= z[h].k
      BY <1>3 DEF Below
    <2>3. s[i].k \in Nat /\ q[j].k \in Nat /\ z[h].k \in Nat
      BY <1>1
    <2> QED
      BY <2>1, <2>2, <2>3
  <1>4. ASSUME NEW s \in Books, NEW q \in Books, Below(s, q), Ahead(q, s) PROVE FALSE
    <2>1. PICK j \in DOMAIN s : \A i \in DOMAIN q : q[i].t = s[j].t => q[i].k < s[j].k
      BY <1>4 DEF Ahead
    <2>2. PICK i \in DOMAIN q : q[i].t = s[j].t /\ s[j].k <= q[i].k
      BY <1>4 DEF Below
    <2>3. s[j].k \in Nat /\ q[i].k \in Nat
      BY <1>1
    <2> QED
      BY <2>1, <2>2, <2>3
  <1> QED
    BY <1>2, <1>3, <1>4

\* A batch makes a Volume that is above the one it was issued on.
LEMMA MakesSound ==
    ASSUME NEW b, BatchSound(b), NEW issued, BatchFits(b, issued), NEW v \in WriteSet(b),
           v \in Volumes, NEW base, ReceiptOld(b.r[v], base), \A t \in DOMAIN b.r[v].src : Home[t] = v
    PROVE  /\ Was(b, v) \in Books /\ Makes(b, v) \in Books /\ Single(Makes(b, v))
           /\ Below(Was(b, v), Makes(b, v))
           /\ Was(b, v) # Makes(b, v) => Ahead(Was(b, v), Makes(b, v))
           /\ \A i \in DOMAIN Makes(b, v) :
                  \/ /\ Makes(b, v)[i].t \in DOMAIN b.r[v].src
                     /\ Makes(b, v)[i].k < 10 * b.r[v].src[Makes(b, v)[i].t] + 10
                  \/ /\ Makes(b, v)[i].t \notin DOMAIN b.r[v].src
                     /\ \E j \in DOMAIN Was(b, v) : Makes(b, v)[i] = Was(b, v)[j]
  <1> DEFINE s == Was(b, v)
             x == b.r[v].src
             u == TextsFor(b, v)
             q == Makes(b, v)
  <1>1. s \in Books /\ v \in Assets
    BY DEF BatchSound, ReceiptSound, Was, Assets
  <1>2. /\ DOMAIN u = DOMAIN x /\ DOMAIN u \subseteq Targets
        /\ \A t \in DOMAIN u : u[t] = b.text[t] /\ u[t] \in Nat /\ x[t] \in Nat
    BY DEF BatchSound, ReceiptSound, TextsFor
  <1>3. q = Edit(s, u)
    BY DEF Makes, Project
  <1>4. \A t \in DOMAIN u : \/ \E w \in 1..9 : u[t] = 10 * x[t] + w
                            \/ \E i \in DOMAIN s : s[i].t = t /\ s[i].k = u[t]
    BY <1>2 DEF BatchFits, Text
  <1>5. \A i \in DOMAIN s : s[i].t \in DOMAIN u => s[i].k < 10 * x[s[i].t]
    BY <1>2 DEF ReceiptOld, Was
  <1>6. Single(s)
    BY DEF ReceiptOld, Was
  <1> HIDE DEF s, x, u, q
  <1>7. /\ q \in Books /\ DOMAIN s \subseteq DOMAIN q
        /\ \A i \in DOMAIN s :
               q[i] = IF s[i].t \in DOMAIN u THEN Entry(s[i].t, u[s[i].t]) ELSE s[i]
        /\ \A i \in DOMAIN q \ DOMAIN s :
               q[i].t \in DOMAIN u \ Described(s) /\ q[i].k = u[q[i].t]
        /\ \A i, j \in DOMAIN q \ DOMAIN s : q[i].t = q[j].t => i = j
    BY <1>1, <1>2, <1>3, EditPlaces
  <1>8. \A z \in Books : \A i \in DOMAIN z : z[i].t \in Nat /\ z[i].k \in Nat
    <2>1. \A z \in Books : \A i \in DOMAIN z : z[i] \in [t : Nat, k : Nat]
      BY LenProperties, ElementOfSeq DEF Books
    <2> QED
      BY <2>1
  <1>9. \A i \in DOMAIN s : /\ q[i].t = s[i].t
                            /\ s[i].t \in DOMAIN u => q[i].k = u[s[i].t]
                            /\ s[i].t \notin DOMAIN u => q[i] = s[i]
    <2> SUFFICES ASSUME NEW i \in DOMAIN s
                 PROVE  /\ q[i].t = s[i].t
                        /\ s[i].t \in DOMAIN u => q[i].k = u[s[i].t]
                        /\ s[i].t \notin DOMAIN u => q[i] = s[i]
      OBVIOUS
    <2>1. CASE s[i].t \in DOMAIN u
      <3>1. q[i] = Entry(s[i].t, u[s[i].t])
        BY <1>7, <2>1
      <3> QED
        BY <2>1, <3>1 DEF Entry
    <2>2. CASE s[i].t \notin DOMAIN u
      BY <1>7, <2>2
    <2> QED
      BY <2>1, <2>2
  <1>10. ASSUME NEW i \in DOMAIN s, s[i].t \in DOMAIN u
         PROVE  s[i].k = u[s[i].t] \/ \A j \in DOMAIN s : s[j].t = s[i].t => s[j].k < u[s[i].t]
    <2> DEFINE t == s[i].t
    <2>1. CASE \E w \in 1..9 : u[t] = 10 * x[t] + w
      <3>1. ASSUME NEW j \in DOMAIN s, s[j].t = t PROVE s[j].k < u[t]
        <4>1. s[j].k < 10 * x[t] /\ s[j].k \in Nat /\ x[t] \in Nat
          BY <1>1, <1>2, <1>5, <1>8, <1>10, <3>1
        <4> QED
          BY <2>1, <4>1
      <3> QED
        BY <3>1
    <2>2. CASE \E j \in DOMAIN s : s[j].t = t /\ s[j].k = u[t]
      BY <1>6, <2>2 DEF Single
    <2> QED
      BY <1>4, <1>10, <2>1, <2>2
  <1>11. ASSUME NEW t \in DOMAIN u PROVE u[t] < 10 * x[t] + 10
    <2>1. u[t] \in Nat /\ x[t] \in Nat
      BY <1>2
    <2>2. CASE \E w \in 1..9 : u[t] = 10 * x[t] + w
      BY <2>1, <2>2
    <2>3. CASE \E i \in DOMAIN s : s[i].t = t /\ s[i].k = u[t]
      BY <1>5, <2>1, <2>3
    <2> QED
      BY <1>4, <2>2, <2>3
  <1>12. Single(q)
    <2> SUFFICES ASSUME NEW i \in DOMAIN q, NEW j \in DOMAIN q, q[i].t = q[j].t PROVE i = j
      BY DEF Single
    <2>1. CASE i \in DOMAIN s /\ j \in DOMAIN s
      BY <1>6, <1>9, <2>1 DEF Single
    <2>2. CASE i \in DOMAIN s /\ j \notin DOMAIN s
      BY <1>7, <1>9, <2>2 DEF Described
    <2>3. CASE i \notin DOMAIN s /\ j \in DOMAIN s
      BY <1>7, <1>9, <2>3 DEF Described
    <2>4. CASE i \notin DOMAIN s /\ j \notin DOMAIN s
      BY <1>7, <2>4
    <2> QED
      BY <2>1, <2>2, <2>3, <2>4
  <1>13. Below(s, q)
    <2> SUFFICES ASSUME NEW i \in DOMAIN s PROVE q[i].t = s[i].t /\ s[i].k <= q[i].k
      BY <1>7 DEF Below
    <2>1. s[i].k \in Nat /\ q[i].k \in Nat
      BY <1>1, <1>7, <1>8
    <2>2. s[i].t \in DOMAIN u => s[i].k = u[s[i].t] \/ s[i].k < u[s[i].t]
      BY <1>10
    <2> QED
      BY <1>9, <2>1, <2>2
  <1>14. ASSUME s # q PROVE Ahead(s, q)
    <2>1. CASE \E i \in DOMAIN q : i \notin DOMAIN s
      <3>1. PICK i \in DOMAIN q : i \notin DOMAIN s
        BY <2>1
      <3>2. \A j \in DOMAIN s : s[j].t # q[i].t
        BY <1>7, <3>1 DEF Described
      <3> QED
        BY <3>2 DEF Ahead
    <2>2. CASE DOMAIN q = DOMAIN s
      <3>1. PICK i \in DOMAIN s : q[i] # s[i]
        <4>1. s \in [DOMAIN s -> [t : Nat, k : Nat]] /\ q \in [DOMAIN q -> [t : Nat, k : Nat]]
          BY <1>1, <1>7, LenProperties, ElementOfSeq DEF Books
        <4> QED
          BY <1>14, <2>2, <4>1
      <3>2. s[i].t \in DOMAIN u /\ q[i].t = s[i].t /\ q[i].k = u[s[i].t]
        BY <1>9, <3>1
      <3>3. s[i].k # u[s[i].t]
        <4>1. s[i] \in [t : Nat, k : Nat]
          BY <1>1, LenProperties, ElementOfSeq DEF Books
        <4>2. q[i] = Entry(s[i].t, u[s[i].t])
          BY <1>7, <3>2
        <4> QED
          BY <3>1, <4>1, <4>2 DEF Entry
      <3>4. \A j \in DOMAIN s : s[j].t = q[i].t => s[j].k < q[i].k
        BY <1>10, <3>2, <3>3
      <3> QED
        BY <2>2, <3>4 DEF Ahead
    <2> QED
      BY <1>7, <2>1, <2>2
  <1>15. ASSUME NEW i \in DOMAIN q
         PROVE  \/ q[i].t \in DOMAIN x /\ q[i].k < 10 * x[q[i].t] + 10
                \/ q[i].t \notin DOMAIN x /\ \E j \in DOMAIN s : q[i] = s[j]
    <2>1. CASE i \notin DOMAIN s
      BY <1>2, <1>7, <1>11, <2>1
    <2>2. CASE i \in DOMAIN s
      BY <1>2, <1>9, <1>11, <2>2
    <2> QED
      BY <2>1, <2>2
  <1> QED
    BY <1>1, <1>7, <1>12, <1>13, <1>14, <1>15 DEF s, x, q

\* The same, for a batch whose receipts are on disk.
LEMMA BatchMakes ==
    ASSUME FilesFit, NEW b, BatchSound(b), BatchKnown(b, source, claims), BatchFits(b, receipts),
           NEW v \in WriteSet(b), v \in Volumes
    PROVE  /\ Was(b, v) \in Books /\ Makes(b, v) \in Books /\ Single(Makes(b, v))
           /\ Below(Was(b, v), Makes(b, v)) /\ Below(Was(b, v), baseline.vol[v])
           /\ Was(b, v) # Makes(b, v) => Ahead(Was(b, v), Makes(b, v))
           /\ \A i \in DOMAIN Makes(b, v) :
                  \/ /\ Makes(b, v)[i].t \in DOMAIN b.r[v].src
                     /\ Makes(b, v)[i].k < 10 * b.r[v].src[Makes(b, v)[i].t] + 10
                  \/ /\ Makes(b, v)[i].t \notin DOMAIN b.r[v].src
                     /\ \E j \in DOMAIN Was(b, v) : Makes(b, v)[i] = Was(b, v)[j]
           /\ ~Sibling(b)
  <1>1. \A w \in WriteSet(b) : ReceiptOld(b.r[w], baseline)
    BY DEF BatchFits, FilesFit, ReceiptsOld
  <1>2. \A t \in DOMAIN b.r[v].src : Home[t] = v
    BY VersionOf
  <1>3. Below(Was(b, v), baseline.vol[v])
    BY <1>1 DEF ReceiptOld, Was
  <1>4. ~Sibling(b)
    BY <1>1 DEF Sibling, ReceiptOld
  <1> QED
    BY <1>1, <1>2, <1>3, <1>4, MakesSound

\* What a record binds.
LEMMA RecordFacts ==
    ASSUME CommitInv, HandInv, VersionInv, FilesFit, NEW rec \in active \cup archive,
           NEW v \in DOMAIN rec.pre
    PROVE  /\ v \in WriteSet(rec.b) /\ v \in Volumes
           /\ rec.pre[v] = Was(rec.b, v) /\ rec.post[v] = Makes(rec.b, v)
           /\ Was(rec.b, v) # Makes(rec.b, v)
           /\ rec.pre[v] \in Books /\ rec.post[v] \in Books
           /\ Below(rec.pre[v], rec.post[v]) /\ Ahead(rec.pre[v], rec.post[v])
  <1>1. RecordSound(rec)
    BY DEF CommitInv, DiskSound, RecordsSound
  <1>2. BatchSound(rec.b) /\ BatchKnown(rec.b, source, claims)
    BY DEF HandInv, DiskClean, RecordsClean, RecordClean, VersionInv, DiskKnown, RecordsKnown,
       RecordKnown
  <1>3. BatchFits(rec.b, receipts) /\ rec.pre[v] = Was(rec.b, v) /\ rec.post[v] # rec.pre[v]
    BY DEF FilesFit, RecordsFit, RecordFits
  <1>4. v \in WriteSet(rec.b) /\ v \in Volumes /\ rec.post[v] = Makes(rec.b, v)
    BY <1>1, <1>3 DEF RecordSound, Makes
  <1> QED
    BY <1>2, <1>3, <1>4, BatchMakes

\* A Volume is the one the Baseline has, or above it.
LEMMA DriftFacts ==
    ASSUME CommitInv, HandInv, VersionInv, FilesFit, NEW v \in Volumes
    PROVE  /\ vol[v] \in Books /\ baseline.vol[v] \in Books
           /\ Below(baseline.vol[v], vol[v])
           /\ baseline.vol[v] # vol[v] => Ahead(baseline.vol[v], vol[v])
  <1>1. vol[v] \in Books
    BY DEF HandInv, DiskClean, FormalClean, Assets
  <1>2. CASE baseline.vol[v] = vol[v]
    BY <1>1, <1>2, BelowOrder
  <1>3. CASE baseline.vol[v] # vol[v]
    <2>1. PICK rec \in active : /\ v \in DOMAIN rec.pre
                                /\ rec.pre[v] = baseline.vol[v] /\ rec.post[v] = vol[v]
      BY <1>3 DEF FilesFit, Drift
    <2> QED
      BY <2>1, RecordFacts
  <1> QED
    BY <1>2, <1>3

\* Nothing is left where an archived record has been, and a batch finds the Volume it was
\* issued on only where the Baseline has it.
LEMMA NoReturn ==
    ASSUME CommitInv, HandInv, VersionInv, FilesFit, NEW v \in Volumes
    PROVE  /\ \A rec \in archive : v \in DOMAIN rec.pre => rec.pre[v] # vol[v]
           /\ \A s \in Books : Below(s, baseline.vol[v]) /\ s = vol[v] => baseline.vol[v] = vol[v]
  <1>1. /\ vol[v] \in Books /\ baseline.vol[v] \in Books /\ Below(baseline.vol[v], vol[v])
        /\ baseline.vol[v] # vol[v] => Ahead(baseline.vol[v], vol[v])
    BY DriftFacts
  <1>2. ASSUME NEW rec \in archive, v \in DOMAIN rec.pre, rec.pre[v] = vol[v] PROVE FALSE
    <2>1. rec.pre[v] \in Books /\ rec.post[v] \in Books /\ Ahead(rec.pre[v], rec.post[v])
      BY <1>2, RecordFacts
    <2>2. Below(rec.post[v], baseline.vol[v])
      BY <1>2 DEF FilesFit, ArchiveDone
    <2> QED
      BY <1>1, <1>2, <2>1, <2>2, BelowOrder
  <1> QED
    BY <1>1, <1>2, BelowOrder

\* Receipts are never taken back.
LEMMA FitsKept ==
    ASSUME NEW S, NEW R, S \subseteq R
    PROVE  /\ \A b : BatchFits(b, S) => BatchFits(b, R)
           /\ \A rec : RecordFits(rec, S) => RecordFits(rec, R)
  <1>1. ASSUME NEW b, BatchFits(b, S) PROVE BatchFits(b, R)
    BY <1>1 DEF BatchFits
  <1> QED
    BY <1>1 DEF RecordFits

\* A step of the one process keeps the invariant if it leaves its memory and the files so.
LEMMA FitStep ==
    ASSUME Alone, NEW p \in Procs, FilesFit',
           MemoryFits(pc'[p], loc'[p], vol', baseline', receipts', active' \cup archive')
    PROVE  AllFits'
  BY DEF Alone, AllFits

LEMMA SameFits ==
    ASSUME FilesFit, UNCHANGED <<vol, baseline, receipts, active, archive>> PROVE FilesFit'
  BY DEF FilesFit, Drift, BaselineFits, ReceiptsOld, RecordsFit, ArchiveDone

\* A call that returns.
LEMMA ReturnFits ==
    ASSUME Alone, CommitInv, NEW p \in Procs, Return(p), FilesFit' PROVE AllFits'
  <1>1. pc'[p] = "idle"
    BY OwnMoves
  <1>2. MemoryFits(pc'[p], loc'[p], vol', baseline', receipts', active' \cup archive')
    BY <1>1 DEF MemoryFits, Locked, Closing
  <1> QED
    BY <1>2, FitStep

\* What the one process has in memory.
LEMMA OwnFits ==
    ASSUME CommitInv, HandInv, VersionInv, AllFits, NEW p \in Procs
    PROVE  /\ FilesFit
           /\ MemoryFits(pc[p], loc[p], vol, baseline, receipts, active \cup archive)
           /\ DOMAIN loc[p] = Fields
           /\ pc[p] \in {"bind", "lock"} \cup Locked =>
                  /\ WriteSet(loc[p].b) \subseteq Volumes /\ BatchSound(loc[p].b)
                  /\ BatchKnown(loc[p].b, source, claims) /\ BatchFits(loc[p].b, receipts)
           /\ pc[p] \in {"lock"} \cup Locked => PlanSound(loc[p])
  <1>1. MemorySound(pc[p], loc[p]) /\ MemoryClean(pc[p], loc[p])
    BY DEF CommitInv, HandInv
  <1>2. MemoryKnown(pc[p], loc[p], source, claims, baseline)
    BY DEF VersionInv
  <1>3. MemoryFits(pc[p], loc[p], vol, baseline, receipts, active \cup archive) /\ FilesFit
    BY DEF AllFits
  <1>4. pc[p] \in {"lock"} \cup Locked => PlanSound(loc[p]) /\ PlanClean(loc[p])
    BY <1>1 DEF MemorySound, MemoryClean
  <1>5. pc[p] \in {"bind", "lock"} \cup Locked =>
            WriteSet(loc[p].b) \subseteq Volumes /\ BatchSound(loc[p].b)
    BY <1>1, <1>4 DEF MemorySound, MemoryClean, PlanSound, PlanClean
  <1>6. pc[p] \in {"bind", "lock"} \cup Locked =>
            BatchKnown(loc[p].b, source, claims) /\ BatchFits(loc[p].b, receipts)
    BY <1>2, <1>3 DEF MemoryKnown, MemoryFits
  <1> QED
    BY <1>1, <1>3, <1>4, <1>5, <1>6 DEF MemorySound

\* Maintain issues receipts on what the Baseline has, for the targets whose source the
\* Baseline is behind.
LEMMA MaintainFits ==
    ASSUME Alone, CommitInv, HandInv, VersionInv, AllFits, NEW p \in Procs, Maintain(p)
    PROVE  AllFits'
  <1>1. /\ FilesFit /\ MemoryFits(pc[p], loc[p], vol, baseline, receipts, active \cup archive)
        /\ Parallel = 1
    BY OwnFits DEF Alone
  <1>2. UNCHANGED <<vol, baseline, active, archive>>
    BY DEF Maintain, MaintainLoad, MaintainAssess, MaintainStart, MaintainRecord, MaintainIssue,
       MaintainDeliver, formal, record
  <1>3. pc[p] \notin {"start", "record_plan", "issue", "deliver"}
    BY <1>1 DEF MemoryFits, Closing
  <1>4. CASE MaintainLoad(p)
    <2> DEFINE l == [Idle EXCEPT !.snap = vol]
    <2>1. UNCHANGED receipts /\ pc'[p] = "assess" /\ loc'[p] = l
      BY <1>4, OwnMoves DEF MaintainLoad, drafts
    <2>2. l.snap = vol
      BY DEF Idle
    <2>3. MemoryFits(pc'[p], loc'[p], vol', baseline', receipts', active' \cup archive')
      BY <1>2, <2>1, <2>2 DEF MemoryFits, Locked, Closing
    <2> QED
      BY <1>1, <1>2, <2>1, <2>3, SameFits, FitStep
  <1>5. CASE MaintainAssess(p)
    <2>1. CASE Return(p) /\ UNCHANGED drafts
      BY <1>1, <1>2, <2>1, SameFits, ReturnFits DEF drafts
    <2>2. CASE ~Blocked /\ IssueSingle(p, loc[p].snap)
      <3> DEFINE Issued(S) == Receipt(S, vol, FALSE)
      <3>1. loc[p].snap = vol
        BY <1>1, <1>5 DEF MemoryFits, MaintainAssess
      <3>2. \A v \in Volumes : baseline.vol[v] = vol[v]
        BY <2>2 DEF Blocked
      <3>3. /\ receipts \subseteq receipts'
            /\ \A r \in receipts' \ receipts :
                   \E v \in Volumes : \E S \in SUBSET Actionable(vol, v) : r = Issued(S)
            /\ Return(p)
        <4>1. \A S : \A n : Cut(S, n) \subseteq S /\ DatabaseCut(S, n) \subseteq S
          BY DEF Cut, DatabaseCut
        <4> QED
          BY <2>2, <3>1, <4>1 DEF IssueSingle, DatabaseReceipts, Volumes
      <3>4. ASSUME NEW v \in Volumes, NEW S \in SUBSET Actionable(vol, v)
            PROVE  ReceiptOld(Issued(S), baseline)
        <4> DEFINE r == Issued(S)
        <4>1. r.at = vol /\ r.sibling = FALSE /\ DOMAIN r.src = S /\ \A t \in S : r.src[t] = source[t]
          BY DEF Receipt
        <4>2. \A t \in S : /\ t \in Targets /\ Home[t] = v
                           /\ t \notin Described(vol[v]) \/ baseline.src[t] # source[t]
          BY DEF Actionable
        <4> HIDE DEF r
        <4> SUFFICES ASSUME NEW w \in Volumes
                     PROVE  /\ Single(vol[w]) /\ Below(vol[w], baseline.vol[w])
                            /\ \A i \in DOMAIN vol[w] : vol[w][i].t \in S /\ Home[vol[w][i].t] = w =>
                                   vol[w][i].k < 10 * source[vol[w][i].t]
          BY <4>1 DEF ReceiptOld, r
        <4>3. Single(vol[w]) /\ Below(vol[w], baseline.vol[w])
          <5>1. vol[w] \in Books
            BY <1>1, DriftFacts
          <5> QED
            BY <1>1, <3>2, <5>1, BelowOrder DEF FilesFit, BaselineFits
        <4>4. ASSUME NEW i \in DOMAIN vol[w], vol[w][i].t \in S, Home[vol[w][i].t] = w
              PROVE  vol[w][i].k < 10 * source[vol[w][i].t]
          <5> DEFINE t == vol[w][i].t
          <5>1. t \in Targets /\ Home[t] = v /\ v = w /\ t \in Described(vol[v])
            BY <4>2, <4>4 DEF Described
          <5>2. baseline.src[t] # source[t]
            BY <4>2, <4>4, <5>1
          <5>3. baseline.src[t] \in Nat /\ source[t] \in Nat /\ baseline.src[t] <= source[t]
            BY <5>1, OwnKnown DEF Reached
          <5>4. vol[w][i].k < 10 * baseline.src[t] + 10
            BY <1>1, <3>2, <5>1 DEF FilesFit, BaselineFits
          <5>5. vol[w][i].k \in Nat
            <6>1. vol[w] \in Books
              BY <1>1, DriftFacts
            <6>2. vol[w][i] \in [t : Nat, k : Nat]
              BY <6>1, LenProperties, ElementOfSeq DEF Books
            <6> QED
              BY <6>2
          <5>6. \A a, c, k \in Nat : a <= c /\ a # c /\ k < 10 * a + 10 => k < 10 * c
            OBVIOUS
          <5> QED
            BY <5>2, <5>3, <5>4, <5>5, <5>6
        <4> QED
          BY <4>3, <4>4
      <3> HIDE DEF Issued
      <3>5. ReceiptsOld'
        BY <1>1, <1>2, <3>3, <3>4 DEF FilesFit, ReceiptsOld
      <3>7. RecordsFit'
        BY <1>1, <1>2, <3>3, FitsKept DEF FilesFit, RecordsFit
      <3>8. FilesFit'
        BY <1>1, <1>2, <3>5, <3>7 DEF FilesFit, Drift, BaselineFits, ArchiveDone
      <3> QED
        BY <3>3, <3>8, ReturnFits
    <2> QED
      BY <1>1, <1>5, <2>1, <2>2 DEF MaintainAssess
  <1> QED
    BY <1>3, <1>4, <1>5 DEF Maintain, MaintainStart, MaintainRecord, MaintainIssue, MaintainDeliver

\* A host answers receipts that are on disk, or submits the batch of a record.
LEMMA SubmitFits ==
    ASSUME Alone, CommitInv, HandInv, VersionInv, AllFits, NEW p \in Procs,
           Submit(p) \/ Resubmit(p) \/ SubmitRollback(p)
    PROVE  AllFits'
  <1>1. FilesFit
    BY OwnFits
  <1>2. ASSUME NEW b, BatchFits(b, receipts), Start(p, "apply", b) PROVE AllFits'
    <2> DEFINE l == [Idle EXCEPT !.op = "apply", !.b = b, !.snap = vol, !.base = baseline]
    <2>1. UNCHANGED <<vol, baseline, receipts, active, archive>> /\ pc'[p] = "bind" /\ loc'[p] = l
      BY <1>2, OwnMoves DEF Start, formal, record, drafts
    <2>2. l.op = "apply" /\ l.b = b /\ l.snap = vol
      BY DEF Idle
    <2> HIDE DEF l
    <2>3. MemoryFits(pc'[p], loc'[p], vol', baseline', receipts', active' \cup archive')
      BY <1>2, <2>1, <2>2 DEF MemoryFits, Locked, Closing
    <2> QED
      BY <1>1, <2>1, <2>3, SameFits, FitStep
  <1>3. ~SubmitRollback(p)
    BY DEF Alone, SubmitRollback
  <1>4. CASE Resubmit(p)
    BY <1>1, <1>2, <1>4 DEF Resubmit, FilesFit, RecordsFit, RecordFits
  <1>5. CASE Submit(p)
    <2>1. PICK W \in SUBSET Volumes : \E r \in [W -> receipts] :
              /\ \A v \in W : \A t \in DOMAIN r[v].src : Home[t] = v
              /\ \E text \in Texts(r) : Start(p, "apply", [r |-> r, text |-> text])
      BY <1>5 DEF Submit
    <2>2. PICK r \in [W -> receipts] :
              /\ \A v \in W : \A t \in DOMAIN r[v].src : Home[t] = v
              /\ \E text \in Texts(r) : Start(p, "apply", [r |-> r, text |-> text])
      BY <2>1
    <2>3. PICK text \in Texts(r) : Start(p, "apply", [r |-> r, text |-> text])
      BY <2>2
    <2> DEFINE b == [r |-> r, text |-> text]
    <2>4. ASSUME NEW v \in W, NEW t \in DOMAIN r[v].src
          PROVE  \/ \E w \in 1..9 : text[t] = Text(r[v].src[t], w)
                 \/ \E i \in DOMAIN r[v].at[v] : r[v].at[v][i].t = t /\ r[v].at[v][i].k = text[t]
      <3> DEFINE s == r[v].at[v]
      <3>1. Home[t] = v /\ t \in TargetsOf(r)
        BY <2>2, <2>4 DEF TargetsOf
      <3>2. text[t] \in TextChoices(r, t)
        BY <3>1 DEF Texts
      <3>3. \/ \E w \in Wordings : text[t] = Text(r[v].src[t], w)
            \/ t \in Described(s) /\ text[t] = TextOf(s, t)
        BY <3>1, <3>2 DEF TextChoices
      <3>4. CASE t \in Described(s) /\ text[t] = TextOf(s, t)
        <4> HIDE DEF s
        <4>1. \E i \in DOMAIN s : s[i].t = t /\ TextOf(s, t) = s[i].k
          BY <3>4 DEF Described, TextOf
        <4> QED
          BY <3>4, <4>1 DEF s
      <3> QED
        BY <3>3, <3>4, VolumeConstants
    <2>5. b.r = r /\ b.text = text /\ WriteSet(b) = W
      BY DEF WriteSet
    <2> HIDE DEF b
    <2>6. BatchFits(b, receipts)
      BY <2>4, <2>5 DEF BatchFits, Was
    <2> QED
      BY <1>2, <2>3, <2>6 DEF b
  <1> QED
    BY <1>3, <1>4, <1>5

\* A batch with a record is accepted as the record has it; one without, on the Volumes it
\* was issued on.
LEMMA BindFits ==
    ASSUME Alone, CommitInv, HandInv, VersionInv, AllFits, NEW p \in Procs, Bind(p)
    PROVE  AllFits'
  <1> DEFINE o == loc[p]
             b == o.b
             snap == o.snap
             rec == IF Recorded(b) = {} THEN None ELSE CHOOSE x \in Recorded(b) : TRUE
             pre == Preimage(b, rec, snap)
             post == [v \in WriteSet(b) |-> Project(b, v, snap[v])]
             tgt == {v \in WriteSet(b) : rec # None \/ pre[v] # post[v]}
             op == IF o.op = "rollback" THEN "rollback"
                   ELSE IF AllPost(b, rec, snap, tgt, post, o.base) THEN "reconcile" ELSE "commit"
             l == [o EXCEPT !.op = op, !.rec = rec, !.pre = pre, !.post = post, !.tgt = tgt]
  <1>1. UNCHANGED <<vol, baseline, receipts, active, archive>> /\ pc[p] = "bind"
    BY DEF Bind, formal, record, drafts
  <1>2. Return(p) \/ (Accepted(b, rec, snap) /\ Hold(p, "lock", l))
    BY DEF Bind
  <1>3. /\ FilesFit /\ DOMAIN o = Fields
        /\ WriteSet(b) \subseteq Volumes /\ BatchSound(b)
        /\ BatchKnown(b, source, claims) /\ BatchFits(b, receipts)
        /\ o.snap = vol /\ o.op # "rollback"
    BY <1>1, OwnFits DEF MemoryFits
  <1>4. rec # None => rec \in active \cup archive /\ rec.b = b
    BY DEF Recorded, RecordsOf
  <1>5. op # "rollback"
    BY <1>3
  <1>6. ASSUME Accepted(b, rec, snap), NEW v \in WriteSet(b)
        PROVE  /\ pre[v] = Was(b, v) /\ post[v] = Makes(b, v)
               /\ v \in tgt <=> Was(b, v) # Makes(b, v)
               /\ v \notin tgt => vol[v] = Was(b, v)
               /\ rec # None => v \in DOMAIN rec.pre
    <2>1. ~Sibling(b)
      BY <1>3, <1>6, BatchMakes
    <2>2. pre[v] = Was(b, v)
      BY <1>6, <2>1 DEF Accepted, Was
    <2>3. CASE rec = None
      <3>1. pre[v] = snap[v]
        BY <1>6, <2>3 DEF Preimage
      <3>2. post[v] = Makes(b, v)
        BY <1>6, <2>2, <3>1 DEF Makes
      <3> QED
        BY <1>3, <1>6, <2>2, <2>3, <3>1, <3>2
    <2>4. CASE rec # None
      <3>1. v \in DOMAIN rec.pre /\ post[v] = rec.post[v]
        BY <1>4, <1>6, <2>4 DEF Accepted, Decodes, RecordBinds
      <3>2. rec.post[v] = Makes(b, v) /\ Was(b, v) # Makes(b, v)
        BY <1>3, <1>4, <2>4, <3>1, RecordFacts
      <3> QED
        BY <1>6, <2>2, <2>4, <3>1, <3>2
    <2> QED
      BY <2>3, <2>4
  <1>7. ASSUME Accepted(b, rec, snap) PROVE NotOvertaken(b, baseline)
    <2> SUFFICES ASSUME NEW v \in WriteSet(b), NEW t \in DOMAIN b.r[v].src
                 PROVE  baseline.src[t] <= b.r[v].src[t]
      BY DEF NotOvertaken
    <2> HIDE DEF b, rec
    <2>1. t \in Targets
      BY <1>3, VersionOf
    <2>2. t \in TargetsOf(b.r) /\ SourceVersion(b, t) = b.r[v].src[t]
      BY <1>3, VersionIs
    <2>3. source[t] = b.r[v].src[t]
      BY <1>7, <2>2 DEF Accepted
    <2> QED
      BY <2>1, <2>3, OwnKnown DEF Reached
  <1>8. /\ l.b = b /\ l.op = op /\ l.rec = rec /\ l.pre = pre /\ l.post = post /\ l.tgt = tgt
    <2> HIDE DEF op, rec, pre, post, tgt
    <2> QED
      BY <1>3 DEF Fields
  <1>9. CASE Accepted(b, rec, snap) /\ Hold(p, "lock", l)
    <2>1. pc'[p] = "lock" /\ loc'[p] = l
      BY <1>9, OwnMoves
    <2>2. rec # None => Recording(l, active \cup archive)
      <3>1. tgt \subseteq WriteSet(b)
        OBVIOUS
      <3> HIDE DEF op, rec, pre, post, tgt, l
      <3> QED
        BY <1>4, <1>6, <1>8, <1>9, <3>1 DEF Recording
    <2>3. \A v \in WriteSet(b) :
              /\ pre[v] = Was(b, v) /\ post[v] = Makes(b, v)
              /\ v \in tgt <=> Was(b, v) # Makes(b, v)
              /\ v \notin tgt => vol[v] = Was(b, v)
      BY <1>6, <1>9
    <2>4. NotOvertaken(b, baseline)
      BY <1>7, <1>9
    <2> HIDE DEF op, rec, pre, post, tgt, l, b
    <2>5. MemoryFits(pc'[p], loc'[p], vol', baseline', receipts', active' \cup archive')
      BY <1>1, <1>3, <1>5, <1>8, <2>1, <2>2, <2>3, <2>4 DEF MemoryFits, Locked, Closing
    <2> QED
      BY <1>1, <1>3, <2>5, SameFits, FitStep
  <1> QED
    BY <1>1, <1>2, <1>3, <1>9, SameFits, ReturnFits

\* Under the lock a batch finds the memory of its plan true; nobody else has been there.
LEMMA LockFits ==
    ASSUME Alone, CommitInv, HandInv, VersionInv, AllFits, NEW p \in Procs,
           LockTimeout(p) \/ LockCommit(p) \/ LockReconcile(p) \/ LockRollback(p) \/ Stop(p)
    PROVE  AllFits'
  <1> DEFINE o == loc[p]
  <1>1. UNCHANGED <<vol, baseline, receipts, active, archive>> /\ FilesFit
    BY OwnFits DEF LockTimeout, LockCommit, LockReconcile, LockRollback, Stop, formal, record, drafts
  <1>2. FilesFit'
    BY <1>1, SameFits
  <1>3. /\ MemoryFits(pc[p], o, vol, baseline, receipts, active \cup archive)
        /\ DOMAIN o = Fields
    BY OwnFits
  <1>4. CASE LockTimeout(p) \/ Stop(p)
    BY <1>2, <1>4, ReturnFits DEF LockTimeout, Stop
  <1>5. ~LockRollback(p)
    BY <1>3 DEF LockRollback, MemoryFits
  <1>6. CASE LockCommit(p)
    <2>1. pc[p] = "lock"
      BY <1>6 DEF LockCommit
    <2>2. Reproject(o) = o
      <3>1. ~Sibling(o.b)
        <4>1. Sibling(o.b) => "code" \in WriteSet(o.b)
          BY DEF Sibling
        <4> QED
          BY <1>1, <2>1, <4>1, OwnFits, BatchMakes
      <3> QED
        BY <3>1 DEF Reproject, Reprojects
    <2> DEFINE k == IF o.rec = None /\ o.tgt # {} THEN "record" ELSE "write"
               m == [o EXCEPT !.base = baseline, !.todo = o.tgt]
    <2>3. Return(p) \/ Take(p, k, m)
      BY <1>6, <2>2 DEF LockCommit
    <2>4. m.b = o.b /\ m.op = o.op /\ m.rec = o.rec /\ m.pre = o.pre /\ m.post = o.post /\ m.tgt = o.tgt
      BY <1>3 DEF Fields
    <2>5. k \in {"record", "write"} /\ (k = "write" /\ o.tgt # {} => o.rec # None)
      OBVIOUS
    <2> HIDE DEF k, m
    <2>6. CASE Take(p, k, m)
      <3>1. pc'[p] = k /\ loc'[p] = m
        BY <2>6, OwnMoves
      <3>2. MemoryFits(pc'[p], loc'[p], vol', baseline', receipts', active' \cup archive')
        BY <1>1, <1>3, <2>1, <2>4, <2>5, <3>1 DEF MemoryFits, Locked, Closing, Recording
      <3> QED
        BY <1>2, <3>2, FitStep
    <2> QED
      BY <1>2, <2>3, <2>6, ReturnFits
  <1>7. CASE LockReconcile(p)
    <2> DEFINE m == [o EXCEPT !.base = baseline]
    <2>1. pc[p] = "lock"
      BY <1>7 DEF LockReconcile
    <2>2. \/ Return(p)
          \/ Take(p, "advance", m) /\ \A v \in o.tgt : vol[v] = o.post[v]
      BY <1>7 DEF LockReconcile
    <2>3. m.b = o.b /\ m.op = o.op /\ m.rec = o.rec /\ m.pre = o.pre /\ m.post = o.post /\ m.tgt = o.tgt
      BY <1>3 DEF Fields
    <2> HIDE DEF m
    <2>4. CASE Take(p, "advance", m) /\ \A v \in o.tgt : vol[v] = o.post[v]
      <3>1. pc'[p] = "advance" /\ loc'[p] = m
        BY <2>4, OwnMoves
      <3>2. \A v \in WriteSet(o.b) : vol[v] = Makes(o.b, v)
        BY <1>3, <2>1, <2>4 DEF MemoryFits
      <3>3. MemoryFits(pc'[p], loc'[p], vol', baseline', receipts', active' \cup archive')
        BY <1>1, <1>3, <2>1, <2>3, <3>1, <3>2 DEF MemoryFits, Locked, Closing
      <3> QED
        BY <1>2, <3>3, FitStep
    <2> QED
      BY <1>2, <2>2, <2>4, ReturnFits
  <1> QED
    BY <1>4, <1>5, <1>6, <1>7

\* A record that goes while its Volumes are as its batch was issued on them explains nothing.
LEMMA ExplainsElsewhere ==
    ASSUME CommitInv, HandInv, VersionInv, FilesFit, NEW b, NEW v \in Volumes,
           v \in WriteSet(b) /\ Was(b, v) # Makes(b, v) => vol[v] = Was(b, v),
           NEW rec \in active, v \in DOMAIN rec.pre, rec.post[v] = vol[v]
    PROVE  rec.b # b
  BY RecordFacts

\* The record is there before the first write.
LEMMA SaveRecordFits ==
    ASSUME Alone, CommitInv, HandInv, VersionInv, AllFits, NEW p \in Procs, SaveRecord(p)
    PROVE  AllFits'
  <1> DEFINE o == loc[p]
             R == RecordFor(o)
             m == [o EXCEPT !.rec = R]
  <1>1. UNCHANGED <<vol, baseline, receipts, archive>> /\ pc[p] = "record"
    BY DEF SaveRecord, formal, drafts
  <1>2. /\ FilesFit /\ MemoryFits(pc[p], o, vol, baseline, receipts, active \cup archive)
        /\ DOMAIN o = Fields
    BY OwnFits
  <1>3. CASE Return(p) /\ UNCHANGED active
    BY <1>1, <1>2, <1>3, SameFits, ReturnFits
  <1>4. CASE /\ \A v \in o.tgt : vol[v] = o.pre[v]
             /\ active' = (active \ RecordsOf(active, o.b)) \cup {R} /\ Hold(p, "write", m)
    <2>1. /\ BatchFits(o.b, receipts) /\ o.op # "rollback"
          /\ \A v \in WriteSet(o.b) : /\ o.pre[v] = Was(o.b, v) /\ o.post[v] = Makes(o.b, v)
                                      /\ v \in o.tgt <=> Was(o.b, v) # Makes(o.b, v)
          /\ o.tgt \subseteq WriteSet(o.b)
      BY <1>1, <1>2, OwnFits DEF MemoryFits, Locked, PlanSound
    <2>2. R.b = o.b /\ DOMAIN R.pre = o.tgt
          /\ \A v \in o.tgt : R.pre[v] = o.pre[v] /\ R.post[v] = o.post[v]
      BY DEF RecordFor
    <2> HIDE DEF R
    <2>3. RecordFits(R, receipts)
      BY <2>1, <2>2 DEF RecordFits
    <2>4. RecordsFit'
      BY <1>1, <1>2, <1>4, <2>3 DEF FilesFit, RecordsFit
    <2>5. Drift'
      <3> SUFFICES ASSUME NEW v \in Volumes, baseline.vol[v] # vol[v]
                   PROVE  \E rec \in active' : /\ v \in DOMAIN rec.pre
                                               /\ rec.pre[v] = baseline.vol[v] /\ rec.post[v] = vol[v]
        BY <1>1 DEF Drift
      <3>1. PICK rec \in active : /\ v \in DOMAIN rec.pre
                                  /\ rec.pre[v] = baseline.vol[v] /\ rec.post[v] = vol[v]
        BY <1>2 DEF FilesFit, Drift
      <3>2. rec.b # o.b
        BY <1>2, <1>4, <2>1, <3>1, ExplainsElsewhere
      <3> QED
        BY <1>4, <3>1, <3>2 DEF RecordsOf
    <2>6. FilesFit'
      BY <1>1, <1>2, <2>4, <2>5 DEF FilesFit, BaselineFits, ReceiptsOld, ArchiveDone
    <2>7. /\ m.b = o.b /\ m.op = o.op /\ m.rec = R /\ m.pre = o.pre /\ m.post = o.post
          /\ m.tgt = o.tgt
      BY <1>2 DEF Fields
    <2>8. pc'[p] = "write" /\ loc'[p] = m
      BY <1>4, OwnMoves
    <2> HIDE DEF m
    <2>9. Recording(m, active' \cup archive')
      BY <1>4, <2>2, <2>7 DEF Recording
    <2>10. MemoryFits(pc'[p], loc'[p], vol', baseline', receipts', active' \cup archive')
      BY <1>1, <1>2, <2>7, <2>8, <2>9 DEF MemoryFits, Locked, Closing
    <2> QED
      BY <2>6, <2>10, FitStep
  <1> QED
    BY <1>3, <1>4 DEF SaveRecord

\* The bytes that are replaced are the Baseline's, and the record of the batch is pending.
LEMMA WriteVolumeFits ==
    ASSUME Alone, CommitInv, HandInv, VersionInv, AllFits, NEW p \in Procs, WriteVolume(p)
    PROVE  AllFits'
  <1> DEFINE o == loc[p]
             v == NextVolume(o)
             m == [o EXCEPT !.todo = @ \ {v}]
  <1>1. /\ UNCHANGED <<baseline, receipts, active, archive>> /\ pc[p] = "write" /\ o.todo # {}
        /\ vol[v] \in {o.pre[v], o.post[v]} /\ vol' = [vol EXCEPT ![v] = o.post[v]]
        /\ Hold(p, "write", m)
    BY DEF WriteVolume, record, drafts
  <1>2. /\ FilesFit /\ MemoryFits(pc[p], o, vol, baseline, receipts, active \cup archive)
        /\ DOMAIN o = Fields /\ DOMAIN vol = Assets
        /\ o.tgt \subseteq WriteSet(o.b) /\ WriteSet(o.b) \subseteq Volumes
    BY <1>1, OwnFits, OwnState DEF PlanSound, Locked
  <1>3. v \in o.tgt
    <2>1. o.todo \subseteq o.tgt
      BY <1>1, OwnState DEF MemorySound
    <2> QED
      BY <1>1, <1>2, <2>1 DEF NextVolume, Volumes
  <1>4. /\ BatchFits(o.b, receipts) /\ o.pre[v] = Was(o.b, v) /\ o.post[v] = Makes(o.b, v)
        /\ Recording(o, active \cup archive)
    BY <1>1, <1>2, <1>3 DEF MemoryFits, Locked
  <1>5. v \in WriteSet(o.b) /\ v \in Volumes /\ v \in Assets
    BY <1>2, <1>3 DEF Assets
  <1>6. m.b = o.b /\ m.op = o.op /\ m.rec = o.rec /\ m.pre = o.pre /\ m.post = o.post /\ m.tgt = o.tgt
    BY <1>2 DEF Fields
  <1>7. pc'[p] = "write" /\ loc'[p] = m
    BY <1>1, OwnMoves
  <1> HIDE DEF m, v
  <1>8. vol'[v] = Makes(o.b, v) /\ \A w \in Volumes : w # v => vol'[w] = vol[w]
    BY <1>1, <1>2, <1>4, <1>5
  <1>9. ASSUME vol[v] # Makes(o.b, v)
        PROVE  \E rec \in active : /\ v \in DOMAIN rec.pre
                                   /\ rec.pre[v] = baseline.vol[v] /\ rec.post[v] = Makes(o.b, v)
    <2>1. vol[v] = Was(o.b, v)
      BY <1>1, <1>4, <1>9
    <2>2. Was(o.b, v) \in Books /\ Below(Was(o.b, v), baseline.vol[v])
      BY <1>1, <1>2, <1>5, OwnFits, BatchMakes DEF Locked
    <2>3. baseline.vol[v] = Was(o.b, v)
      BY <1>2, <1>5, <2>1, <2>2, NoReturn
    <2>4. o.rec \in active \cup archive /\ o.rec.b = o.b /\ v \in DOMAIN o.rec.pre
      BY <1>3, <1>4 DEF Recording
    <2>5. o.rec.pre[v] = Was(o.b, v) /\ o.rec.post[v] = Makes(o.b, v)
      BY <1>2, <2>4, RecordFacts
    <2>6. o.rec \in active
      BY <1>2, <1>5, <2>1, <2>4, <2>5, NoReturn
    <2> QED
      BY <2>3, <2>4, <2>5, <2>6
  <1>10. Drift'
    <2> SUFFICES ASSUME NEW w \in Volumes, baseline.vol[w] # vol'[w]
                 PROVE  \E rec \in active : /\ w \in DOMAIN rec.pre
                                            /\ rec.pre[w] = baseline.vol[w] /\ rec.post[w] = vol'[w]
      BY <1>1 DEF Drift
    <2>1. CASE vol'[w] = vol[w]
      BY <1>2, <2>1 DEF FilesFit, Drift
    <2>2. CASE vol'[w] # vol[w]
      BY <1>8, <1>9, <2>2
    <2> QED
      BY <2>1, <2>2
  <1>11. FilesFit'
    BY <1>1, <1>2, <1>10 DEF FilesFit, BaselineFits, ReceiptsOld, RecordsFit, ArchiveDone
  <1>12. \A w \in WriteSet(o.b) : w \notin o.tgt => vol'[w] = vol[w]
    BY <1>2, <1>3, <1>8
  <1>13. MemoryFits(pc'[p], loc'[p], vol', baseline', receipts', active' \cup archive')
    BY <1>1, <1>2, <1>6, <1>7, <1>12 DEF MemoryFits, Locked, Closing, Recording
  <1> QED
    BY <1>11, <1>13, FitStep

\* A refused write takes the record away only where nothing is written.
LEMMA WriteRefusedFits ==
    ASSUME Alone, CommitInv, HandInv, VersionInv, AllFits, NEW p \in Procs, WriteRefused(p)
    PROVE  AllFits'
  <1> DEFINE o == loc[p]
  <1>1. /\ UNCHANGED <<vol, baseline, receipts, archive>> /\ pc[p] = "write" /\ Return(p)
        /\ active' = IF \A w \in o.tgt : vol[w] = o.pre[w]
                     THEN active \ RecordsOf(active, o.b) ELSE active
    BY DEF WriteRefused, formal, drafts
  <1>2. /\ FilesFit /\ MemoryFits(pc[p], o, vol, baseline, receipts, active \cup archive)
    BY OwnFits
  <1>3. \A v \in WriteSet(o.b) : /\ o.pre[v] = Was(o.b, v)
                                 /\ v \in o.tgt <=> Was(o.b, v) # Makes(o.b, v)
    BY <1>1, <1>2 DEF MemoryFits, Locked
  <1>4. active' \subseteq active
    BY <1>1
  <1>5. RecordsFit'
    BY <1>1, <1>2, <1>4 DEF FilesFit, RecordsFit
  <1>6. Drift'
    <2> SUFFICES ASSUME NEW v \in Volumes, baseline.vol[v] # vol[v]
                 PROVE  \E rec \in active' : /\ v \in DOMAIN rec.pre
                                             /\ rec.pre[v] = baseline.vol[v] /\ rec.post[v] = vol[v]
      BY <1>1 DEF Drift
    <2>1. PICK rec \in active : /\ v \in DOMAIN rec.pre
                                /\ rec.pre[v] = baseline.vol[v] /\ rec.post[v] = vol[v]
      BY <1>2 DEF FilesFit, Drift
    <2>2. CASE \A w \in o.tgt : vol[w] = o.pre[w]
      <3>1. rec.b # o.b
        BY <1>2, <1>3, <2>1, <2>2, ExplainsElsewhere
      <3> QED
        BY <1>1, <2>1, <2>2, <3>1 DEF RecordsOf
    <2>3. CASE ~\A w \in o.tgt : vol[w] = o.pre[w]
      BY <1>1, <2>1, <2>3
    <2> QED
      BY <2>2, <2>3
  <1>7. FilesFit'
    BY <1>1, <1>2, <1>5, <1>6 DEF FilesFit, BaselineFits, ReceiptsOld, ArchiveDone
  <1> QED
    BY <1>1, <1>7, ReturnFits

\* The Baseline moves up to the Volumes that its batch has made, and over no other record.
LEMMA AdvanceFits ==
    ASSUME Alone, CommitInv, HandInv, VersionInv, AllFits, NEW p \in Procs, Advance(p)
    PROVE  AllFits'
  <1> DEFINE o == loc[p]
             b == o.b
  <1>1. UNCHANGED <<vol, receipts, active, archive>> /\ pc[p] = "advance"
    BY DEF Advance, record, drafts
  <1>2. /\ FilesFit /\ MemoryFits(pc[p], o, vol, baseline, receipts, active \cup archive)
        /\ WriteSet(b) \subseteq Volumes /\ BatchSound(b)
        /\ BatchKnown(b, source, claims) /\ BatchFits(b, receipts)
    BY <1>1, OwnFits DEF Locked
  <1>3. CASE Return(p) /\ UNCHANGED baseline
    BY <1>1, <1>2, <1>3, SameFits, ReturnFits
  <1>4. CASE baseline' = AdvancedBaseline(o) /\ Continue(p, "recheck")
    <2>1. o.base = baseline
      BY <1>1 DEF VersionInv, MemoryKnown
    <2>2. \A v \in WriteSet(b) : vol[v] = Makes(b, v)
      BY <1>1, <1>2 DEF MemoryFits, Closing
    <2>3. /\ \A v \in Volumes : baseline'.vol[v] = IF v \in WriteSet(b) THEN vol[v] ELSE baseline.vol[v]
          /\ \A t \in Targets :
                 baseline'.src[t] = IF t \in TargetsOf(b.r) THEN SourceVersion(b, t)
                                    ELSE baseline.src[t]
      BY <1>4, <2>1 DEF AdvancedBaseline, Assets
    <2>4. ASSUME NEW v \in Volumes
          PROVE  /\ baseline'.vol[v] \in Books /\ baseline.vol[v] \in Books
                 /\ Below(baseline.vol[v], baseline'.vol[v])
      BY <1>2, <2>3, DriftFacts, BelowOrder
    <2>5. Drift'
      BY <1>1, <1>2, <2>3 DEF FilesFit, Drift
    <2>6. ReceiptsOld'
      <3> SUFFICES ASSUME NEW r \in receipts, NEW v \in Volumes PROVE Below(r.at[v], baseline'.vol[v])
        BY <1>1, <1>2 DEF FilesFit, ReceiptsOld, ReceiptOld
      <3>1. r.at[v] \in Books
        BY DEF HandInv, DiskClean, DraftsClean, ReceiptSound, Assets
      <3>2. Below(r.at[v], baseline.vol[v])
        BY <1>2 DEF FilesFit, ReceiptsOld, ReceiptOld
      <3> QED
        BY <2>4, <3>1, <3>2, BelowOrder
    <2>7. ArchiveDone'
      <3> SUFFICES ASSUME NEW rec \in archive, NEW v \in DOMAIN rec.pre
                   PROVE  Below(rec.post[v], baseline'.vol[v])
        BY <1>1 DEF ArchiveDone
      <3>1. v \in Volumes /\ rec.post[v] \in Books
        BY <1>2, RecordFacts
      <3>2. Below(rec.post[v], baseline.vol[v])
        BY <1>2 DEF FilesFit, ArchiveDone
      <3> QED
        BY <2>4, <3>1, <3>2, BelowOrder
    <2>8. BaselineFits'
      <3> SUFFICES ASSUME NEW v \in Volumes
                   PROVE  /\ Single(baseline'.vol[v])
                          /\ \A i \in DOMAIN baseline'.vol[v] :
                                 /\ baseline'.vol[v][i].t \in Targets
                                 /\ Home[baseline'.vol[v][i].t] = v
                                 => baseline'.vol[v][i].k
                                        < 10 * baseline'.src[baseline'.vol[v][i].t] + 10
        BY DEF BaselineFits
      <3>1. ASSUME NEW t \in Targets, Home[t] = v, v \notin WriteSet(b) \/ t \notin DOMAIN b.r[v].src
            PROVE  baseline'.src[t] = baseline.src[t]
        <4>1. t \notin TargetsOf(b.r)
          <5> SUFFICES ASSUME t \in TargetsOf(b.r) PROVE FALSE
            OBVIOUS
          <5> HIDE DEF b
          <5>1. PICK w \in WriteSet(b) : t \in DOMAIN b.r[w].src
            BY TargetOf
          <5>2. Home[t] = w
            BY <1>2, <5>1, VersionOf
          <5> QED
            BY <3>1, <5>1, <5>2
        <4> QED
          BY <2>3, <4>1
      <3>2. Single(baseline.vol[v]) /\ \A i \in DOMAIN baseline.vol[v] :
                baseline.vol[v][i].t \in Targets /\ Home[baseline.vol[v][i].t] = v =>
                    baseline.vol[v][i].k < 10 * baseline.src[baseline.vol[v][i].t] + 10
        BY <1>2 DEF FilesFit, BaselineFits
      <3>3. CASE v \notin WriteSet(b)
        BY <2>3, <3>1, <3>2, <3>3
      <3>4. CASE v \in WriteSet(b)
        <4> DEFINE q == Makes(b, v)
                   s == Was(b, v)
                   x == b.r[v].src
        <4>1. baseline'.vol[v] = q
          BY <2>2, <2>3, <3>4
        <4>2. /\ Single(q) /\ Below(s, baseline.vol[v]) /\ s \in Books
              /\ \A i \in DOMAIN q : \/ q[i].t \in DOMAIN x /\ q[i].k < 10 * x[q[i].t] + 10
                                     \/ q[i].t \notin DOMAIN x /\ \E j \in DOMAIN s : q[i] = s[j]
          BY <1>2, <3>4, BatchMakes
        <4> HIDE DEF q, s
        <4>3. ASSUME NEW i \in DOMAIN q, q[i].t \in Targets, Home[q[i].t] = v
              PROVE  q[i].k < 10 * baseline'.src[q[i].t] + 10
          <5> DEFINE t == q[i].t
          <5>1. CASE t \in DOMAIN x
            <6>1. t \in TargetsOf(b.r) /\ SourceVersion(b, t) = x[t]
              BY <1>2, <3>4, <5>1, VersionIs
            <6>2. baseline'.src[t] = x[t]
              BY <2>3, <4>3, <6>1
            <6> QED
              BY <4>2, <5>1, <6>2
          <5>2. CASE t \notin DOMAIN x
            <6>1. PICK j \in DOMAIN s : q[i] = s[j]
              BY <4>2, <5>2
            <6>2. PICK h \in DOMAIN baseline.vol[v] :
                      baseline.vol[v][h].t = s[j].t /\ s[j].k <= baseline.vol[v][h].k
              BY <4>2 DEF Below
            <6>3. baseline.vol[v][h].k < 10 * baseline.src[t] + 10
              BY <3>2, <4>3, <6>1, <6>2
            <6>4. baseline'.src[t] = baseline.src[t]
              BY <3>1, <4>3, <5>2
            <6>5. s[j].k \in Nat /\ baseline.vol[v][h].k \in Nat /\ baseline.src[t] \in Nat
              <7>1. \A z \in Books : \A n \in DOMAIN z : z[n] \in [t : Nat, k : Nat]
                BY LenProperties, ElementOfSeq DEF Books
              <7>2. baseline.src[t] \in Nat
                BY <4>3, OwnKnown DEF Reached
              <7>3. s[j] \in [t : Nat, k : Nat] /\ baseline.vol[v][h] \in [t : Nat, k : Nat]
                BY <2>4, <4>2, <7>1
              <7> QED
                BY <7>2, <7>3
            <6>6. q[i].k = s[j].k
              BY <6>1
            <6> HIDE DEF t
            <6>7. q[i].k < 10 * baseline.src[t] + 10
              BY <6>2, <6>3, <6>5, <6>6
            <6> QED
              BY <6>4, <6>7 DEF t
          <5> QED
            BY <5>1, <5>2
        <4> QED
          BY <4>1, <4>2, <4>3
      <3> QED
        BY <3>3, <3>4
    <2>9. FilesFit'
      BY <1>1, <1>2, <2>5, <2>6, <2>7, <2>8 DEF FilesFit, RecordsFit
    <2>10. pc'[p] = "recheck" /\ loc'[p] = o
      BY <1>4, OwnMoves
    <2>11. \A v \in WriteSet(b) : baseline'.vol[v] = vol[v]
      BY <1>2, <2>3
    <2>12. MemoryFits(pc'[p], loc'[p], vol', baseline', receipts', active' \cup archive')
      BY <1>1, <1>2, <2>10, <2>11 DEF MemoryFits, Locked, Closing
    <2> QED
      BY <2>9, <2>12, FitStep
  <1> QED
    BY <1>3, <1>4 DEF Advance

\* What closes a batch, once the Baseline has its Volumes.
LEMMA CloseFits ==
    ASSUME Alone, CommitInv, HandInv, VersionInv, AllFits, NEW p \in Procs,
           \/ Verify(p) \/ Recheck(p) \/ Govern(p) \/ RecordApplied(p) \/ EnsureLedger(p)
           \/ Archive(p) \/ Unlink(p) \/ Restore(p) \/ RestoreVerify(p)
    PROVE  AllFits'
  <1> DEFINE o == loc[p]
             Late == Closing \ {"advance"}
  <1>1. /\ FilesFit /\ MemoryFits(pc[p], o, vol, baseline, receipts, active \cup archive)
    BY OwnFits
  <1>2. ~Restore(p) /\ ~RestoreVerify(p)
    BY <1>1 DEF Restore, RestoreVerify, MemoryFits, Closing
  <1>3. CASE Verify(p)
    <2>1. UNCHANGED <<vol, baseline, receipts, active, archive>> /\ pc[p] = "write"
      BY <1>3 DEF Verify, formal, record, drafts
    <2>2. CASE Continue(p, "advance") /\ \A v \in o.tgt : vol[v] = o.post[v]
      <3>1. pc'[p] = "advance" /\ loc'[p] = o
        BY <2>2, OwnMoves
      <3>2. \A v \in WriteSet(o.b) : vol[v] = Makes(o.b, v)
        BY <1>1, <2>1, <2>2 DEF MemoryFits, Locked
      <3>3. MemoryFits(pc'[p], loc'[p], vol', baseline', receipts', active' \cup archive')
        BY <1>1, <2>1, <3>1, <3>2 DEF MemoryFits, Locked, Closing
      <3> QED
        BY <1>1, <2>1, <3>3, SameFits, FitStep
    <2> QED
      BY <1>1, <1>3, <2>1, <2>2, SameFits, ReturnFits DEF Verify
  <1>4. ASSUME pc[p] \in Late, NEW k \in Late, Continue(p, k), UNCHANGED <<vol, baseline, receipts>>
        PROVE  MemoryFits(pc'[p], loc'[p], vol', baseline', receipts', active' \cup archive')
    <2>1. pc'[p] = k /\ loc'[p] = o
      BY <1>4, OwnMoves
    <2>2. k \in Locked /\ k \notin {"idle", "assess", "bind", "lock", "record", "write", "advance"}
      BY DEF Locked, Closing
    <2>3. pc[p] \in Locked
      BY <1>4 DEF Locked, Closing
    <2> QED
      BY <1>1, <1>4, <2>1, <2>2, <2>3 DEF MemoryFits
  <1>5. CASE Recheck(p) \/ Govern(p) \/ RecordApplied(p) \/ EnsureLedger(p)
    <2>1. UNCHANGED <<vol, baseline, receipts, active, archive>>
      BY <1>5 DEF Recheck, Govern, RecordApplied, EnsureLedger, formal, record, drafts
    <2>2. pc[p] \in Late /\ (Return(p) \/ \E k \in Late : Continue(p, k))
      BY <1>5 DEF Recheck, Govern, RecordApplied, EnsureLedger, Closing
    <2> QED
      BY <1>1, <1>4, <2>1, <2>2, SameFits, FitStep, ReturnFits
  <1>6. CASE Archive(p)
    <2> DEFINE mine == RecordsOf(active, o.b)
    <2>1. /\ UNCHANGED <<vol, baseline, receipts, active>> /\ pc[p] = "archive"
          /\ \/ Return(p) /\ UNCHANGED archive
             \/ Continue(p, "unlink") /\ archive' = archive \cup mine
      BY <1>6 DEF Archive, formal, drafts
    <2>2. CASE Return(p) /\ UNCHANGED archive
      BY <1>1, <2>1, <2>2, SameFits, ReturnFits
    <2>3. CASE Continue(p, "unlink") /\ archive' = archive \cup mine
      <3>1. RecordsFit'
        BY <1>1, <2>1, <2>3 DEF RecordsOf, FilesFit, RecordsFit
      <3>2. \A v \in WriteSet(o.b) : baseline.vol[v] = Makes(o.b, v)
        BY <1>1, <2>1 DEF MemoryFits, Closing
      <3>3. ArchiveDone'
        <4> SUFFICES ASSUME NEW rec \in archive', NEW v \in DOMAIN rec.pre
                     PROVE  Below(rec.post[v], baseline.vol[v])
          BY <2>1 DEF ArchiveDone
        <4>1. CASE rec \in archive
          BY <1>1, <4>1 DEF FilesFit, ArchiveDone
        <4>2. CASE rec \in mine
          <5>1. rec \in active /\ rec.b = o.b
            BY <4>2 DEF RecordsOf
          <5>2. v \in WriteSet(o.b) /\ rec.post[v] = Makes(o.b, v) /\ rec.post[v] \in Books
            BY <1>1, <5>1, RecordFacts
          <5> QED
            BY <3>2, <5>2, BelowOrder
        <4> QED
          BY <2>3, <4>1, <4>2
      <3>4. FilesFit'
        BY <1>1, <2>1, <3>1, <3>3 DEF FilesFit, Drift, BaselineFits, ReceiptsOld
      <3> QED
        BY <1>4, <2>1, <2>3, <3>4, FitStep DEF Closing
    <2> QED
      BY <2>1, <2>2, <2>3
  <1>7. CASE Unlink(p)
    <2>1. /\ UNCHANGED <<vol, baseline, receipts, archive>> /\ pc[p] = "unlink" /\ Return(p)
          /\ active' = active \ RecordsOf(active, o.b)
      BY <1>7 DEF Unlink, formal, drafts
    <2>2. \A v \in WriteSet(o.b) : baseline.vol[v] = vol[v]
      BY <1>1, <2>1 DEF MemoryFits, Closing
    <2>3. Drift'
      <3> SUFFICES ASSUME NEW v \in Volumes, baseline.vol[v] # vol[v]
                   PROVE  \E rec \in active' : /\ v \in DOMAIN rec.pre
                                               /\ rec.pre[v] = baseline.vol[v] /\ rec.post[v] = vol[v]
        BY <2>1 DEF Drift
      <3>1. PICK rec \in active : /\ v \in DOMAIN rec.pre
                                  /\ rec.pre[v] = baseline.vol[v] /\ rec.post[v] = vol[v]
        BY <1>1 DEF FilesFit, Drift
      <3>2. v \in WriteSet(rec.b)
        BY <1>1, <3>1, RecordFacts
      <3> QED
        BY <2>1, <2>2, <3>1, <3>2 DEF RecordsOf
    <2>4. RecordsFit'
      BY <1>1, <2>1 DEF FilesFit, RecordsFit
    <2>5. FilesFit'
      BY <1>1, <2>1, <2>3, <2>4 DEF FilesFit, BaselineFits, ReceiptsOld, ArchiveDone
    <2> QED
      BY <2>1, <2>5, ReturnFits
  <1> QED
    BY <1>2, <1>3, <1>5, <1>6, <1>7

\* Initially the Baseline has the Volumes, with one Entry for each target that is known.
LEMMA InitFits == Init => FitInv
  <1> SUFFICES ASSUME Init PROVE AllFits
    BY DEF FitInv
  <1>1. \A v \in Volumes : baseline.vol[v] = vol[v]
    BY DEF Init
  <1>2. ASSUME NEW v \in Volumes
        PROVE  /\ Single(vol[v])
               /\ \A i \in DOMAIN vol[v] : vol[v][i].t \in Targets /\ Home[vol[v][i].t] = v =>
                      vol[v][i].k < 10 * baseline.src[vol[v][i].t] + 10
    <2> DEFINE S == {t \in Known : Home[t] = v}
               q == InOrder(S)
    <2>1. S \in SUBSET Targets /\ v \in Assets
      BY VolumeConstants DEF Assets
    <2>2. /\ q \in [1..Cardinality(S) -> S]
          /\ \A i, j \in 1..Cardinality(S) : q[i] = q[j] => i = j
      BY <2>1, InOrderSound, InOrderOnce
    <2>3. vol[v] = [i \in 1..Cardinality(S) |-> Entry(q[i], Text(1, 1))]
      BY <2>1 DEF Init
    <2> HIDE DEF q
    <2>4. ASSUME NEW i \in DOMAIN vol[v]
          PROVE  i \in 1..Cardinality(S) /\ q[i] \in S /\ vol[v][i].t = q[i] /\ vol[v][i].k = 11
      <3>1. i \in 1..Cardinality(S) /\ q[i] \in S /\ vol[v][i] = Entry(q[i], Text(1, 1))
        BY <2>2, <2>3
      <3> QED
        BY <3>1 DEF Entry, Text
    <2>5. Single(vol[v])
      <3> HIDE DEF S
      <3> SUFFICES ASSUME NEW i \in DOMAIN vol[v], NEW j \in DOMAIN vol[v], vol[v][i].t = vol[v][j].t
                   PROVE  i = j
        BY DEF Single
      <3>1. /\ i \in 1..Cardinality(S) /\ vol[v][i].t = q[i]
            /\ j \in 1..Cardinality(S) /\ vol[v][j].t = q[j]
        BY <2>4
      <3> QED
        BY <2>2, <3>1
    <2>6. ASSUME NEW i \in DOMAIN vol[v] PROVE vol[v][i].k < 10 * baseline.src[vol[v][i].t] + 10
      <3>1. vol[v][i].t \in Known /\ vol[v][i].t \in Targets
        BY <2>1, <2>4
      <3>2. baseline.src[vol[v][i].t] = 1
        BY <3>1 DEF Init
      <3>3. vol[v][i].k = 11
        BY <2>4
      <3>4. 11 < 10 * 1 + 10
        OBVIOUS
      <3> QED
        BY <3>2, <3>3, <3>4
    <2> QED
      BY <2>5, <2>6
  <1>3. BaselineFits
    BY <1>1, <1>2 DEF BaselineFits
  <1>4. FilesFit
    BY <1>1, <1>3 DEF Init, FilesFit, Drift, ReceiptsOld, RecordsFit, ArchiveDone
  <1>5. \A p \in Procs : pc[p] = "idle"
    BY DEF Init
  <1>6. \A l : MemoryFits("idle", l, vol, baseline, receipts, active \cup archive)
    BY DEF MemoryFits, Locked, Closing
  <1> QED
    BY <1>4, <1>5, <1>6 DEF AllFits

\* Every step of the one process keeps the fifth invariant.
LEMMA StepFits ==
    ASSUME Alone, CommitInv, HandInv, VersionInv, ToldInv, FitInv, [Next]_vars PROVE FitInv'
  <1>1. budget.edits \in Nat /\ MaxEdits \in Nat /\ budget.edits <= MaxEdits
    BY VolumeConstants DEF CommitInv, DiskSound, BudgetSound, ToldInv
  <1>2. ASSUME AllFits, ~OutsideEdit PROVE AllFits'
    <2>1. ASSUME NEW p \in Procs, Work(p) PROVE AllFits'
      <3>1. CASE \/ Bind(p) \/ LockTimeout(p) \/ LockCommit(p) \/ LockReconcile(p) \/ LockRollback(p)
        BY <1>2, <3>1, BindFits, LockFits
      <3>2. CASE SaveRecord(p) \/ WriteVolume(p) \/ WriteRefused(p) \/ Advance(p)
        BY <1>2, <3>2, SaveRecordFits, WriteVolumeFits, WriteRefusedFits, AdvanceFits
      <3>3. CASE \/ Verify(p) \/ Recheck(p) \/ Govern(p) \/ RecordApplied(p) \/ EnsureLedger(p)
                 \/ Archive(p) \/ Unlink(p) \/ Restore(p) \/ RestoreVerify(p)
        BY <1>2, <3>3, CloseFits
      <3> QED
        BY <2>1, <3>1, <3>2, <3>3 DEF Work
    <2>2. ASSUME NEW p \in Procs,
                 Maintain(p) \/ Stop(p) \/ Submit(p) \/ Resubmit(p) \/ SubmitRollback(p)
          PROVE  AllFits'
      BY <1>2, <2>2, MaintainFits, SubmitFits, LockFits
    <2>3. CASE SourceEdit \/ UNCHANGED vars
      <3>1. UNCHANGED <<vol, baseline, receipts, active, archive, pc, loc>>
        BY <2>3 DEF SourceEdit, vars, formal, record, drafts, proc
      <3> QED
        BY <1>2, <3>1, SameFits DEF AllFits
    <2> QED
      BY <1>2, <2>1, <2>2, <2>3 DEF Next
  <1>3. CASE budget'.edits = budget.edits
    <2>1. ~OutsideEdit
      BY <1>3, OutsideEditInv
    <2> QED
      BY <1>2, <1>3, <2>1 DEF FitInv, Undisturbed
  <1>4. CASE budget'.edits = budget.edits - 1
    BY <1>1, <1>4 DEF FitInv, Undisturbed
  <1> QED
    BY <1>3, <1>4, EditsCounted

\* One process that works alone leaves, wherever it stops and as long as nobody edits by
\* hand, no Volume out of step with the Baseline without a pending record that has both
\* states of it: commitCognitionVolumeBatchLocked saves the record before its first write
\* and removes it after the Baseline.  With a second process, or after a rollback, this is
\* not so: see the known limits of the Entry batches.
THEOREM DriftExplainedAlways == Alone => (Spec => []DriftExplained)
  <1> SUFFICES ASSUME Alone PROVE Spec => []DriftExplained
    OBVIOUS
  <1>1. CommitInv /\ HandInv /\ VersionInv /\ ToldInv /\ FitInv /\ [Next]_vars => FitInv'
    BY StepFits
  <1>2. FitInv => DriftExplained
    BY DEF FitInv, AllFits, FilesFit, Drift, DriftExplained
  <1> QED
    BY <1>1, <1>2, InitFits, CommitInvariant, HandInvariant, VersionInvariant, ToldInvariant, PTL
       DEF Spec
=============================================================================
