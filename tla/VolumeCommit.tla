---------------------------- MODULE VolumeCommit ----------------------------
(***************************************************************************)
(* The governed Entries batch of internal/mcptools with the receipts of    *)
(* internal/codebatch.  Maintain issues machine batches against the        *)
(* Volumes as they are; a host authors the Entries and submits a batch;    *)
(* Apply plans it without the lock and then commits, reconciles or rolls   *)
(* it back under the index lock, moving one or two Volumes, the Baseline,  *)
(* a governance receipt, the applied record, the ledger and a recovery     *)
(* record that is archived at the end.  Several hosts, each with a process *)
(* of its own, work on one repository, and any process may die anywhere.   *)
(*                                                                         *)
(* With Parallel = 1 Maintain issues one batch for each Volume.  With more *)
(* it cuts siblings of one logical plan, and an Apply is accepted when the *)
(* plan's preimage and the applied siblings replay to the current Volume.  *)
(*                                                                         *)
(* A Volume is the sequence of its Entries, each the target it describes   *)
(* and a version of its text; the editor replaces an Entry in place and    *)
(* appends a new one, so the order in which siblings land shows in the     *)
(* bytes.  A digest stands for the bytes it is taken of.                   *)
(***************************************************************************)
EXTENDS Naturals, Sequences, FiniteSets

CONSTANTS
    Procs,       \* server processes, one per host
    T,           \* number of objects that need an Entry
    Home,        \* Home[t]: the Volume that t's Entry belongs to
    Known,       \* targets with an Entry that their source has outgrown
    Limit,       \* code_cognition_batch_limit: targets in one batch
    Parallel,    \* code_cognition_parallel_batches
    Wordings,    \* how a host may word an Entry
    Verbatim,    \* may a host hand an existing Entry back unchanged?
    Split,       \* may a host submit the batches of two Volumes one by one?
    Rollbacks,   \* may the recovery policy select a rollback?
    Related,     \* do the Entries of one Volume refer to objects of the other?
    None,
    MaxCalls,    \* bound: calls of the tools, beside retries of a pending batch
    MaxEdits,    \* bound: changes of formal assets by outsiders
    MaxMoves,    \* bound: changes of sources
    MaxStops     \* bound: processes that die or meet an I/O error

Targets == 1..T
Volumes == {"code", "database"}
Assets == Volumes \cup {"meta"}

ASSUME VolumeConstants ==
    /\ T \in Nat
    /\ Home \in [Targets -> Volumes]
    /\ Known \subseteq Targets
    /\ Limit \in Nat \ {0} /\ Parallel \in 1..4
    /\ Wordings \subseteq 1..9
    /\ {Verbatim, Split, Rollbacks, Related} \subseteq BOOLEAN
    /\ None \notin Procs
    /\ {MaxCalls, MaxEdits, MaxMoves, MaxStops} \subseteq Nat

VARIABLES
    vol,       \* the formal assets
    source,    \* source[t]: the version of t's source, or of its evidence
    baseline,  \* what .aoci/baseline.json says of Volumes and sources
    active,    \* recovery records in .aoci/transactions
    archive,   \* recovery records in .aoci/transactions/history
    gov,       \* batches with a governance receipt
    ledger,    \* terminal events, an operation and a batch each
    receipts,  \* candidate receipts issued by Maintain
    plans,     \* parallel-*.json: the logical plans on record
    preimages, \* preimage-*.bin, by the plan's identity
    applied,   \* applied-*.json
    lock,      \* holder of the index lock
    pc, loc,   \* where a process is, and what it holds in memory
    claims,    \* history: texts some host submitted for a version of a source
    unseen,    \* history: targets that a batch entered without a change of their Volume
    budget

formal == <<vol, source, baseline>>
record == <<active, archive, gov, ledger>>
drafts == <<receipts, plans, preimages, applied>>
proc == <<lock, pc, loc>>
history == <<claims, unseen>>
vars == <<formal, record, drafts, proc, history, budget>>

Entry(t, k) == [t |-> t, k |-> k]
Text(s, w) == 10 * s + w   \* wording w for version s of a source
Foreign == 0               \* an outsider's target, and an outsider's text

\* The targets in S in the order of their identities.  (The sorting operators of the
\* libraries have no definition that a proof could expand.)
InOrder(S) ==
    CHOOSE q \in [1..Cardinality(S) -> S] :
        \A i, j \in 1..Cardinality(S) : i < j => q[i] < q[j]

\* Nothing in memory.
Idle == [op |-> None, b |-> None, snap |-> None, pre |-> None, post |-> None, tgt |-> {},
         todo |-> {}, rec |-> None, base |-> None, src |-> None, plan |-> None]

Init ==
    /\ vol = [a \in Assets |->
                 [i \in 1..Cardinality({t \in Known : Home[t] = a}) |->
                     Entry(InOrder({t \in Known : Home[t] = a})[i], Text(1, 1))]]
    /\ source = [t \in Targets |-> IF t \in Known THEN 2 ELSE 1]
    /\ baseline = [vol |-> vol, src |-> [t \in Targets |-> IF t \in Known THEN 1 ELSE 0]]
    /\ active = {} /\ archive = {} /\ gov = {} /\ ledger = {}
    /\ receipts = {} /\ plans = {} /\ preimages = {} /\ applied = {}
    /\ lock = None
    /\ pc = [p \in Procs |-> "idle"] /\ loc = [p \in Procs |-> Idle]
    /\ claims = {<<t, Text(1, 1), 1>> : t \in Known} /\ unseen = {}
    /\ budget = [calls |-> MaxCalls, edits |-> MaxEdits, moves |-> MaxMoves, stops |-> MaxStops]

-----------------------------------------------------------------------------
(* Entries, batches and what the editor makes of a Volume.                 *)

Described(s) == {s[i].t : i \in DOMAIN s}
TextOf(s, t) == s[CHOOSE i \in DOMAIN s : s[i].t = t].k

\* prepareUpdateEntry for each target in u, in the order of their identities.
Edit(s, u) ==
    LET fresh == InOrder(DOMAIN u \ Described(s))
    IN  [i \in DOMAIN s |-> IF s[i].t \in DOMAIN u THEN Entry(s[i].t, u[s[i].t]) ELSE s[i]]
        \o [i \in DOMAIN fresh |-> Entry(fresh[i], u[fresh[i]])]

\* A batch answers one receipt of each Volume it writes with one text for each
\* target; its key is a digest of all of it.
WriteSet(b) == DOMAIN b.r
Sources(b) == UNION {{<<t, b.r[v].src[t]>> : t \in DOMAIN b.r[v].src} : v \in WriteSet(b)}
SourceVersion(b, t) == b.r[Home[t]].src[t]
TextsFor(b, v) == [t \in DOMAIN b.r[v].src |-> b.text[t]]
Project(b, v, s) == Edit(s, TextsFor(b, v))

\* A sibling's receipt carries its logical plan.
Sibling(b) == "code" \in WriteSet(b) /\ b.r["code"].sibling

\* The assets whose digest the change envelope guards beside the ones it writes: the
\* Meta asset, and a Volume with an object that the batch's targets are related to.
ExternalGuards(b) == {"meta"} \cup IF Related THEN Volumes \ WriteSet(b) ELSE {}
GuardsHold(b, snap) == \A a \in ExternalGuards(b) : vol[a] = snap[a]

-----------------------------------------------------------------------------
(* Recovery records.                                                       *)

RecordsOf(S, b) == {rec \in S : rec.b = b}

\* decodeAtomicBatchRecovery: every asset changes, and a record that names a batch
\* of a Volume has that Volume among its assets.
Decodes(rec) ==
    /\ WriteSet(rec.b) \subseteq DOMAIN rec.pre
    /\ \A v \in DOMAIN rec.pre : rec.pre[v] # rec.post[v]

\* loadEntriesRecoveryIncludingArchive
Recorded(b) ==
    IF RecordsOf(active, b) # {} THEN RecordsOf(active, b) ELSE RecordsOf(archive, b)

\* Mutant of AtPostimage: the whole batch must be in place.
AtPostimage_WholeBatch(rec, v) == rec # None /\ \A w \in DOMAIN rec.post : vol[w] = rec.post[w]

\* codeRecoveryPostimage, databaseRecoveryPostimage
AtPostimage(rec, v) == rec # None /\ v \in DOMAIN rec.post /\ vol[v] = rec.post[v]

\* recoveryGuardMismatch
RecordGuardsHold(rec) ==
    rec # None => \A a \in DOMAIN rec.guards :
                      vol[a] \in IF a \in DOMAIN rec.pre THEN {rec.pre[a], rec.post[a]}
                                                         ELSE {rec.guards[a]}

-----------------------------------------------------------------------------
(* Logical plans.                                                          *)

\* LoadParallelPlan: two records read as none.
PlanOnRecord == IF Cardinality(plans) = 1 THEN CHOOSE x \in plans : TRUE ELSE None

\* PlanHolds: every asset but the Code Volume is as the plan was issued.
PlanHolds(plan, snap) == \A a \in Assets \ {"code"} : plan.at[a] = snap[a]

AppliedOf(plan) == {x \in applied : x.r \in plan.siblings}

\* LoadApplied: the orders have no gap and no duplicate.
OrdersValid(plan) == {x.order : x \in AppliedOf(plan)} = 1..Cardinality(AppliedOf(plan))

\* What Replay starts the applied receipt x from.
ReplayedBefore(plan, x) ==
    IF x.order = 1 THEN plan.at["code"]
    ELSE (CHOOSE y \in AppliedOf(plan) : y.order = x.order - 1).post

\* Mutant of ReplayProves: the plan being on record is proof enough.
ReplayProves_Trusting(plan, code) == plan.at \in preimages

\* ReplayProves: the preimage and the applied siblings, replayed through the
\* editor in their order, end in these bytes.
ReplayProves(plan, code) ==
    /\ plan.at \in preimages
    /\ OrdersValid(plan)
    /\ \A x \in AppliedOf(plan) :
           x.pre = ReplayedBefore(plan, x) /\ x.post = Edit(x.pre, x.text)
    /\ IF AppliedOf(plan) = {} THEN code = plan.at["code"]
       ELSE \E x \in AppliedOf(plan) : x.order = Cardinality(AppliedOf(plan)) /\ x.post = code

SourcesCurrent(r) == \A t \in DOMAIN r.src : source[t] = r.src[t]

\* parallelSiblingStates and siblingOutstanding.
Outstanding(plan) ==
    {r \in plan.siblings \ {x.r : x \in applied} : SourcesCurrent(r)}

-----------------------------------------------------------------------------
(* Steps of a process.                                                     *)

Goto(p, l) == pc' = [pc EXCEPT ![p] = l]
Hold(p, l, rec) == Goto(p, l) /\ loc' = [loc EXCEPT ![p] = rec] /\ UNCHANGED lock
Take(p, l, rec) == lock = None /\ lock' = p /\ Goto(p, l) /\ loc' = [loc EXCEPT ![p] = rec]
Continue(p, l) == Goto(p, l) /\ UNCHANGED <<lock, loc>>
Spend(what) == budget[what] > 0 /\ budget' = [budget EXCEPT ![what] = @ - 1]

\* The call returns; the deferred Release gives the lock back.
Return(p) ==
    /\ Goto(p, "idle")
    /\ loc' = [loc EXCEPT ![p] = Idle]
    /\ lock' = IF lock = p THEN None ELSE lock

-----------------------------------------------------------------------------
(* Maintain, which takes no lock.                                          *)

\* The cognition set is loaded, ...
MaintainLoad(p) ==
    /\ pc[p] = "idle" /\ Spend("calls")
    /\ Hold(p, "assess", [Idle EXCEPT !.snap = vol])
    /\ UNCHANGED <<formal, record, drafts, history>>

\* ... and the facts are assessed: a pending record and a Volume that is not
\* the Baseline's block; a target without an Entry, or whose source moved on, is
\* work.
Blocked == active # {} \/ \E v \in Volumes : baseline.vol[v] # vol[v]
Actionable(snap, v) ==
    {t \in Targets : Home[t] = v /\ (t \notin Described(snap[v]) \/ baseline.src[t] # source[t])}

\* Chunk i of the targets in S, in plan order.
Cut(S, i) ==
    {t \in S : Cardinality({u \in S : u < t}) \in (i - 1) * Limit .. i * Limit - 1}
Receipt(S, snap, sibling) ==
    [at |-> snap, src |-> [t \in S |-> source[t]], sibling |-> sibling]

RemoveParallelPlans == plans' = {} /\ preimages' = {} /\ applied' = {}

\* The Database batch has what n Code candidates of the same response leave of the
\* limit, and is never a sibling.
DatabaseCut(S, n) == {t \in S : Cardinality({u \in S : u < t}) + n < Limit}
DatabaseReceipts(snap, n) ==
    {Receipt(S, snap, FALSE) : S \in {DatabaseCut(Actionable(snap, "database"), n)} \ {{}}}

\* The single batch of each Volume; a plan left by a parallel configuration is
\* dropped.
IssueSingle(p, snap) ==
    LET code == Cut(Actionable(snap, "code"), 1)
    IN  /\ RemoveParallelPlans
        /\ receipts' = receipts \cup {Receipt(S, snap, FALSE) : S \in {code} \ {{}}}
                                \cup DatabaseReceipts(snap, Cardinality(code))
        /\ Return(p)

\* A response carries the candidates of one sibling.
IssueDatabase(snap, sibling) ==
    receipts' = receipts \cup DatabaseReceipts(snap, Cardinality(sibling))

\* currentParallelPlan: the plan on record, if it still explains the Volumes and
\* has a sibling to wait for.
PlanCurrent(plan, snap) ==
    plan # None /\ PlanHolds(plan, snap) /\ ReplayProves(plan, snap["code"])

IssueParallel(p, snap) ==
    LET plan == PlanOnRecord
        live == PlanCurrent(plan, snap) /\ Outstanding(plan) # {}
        work == Actionable(snap, "code")
    IN  /\ IF work # {} /\ (plan = None \/ live)
           THEN UNCHANGED <<plans, preimages, applied>>
           ELSE RemoveParallelPlans
        /\ IF work = {} THEN Return(p)
           ELSE IF live
           THEN Hold(p, "deliver",
                     [loc[p] EXCEPT !.plan = plan,
                                    !.todo = Outstanding(plan) \ plan.delivered])
           ELSE Hold(p, "start", [loc[p] EXCEPT !.src = Receipt(work, snap, TRUE)])
        /\ \E sibling \in IF live THEN {DOMAIN r.src : r \in Outstanding(plan)}
                                   ELSE {Cut(work, 1)} :
               IssueDatabase(snap, sibling)

MaintainAssess(p) ==
    /\ pc[p] = "assess"
    /\ \/ Blocked /\ Return(p) /\ UNCHANGED drafts
       \/ ~Blocked /\ Parallel = 1 /\ IssueSingle(p, loc[p].snap)
       \/ ~Blocked /\ Parallel > 1 /\ IssueParallel(p, loc[p].snap)
    /\ UNCHANGED <<formal, record, history, budget>>

\* SaveParallelPlan drops every other plan, ...
MaintainStart(p) ==
    /\ pc[p] = "start"
    /\ RemoveParallelPlans
    /\ Continue(p, "record_plan")
    /\ UNCHANGED <<formal, record, receipts, history, budget>>

\* writeParallelPlan: the record of a plan is one file.
WritePlan(plan) == plans' = {x \in plans : x.at # plan.at} \cup {plan}

\* ... retains the preimage and writes a record without siblings, ...
MaintainRecord(p) ==
    /\ pc[p] = "record_plan"
    /\ preimages' = preimages \cup {loc[p].snap}
    /\ WritePlan([at |-> loc[p].snap, siblings |-> {}, delivered |-> {}])
    /\ Continue(p, "issue")
    /\ UNCHANGED <<formal, record, receipts, applied, history, budget>>

\* ... to which the siblings are added once their receipts are there.
MaintainIssue(p) ==
    /\ pc[p] = "issue"
    /\ LET all == loc[p].src
           cuts == {Cut(DOMAIN all.src, i) : i \in 1..Parallel} \ {{}}
           siblings == {[all EXCEPT !.src = [t \in c |-> all.src[t]]] : c \in cuts}
           plan == [at |-> loc[p].snap, siblings |-> siblings, delivered |-> {}]
       IN  /\ receipts' = receipts \cup siblings
           /\ WritePlan(plan)
           /\ Hold(p, "deliver", [loc[p] EXCEPT !.plan = plan, !.todo = siblings])
    /\ UNCHANGED <<formal, record, preimages, applied, history, budget>>

\* The first sibling that no host was handed, or the one a host names with
\* batch_id, is this host's, and the record says so; with none left a host is
\* handed one that is out already.
MaintainDeliver(p) ==
    /\ pc[p] = "deliver"
    /\ IF loc[p].todo = {} THEN UNCHANGED plans
       ELSE \E r \in loc[p].todo :
                WritePlan([loc[p].plan EXCEPT !.delivered = @ \cup {r}])
    /\ Return(p)
    /\ UNCHANGED <<formal, record, receipts, preimages, applied, history, budget>>

-----------------------------------------------------------------------------
(* Apply: a host submits a batch, and the set is loaded.                   *)

\* The targets of the receipts in r, and the texts a host may give them.
TargetsOf(r) == UNION {DOMAIN r[v].src : v \in DOMAIN r}
TextChoices(r, t) ==
    {Text(r[Home[t]].src[t], w) : w \in Wordings}
    \cup IF Verbatim /\ t \in Described(r[Home[t]].at[Home[t]])
         THEN {TextOf(r[Home[t]].at[Home[t]], t)} ELSE {}
Texts(r) ==
    {f \in [TargetsOf(r) -> UNION {TextChoices(r, t) : t \in TargetsOf(r)}] :
        \A t \in TargetsOf(r) : f[t] \in TextChoices(r, t)}

Start(p, op, b) ==
    /\ pc[p] = "idle"
    /\ Hold(p, "bind", [Idle EXCEPT !.op = op, !.b = b, !.snap = vol, !.base = baseline])
    /\ claims' = claims \cup {<<t, b.text[t], SourceVersion(b, t)>> : t \in TargetsOf(b.r)}
    /\ UNCHANGED <<formal, record, drafts, unseen>>

\* The batches of one Maintain, or of two, together or one by one.
Submit(p) ==
    \E W \in SUBSET Volumes \ {{}} : \E r \in [W -> receipts] :
        /\ \A v \in W : \A t \in DOMAIN r[v].src : Home[t] = v
        /\ Split \/ \A x \in receipts : x.at = r[CHOOSE v \in W : TRUE].at => x \in {r[v] : v \in W}
        /\ \E text \in Texts(r) : Start(p, "apply", [r |-> r, text |-> text])
        /\ Spend("calls")

\* The same complete batch again.
Resubmit(p) == (\E rec \in active : Start(p, "apply", rec.b)) /\ UNCHANGED budget

\* RollbackUpdateEntriesAtomicRecovery
SubmitRollback(p) ==
    /\ Rollbacks /\ Spend("calls")
    /\ \E rec \in active \cup archive : Start(p, "rollback", rec.b)

-----------------------------------------------------------------------------
(* planCognitionVolumeUpdates, on the set as it was loaded.                *)

\* ValidateSubmission and ValidateParallelSubmission: the receipt still stands,
\* or the Code Volume is where this batch's own record left it.
CodeReceiptStands(b, rec, snap) ==
    LET r == b.r["code"] IN
    IF r.sibling
    THEN /\ PlanOnRecord # None /\ PlanOnRecord.at = r.at /\ r \in PlanOnRecord.siblings
         /\ \/ AtPostimage(rec, "code")
            \/ /\ PlanCurrent(PlanOnRecord, snap)
               /\ r \notin {x.r : x \in applied}
    ELSE AtPostimage(rec, "code") \/ r.at = snap

\* bindVolumeRecovery: the record's transition is this batch's.
RecordBinds(b, rec, snap) ==
    \A v \in WriteSet(b) :
        IF v \in DOMAIN rec.pre
        THEN Project(b, v, snap[v]) = rec.post[v] /\ snap[v] \in {rec.pre[v], rec.post[v]}
        ELSE Project(b, v, snap[v]) = snap[v]

Preimage(b, rec, snap) ==
    [v \in WriteSet(b) |-> IF rec # None /\ v \in DOMAIN rec.pre THEN rec.pre[v] ELSE snap[v]]

Accepted(b, rec, snap) ==
    /\ rec # None => Decodes(rec) /\ RecordBinds(b, rec, snap)
    /\ "code" \in WriteSet(b) => CodeReceiptStands(b, rec, snap)
    /\ \A t \in TargetsOf(b.r) : source[t] = SourceVersion(b, t)
    /\ \A v \in WriteSet(b) :
           (v = "code" /\ Sibling(b)) \/ Preimage(b, rec, snap)[v] = b.r[v].at[v]

\* Everything is in place already; a Database batch that changes no text still
\* has to bind its evidence.
AllPost(b, rec, snap, tgt, post, base) ==
    IF rec = None
    THEN tgt = {} /\ \A t \in TargetsOf(b.r) :
                         Home[t] = "database" => base.src[t] = SourceVersion(b, t)
    ELSE \A v \in tgt : snap[v] = post[v]

Bind(p) ==
    /\ pc[p] = "bind"
    /\ LET b == loc[p].b
           snap == loc[p].snap
           rec == IF Recorded(b) = {} THEN None ELSE CHOOSE x \in Recorded(b) : TRUE
           pre == Preimage(b, rec, snap)
           post == [v \in WriteSet(b) |-> Project(b, v, snap[v])]
           tgt == {v \in WriteSet(b) : rec # None \/ pre[v] # post[v]}
           op == IF loc[p].op = "rollback" THEN "rollback"
                 ELSE IF AllPost(b, rec, snap, tgt, post, loc[p].base)
                 THEN "reconcile" ELSE "commit"
       IN  IF Accepted(b, rec, snap) /\ (op = "rollback" => rec # None)
           THEN Hold(p, "lock", [loc[p] EXCEPT !.op = op, !.rec = rec, !.pre = pre,
                                               !.post = post, !.tgt = tgt])
           ELSE Return(p)
    /\ UNCHANGED <<formal, record, drafts, history, budget>>

\* AcquireIndexLock runs into its timeout.
LockTimeout(p) ==
    /\ pc[p] = "lock" /\ lock # None
    /\ Return(p)
    /\ UNCHANGED <<formal, record, drafts, history, budget>>

-----------------------------------------------------------------------------
(* commitCognitionVolumeBatchLocked.                                       *)

\* validateVolumePlanPrewrite, on the files as they are.
Prewrite(l) ==
    /\ "code" \in WriteSet(l.b) =>
           \/ AtPostimage(l.rec, "code")
           \/ IF Sibling(l.b)
              THEN /\ PlanOnRecord # None /\ PlanOnRecord.at = l.b.r["code"].at
                   /\ PlanHolds(PlanOnRecord, vol)
              ELSE l.b.r["code"].at = vol
    /\ \A t \in TargetsOf(l.b.r) : source[t] = SourceVersion(l.b, t)
    /\ \A v \in l.tgt : vol[v] = l.pre[v] \/ (l.rec # None /\ vol[v] = l.post[v])

\* reprojectParallelSiblingUnderLock: a sibling that meets the Volume an earlier
\* sibling left is projected again, on what is there.
Reprojects(l) ==
    Sibling(l.b) /\ l.rec = None /\ "code" \in l.tgt /\ vol["code"] # l.pre["code"]
Reprojection(l) ==
    [l EXCEPT !.pre["code"] = vol["code"], !.post["code"] = Project(l.b, "code", vol["code"])]

\* Mutant of Reproject: the bytes planned before the lock are kept.
Reproject_Stale(l) ==
    IF Reprojects(l) THEN [l EXCEPT !.pre["code"] = vol["code"]] ELSE l

Reproject(l) ==
    IF Reprojects(l) THEN Reprojection(l) ELSE l

ReprojectionProven(l) ==
    Reprojects(l) =>
        /\ PlanOnRecord # None /\ PlanOnRecord.at = l.b.r["code"].at
        /\ ReplayProves(PlanOnRecord, vol["code"])

\* Mutant of LockCommit: the Baseline that was read with the set.
LockCommit_StaleBaseline(p) ==
    /\ pc[p] = "lock" /\ loc[p].op = "commit" /\ lock = None
    /\ LET l == Reproject(loc[p])
       IN  IF /\ RecordGuardsHold(l.rec) /\ GuardsHold(l.b, l.snap)
              /\ ReprojectionProven(loc[p]) /\ Prewrite(l)
           THEN Take(p, IF l.rec = None /\ l.tgt # {} THEN "record" ELSE "write",
                     [l EXCEPT !.todo = l.tgt])
           ELSE Return(p)
    /\ UNCHANGED <<formal, record, drafts, history, budget>>

\* The guards, the Baseline and the preconditions, under the lock.
LockCommit(p) ==
    /\ pc[p] = "lock" /\ loc[p].op = "commit" /\ lock = None
    /\ LET l == Reproject(loc[p])
       IN  IF /\ RecordGuardsHold(l.rec) /\ GuardsHold(l.b, l.snap)
              /\ ReprojectionProven(loc[p]) /\ Prewrite(l)
           THEN Take(p, IF l.rec = None /\ l.tgt # {} THEN "record" ELSE "write",
                     [l EXCEPT !.base = baseline, !.todo = l.tgt])
           ELSE Return(p)
    /\ UNCHANGED <<formal, record, drafts, history, budget>>

\* The recovery record keeps the exact bytes that will be replaced.
RecordFor(l) ==
    [b |-> l.b, pre |-> [v \in l.tgt |-> l.pre[v]], post |-> [v \in l.tgt |-> l.post[v]],
     guards |-> [a \in ExternalGuards(l.b) \cup WriteSet(l.b) |-> l.snap[a]], base |-> baseline]

\* Mutant of SaveRecord: no record before the first write.
SaveRecord_Skipped(p) ==
    /\ pc[p] = "record"
    /\ IF \A v \in loc[p].tgt : vol[v] = loc[p].pre[v]
       THEN Hold(p, "write", [loc[p] EXCEPT !.rec = RecordFor(loc[p])])
       ELSE Return(p)
    /\ UNCHANGED <<formal, record, drafts, history, budget>>

SaveRecord(p) ==
    /\ pc[p] = "record"
    /\ IF \A v \in loc[p].tgt : vol[v] = loc[p].pre[v]
       THEN /\ active' = (active \ RecordsOf(active, loc[p].b)) \cup {RecordFor(loc[p])}
            /\ Hold(p, "write", [loc[p] EXCEPT !.rec = RecordFor(loc[p])])
       ELSE Return(p) /\ UNCHANGED active
    /\ UNCHANGED <<formal, archive, gov, ledger, drafts, history, budget>>

\* Code before Database.
NextVolume(l) == IF "code" \in l.todo THEN "code" ELSE "database"

\* writeAtomicIndex: compare and swap, unless the postimage is there.
WriteVolume(p) ==
    LET v == NextVolume(loc[p]) IN
    /\ pc[p] = "write" /\ loc[p].todo # {}
    /\ vol[v] \in {loc[p].pre[v], loc[p].post[v]}
    /\ vol' = [vol EXCEPT ![v] = loc[p].post[v]]
    /\ Hold(p, "write", [loc[p] EXCEPT !.todo = @ \ {v}])
    /\ UNCHANGED <<source, baseline, record, drafts, history, budget>>

\* The swap is refused, or the disk fails it: with nothing written the record
\* goes, otherwise it waits for the batch to be submitted again.
WriteRefused(p) ==
    LET v == NextVolume(loc[p]) IN
    /\ pc[p] = "write" /\ loc[p].todo # {} /\ vol[v] # loc[p].post[v]
    /\ \/ vol[v] # loc[p].pre[v] /\ UNCHANGED budget
       \/ Spend("stops")
    /\ active' = IF \A w \in loc[p].tgt : vol[w] = loc[p].pre[w]
                 THEN active \ RecordsOf(active, loc[p].b) ELSE active
    /\ Return(p)
    /\ UNCHANGED <<formal, archive, gov, ledger, drafts, history>>

\* Every target is the postimage, and no guarded asset has moved.
Verify(p) ==
    /\ pc[p] = "write" /\ loc[p].todo = {}
    /\ IF (\A v \in loc[p].tgt : vol[v] = loc[p].post[v]) /\ GuardsHold(loc[p].b, loc[p].snap)
       THEN Continue(p, "advance") ELSE Return(p)
    /\ UNCHANGED <<formal, record, drafts, history, budget>>

-----------------------------------------------------------------------------
(* reconcileCognitionVolumeBatch, for a batch that is all in place.        *)

LockReconcile(p) ==
    /\ pc[p] = "lock" /\ loc[p].op = "reconcile" /\ lock = None
    /\ IF /\ RecordGuardsHold(loc[p].rec) /\ GuardsHold(loc[p].b, loc[p].snap)
          /\ \A v \in loc[p].tgt : vol[v] = loc[p].post[v]
       THEN Take(p, "advance", [loc[p] EXCEPT !.base = baseline])
       ELSE Return(p)
    /\ UNCHANGED <<formal, record, drafts, history, budget>>

-----------------------------------------------------------------------------
(* advanceCognitionVolumeBaseline and what closes a batch.                 *)

\* Mutant of AdvancedBaseline: the sources as they are in this moment.
AdvancedBaseline_LiveSource(l) ==
    [vol |-> [a \in Assets |-> IF a \in WriteSet(l.b) THEN vol[a] ELSE l.base.vol[a]],
     src |-> [t \in Targets |-> IF t \in TargetsOf(l.b.r) THEN source[t] ELSE l.base.src[t]]]

\* The sources the batch describes, and its Volumes as they are in this moment.
AdvancedBaseline(l) ==
    [vol |-> [a \in Assets |-> IF a \in WriteSet(l.b) THEN vol[a] ELSE l.base.vol[a]],
     src |-> [t \in Targets |-> IF t \in TargetsOf(l.b.r) THEN SourceVersion(l.b, t)
                                                          ELSE l.base.src[t]]]

Advance(p) ==
    /\ pc[p] = "advance"
    /\ IF \A t \in TargetsOf(loc[p].b.r) :
              Home[t] = "code" => source[t] = SourceVersion(loc[p].b, t)
       THEN /\ baseline' = AdvancedBaseline(loc[p])
            /\ unseen' = unseen \cup {t \in TargetsOf(loc[p].b.r) : Home[t] \notin loc[p].tgt}
            /\ Continue(p, "recheck")
       ELSE Return(p) /\ UNCHANGED <<baseline, unseen>>
    /\ UNCHANGED <<vol, source, record, drafts, claims, budget>>

\* All of it once more, now that the Baseline is saved.
Recheck(p) ==
    /\ pc[p] = "recheck"
    /\ IF Prewrite(loc[p]) /\ \A v \in loc[p].tgt : vol[v] = loc[p].post[v]
       THEN Continue(p, "govern") ELSE Return(p)
    /\ UNCHANGED <<formal, record, drafts, history, budget>>

\* saveCompletedEntriesGovernanceReceipt, once for each transition; it refuses one that changes
\* nothing.
Govern(p) ==
    /\ pc[p] = "govern"
    /\ IF loc[p].rec # None /\ loc[p].rec.pre = loc[p].rec.post
       THEN Return(p) /\ UNCHANGED gov
       ELSE /\ gov' = IF loc[p].rec = None THEN gov ELSE gov \cup {loc[p].b}
            /\ Continue(p, IF loc[p].op = "commit" THEN "apply_record" ELSE "ledger")
    /\ UNCHANGED <<formal, active, archive, ledger, drafts, history, budget>>

\* The applied record of a sibling, in the place of an earlier one.
AppliedReceipt(l, order) ==
    [r |-> l.b.r["code"], order |-> order, pre |-> l.pre["code"], post |-> l.post["code"],
     text |-> TextsFor(l.b, "code")]
EarlierOf(l) == {x \in AppliedOf(PlanOnRecord) : x.r = l.b.r["code"]}
OrderOf(l) ==
    IF EarlierOf(l) # {} THEN (CHOOSE x \in EarlierOf(l) : TRUE).order
    ELSE Cardinality(AppliedOf(PlanOnRecord)) + 1

\* recordParallelSiblingApplied: nothing without the plan; unreadable records, or
\* another record in the same place, stop the batch here.
RecordApplied(p) ==
    LET l == loc[p]
        mine == Sibling(l.b) /\ PlanOnRecord # None /\ PlanOnRecord.at = l.b.r["code"].at
                /\ "code" \in l.tgt
        same == {x \in applied : x.r = l.b.r["code"]}
    IN  /\ pc[p] = "apply_record"
        /\ IF ~mine THEN Continue(p, "ledger") /\ UNCHANGED applied
           ELSE IF OrdersValid(PlanOnRecord) /\ same \subseteq {AppliedReceipt(l, OrderOf(l))}
           THEN /\ applied' = applied \cup {AppliedReceipt(l, OrderOf(l))}
                /\ Continue(p, "ledger")
           ELSE Return(p) /\ UNCHANGED applied
        /\ UNCHANGED <<formal, record, receipts, plans, preimages, history, budget>>

\* ensureVolumeLedger; a batch without a record is complete with it.
EnsureLedger(p) ==
    /\ pc[p] = "ledger"
    /\ ledger' = ledger \cup {<<loc[p].op, loc[p].b>>}
    /\ IF loc[p].rec = None THEN Return(p) ELSE Continue(p, "archive")
    /\ UNCHANGED <<formal, active, archive, gov, drafts, history, budget>>

\* archiveAtomicBatchRecoveryByKey: the record is copied to the history ...
Archive(p) ==
    LET mine == RecordsOf(active, loc[p].b) IN
    /\ pc[p] = "archive"
    /\ IF /\ mine # {} /\ \A rec \in mine : Decodes(rec)
          /\ RecordsOf(archive, loc[p].b) \subseteq mine
       THEN archive' = archive \cup mine /\ Continue(p, "unlink")
       ELSE Return(p) /\ UNCHANGED archive
    /\ UNCHANGED <<formal, active, gov, ledger, drafts, history, budget>>

\* ... and removed.
Unlink(p) ==
    /\ pc[p] = "unlink"
    /\ active' = active \ RecordsOf(active, loc[p].b)
    /\ Return(p)
    /\ UNCHANGED <<formal, archive, gov, ledger, drafts, history, budget>>

-----------------------------------------------------------------------------
(* RollbackUpdateEntriesAtomicRecovery.                                    *)

\* Mutant of LockRollback: whatever the Baseline says.
LockRollback_AnyBaseline(p) ==
    /\ pc[p] = "lock" /\ loc[p].op = "rollback" /\ lock = None
    /\ LET rec == loc[p].rec
       IN  IF /\ RecordGuardsHold(rec) /\ GuardsHold(loc[p].b, loc[p].snap)
              /\ \A v \in DOMAIN rec.pre : vol[v] \in {rec.pre[v], rec.post[v]}
           THEN Take(p, "restore",
                     [loc[p] EXCEPT !.todo = {v \in DOMAIN rec.pre : vol[v] # rec.pre[v]}])
           ELSE Return(p)
    /\ UNCHANGED <<formal, record, drafts, history, budget>>

\* Only before the Baseline advances, and over proven bytes.
LockRollback(p) ==
    /\ pc[p] = "lock" /\ loc[p].op = "rollback" /\ lock = None
    /\ LET rec == loc[p].rec
       IN  IF /\ RecordGuardsHold(rec) /\ GuardsHold(loc[p].b, loc[p].snap)
              /\ baseline = rec.base
              /\ \A v \in DOMAIN rec.pre : vol[v] \in {rec.pre[v], rec.post[v]}
           THEN Take(p, "restore",
                     [loc[p] EXCEPT !.todo = {v \in DOMAIN rec.pre : vol[v] # rec.pre[v]}])
           ELSE Return(p)
    /\ UNCHANGED <<formal, record, drafts, history, budget>>

\* The preimages go back in the reverse order.
Restore(p) ==
    LET v == IF "database" \in loc[p].todo THEN "database" ELSE "code" IN
    /\ pc[p] = "restore" /\ loc[p].todo # {}
    /\ IF vol[v] = loc[p].rec.post[v]
       THEN /\ vol' = [vol EXCEPT ![v] = loc[p].rec.pre[v]]
            /\ Hold(p, "restore", [loc[p] EXCEPT !.todo = @ \ {v}])
       ELSE Return(p) /\ UNCHANGED vol
    /\ UNCHANGED <<source, baseline, record, drafts, history, budget>>

RestoreVerify(p) ==
    /\ pc[p] = "restore" /\ loc[p].todo = {}
    /\ IF \A v \in DOMAIN loc[p].rec.pre : vol[v] = loc[p].rec.pre[v]
       THEN Continue(p, "archive") ELSE Return(p)
    /\ UNCHANGED <<formal, record, drafts, history, budget>>

-----------------------------------------------------------------------------
(* What happens around the processes.                                      *)

\* A process dies, or an I/O error ends its call; the lock of a dead owner is
\* recovered.
Stop(p) ==
    /\ pc[p] # "idle" /\ Spend("stops")
    /\ Return(p)
    /\ UNCHANGED <<formal, record, drafts, history>>

\* Somebody adds an Entry by hand, rewrites one, or checks out an asset as it was
\* when a batch was issued.
OutsideBytes(a) ==
    {Append(vol[a], Entry(Foreign, Foreign))}
    \cup {[vol[a] EXCEPT ![i].k = Foreign] : i \in DOMAIN vol[a]}
    \cup {r.at[a] : r \in receipts}
OutsideEdit ==
    /\ Spend("edits")
    /\ \E a \in Assets : \E s \in OutsideBytes(a) \ {vol[a]} : vol' = [vol EXCEPT ![a] = s]
    /\ UNCHANGED <<source, baseline, record, drafts, proc, history>>

\* A developer changes a source.
SourceEdit ==
    /\ Spend("moves")
    /\ \E t \in Targets : source' = [source EXCEPT ![t] = @ + 1]
    /\ UNCHANGED <<vol, baseline, record, drafts, proc, history>>

-----------------------------------------------------------------------------
Maintain(p) ==
    \/ MaintainLoad(p) \/ MaintainAssess(p) \/ MaintainStart(p) \/ MaintainRecord(p)
    \/ MaintainIssue(p) \/ MaintainDeliver(p)

\* The steps of a call once it has begun.
Work(p) ==
    \/ Bind(p) \/ LockTimeout(p)
    \/ LockCommit(p) \/ SaveRecord(p) \/ WriteVolume(p) \/ WriteRefused(p) \/ Verify(p)
    \/ LockReconcile(p)
    \/ Advance(p) \/ Recheck(p) \/ Govern(p) \/ RecordApplied(p) \/ EnsureLedger(p)
    \/ Archive(p) \/ Unlink(p)
    \/ LockRollback(p) \/ Restore(p) \/ RestoreVerify(p)

Next ==
    \/ \E p \in Procs :
          \/ Maintain(p) \/ Work(p) \/ Stop(p)
          \/ Submit(p) \/ Resubmit(p) \/ SubmitRollback(p)
    \/ OutsideEdit \/ SourceEdit

Spec == Init /\ [][Next]_vars

\* A call that has begun goes on, and a host whose batch is pending submits it
\* again and again.
FairSpec ==
    /\ Spec
    /\ \A p \in Procs : WF_vars(Work(p) \/ MaintainAssess(p)) /\ SF_vars(Resubmit(p))

-----------------------------------------------------------------------------
(* Properties.                                                             *)

\* No outsider has changed anything.
Undisturbed == budget.edits = MaxEdits

\* Only a batch changes a Volume, by what its texts make of the bytes that are in
\* the file, or back by exactly that: no Entry of anybody else is lost or
\* undone, whatever happened since the batch was planned.
NoEntryLost ==
    [][budget'.edits = budget.edits =>
          \A v \in Volumes : vol'[v] # vol[v] =>
              \E p \in Procs :
                  /\ lock = p
                  /\ \/ vol'[v] = Project(loc[p].b, v, vol[v])
                     \/ loc[p].op = "rollback" /\ vol[v] = Project(loc[p].b, v, vol'[v])]_vars

\* As long as nobody edits by hand, a Volume that is not the Baseline's is the
\* postimage of a pending record whose preimage the Baseline has: wherever the
\* processes die, what is out of step can be completed or taken back.
DriftExplained ==
    Undisturbed =>
        \A v \in Volumes : baseline.vol[v] # vol[v] =>
            \E rec \in active : /\ v \in DOMAIN rec.pre
                                /\ rec.pre[v] = baseline.vol[v] /\ rec.post[v] = vol[v]

\* A repository that Maintain finds aligned has, for every target, an Entry with a
\* text that some host wrote for this very version of the source.  The exception is a
\* target that was entered by a batch which found its texts in place when it was
\* planned: nobody looks at such a Volume again under the lock.
Aligned == ~Blocked /\ \A v \in Volumes : Actionable(vol, v) = {}
AlignedSound ==
    Aligned /\ Undisturbed =>
        \A t \in Targets \ unseen : <<t, TextOf(vol[Home[t]], t), source[t]>> \in claims

\* A sibling lands only on the Volume its plan was issued for and on what other
\* siblings made of it: an Entry that somebody wrote by hand since is never
\* underneath it.
ByHand(s) == {s[i] : i \in {j \in DOMAIN s : s[j].k = Foreign}}
ForeignFailsClosed ==
    [][\A p \in Procs :
          (WriteVolume(p) /\ vol'["code"] # vol["code"] /\ Sibling(loc[p].b)) =>
              ByHand(vol["code"]) \subseteq ByHand(loc[p].b.r["code"].at["code"])]_vars

\* What a closed batch has entered into the Baseline for a Code target stays there: no
\* other batch writes back a Baseline it read before, or a source version of its own
\* that was overtaken.
ClosedStays ==
    \A e \in ledger : \A t \in TargetsOf(e[2].r) :
        Home[t] = "code" => baseline.src[t] >= SourceVersion(e[2], t)

\* As long as nobody edits by hand, no rollback takes a batch away that the ledger has
\* closed.
ClosedNotUndone ==
    Undisturbed => \A p \in Procs : pc[p] = "restore" => \A e \in ledger : e[2] # loc[p].b

\* A pending record is closed in the end when its batch is submitted again, as long as
\* nobody edits a formal asset by hand and the sources the batch describes stand.  (Once
\* such a source has moved on, every plan of the batch is refused: its record can be
\* neither completed nor rolled back, and it blocks Maintain until someone removes it.)
SourcesStand ==
    \A rec \in active : \A t \in TargetsOf(rec.b.r) : source[t] = SourceVersion(rec.b, t)
Closure ==
    (active # {} /\ Undisturbed /\ SourcesStand)
        ~> (active = {} \/ ~Undisturbed \/ ~SourcesStand)
=============================================================================
