------------------------------ MODULE ScopeTxn ------------------------------
(***************************************************************************)
(* The managed-scope change transaction of internal/scopechange with the   *)
(* shared primitives of internal/cognitiontxn: a plan binds the exact      *)
(* pre- and postimages of N formal files (Whole-Index, configuration,      *)
(* optional Curation, and Baseline, which is last), and Apply, Resume and  *)
(* Rollback move them together under the index lock, leaving an intent, a  *)
(* receipt, a ledger event and an archive behind.                          *)
(*                                                                         *)
(* Files are versions: a transaction's identity stands for the postimages  *)
(* it writes, Base for what was there at the start and Thirds for what     *)
(* somebody else writes.  AtomicWriteCAS, AtomicCreateCAS and the lock are *)
(* atomic here; AtomicCAS and IndexLock model their inside.                *)
(***************************************************************************)
EXTENDS Naturals, FiniteSets, Sequences, Functions

CONSTANTS
    Procs,        \* processes running a scope command
    Txs,          \* transaction identities (the envelope digests of the plans)
    N,            \* number of formal images; image N is .aoci/baseline.json
    Changes,      \* Changes[t]: the images whose bytes t's plan changes
    Base,         \* the version at the start
    Thirds,       \* the versions that somebody else writes
    None,
    Commands,     \* the commands in use, of "apply", "resume", "rollback"
    MaxExternal,  \* bound: outside writes
    MaxStops      \* bound: processes that die or return on an I/O error

Images == 1..N

\* The index is the first image.  A plan always moves Baseline: its updated_at
\* is the time the plan was prepared (plan.go:440).
ASSUME ScopeConstants ==
    /\ N \in Nat /\ N >= 2
    /\ Changes \in [Txs -> SUBSET Images]
    /\ \A t \in Txs : N \in Changes[t]
    /\ Base \notin Txs \cup Thirds /\ Thirds \cap Txs = {}
    /\ None \notin Txs \cup Procs \cup Thirds \cup {Base}
    /\ Commands \subseteq {"apply", "resume", "rollback"}
    /\ {MaxExternal, MaxStops} \subseteq Nat

VARIABLES
    files,     \* the formal files
    source,    \* the managed sources the plan's guard covers
    plan,      \* plan[t]: the preimages and the source guard bound by t's envelope
    staged,    \* staged[t]: the postimages in t's staging directory
    active,    \* transactions with an intent in .aoci/transactions
    archived,  \* transactions with an intent in .aoci/transactions/history
    applied,   \* transactions with a result-applied receipt
    undone,    \* undone[t]: t's result-rolled_back receipt, by its recovered paths
    ledger,    \* terminal events
    lock,      \* holder of the index lock
    pc, tx,    \* where a process is, and the transaction it works on
    seen,      \* its last inspection of the formal files
    pos,       \* the image it is at
    recovered, \* the images its rollback has restored
    outcome,   \* what its last command returned
    ended,     \* history: how a transaction was closed
    budget

disk == <<files, source, plan, staged, active, archived, applied, undone, ledger>>
local == <<tx, seen, pos, recovered>>
proc == <<pc, local, outcome>>
vars == <<disk, lock, proc, ended, budget>>

NoPlan == [pre |-> [i \in Images |-> None], src |-> None]

Init ==
    /\ files = [i \in Images |-> Base] /\ source = Base
    /\ plan = [t \in Txs |-> NoPlan]
    /\ staged = [t \in Txs |-> {}]
    /\ active = {} /\ archived = {} /\ applied = {}
    /\ undone = [t \in Txs |-> {}]
    /\ ledger = <<>>
    /\ lock = None
    /\ pc = [p \in Procs |-> "idle"] /\ tx = [p \in Procs |-> None]
    /\ seen = [p \in Procs |-> [i \in Images |-> None]]
    /\ pos = [p \in Procs |-> 0]
    /\ recovered = [p \in Procs |-> {}]
    /\ outcome = [p \in Procs |-> "none"]
    /\ ended = [t \in Txs |-> "open"]
    /\ budget = [external |-> MaxExternal, stops |-> MaxStops]

-----------------------------------------------------------------------------
(* What an intent says of a formal file.                                   *)

Pre(t, i) == plan[t].pre[i]
Post(t, i) == IF i \in Changes[t] THEN t ELSE Pre(t, i)

\* inspectIntent over the file versions f.
Conflict(t, f) == \E i \in Images : f[i] \notin {Pre(t, i), Post(t, i)}
Complete(t, f) == \A i \in Images : f[i] = Post(t, i)

\* Another layout transaction has an intent.
OtherPending(t) == active \ {t} # {}

Goto(p, l) == pc' = [pc EXCEPT ![p] = l]

\* Return from a command; the deferred Release gives the lock back.
Return(p, o) ==
    /\ Goto(p, "idle")
    /\ outcome' = [outcome EXCEPT ![p] = o]
    /\ tx' = [tx EXCEPT ![p] = None]
    /\ seen' = [seen EXCEPT ![p] = [i \in Images |-> None]]
    /\ pos' = [pos EXCEPT ![p] = 0]
    /\ recovered' = [recovered EXCEPT ![p] = {}]
    /\ lock' = IF lock = p THEN None ELSE lock

\* A step that leaves the process where only its pc changes.
Continue(p, l) == Goto(p, l) /\ UNCHANGED <<local, outcome, lock>>

-----------------------------------------------------------------------------
(* Planning.                                                               *)

\* Build: a preview of the files and sources as they are, while nothing is
\* pending.
Build(t) ==
    /\ "apply" \in Commands
    /\ plan[t] = NoPlan /\ active = {}
    /\ plan' = [plan EXCEPT ![t] = [pre |-> files, src |-> source]]
    /\ UNCHANGED <<files, source, staged, active, archived, applied, undone, ledger,
                   lock, proc, ended, budget>>

-----------------------------------------------------------------------------
(* ApplyAuthorized.                                                        *)

Start(p, t, l) ==
    /\ pc[p] = "idle"
    /\ Goto(p, l)
    /\ tx' = [tx EXCEPT ![p] = t]
    /\ outcome' = [outcome EXCEPT ![p] = "none"]
    /\ UNCHANGED <<disk, lock, seen, pos, recovered, ended, budget>>

StartApply(p, t) ==
    /\ "apply" \in Commands /\ plan[t] # NoPlan
    /\ Start(p, t, "archive?")

\* An archived transaction whose postimages are all in place is not repeated.
ArchivedAnswer(p) ==
    /\ tx[p] \in archived
    /\ Return(p, IF Complete(tx[p], files) THEN "already_applied" ELSE "conflict")

\* Before the lock is taken: is there an archive, ...
CheckArchive(p) ==
    /\ pc[p] = "archive?"
    /\ \/ ArchivedAnswer(p)
       \/ tx[p] \notin archived /\ Continue(p, "active?")
    /\ UNCHANGED <<disk, ended, budget>>

\* ... is there an intent, ...
CheckActive(p) ==
    /\ pc[p] = "active?"
    /\ Continue(p, IF tx[p] \in active THEN "lock_resume" ELSE "authorize")
    /\ UNCHANGED <<disk, ended, budget>>

\* ... and does the approval, or the team policy, admit the plan?
Authorize(p) ==
    /\ pc[p] = "authorize"
    /\ Continue(p, "lock_apply") \/ Return(p, "not_authorized")
    /\ UNCHANGED <<disk, ended, budget>>

TakeLock(p) == lock = None /\ lock' = p

\* Mutant of LockApply: the critical section without the lock.
LockApply_NoLock(p) ==
    /\ pc[p] = "lock_apply"
    /\ \/ ArchivedAnswer(p)
       \/ tx[p] \notin archived /\ OtherPending(tx[p]) /\ Return(p, "other_pending")
       \/ /\ tx[p] \notin archived /\ ~OtherPending(tx[p])
          /\ Continue(p, IF tx[p] \in active THEN "inspect" ELSE "replay")
    /\ UNCHANGED <<disk, ended, budget>>

\* The whole question again under the lock.
LockApply(p) ==
    /\ pc[p] = "lock_apply" /\ lock = None
    /\ \/ ArchivedAnswer(p)
       \/ tx[p] \notin archived /\ OtherPending(tx[p]) /\ Return(p, "other_pending")
       \/ /\ tx[p] \notin archived /\ ~OtherPending(tx[p])
          /\ TakeLock(p)
          /\ Goto(p, IF tx[p] \in active THEN "inspect" ELSE "replay")
          /\ UNCHANGED <<local, outcome>>
    /\ UNCHANGED <<disk, ended, budget>>

\* The plan is built again, so nothing may be pending, and must have the same
\* digest.
Replay(p) ==
    /\ pc[p] = "replay"
    /\ IF active = {} /\ plan[tx[p]] = [pre |-> files, src |-> source]
       THEN Continue(p, "capture")
       ELSE Return(p, "replay_mismatch")
    /\ UNCHANGED <<disk, ended, budget>>

\* classifyPreviewPreimages and capturePreimages.
Capture(p) ==
    /\ pc[p] = "capture"
    /\ IF plan[tx[p]].pre = files
       THEN Continue(p, "stage")
       ELSE Return(p, "conflict")
    /\ UNCHANGED <<disk, ended, budget>>

\* Stage writes one postimage that an earlier attempt did not.
Stage(p, i) ==
    /\ pc[p] = "stage" /\ i \notin staged[tx[p]]
    /\ \A j \in 1..(i - 1) : j \in staged[tx[p]]
    /\ staged' = [staged EXCEPT ![tx[p]] = @ \cup {i}]
    /\ UNCHANGED <<files, source, plan, active, archived, applied, undone, ledger,
                   lock, proc, ended, budget>>

\* Mutant of SaveIntent: the intent does not wait for the staging.
SaveIntent_Early(p) ==
    /\ pc[p] = "stage"
    /\ active' = active \cup {tx[p]}
    /\ Continue(p, "inspect")
    /\ UNCHANGED <<files, source, plan, staged, archived, applied, undone, ledger, ended, budget>>

\* With everything staged the intent is saved: from here on the transaction is
\* pending.
SaveIntent(p) ==
    /\ pc[p] = "stage" /\ staged[tx[p]] = Images
    /\ active' = active \cup {tx[p]}
    /\ Continue(p, "inspect")
    /\ UNCHANGED <<files, source, plan, staged, archived, applied, undone, ledger, ended, budget>>

-----------------------------------------------------------------------------
(* Resume and Rollback take the lock and load the intent.                  *)

StartResume(p, t) ==
    /\ "resume" \in Commands /\ plan[t] # NoPlan
    /\ Start(p, t, "lock_resume")

StartRollback(p, t) ==
    /\ "rollback" \in Commands /\ plan[t] # NoPlan
    /\ Start(p, t, "lock_rollback")

\* RejectOtherPending and loadIntentAt.
LoadIntent(p, from, to) ==
    /\ pc[p] = from /\ lock = None
    /\ \/ OtherPending(tx[p]) /\ Return(p, "other_pending")
       \/ ~OtherPending(tx[p]) /\ tx[p] \notin active /\ Return(p, "recovery_not_found")
       \/ /\ ~OtherPending(tx[p]) /\ tx[p] \in active
          /\ TakeLock(p) /\ Goto(p, to)
          /\ UNCHANGED <<local, outcome>>
    /\ UNCHANGED <<disk, ended, budget>>

\* Also ApplyAuthorized on an intent it saw before it had the lock.
LockResume(p) == LoadIntent(p, "lock_resume", "inspect")
LockRollback(p) == LoadIntent(p, "lock_rollback", "rinspect")

-----------------------------------------------------------------------------
(* advance: forward to the postimages.                                     *)

\* inspectIntent; the images are then taken from `start' on.
Inspection(p, start, next) ==
    /\ \/ Conflict(tx[p], files) /\ Return(p, "conflict")
       \/ /\ ~Conflict(tx[p], files)
          /\ Goto(p, next)
          /\ seen' = [seen EXCEPT ![p] = files]
          /\ pos' = [pos EXCEPT ![p] = start]
          /\ UNCHANGED <<tx, recovered, outcome, lock>>
    /\ UNCHANGED <<disk, ended, budget>>

Inspect(p) == pc[p] = "inspect" /\ Inspection(p, 1, "publish")

\* An image inspected as postimage is passed over.
SkipPost(p) ==
    /\ pc[p] = "publish" /\ pos[p] \in Images
    /\ seen[p][pos[p]] = Post(tx[p], pos[p])
    /\ pos' = [pos EXCEPT ![p] = @ + 1]
    /\ UNCHANGED <<disk, lock, pc, tx, seen, recovered, outcome, ended, budget>>

\* validateSourceGuards, before Baseline is published: the sources are the
\* plan's and the index is the postimage.  Anything else in the configuration,
\* the Curation or the Baseline may also fail it.
GuardSources(p) ==
    /\ pc[p] = "publish" /\ pos[p] = N
    /\ seen[p][N] # Post(tx[p], N)
    /\ \/ /\ source = plan[tx[p]].src /\ files[1] = Post(tx[p], 1)
          /\ Continue(p, "publish_baseline")
       \/ /\ \/ source # plan[tx[p]].src
             \/ \E i \in Images \ {N} : files[i] # Post(tx[p], i)
             \/ files[N] # Pre(tx[p], N)
          /\ Return(p, "source_drift")
    /\ UNCHANGED <<disk, ended, budget>>

\* Mutant of Publish: the inspection stands in for the comparison.
Publish_Unchecked(p) ==
    /\ \/ pc[p] = "publish" /\ pos[p] \in Images \ {N} /\ seen[p][pos[p]] # Post(tx[p], pos[p])
       \/ pc[p] = "publish_baseline"
    /\ files' = [files EXCEPT ![pos[p]] = Post(tx[p], pos[p])]
    /\ Continue(p, "reinspect")
    /\ UNCHANGED <<source, plan, staged, active, archived, applied, undone, ledger, ended, budget>>

\* AtomicWriteCAS of the staged postimage over the preimage.
Publish(p) ==
    /\ \/ pc[p] = "publish" /\ pos[p] \in Images \ {N} /\ seen[p][pos[p]] # Post(tx[p], pos[p])
       \/ pc[p] = "publish_baseline"
    /\ \/ /\ files[pos[p]] = Pre(tx[p], pos[p]) /\ pos[p] \in staged[tx[p]]
          /\ files' = [files EXCEPT ![pos[p]] = Post(tx[p], pos[p])]
          /\ Continue(p, "reinspect")
       \/ /\ files[pos[p]] # Pre(tx[p], pos[p]) \/ pos[p] \notin staged[tx[p]]
          /\ Return(p, "publish_failed")
          /\ UNCHANGED files
    /\ UNCHANGED <<source, plan, staged, active, archived, applied, undone, ledger, ended, budget>>

\* After every image the files are inspected again.
Reinspect(p) == pc[p] = "reinspect" /\ Inspection(p, pos[p] + 1, "publish")

\* internalVerify: sources and index as planned; Baseline is only asked for the
\* two policy identities, which somebody else's version may keep or lose.
InternalVerify(p) ==
    /\ pc[p] = "publish" /\ pos[p] > N
    /\ \/ /\ source = plan[tx[p]].src /\ files[1] = Post(tx[p], 1)
          /\ files[N] \in {Post(tx[p], N)} \cup Thirds
          /\ Continue(p, "receipt")
       \/ /\ source # plan[tx[p]].src \/ ~Complete(tx[p], files)
          /\ Return(p, "verify_failed")
    /\ UNCHANGED <<disk, ended, budget>>

\* The receipt is a function of the intent, so saving it again changes nothing.
SaveApplied(p) ==
    /\ pc[p] = "receipt"
    /\ applied' = applied \cup {tx[p]}
    /\ Continue(p, "ledger")
    /\ UNCHANGED <<files, source, plan, staged, active, archived, undone, ledger, ended, budget>>

Event(o, t, n) == [op |-> o, tx |-> t, count |-> n]

\* Where the Ledger has an event of the kind, and the one a scan meets first.
Recorded(o, t) == {k \in DOMAIN ledger : ledger[k].op = o /\ ledger[k].tx = t}
FirstRecorded(o, t) == ledger[CHOOSE k \in Recorded(o, t) : \A j \in Recorded(o, t) : k <= j]

\* Mutant of EnsureLedger: a retry appends once more.
EnsureLedger_Append(p, e, next) ==
    /\ ledger' = Append(ledger, e)
    /\ Continue(p, next)
    /\ UNCHANGED <<files, source, plan, staged, active, archived, applied, undone, ended, budget>>

\* EnsureLedger: a terminal event of the same kind is this one or a conflict.
EnsureLedger(p, e, next) ==
    /\ \/ /\ Recorded(e.op, e.tx) = {}
          /\ ledger' = Append(ledger, e)
          /\ Continue(p, next)
       \/ /\ Recorded(e.op, e.tx) # {}
          /\ IF FirstRecorded(e.op, e.tx) = e
             THEN Continue(p, next)
             ELSE Return(p, "ledger_conflict")
          /\ UNCHANGED ledger
    /\ UNCHANGED <<files, source, plan, staged, active, archived, applied, undone, ended, budget>>

LedgerApply(p) ==
    /\ pc[p] = "ledger"
    /\ EnsureLedger(p, Event("apply", tx[p], Cardinality(Changes[tx[p]])), "archive")

-----------------------------------------------------------------------------
(* Rollback: back to the preimages, Baseline first.                        *)

\* Mutant of InspectRollback: the walk starts one image too low.
InspectRollback_OffByOne(p) == pc[p] = "rinspect" /\ Inspection(p, N - 1, "restore")

InspectRollback(p) == pc[p] = "rinspect" /\ Inspection(p, N, "restore")

\* An image that the plan does not change, or inspected as preimage.
SkipPre(p) ==
    /\ pc[p] = "restore" /\ pos[p] \in Images
    /\ seen[p][pos[p]] = Pre(tx[p], pos[p])
    /\ pos' = [pos EXCEPT ![p] = @ - 1]
    /\ UNCHANGED <<disk, lock, pc, tx, seen, recovered, outcome, ended, budget>>

\* AtomicWriteCAS of the captured preimage over the postimage.
Restore(p) ==
    /\ pc[p] = "restore" /\ pos[p] \in Images
    /\ seen[p][pos[p]] # Pre(tx[p], pos[p])
    /\ \/ /\ files[pos[p]] = Post(tx[p], pos[p])
          /\ files' = [files EXCEPT ![pos[p]] = Pre(tx[p], pos[p])]
          /\ recovered' = [recovered EXCEPT ![p] = @ \cup {pos[p]}]
          /\ Goto(p, "rreinspect")
          /\ UNCHANGED <<tx, seen, pos, outcome, lock>>
       \/ /\ files[pos[p]] # Post(tx[p], pos[p])
          /\ Return(p, "rollback_failed")
          /\ UNCHANGED files
    /\ UNCHANGED <<source, plan, staged, active, archived, applied, undone, ledger, ended, budget>>

ReinspectRollback(p) == pc[p] = "rreinspect" /\ Inspection(p, pos[p] - 1, "restore")

\* The receipt lists what this very call restored; an existing receipt must be
\* the same bytes.
SaveRolledBack(p) ==
    /\ pc[p] = "restore" /\ pos[p] = 0
    /\ \/ /\ undone[tx[p]] \subseteq {recovered[p]}
          /\ undone' = [undone EXCEPT ![tx[p]] = {recovered[p]}]
          /\ Continue(p, "rledger")
       \/ /\ ~(undone[tx[p]] \subseteq {recovered[p]})
          /\ Return(p, "receipt_conflict")
          /\ UNCHANGED undone
    /\ UNCHANGED <<files, source, plan, staged, active, archived, applied, ledger, ended, budget>>

LedgerRollback(p) ==
    /\ pc[p] = "rledger"
    /\ EnsureLedger(p, Event("rollback", tx[p], Cardinality(recovered[p])), "rarchive")

-----------------------------------------------------------------------------
(* ArchiveImmutable: the archive is saved, then the intent removed.        *)

\* Mutant of SaveArchive: the intent goes first.
SaveArchive_RemovesFirst(p) ==
    /\ pc[p] \in {"archive", "rarchive"}
    /\ active' = active \ {tx[p]}
    /\ Continue(p, IF pc[p] = "archive" THEN "close" ELSE "rclose")
    /\ UNCHANGED <<files, source, plan, staged, archived, applied, undone, ledger, ended, budget>>

\* Mutant of SaveArchive: an existing archive is an error whatever it says.
SaveArchive_CreateOnly(p) ==
    /\ pc[p] \in {"archive", "rarchive"}
    /\ archived' = archived \cup {tx[p]}
    /\ IF tx[p] \in archived THEN Return(p, "conflict")
       ELSE Continue(p, IF pc[p] = "archive" THEN "close" ELSE "rclose")
    /\ UNCHANGED <<files, source, plan, staged, active, applied, undone, ledger, ended, budget>>

\* The archive is the intent's own bytes, so saving it again changes nothing.
SaveArchive(p) ==
    /\ pc[p] \in {"archive", "rarchive"}
    /\ archived' = archived \cup {tx[p]}
    /\ Continue(p, IF pc[p] = "archive" THEN "close" ELSE "rclose")
    /\ UNCHANGED <<files, source, plan, staged, active, applied, undone, ledger, ended, budget>>

RemoveActive(p) ==
    /\ pc[p] \in {"close", "rclose"}
    /\ active' = active \ {tx[p]}
    /\ LET how == IF pc[p] = "close" THEN "applied" ELSE "rolled_back"
       IN ended' = [ended EXCEPT ![tx[p]] = how] /\ Return(p, how)
    /\ UNCHANGED <<files, source, plan, staged, archived, applied, undone, ledger, budget>>

-----------------------------------------------------------------------------
(* The world around the commands.                                          *)

\* Bytes that no formal file and no plan holds.
Fresh(w) == \A j \in Images : files[j] # w /\ \A t \in Txs : Pre(t, j) # w

\* Somebody else writes a formal file or a source.
ExternalWrite(i, w) ==
    /\ budget.external > 0 /\ Fresh(w)
    /\ budget' = [budget EXCEPT !.external = @ - 1]
    /\ files' = [files EXCEPT ![i] = w]
    /\ UNCHANGED <<source, plan, staged, active, archived, applied, undone, ledger,
                   lock, proc, ended>>

ExternalEdit(w) ==
    /\ budget.external > 0
    /\ budget' = [budget EXCEPT !.external = @ - 1]
    /\ source' = w
    /\ UNCHANGED <<files, plan, staged, active, archived, applied, undone, ledger,
                   lock, proc, ended>>

\* A process is killed, or a system call fails and the command returns; the lock
\* of a dead process is recovered (IndexLock).
Stop(p) ==
    /\ pc[p] # "idle" /\ budget.stops > 0
    /\ budget' = [budget EXCEPT !.stops = @ - 1]
    /\ Return(p, "stopped")
    /\ UNCHANGED <<disk, ended>>

Step(p) ==
    \/ CheckArchive(p) \/ CheckActive(p) \/ Authorize(p) \/ LockApply(p)
    \/ Replay(p) \/ Capture(p) \/ (\E i \in Images : Stage(p, i)) \/ SaveIntent(p)
    \/ LockResume(p) \/ LockRollback(p)
    \/ Inspect(p) \/ SkipPost(p) \/ GuardSources(p) \/ Publish(p) \/ Reinspect(p)
    \/ InternalVerify(p) \/ SaveApplied(p) \/ LedgerApply(p)
    \/ InspectRollback(p) \/ SkipPre(p) \/ Restore(p) \/ ReinspectRollback(p)
    \/ SaveRolledBack(p) \/ LedgerRollback(p)
    \/ SaveArchive(p) \/ RemoveActive(p)

Next ==
    \/ \E t \in Txs : Build(t)
    \/ \E p \in Procs, t \in Txs : StartApply(p, t) \/ StartResume(p, t) \/ StartRollback(p, t)
    \/ \E p \in Procs : Step(p) \/ Stop(p)
    \/ \E w \in Thirds : ExternalEdit(w) \/ \E i \in Images : ExternalWrite(i, w)

Spec == Init /\ [][Next]_vars

\* A running command goes on, and each recovery command in use is given again as
\* long as the transaction is pending: the Guide and every refused command name
\* them.
Fairness ==
    \A p \in Procs :
        /\ WF_vars(Step(p))
        /\ \A t \in Txs : /\ SF_vars(t \in active /\ StartResume(p, t))
                          /\ SF_vars(t \in active /\ StartRollback(p, t))

FairSpec == Spec /\ Fairness

-----------------------------------------------------------------------------
(* Properties.                                                             *)

\* Baseline is last: a Baseline of t is never beside an older version of another
\* file t changes.  Such a file holds t's postimage, or was written by somebody
\* else, or belongs to a transaction that is still pending.
BaselineLast ==
    \A t \in Txs : files[N] = t =>
        \A i \in Changes[t] : files[i] \in {t} \cup Thirds \cup active

\* A repository has at most one pending scope change, whoever stops where.
OnePending == \A t, u \in active : t = u

\* An intent never refers to a postimage that is not staged: whatever is pending
\* can be resumed.
RecoverableIntent == \A t \in active : staged[t] = Images

\* A transaction leaves .aoci/transactions only with its receipt, its ledger
\* event and its archive in place, for the direction it ended in.
TerminalRecorded ==
    \A t \in Txs : (t \notin active /\ files[N] = t) \/ ended[t] # "open" =>
        /\ t \in archived
        /\ ended[t] = "applied" => t \in applied /\ Recorded("apply", t) # {}
        /\ ended[t] = "rolled_back" => undone[t] # {} /\ Recorded("rollback", t) # {}

\* Repeating and resuming never audits the same end of a transaction twice.
LedgerOnce ==
    \A t \in Txs, o \in {"apply", "rollback"} : \A j, k \in Recorded(o, t) : j = k

\* The commands replace nothing but the images of the pending transaction: what
\* somebody else wrote stays ("Third-party changes fail closed").
ThirdPartyUntouched ==
    [][\A i \in Images : files[i] \in Thirds /\ files'[i] \notin Thirds =>
            \E t \in active : files[i] \in {Pre(t, i), Post(t, i)}]_vars

\* The pending transaction, and the files that are neither its preimage nor its
\* postimage: somebody else wrote them.
Pending == IF active = {} THEN None ELSE CHOOSE t \in active : TRUE
Foreign ==
    IF active = {} THEN {}
    ELSE {i \in Images : files[i] \notin {Pre(Pending, i), Post(Pending, i)}}

Change == INSTANCE AtomicChange WITH
    pending <- Pending,
    shown <- IF active = {} THEN files ELSE None,
    before <- IF active = {} THEN None ELSE plan[Pending].pre,
    foreign <- Foreign,
    result <- ended

\* Behind the gate of pending transactions a scope change is atomic: whatever
\* stops where and however Apply, Resume and Rollback follow one another, the
\* files are shown again only as one whole plan wants them, or as they were, and
\* that is what the transaction's end says.
ImplementsAtomicChange == Change!Spec

\* "A partial transaction is resumed or rolled back from immutable
\* pre/postimages" (aoci-managed-scope-and-budget-v1.txt:204-205): a pending
\* transaction is eventually closed, unless somebody else's bytes are in a formal
\* file or in a source.
PendingCloses ==
    \A t \in Txs : t \in active ~> t \notin active \/ Thirds \cap ({source} \cup Range(files)) # {}
=============================================================================
