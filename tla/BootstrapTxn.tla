---------------------------- MODULE BootstrapTxn ----------------------------
(***************************************************************************)
(* The Bootstrap transaction of internal/bootstrapapply, which gives a     *)
(* repository its first cognition layout: the Volumes (Meta, Code and,     *)
(* optionally, Database), then the Root that activates them, then Baseline.*)
(* Apply, Resume and Rollback do all their reading under the index lock,   *)
(* so one command at a time runs; it may stop between any two of its steps *)
(* and other programs write the files while it runs.                       *)
(*                                                                         *)
(* Versions are as in ScopeTxn: a transaction's identity stands for the    *)
(* postimages it publishes, Base for the official minimal skeleton of the  *)
(* Root that `aoci init' left, None for an absent file.                    *)
(***************************************************************************)
EXTENDS Naturals

CONSTANTS
    Txs,          \* transaction identities (digests of envelope and approval)
    N,            \* number of formal files, in publication order
    Base, Third, None,
    Commands,     \* the commands in use, of "apply", "resume", "rollback"
    MaxExternal,  \* bound: outside writes
    MaxStops      \* bound: commands that are killed or fail on I/O

Images == 1..N
Root == N - 1
Baseline == N
Volumes == 1..(N - 2)

ASSUME BootstrapConstants ==
    /\ N \in Nat /\ N >= 3
    /\ Base # Third /\ Base # None /\ Third # None /\ {Base, Third, None} \cap Txs = {}
    /\ Commands \subseteq {"apply", "resume", "rollback"}
    /\ {MaxExternal, MaxStops} \subseteq Nat

VARIABLES
    files,      \* the formal files
    source,     \* what the external guards cover: inventory, Evidence, Curation
    plan,       \* plan[t]: the Root preimage and the guard in t's envelope
    staged,     \* staged[t]: the postimages in t's staging directory
    active,     \* transactions with an intent in .aoci/transactions
    archived,   \* transactions with an intent in .aoci/transactions/history
    completion, \* transactions with a completion receipt
    undone,     \* undone[t]: t's rollback receipt, by its recovered paths
    moved,      \* moved[t]: names in t's recovered directory, <<layout active, image>>
    ledger,     \* transactions with an apply event
    pc, tx,     \* where the running command is, and its transaction
    seen,       \* its last inspection of the formal files
    pos,        \* the image it is at
    recovered,  \* the images its rollback has taken back
    outcome,    \* what the last command returned
    ended,      \* history: how a transaction was closed
    touched,    \* history: the files somebody else wrote or deleted
    budget

receipts == <<active, archived, completion, undone, ledger>>
disk == <<files, source, plan, staged, moved, receipts>>
local == <<tx, seen, pos, recovered>>
history == <<ended, touched>>
vars == <<disk, pc, local, outcome, history, budget>>

NoPlan == [root |-> Third, src |-> None]

Init ==
    /\ \E r \in {Base, None} : files = [i \in Images |-> IF i = Root THEN r ELSE None]
    /\ source = Base
    /\ plan = [t \in Txs |-> NoPlan]
    /\ staged = [t \in Txs |-> {}] /\ moved = [t \in Txs |-> {}]
    /\ active = {} /\ archived = {} /\ completion = {} /\ ledger = {}
    /\ undone = [t \in Txs |-> {}]
    /\ pc = "idle" /\ tx = None /\ seen = [i \in Images |-> None] /\ pos = 0
    /\ recovered = {} /\ outcome = "none"
    /\ ended = [t \in Txs |-> "open"] /\ touched = {}
    /\ budget = [external |-> MaxExternal, stops |-> MaxStops]

-----------------------------------------------------------------------------
(* What an intent says of the formal files.                                *)

Pre(t, i) == IF i = Root THEN plan[t].root ELSE None

\* classifyFormalPath: an absent file passes for the preimage.
IsPost(t, f, i) == f[i] = t
IsPre(t, f, i) == f[i] \in {None, Pre(t, i)}

\* inspectEnvelopeState: a file of somebody else, a postimage after a preimage
\* in publication order, or a lost staging file.
Conflict(t, f) ==
    \/ \E i \in Images : ~IsPre(t, f, i) /\ ~IsPost(t, f, i)
    \/ \E i, j \in Images : i < j /\ IsPre(t, f, i) /\ IsPost(t, f, j)
    \/ t \in active /\ staged[t] # Images

OtherPending(t) == active \ {t} # {}

\* ValidateExternalGuards.
Drifted(t) == source # plan[t].src

Goto(l) == pc' = l /\ UNCHANGED <<local, outcome>>

Return(o) ==
    /\ pc' = "idle" /\ outcome' = o
    /\ tx' = None /\ seen' = [i \in Images |-> None] /\ pos' = 0 /\ recovered' = {}

\* Enter the body of a command for transaction t.
Enter(t, l) == pc' = l /\ tx' = t /\ outcome' = "none" /\ UNCHANGED <<seen, pos, recovered>>

-----------------------------------------------------------------------------
(* Prepare and Apply.                                                      *)

\* The files a Bootstrap may start from.
Uninitialized == files[Root] \in {Base, None} /\ \A i \in Images \ {Root} : files[i] = None

\* Prepare freezes the postimages and the guards, while nothing is pending
\* (rejectPendingRecovery); it writes nothing.
Prepare(t) ==
    /\ "apply" \in Commands
    /\ plan[t] = NoPlan /\ active = {} /\ Uninitialized
    /\ plan' = [plan EXCEPT ![t] = [root |-> files[Root], src |-> source]]
    /\ UNCHANGED <<files, source, staged, moved, receipts, pc, local, outcome, history, budget>>

\* An archived transaction is answered from its completion receipt.
Answer(t) == Return(IF t \in completion THEN "already_applied" ELSE "completion_invalid")

\* Mutant of Apply: the plan is not prepared again before it is applied.
Apply_NoReplay(t) ==
    /\ "apply" \in Commands /\ pc = "idle" /\ plan[t] # NoPlan
    /\ \/ t \in archived /\ Answer(t)
       \/ t \notin archived /\ OtherPending(t) /\ Return("other_pending")
       \/ t \notin archived /\ ~OtherPending(t) /\ Drifted(t) /\ Return("guard_drift")
       \/ /\ t \notin archived /\ ~OtherPending(t) /\ ~Drifted(t)
          /\ Enter(t, IF t \in active THEN "inspect" ELSE "stage")
    /\ UNCHANGED <<disk, history, budget>>

\* Everything Apply asks before it writes: archive, other receipts, guards, the
\* intent, the approval, and for a new transaction the replay of Prepare.
Apply(t) ==
    /\ "apply" \in Commands /\ pc = "idle" /\ plan[t] # NoPlan
    /\ \/ t \in archived /\ Answer(t)
       \/ t \notin archived /\ OtherPending(t) /\ Return("other_pending")
       \/ t \notin archived /\ ~OtherPending(t) /\ Drifted(t) /\ Return("guard_drift")
       \/ /\ t \notin archived /\ ~OtherPending(t) /\ ~Drifted(t)
          /\ \/ t \in active /\ Enter(t, "inspect")
             \/ t \notin active /\ Return("not_authorized")
             \/ /\ t \notin active
                /\ IF Uninitialized /\ files[Root] = plan[t].root
                   THEN Enter(t, "stage")
                   ELSE Return("replay_mismatch")
    /\ UNCHANGED <<disk, history, budget>>

\* stageEnvelope: the next postimage that an earlier attempt did not stage.
Stage(i) ==
    /\ pc = "stage" /\ i \notin staged[tx]
    /\ \A j \in 1..(i - 1) : j \in staged[tx]
    /\ staged' = [staged EXCEPT ![tx] = @ \cup {i}]
    /\ UNCHANGED <<files, source, plan, moved, receipts, pc, local, outcome, history, budget>>

SaveIntent ==
    /\ pc = "stage" /\ staged[tx] = Images
    /\ active' = active \cup {tx}
    /\ Goto("inspect")
    /\ UNCHANGED <<files, source, plan, staged, moved, archived, completion, undone, ledger,
                   history, budget>>

\* Resume: an intent, or the receipt of a transaction that is archived already.
Resume(t) ==
    /\ "resume" \in Commands /\ pc = "idle" /\ plan[t] # NoPlan
    /\ \/ t \notin active /\ t \in archived /\ Answer(t)
       \/ t \notin active /\ t \notin archived /\ Return("not_found")
       \/ t \in active /\ OtherPending(t) /\ Return("other_pending")
       \/ t \in active /\ ~OtherPending(t) /\ Drifted(t) /\ Return("guard_drift")
       \/ t \in active /\ ~OtherPending(t) /\ ~Drifted(t) /\ Enter(t, "inspect")
    /\ UNCHANGED <<disk, history, budget>>

-----------------------------------------------------------------------------
(* advanceTransaction.                                                     *)

Inspection(start, next) ==
    /\ \/ Conflict(tx, files) /\ Return("conflict")
       \/ /\ ~Conflict(tx, files)
          /\ pc' = next /\ seen' = files /\ pos' = start
          /\ UNCHANGED <<tx, recovered, outcome>>
    /\ UNCHANGED <<disk, history, budget>>

Inspect == pc = "inspect" /\ Inspection(1, "publish")

SkipPost ==
    /\ pc = "publish" /\ pos \in Images /\ IsPost(tx, seen, pos)
    /\ pos' = pos + 1
    /\ UNCHANGED <<disk, pc, tx, seen, recovered, outcome, history, budget>>

\* Mutant of Publish: an existing file is replaced.
Publish_Replaces ==
    /\ pc = "publish" /\ pos \in Images /\ ~IsPost(tx, seen, pos)
    /\ files' = [files EXCEPT ![pos] = tx]
    /\ Goto(IF pos = Baseline THEN "verify" ELSE "reinspect")
    /\ UNCHANGED <<source, plan, staged, moved, receipts, history, budget>>

\* AtomicWriteCAS over the skeleton, AtomicCreateCAS everywhere else; after
\* every target, but not after Baseline, the files are inspected again.
Publish ==
    /\ pc = "publish" /\ pos \in Images /\ ~IsPost(tx, seen, pos)
    /\ \/ /\ files[pos] = Pre(tx, pos)
          /\ files' = [files EXCEPT ![pos] = tx]
          /\ Goto(IF pos = Baseline THEN "verify" ELSE "reinspect")
       \/ /\ files[pos] # Pre(tx, pos)
          /\ Return("publish_failed")
          /\ UNCHANGED files
    /\ UNCHANGED <<source, plan, staged, moved, receipts, history, budget>>

Reinspect == pc = "reinspect" /\ Inspection(pos + 1, "publish")

\* internalVerify: every target, Baseline, and every file Baseline records.
InternalVerify ==
    /\ pc = "verify" \/ (pc = "publish" /\ pos > N)
    /\ \/ /\ \A i \in Images : IsPost(tx, files, i)
          /\ ~Drifted(tx)
          /\ Goto("completion")
       \/ /\ Drifted(tx) \/ \E i \in Images : ~IsPost(tx, files, i)
          /\ Return("verify_failed")
    /\ UNCHANGED <<disk, history, budget>>

\* Mutant of SaveCompletion: an existing receipt is an error whatever it says.
SaveCompletion_CreateOnly ==
    /\ pc = "completion"
    /\ completion' = completion \cup {tx}
    /\ IF tx \in completion THEN Return("receipt_conflict") ELSE Goto("ledger")
    /\ UNCHANGED <<files, source, plan, staged, moved, active, archived, undone, ledger,
                   history, budget>>

\* saveCompletion: the receipt is a function of the intent.
SaveCompletion ==
    /\ pc = "completion"
    /\ completion' = completion \cup {tx}
    /\ Goto("ledger")
    /\ UNCHANGED <<files, source, plan, staged, moved, active, archived, undone, ledger,
                   history, budget>>

\* ensureBootstrapLedger; a configuration may have switched the Ledger off.
EnsureLedger ==
    /\ pc = "ledger"
    /\ ledger' \in {ledger, ledger \cup {tx}}
    /\ Goto("archive")
    /\ UNCHANGED <<files, source, plan, staged, moved, active, archived, completion, undone,
                   history, budget>>

-----------------------------------------------------------------------------
(* Rollback of an incomplete transaction: Root and Baseline if the layout  *)
(* is active, then the Volumes.                                            *)

\* Mutant of Rollback: a completed transaction is reversed as well.
Rollback_Completed(t) ==
    /\ "rollback" \in Commands /\ pc = "idle" /\ plan[t] # NoPlan
    /\ \/ t \notin active /\ Return("incomplete_required")
       \/ t \in active /\ OtherPending(t) /\ Return("other_pending")
       \/ t \in active /\ ~OtherPending(t) /\ Drifted(t) /\ Return("guard_drift")
       \/ t \in active /\ ~OtherPending(t) /\ ~Drifted(t) /\ Enter(t, "rinspect")
    /\ UNCHANGED <<disk, history, budget>>

Rollback(t) ==
    /\ "rollback" \in Commands /\ pc = "idle" /\ plan[t] # NoPlan
    /\ \/ t \notin active /\ Return("incomplete_required")
       \/ t \in active /\ t \in completion /\ Return("rollback_forbidden")
       \/ t \in active \ completion /\ OtherPending(t) /\ Return("other_pending")
       \/ t \in active \ completion /\ ~OtherPending(t) /\ Drifted(t) /\ Return("guard_drift")
       \/ t \in active \ completion /\ ~OtherPending(t) /\ ~Drifted(t) /\ Enter(t, "rinspect")
    /\ UNCHANGED <<disk, history, budget>>

Activated == IsPost(tx, seen, Root)

\* The image after i in the order of a rollback, 0 at its end.
RollbackOrder(i) == CASE i = Root -> Baseline
                      [] i = Baseline -> Root - 1
                      [] OTHER -> i - 1

\* Mutant of InspectRollback: the Volumes go while the Root stays.
InspectRollback_VolumesOnly ==
    /\ pc = "rinspect"
    /\ Inspection(Root - 1, "restore")

InspectRollback ==
    /\ pc = "rinspect"
    /\ Inspection(IF IsPost(tx, files, Root) THEN Root ELSE Root - 1, "restore")

SkipPre ==
    /\ pc = "restore" /\ pos # 0 /\ ~IsPost(tx, seen, pos)
    /\ pos' = RollbackOrder(pos)
    /\ UNCHANGED <<disk, pc, tx, seen, recovered, outcome, history, budget>>

\* AtomicWriteCAS of the skeleton, or AtomicMoveCAS into the recovered
\* directory under a name that must be free.  The names number the order, which
\* depends on whether the layout was active.
Restore ==
    /\ pc = "restore" /\ pos # 0 /\ IsPost(tx, seen, pos)
    /\ LET name == <<Activated, pos>> IN
       \/ /\ files[pos] = tx /\ (Pre(tx, pos) # None \/ name \notin moved[tx])
          /\ files' = [files EXCEPT ![pos] = Pre(tx, pos)]
          /\ moved' = IF Pre(tx, pos) # None THEN moved
                      ELSE [moved EXCEPT ![tx] = @ \cup {name}]
          /\ recovered' = recovered \cup {pos} /\ pos' = RollbackOrder(pos)
          /\ UNCHANGED <<pc, tx, seen, outcome>>
       \/ /\ files[pos] # tx \/ (Pre(tx, pos) = None /\ name \in moved[tx])
          /\ Return("rollback_failed")
          /\ UNCHANGED <<files, moved>>
    /\ UNCHANGED <<source, plan, staged, receipts, history, budget>>

\* A last inspection must find preimages only.
VerifyRollback ==
    /\ pc = "restore" /\ pos = 0
    /\ IF \A i \in Images : IsPre(tx, files, i) THEN Goto("rreceipt") ELSE Return("incomplete")
    /\ UNCHANGED <<disk, history, budget>>

\* Mutant of SaveRolledBack: the receipt waits for the archive.
SaveRolledBack_Skipped ==
    /\ pc = "rreceipt"
    /\ Goto("rarchive")
    /\ UNCHANGED <<disk, history, budget>>

\* The receipt lists what this call took back; an existing one must be the same.
SaveRolledBack ==
    /\ pc = "rreceipt"
    /\ \/ /\ undone[tx] \subseteq {recovered}
          /\ undone' = [undone EXCEPT ![tx] = {recovered}]
          /\ Goto("rarchive")
       \/ /\ ~(undone[tx] \subseteq {recovered})
          /\ Return("receipt_conflict")
          /\ UNCHANGED undone
    /\ UNCHANGED <<files, source, plan, staged, moved, active, archived, completion, ledger,
                   history, budget>>

-----------------------------------------------------------------------------
(* archiveRecovery.                                                        *)

SaveArchive ==
    /\ pc \in {"archive", "rarchive"}
    /\ archived' = archived \cup {tx}
    /\ Goto(IF pc = "archive" THEN "close" ELSE "rclose")
    /\ UNCHANGED <<files, source, plan, staged, moved, active, completion, undone, ledger,
                   history, budget>>

RemoveActive ==
    /\ pc \in {"close", "rclose"}
    /\ active' = active \ {tx}
    /\ LET how == IF pc = "close" THEN "applied" ELSE "rolled_back"
       IN ended' = [ended EXCEPT ![tx] = how] /\ Return(how)
    /\ UNCHANGED <<files, source, plan, staged, moved, archived, completion, undone, ledger,
                   touched, budget>>

\* Status of a transaction that is no longer pending.
Status(t) == CASE undone[t] # {} -> "rolled_back"
               [] t \in completion -> "applied"
               [] OTHER -> "no_terminal_receipt"

-----------------------------------------------------------------------------
(* The world around the commands.                                          *)

ExternalWrite(i, v) ==
    /\ budget.external > 0 /\ files[i] # v
    /\ budget' = [budget EXCEPT !.external = @ - 1]
    /\ files' = [files EXCEPT ![i] = v]
    /\ touched' = touched \cup {i}
    /\ UNCHANGED <<source, plan, staged, moved, receipts, pc, local, outcome, ended>>

ExternalEdit ==
    /\ budget.external > 0
    /\ budget' = [budget EXCEPT !.external = @ - 1]
    /\ source' = Third
    /\ UNCHANGED <<files, plan, staged, moved, receipts, pc, local, outcome, history>>

Stop ==
    /\ pc # "idle" /\ budget.stops > 0
    /\ budget' = [budget EXCEPT !.stops = @ - 1]
    /\ Return("stopped")
    /\ UNCHANGED <<disk, history>>

Step ==
    \/ (\E i \in Images : Stage(i)) \/ SaveIntent
    \/ Inspect \/ SkipPost \/ Publish \/ Reinspect
    \/ InternalVerify \/ SaveCompletion \/ EnsureLedger
    \/ InspectRollback \/ SkipPre \/ Restore \/ VerifyRollback \/ SaveRolledBack
    \/ SaveArchive \/ RemoveActive

Next ==
    \/ \E t \in Txs : Prepare(t) \/ Apply(t) \/ Resume(t) \/ Rollback(t)
    \/ Step \/ Stop
    \/ \E i \in Images, v \in {Third, None} : ExternalWrite(i, v)
    \/ ExternalEdit

Spec == Init /\ [][Next]_vars

\* A command that runs goes on, and both recovery commands, where in use, are
\* given again as long as the transaction is pending.
Fairness ==
    /\ WF_vars(Step)
    /\ \A t \in Txs : /\ SF_vars(t \in active /\ Resume(t))
                      /\ SF_vars(t \in active /\ Rollback(t))

FairSpec == Spec /\ Fairness

-----------------------------------------------------------------------------
(* Properties.                                                             *)

\* Root last: an active layout is never a layout with a Volume that its own
\* transaction has not published or has taken back.
RootLast ==
    \A t \in Txs : files[Root] = t => \A i \in Volumes \ touched : files[i] = t

\* Rollback "only reverses an incomplete, active Bootstrap" (rollback.go:14):
\* from the completion receipt on, no command takes a postimage away.
CompletedStays ==
    [][\A t \in completion, i \in Images :
            files[i] = t /\ files'[i] # t => budget'.external < budget.external]_vars

\* The commands replace or remove nothing that somebody else wrote.
ThirdPartyUntouched ==
    [][\A i \in Images : files[i] = Third => files'[i] = Third \/ budget'.external < budget.external]_vars

\* Whatever stops where, a transaction that is archived and no longer pending
\* has the receipt of an end, so that Status can tell which.
TerminalReceipt ==
    \A t \in archived \ active : Status(t) # "no_terminal_receipt"

\* The pending transaction.
Pending == IF active = {} THEN None ELSE CHOOSE t \in active : TRUE

Change == INSTANCE AtomicChange WITH
    Changes <- [t \in Txs |-> Images],
    pending <- Pending,
    shown <- IF active = {} THEN files ELSE None,
    before <- IF active = {} THEN None ELSE [i \in Images |-> Pre(Pending, i)],
    foreign <- touched,
    result <- ended

\* Behind the gate of pending transactions Bootstrap is atomic: the layout is
\* shown with every file of one envelope, or as it was before, and the recorded
\* end says which; only files that somebody else touched are excepted.
ImplementsAtomicChange == Change!Spec

\* A pending transaction is eventually closed, unless its sources drift, its
\* files are in conflict, or its skeleton Root was deleted, which passes for a
\* preimage and yet cannot be published over.  No retry meets an error for ever.
ClosesOrConflicts ==
    \A t \in Txs : t \in active ~>
        t \notin active \/ Drifted(t) \/ Conflict(t, files) \/ files[Root] \notin {t, Pre(t, Root)}
=============================================================================
