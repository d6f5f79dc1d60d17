# TLA+ verification of AOCI-CODE

AOCI-CODE keeps a Git-versioned cognition index of a repository: a Root
(`aoci.txt`), a Meta, a Code and a Database volume (`aoci.meta.txt`,
`aoci.code.txt`, `aoci.database.txt`), a Baseline of fingerprints
(`.aoci/baseline.json`), a ledger (`.aoci/ledger.jsonl`) and receipts of
transactions (`.aoci/transactions/`).  A command line program and an MCP server,
often several processes at once, change these files while editors, Git and other
tools change them too.  There is no database underneath: all guarantees come from
a lock file, rename and link calls, digests, and recovery after a process stopped.
That is what this project models.

## Inventory

| Component | State | Operations | Interacts through | What is hard | Correct when |
|---|---|---|---|---|---|
| Index lock (`fs/lock.go`) | the canonical lock entry, tombstones | acquire, observe, take over, release | file system | stat-then-remove races, crashes, inode reuse | one holder; a live lock is never removed; a dead one is |
| CAS write (`fs/atomic.go`, `atomic_exchange_linux.go`) | target, swap, capture, intent, quarantine | `AtomicWriteCAS`, recovery | CAS lock, file system | outside writers that take no lock; crash anywhere | nothing an outsider wrote is lost; success means compare-and-swap |
| Create and move (`fs/atomic.go`, `atomic_create_linux.go`) | target, recovery name | `AtomicCreateCASMode`, `AtomicMoveCAS` | same | link/unlink fallback | same |
| Transaction mechanics (`cognitiontxn`) | intent, staging, receipts, ledger, archive | stage, save, inspect, ensure-ledger, archive | CAS write, lock | stop between any two files | recoverable from bytes alone, recorded once |
| Scope change (`scopechange`) | plan, formal images | build, apply, resume, rollback, inspect | mechanics, lock | concurrent commands; outside edits; retries | one pending; Baseline last; closes |
| Bootstrap (`bootstrapapply`) | plan, formal files, receipts | prepare, apply, resume, rollback, status | create/move, CAS, lock | order of activation and deactivation | Root only over complete volumes; closes; status is true |
| Locale switch, index relocation (`cli`) | Root, Meta, Code volume, configuration, Baseline; intent, archive | switch, relocate, each also its own recovery | mechanics, lock, recovery gate | commands that pass the gate together; hand edits; stops | files from one side of every switch; no edit undone; a pending switch closes |
| Migration (`migrationapply`), database bootstrap | same kind as the bootstrap | same kind | mechanics | same | same |
| MCP entry batches (`mcptools/tools_write*`, `tools_maintain*`, `tools_remove*`) | recovery record, volumes, Baseline, governance receipts | issue, plan, commit, resume, reconcile, roll back, remove | lock, CAS write, ledger | several files, plans made before the lock, sources that move | no Entry is lost; what is out of step is recoverable; an aligned index describes the sources |
| Parallel Code batches (`codebatch`) | logical plan, sibling receipts | issue, apply, replay | batch commit | siblings in any order | the volume is the replay of the receipts |
| Overview delivery and refresh (`mcptools/overview_*`, `tools_read_refresh.go`) | refresh session, retained deliveries, capacity verdict | deliver, continue, prove, evict, expire | concurrent MCP requests | eviction under a request, proofs in halves and late, compactions repeated | the store's accounts are right; a reload loop ends; a reliable receipt was proven |
| Human approval, onboarding | approval file, stage | ask, record, advance | MCP dialog, CLI | stale answers | an approval binds the plan it was asked for |
| Fingerprint cache (`baseline`) | size/mtime/digest entries | hash, save | governance calls | edits within a time stamp | a hit is the digest of the bytes |
| Status page (`ui`) | registration record | register, unregister | index lock | replacement while shutting down | a page removes only its own record |
| Parsers, generators, validators, codecs, connectors, renderers | none | pure functions, I/O | — | — | not modelled |

`PROJECT.json` lists every component with its files, and under `hazards` the
places where tests hardly reach.

## Modules

| Module | Models | Proofs |
|---|---|---|
| `IndexLock` | `internal/fs/lock.go` | `IndexLockProofs` |
| `AtomicCAS` | `AtomicWriteCAS` with its recovery, `AtomicCreateCASMode`, `AtomicMoveCAS`, the Linux exchange and no-replace publication and their link emulations | `AtomicCASProofs` |
| `ScopeTxn` | `internal/scopechange` over `internal/cognitiontxn` | `ScopeTxnProofs` |
| `BootstrapTxn` | `internal/bootstrapapply` | `BootstrapTxnProofs` |
| `AtomicChange` | what both promise to a reader: the abstract specification they implement | |
| `LayoutSwitch` | the locale switch and the index relocation of `internal/cli` over `internal/cognitiontxn` | `LayoutSwitchProofs` |
| `VolumeCommit` | the Entry batches of `internal/mcptools` with Maintain, and the parallel batches of `internal/codebatch` | `VolumeCommitProofs` |
| `OverviewSession` | the Overview tool: refresh session, delivery store, proofs, capacity verdict | `OverviewSessionProofs` |
| `FingerprintCache` | `internal/baseline/fingerprint_cache.go` | `FingerprintCacheProofs` |

Each has an `MC` module with the definitions a configuration cannot express
(symmetry sets, the images a plan changes).  The lower modules are taken as atomic
steps by the upper ones: `ScopeTxn`, `BootstrapTxn`, `LayoutSwitch` and `VolumeCommit`
use the lock, the CAS write, create and move as single actions, whose insides are the
first two modules.  The known limits of the lock and the CAS below bound what that
abstraction is worth: the transactions are checked for a lock that excludes and
writes that compare and swap.

Definitions ending in `_Word` next to an action are deliberate mistakes (a dropped
re-check, a swapped order).  They are not part of any specification; each shows
that one property notices that mistake.

### IndexLock

`canonical` is the entry; every creation is a new generation with an owner, an inode
and a form: a file, which appears with its owner record, or a directory, whose
`owner.json` (`token`) follows.  Each action is one system call of `tryCreateLock`, `observeLockOwner`,
`acquireLockWith`, `quarantineStaleLock` or `Release`.  `pc[p]` says where process
`p` is, `obs`/`opened` what it last saw.  `Crash` ends a process for good (a
restarted program is another member of `Procs`); `Timeout` and the failing calls
(`AcquireFails`, `QuarantineFails`, ...) are the error returns.  The variable `fs`, one of
`FileSystems` and fixed in a behaviour, says whether there are hard links (the file
form, else the directory form: `HardLinks`) and whether freed inodes are handed out
again (`InodeReuse`).  Where there are hard links, an `os.Link` that fails for another
reason than an occupied name falls through to the directory form (`lock.go:272-273`), so
both forms meet under one name; `os.Remove` of a directory fails while its owner is
inside (`RemoveEntry`).  A failing `os.Stat` in the quarantine reads as "not moved".
`lockOwnerPath` and the open that follows it are one step.
A process runs one acquisition at a time.  The history variable `overlap` records
that two recoverers stood between their last check and their `os.Remove` at once.

### AtomicCAS

Contents are versions, digests are equality.  `live` is the history of versions
somebody is owed: an outside write adds its version and takes out the one it
overwrote knowingly.  The variable `env`, one of `Environments` and fixed in
a behaviour, says whether the rename primitive or the link emulation is at work
(`Primitive`) and whether outside writers also replace the file by rename or delete
it, or only write in place (`ExtRename`).  `WriteBack` lets them write the very
version a pending call expects.  The variable `use`, one of `Uses`, says whether the
path is one that is written over or one that is created and moved away; `capture` is
the second name of its inode, of the emulated exchange or of a move.  A creation and a
move leave nothing to recover but the target and the recovery name, so the two uses
are explored apart.
A writer producing exactly the new bytes of the pending call is left out: it
cannot be told from the call itself, and nothing is lost.
Every publication, reading back and restoration may fail (`StagingFails`,
`ExchangeFails`, `CleanupFails`, `CreateFails`, `MoveFails`, `RestoreFails`); a version
whose move is reported as failed is owed again.

### ScopeTxn

A transaction's identity stands for its postimages, `Base` and the members of
`Thirds` for versions no transaction wrote.  Every outside write of a formal file
brings bytes that no formal file and no captured preimage holds (`Fresh`): somebody
who puts back exactly what a plan remembers is left out, as nothing can tell that
from the transaction's own work.  `Apply` looks at archive and intent before the lock as the
code does; the sequence under the lock is replay, capture, stage, intent, then for
each image in order inspect–publish–reinspect, the source guard before the
Baseline, internal verification, receipt, ledger, archive, removal of the intent.
`Rollback` walks back.  `Stop` is a killed process or an I/O error between any two
steps and releases the lock, as the deferred release or the stale takeover does.
The ledger is enabled, which `EnsureLedger` demands.  `Build` and an inspection
read their files in one step.

### BootstrapTxn

All commands read under the lock, so one runs at a time.  Volumes, then Root, then
Baseline are published; `Rollback` takes them back in the order of `rollback.go`.
`Status` is the operator of `status.go`; `ended` is the history of what really
happened.

### AtomicChange

A reader that honours `cognitiontxn.Pending` sees no formal files while a change is
pending.  `AtomicChange` says what it sees otherwise: all files as the change wants
them, or all as they were, and the recorded result says which.  Files somebody else
wrote since the change was captured are `foreign`, and nothing is promised about
them.  `ScopeTxn` and `BootstrapTxn` instantiate it: `pending` is the identity of the
active intent, `shown` the formal files or `None`, `before` the captured preimages,
`result` what the terminal records say; the instance is `Change`, the property
`ImplementsAtomicChange`.  All steps between the intent and its removal are stutters
of the abstract specification.

### LayoutSwitch

A file is what the commands say in it (the Locale of Root and configuration, the
Meta's line about section roots, the Code volume's roots) and the number of edits by
others.  `Begin` is the recovery gate of `root.go`, passed without the lock; the rest
of a command runs under it: the plan in the steps between which its reads fall, the
intent, the inspection of all images, one `Publish` per image, `Verify`, ledger,
archive, removal of the intent.  A command that finds its own intent goes straight to
the inspection.  The staged postimages are never removed and so are no state.  `Stop`
falls between any two steps, `OutsideEdit` changes any file or puts back what an
intent remembers of it.  `layout` and what the Baseline binds vary over the initial
states.

### VolumeCommit

A Volume is the sequence of its Entries; replacing keeps the place, a new Entry goes
to the end in the order of their identities (`InOrder`), so the order of landing
shows in the bytes.  Maintain (`MaintainLoad`
to `MaintainDeliver`) reads a snapshot without the lock and issues receipts bound to
it, one per Volume or several siblings of one logical plan; the Database batch gets what
the Code candidates of the same answer leave of the limit (`DatabaseCut`).  A host authors texts
(`claims` is the history of which text was written for which version of a source)
and submits a batch; planning reads receipt, snapshot, recovery record and guards
before the lock; under it come the Baseline, reprojection of a sibling, the recovery
record, one write per Volume, the Baseline's advance, receipt, applied record, ledger
and archive, one action each, so that `Stop` (a killed process or a failed call)
falls between any two.  A repeated submission resumes, reconciles or rolls back from
the record, as the states of its Volumes tell.  `OutsideEdit` is an outsider's
change of a Volume and `SourceEdit` one of a source.  `Related` says whether the Entries
of a batch refer to the Volume it does not write, which then is one of the guards of its
plan, like the Meta (`ExternalGuards`).  A batch that leaves every byte alone gets no
governance receipt, and its commit ends there (`Govern`).  The history variable `unseen`
names the targets that a batch entered into the Baseline without writing their Volume,
because it found its texts in place when it was planned (see the known limits).

### OverviewSession

`session` is the refresh session all requests of a server share, `delivery` and
`stored` are the retained deliveries and the store's order of use.  A fresh request
takes the live path in one section under the session's mutex; a continuation or a
proof of a retained delivery takes five sections (`Lookup`, `FindProof`, `Reserve`,
`EvaluateRetained`, `Postflight`, `Record`), between which other requests run, evict
the delivery or replace the session's evidence.  `holds` is what each Host was given
and so may confirm; `told` is the history of what Hosts declared and proved, of which
bodies were delivered under aligned governance, or only bound so by a request that was
then refused, and of the smallest reload that a compaction interrupted.  `MaxConsumed`
is the number of event ids after which `consumeEvent` forgets all of them (256).

### FingerprintCache

`disk` is `.aoci/fingerprints.json`, `entries[c]` the copy of a governance call.
`HashFile` is four steps (stat, stamp, the read in two parts, stat again), so a write
may fall anywhere in it; `FileLines` puts a count beside an entry that was made at
another time.  `Save` replaces the file whole, without a lock.  A digest stands for
the version it was taken of, `Mixed` for bytes that were never together.  A write
gets a modification time up to `Lag` before now: coarse time stamps, and renames of
files written a moment ago.  The assumption `Lag <= Window` is what the comment at
`fingerprint_cache.go:17-23` claims of the window.

## Runs

| Run | Question | States |
|---|---|---|
| `IndexLock` | 3 processes, 3 generations, 1 failed call, on a file system with hard links, where a failed link leads to a directory, and on one without that may reuse inodes: exclusion of the directory form alone; exclusion of files and directories mixed and live locks untouched while recoverers do not overlap | 1.9 M |
| `IndexLockLive` | a dead owner's file lock is reclaimed even after a first recoverer died midway | 33 K |
| `AtomicCAS` | 3 calls that replace, or that create and move, 2 outside writes, 2 crashes, 1 failed call, primitive and emulation: nothing lost, an orphaned swap is disposable, success is compare-and-swap, recovery converges | 954 K |
| `ScopeTxnConcurrent` | 2 processes, 2 transactions, 1 outside write, 1 stop: one pending, ledger once, Baseline last, third-party bytes untouched, and the refinement of `AtomicChange` | 587 K |
| `ScopeTxnRecovery` | 2 stops anywhere, 1 outside write: an intent has its images, a closed transaction its records; with Resume and Rollback repeated, everything closes unless somebody else wrote | 219 K |
| `BootstrapTxn` | 2 transactions, 2 stops, 1 outside write: Root only over complete volumes, receipts, completion final; a retry ends in a closed transaction, a conflict or a drift; the refinement of `AtomicChange` | 302 K |
| `LayoutSwitch` | 2 processes, 2 Locales, every layout, a Baseline with and without the Root; 2 commands with 1 edit by hand and 2 stops, or 3 commands with 1 stop and a second that passes: files from one side of every switch, edits kept, a pending switch closed | 387 K |
| `VolumeCommit` | 2 processes, a Code target without an Entry and a Database target whose source has moved on, 1 further move, 1 stop, rollbacks, batches guarded by the other Volume: an aligned repository has texts written for the present sources; the Baseline is never behind a closed Code batch; nothing takes a closed batch's version back | 492 K |
| `VolumeParallel` | 2 processes, 2 siblings of one plan in any order, 1 hand edit, 1 stop: a Volume changes only by what a batch's texts make of the bytes that are there; no sibling lands on a hand edit | 602 K |
| `VolumeResume` | 1 process, 2 Volumes in one batch, 2 stops, 1 move of a source, 1 hand edit: a Volume out of step with the Baseline has a pending record that explains it, and resubmission closes every record whose sources stand | 69 K |
| `OverviewSession` | 2 concurrent requests of one Host, 4 in all, 4 compaction events and a memory of 3, a store of 2 deliveries and 4 units, 1 edit, 1 expiry: the store's byte count and limits, the end of reload loops, retries of declarations while the memory lasts, the proof behind a reliable receipt | 1.3 M |
| `FingerprintCache` | a walk and a profiling batch, each opening the cache any number of times, 1 file, 1 edit at any moment, window and lag of 1 tick, 3 ticks: what an entry answers is what hashing, or counting, would give | 4.0 M |

Three processes are the least in which two recoverers and a new owner meet; three
generations let a replacement be replaced.  Three versions besides the initial one
let a call, its interferer and a second interferer differ.  Three images give a
first, a middle and the Baseline; four files in the bootstrap give two volumes.
Two transactions are needed for exclusion between them, two stops for a stop during
a recovery.  Two targets give a batch with two Volumes, or two siblings; one hand
edit and one move suffice to make everything bound to the old bytes stale.  The
whole scope takes two chunks and outgrows the store at its second version, so that
both eviction and refusal happen; four events overflow the memory of three, which four
requests can just do, so what follows the overflow is left to the theorems.  Three ticks let an entry be trusted, outlived and
revived from an older copy; one edit of one file is enough because the entries of
different paths never meet, and the theorems remove these bounds altogether.
The third command of `LayoutSwitch` is the first that can meet the archive of an equal
one.
Bounds appear as `Max...` constants in guards, in `LayoutSwitch` as the records of
`Bounds`.
Deadlock is checked for `FingerprintCache` only: every other model ends when its
bounds are spent and every command has returned.

## Known limits

Behaviour of the code that the checks met and that the constants or the statement of
a property exclude; each is reachable by changing what is named.

Lock and CAS:

* Two recoverers can both pass the identity re-check (`lock.go:365`).  One removes
  the stale entry, a new owner publishes its lock under the same name, and the
  other's `os.Remove`, which goes by name, deletes it, although the comment at
  `lock.go:346-348` says "once a new owner has replaced the canonical entry it is
  never touched".  `SingleRecovererMutex` and `LiveLockUntouched` are conditional on
  `overlap = FALSE`.
* A process that dies between `mkdir` and the owner record leaves an empty lock
  directory.  `lock.go:290-291` calls it "reclaimable by mtime", but
  `quarantineStaleLock` refuses every directory (`lock.go:331-338`), so every later
  acquisition fails.
* `FileSystems = {"links_reuse"}`: the file form of the lock compares inodes only
  (`lock.go:349-371`), so a late waiter takes a replacement with a reused inode for
  the stale lock it saw, and removes it.
* Where a creation is published by link and only the unlinking of the staged file fails,
  the new file is in place but the call finds the name taken and reports a conflict
  (`atomic_create_linux.go:52`, `atomic.go:127-131`).  `NothingLost` counts that file as
  owed; no property speaks of an error for a publication that took place.
* `WriteBack = TRUE`: an outside write of the expected version during the rollback
  of a conflict, followed by a stop, is taken for the captured preimage by recovery
  (`atomic.go:348-374`) and removed.
* `Environments = {"emulated_rename"}`: the emulations act by name after a link, so
  a version renamed onto the path in between is unlinked
  (`atomic_create_linux.go:52`) or renamed over.

Transactions:

* The rolled-back receipt of a scope change is immutable and lists the paths this
  call restored.  A rollback stopped between the receipt and the archive restores
  nothing when repeated, its receipt differs, and Rollback fails for ever
  (`scopechange/transaction.go:540`) until the transaction is applied instead;
  `managed-scope-and-budget.md:37` promises either command.  `ScopeTxnRecovery` has
  both commands in use.
* Of two identical concurrent Apply calls the later one can find the transaction
  neither pending nor applied and report `managed_scope_recovery_not_found`
  (`scopechange/transaction.go:263`); `TestConcurrentIdenticalApplyIsIdempotent`
  expects neither to fail.
* A bootstrap Rollback restores Root before the Baseline, while
  `inspectEnvelopeState` (`status.go:109-116`) calls a published target after an
  unpublished one a conflict.  A Rollback stopped between the two is refused by
  Rollback, Resume and Apply.  `ClosesOrConflicts` counts the conflict as an end.
* `BootstrapTxn`'s `Status` consults the rollback receipt first (`status.go:51`), so
  a transaction rolled back up to its receipt, stopped, and then resumed to its end
  is reported as rolled back.
* A deleted skeleton Root passes for the preimage (`status.go:147-170`) but
  `AtomicWriteCAS` cannot replace it: Resume fails until a Rollback closes the
  transaction, and a Rollback that was stopped once fails on the names in its
  recovered directory.  `ClosesOrConflicts` excludes this case.

Locale switch and relocation (`cli`):

* `config set locale` to the configured Locale is the documented repair of a Root that
  names another one ("Root follows configuration", `docs/localization.md:60-63`).  The
  configuration's image then has equal pre- and postimage and counts as published after
  the Root, which is not: `locale_switch_publish_order_invalid`
  (`locale_switch_transaction.go:319-323`), now and at every retry, while the pending
  intent blocks all other commands.  `Closes` excludes it (`Resumable`).
* Where the Baseline does not record the Root, the third of the switches there, back
  and there again has the first one's identity but another `created_at`;
  `ArchiveImmutable` finds a conflict for ever.  `Closes` excludes it as well.
* `ConfigRace = TRUE`: the configuration is read twice (`:149` and `:193`) and the
  postimage is made of the first reading; an edit in between is undone.
* The relocation takes the Locale of the Meta's line from a configuration read before
  the lock.

Entry batches (`mcptools/tools_write_volume_commit.go`):

* A commit under the lock looks for no other pending record (`:1023`).  A sibling
  that stops between its record and its first write is overtaken by another; its
  record's preimage is gone, and it can be neither resumed nor rolled back, although
  `aoci-cognition-volumes-v1.txt:734` says "a failure mid-Apply recovers as a single
  batch does".  The constants of `VolumeParallel` with `MaxEdits = 0` reach it;
  `DriftExplained` and `Closure` are therefore checked with one process.
* The record is looked up before the lock.  When a concurrent identical submission's
  refused write deletes it (`:1080`), the write under the lock goes on without one.
* A sibling submitted twice at once is projected onto its own result; its record has
  equal pre- and postimages, which `decodeAtomicBatchRecovery` rejects for ever.  The
  same happens to a mixed batch with one side textually unchanged (`Verbatim = TRUE`).
* Reconciling records no applied receipt (`:1308`), so later siblings fail closed.
* An archived record of the same batch is reused after a rollback, and the batch is then
  carried out with no record pending: `DriftExplained` is checked without rollbacks.
* Maintain replaces the plan and its list of delivered siblings from a snapshot read
  without the lock (`tools_maintain_parallel.go:256`): two calls lose one another's
  delivery, and a plan can be recreated under an Apply.
* Reconciling a Database batch whose files are all published checks no evidence under
  the lock (`:1308`): a late reconciliation sets the Baseline's version of that source
  back to an older one, and the target is simply due again.  `ClosedStays` therefore
  speaks of Code targets, whose version is read from the tree.
* A batch that leaves a Volume's bytes alone does not compare them under the lock
  (`validateVolumePlanPrewrite`, `:1195`, looks at the files it will write), and the
  advance of the Baseline takes the Volume as it is: what another process wrote there
  since the plan is called aligned with this batch's sources.  `AlignedSound` excepts
  the targets in `unseen`.
* Every plan of a batch asks that its sources are at the versions it was issued for, also
  the plan of a resubmission and of a rollback (`:314-316`).  A source that is edited
  while a record is pending therefore leaves a record that can be neither completed nor
  taken back, and that blocks Maintain until somebody restores the source or removes the
  record.  `Closure` is conditional on `SourcesStand`.
* A hand edit that restores a preimage exactly lets a rollback reach a closed batch:
  `ClosedNotUndone` holds as long as nobody edits.

Overview (`mcptools`):

* A late proof of a retained delivery records the generation frozen in its receipt,
  so `refresh_generation` can repeat or go back; `cognition-refresh.md:129-130` says
  it advances.
* A proof, or a replayed chunk, of a delivery made before a declared compaction
  consumes the pending compaction (compare `aoci-cognition-refresh-v1.txt:87-94`).
* When a delivery cannot be stored or was evicted, the reset of the evidence went to
  the entry's private session, and an older confirmation vouches for a new
  transmission of the same body (compare `aoci-overview-delivery-v1.txt:264-266`).
  `ReliableProven` asks for a confirmation of the body, not of the transmission.
* All consumed event ids are forgotten when there are 256
  (`tools_read_refresh.go:500-502`): an older one declared again then counts as a new
  compaction and may interrupt a reload, although `docs/cognition-refresh.md:74-75` says
  "The same event ID may be retried safely".  `RetryNeverInterrupts` is conditional on
  fewer declared ids than that; in the code ids of phase transitions and of adopted
  receipts, which are not modelled, use up the same memory.
* A fresh request binds its body to the governance facts
  (`tools_read_volumes.go:244`) before its last checks (`:280-286`).  When these refuse
  it, nothing is delivered, but the binding stays, and an earlier delivery of the same
  body under misaligned governance can then be proved reliable; the comment at
  `tools_read_refresh.go:31-32` speaks of "a delivered Whole-Index body".
  `ReliableProven` admits the bodies of such requests (`told.refused`).

Fingerprint cache:

* `Lag > Window`: a file written longer ago than the window and then renamed into
  place, or `touch -r`, is missed if its time stamp equals the entry's;
  `troubleshooting.md:362` says so for the latter.
* File time stamps and the hashing clock are taken for one clock.

## Fairness

`IndexLock`: a process that tries keeps taking its own steps, as the
polling loop of `acquireLockWith` does, processes keep asking for the lock, and one
that keeps observing a dead owner's lock at some time judges it dead (strong
fairness: until the lock is older than the staleness threshold it is "busy");
nobody is obliged to release.
`AtomicCAS`: a call that runs takes its next step.  `ScopeTxn` and `BootstrapTxn`:
a command that runs takes its next step, and a user faced with a pending
transaction repeats each recovery command in use (strong fairness of Resume and of
Rollback, since another command may run in between).  `VolumeCommit` (the run
`VolumeResume`): a call that runs takes its next step, and a host whose batch is
pending submits it again, which is what the response tells it to do (strong fairness
of `Resubmit`, since other calls come in between).  `LayoutSwitch`: a command that runs
takes its next step, and while an intent is pending its command is given again by some
process (strong fairness of `Retry`): the gate refuses every other one with its name.  Crashes, stops, faults and outside
writes are never fair and are bounded.

## Proofs

`IndexLockProofs` proves for every set of processes and all bounds:

* `TypeCorrect`: `Spec => []TypeOK`;
* `SingleRecovererMutexHolds`: exclusion as long as no two recoverers overlapped;
* `LiveLockUntouchedHolds`: an entry leaves its name by its owner's hand or after
  its owner's exit, under the same condition;
* `DirectoryMutexHolds`: unconditional exclusion of the directory form.

`TypeCorrect` is checked by the prover alone; no run has `TypeOK` among its properties.
The only assumption is `IndexLock`'s own on its constants.  The conditions are part
of the properties: `InodesIdentify` (inodes are not reused, or the lock is a
directory) and, for the second and third, that no two recoverers overlapped; the
known limits show that both are needed.
Exclusion is not inductive: it must be known that what a process holds is on disk
(`OwnerOnDisk`), that what was read and what was stat'ed belong together once the
name was re-checked (`ObservationCoherent`), that only dead owners' locks are in
quarantine (`QuarantineOfDead`), and that without overlap the one process before
its removal still looks at the lock it judged (`OneRemover`).  `LockInv` is their
conjunction.  It does not assume one form of lock per file system: a directory that
replaced the file a recoverer judged is told from it by its inode.  The proof has one lemma per group of actions: those that leave the
entry, those that observe, those that quarantine, those that remove, those that
publish.

`FingerprintCacheProofs` proves for every set of calls and files, every window, lag
and bound, from `CacheConstants` alone (`Lag <= Window` is the part that matters):

* `CacheTypeCorrect`: `Spec => []TypeOK`;
* `HitIsColdHashHolds`: an entry that answers, in the file or in any call's copy, has
  the digest of the bytes that are there;
* `LinesAreColdHolds`: the same of the line counts.

Neither is inductive: an entry is made of a request, so `CacheInv` also says that
what a request has read is of the file as it is if the entry it will make, or the one
its count will join, is going to be trusted (`RequestSound`).  `OwnStep` reduces the
steps of a call to what they leave in its record and in the file.  The argument
proper is `WriteOutdates`: new bytes have a modification time at least `clock - Lag`;
what is trusted was stamped, at the latest now, more than `Window` after the time it
is for; so that time is not the new one, and nothing trusted survives a write.  The
second stat in `HashFile` is not used: the stamp alone makes the entry safe.

`AtomicCASProofs` proves, for any set of versions and any number of calls, outside
writes, crashes and failing calls:

* `NothingLostAlways`, `OrphanSwapDisposableAlways`, `CleanReturnAlways` and
  `SuccessIsCASAlways`, each the property of that name.

The hypothesis `Provable` is what comparing digests can prove: `WriteBack = FALSE` and
no `emulated_rename` among the environments, the two limits above.  A version that is
owed may be in the swap file or under the capture only while an intent accounts for
it, and what may be where depends on the step of the call, so `CASInv` adds to
`NothingLost` what each step has on disk (`Assets`) and who is owed what under an
intent (`Accounted`): at most one owed version lies beside the target, and it is none
of the intent's.

`ScopeTxnProofs` proves, for any number of processes, transactions and files, from
`ScopeConstants` alone:

* `OnePendingAlways`, `RecoverableIntentAlways`, `LedgerOnceAlways`,
  `TerminalRecordedAlways`, `BaselineLastAlways`, `ThirdPartyUntouchedAlways`;
* `ImplementsAtomicChangeAlways`: the refinement of `AtomicChange`.

`ScopeInv` says what the disk means when nothing is pending (`QuietSound`) and when
something is (`PendingSound`), and what the one process in the critical section knows
about the position it has reached (`HolderPosition`: the images before it are as the
walk in its direction leaves them; `HolderRecords`: which receipts are there).
`BaselineLast` needs both: a command that follows a stopped one starts in the middle
of a walk, in either direction.
The refinement is proved step by step: an intent is `Begin`, its removal `End`, an
outside write of a file no walk claims is `Outside`, all others are stutters.

`BootstrapTxnProofs` proves, for any number of envelopes and volumes, from
`BootstrapConstants` alone: `RootLastAlways`, `TerminalReceiptAlways`,
`CompletedStaysAlways`, `ThirdPartyUntouchedAlways` and
`ImplementsAtomicChangeAlways`.  `BootInv` has `RootLast` as a conjunct of its own: it
holds in the middle of both walks because Root is published after every volume and
taken back before any of them (`PositionSound`, over the orders of `advanceTransaction`
and of `RollbackOrder`).

`LayoutSwitchProofs` proves, for any number of processes, Locales, edits and ticks:

* `CoherentAlways`, without a hypothesis;
* `EditsKeptAlways`, for `~ConfigRace`: nobody edits the configuration between the two
  reads that a plan makes of it, the limit listed above.

Coherence is stated of the files once all images of an intent are published (`After`),
and this is what every step of the plan establishes and no step of the publication
changes; when the intent is removed the files are that.  The plan needs most of the
proof: Root and configuration change together or not at all (`Planned`), and the
Baseline is computed over the images before it is one of them.

`OverviewSessionProofs` proves, for any number of Hosts, requests, compaction events,
versions, edits and deliveries, and any limits of the store:

* `ReloadLoopBrokenAlways`, `RetryNeverInterruptsAlways`, `ReliableProvenAlways`;
* `StoreAccountedAlways`: the byte count of the store is the weight of what it holds, and
  both limits are kept.

The second is conditional on the size of the memory of events, `MaxConsumed`, the other
three hold for every size.
For the first three the store does not matter and does not occur in `OverviewInv`: whatever it evicts, a request goes on with
the delivery it holds.  What must be known is that every half that was said is on
record (`HalfSound`), in the evidence of the session, of every delivery and of every
request between two of its sections (`EvidenceSound`, `AttestationSound`), that a
delivery made under aligned governance is recorded as such, that a body's snapshot is
its own version only after such a delivery or such a refused request (`BoundAligned`),
that every declared event is pending or consumed as long as the memory lasts
(`EventsKnown`), which makes a retry recognisable, and that the verdict is the smallest
reload that was interrupted until a Host confirmed a whole scope of that size
(`VerdictSound`).  Each operator of the session has a
lemma; each action is a composition of them.
`StoreAccounted` has an invariant of its own, `StoreInv`: the entries are deliveries, each
there once, and there is a list of partial sums, one for each place, that ends in the
byte count.  Taking an entry out or letting one grow shifts the sums behind it, so no
step needs to know what a fold computes; only at the end the sums are shown to be the
weight.  The loop that evicts (`Dropping`) takes an induction over the place it has
reached; it ends because the entry it keeps leaves room by itself.

`VolumeCommitProofs` proves, for any number of processes, targets, sibling batches,
edits and stops, from `VolumeConstants` alone:

* `NoEntryLostAlways`, `ForeignFailsClosedAlways`, `ClosedStaysAlways` and
  `AlignedSoundAlways`, each the property of that name;
* `DriftExplainedAlways`, under the hypothesis `Alone`: one process, one batch for each
  Volume, no rollbacks.  With two processes, or after a rollback, the property is false
  (see the known limits); siblings in one process are not excluded by an example, but
  are beyond this argument.

`NoEntryLost` needs `CommitInv`: the pre- and postimages in a record, and those in the
memory of a process between its plan and its last write, belong together by the texts
of one and the same batch, whether the process planned them, reprojected them or took
them from the record of another; and whoever is in the critical section has the lock.
`ForeignFailsClosed` needs `HandInv` beside it: the bytes a sibling works on, in its
plan, in the record it resumes and in the applied receipts of the others, hold nothing
written by hand that the plan's preimage lacks (`Clean`).  An applied receipt carries
this along, so a replay needs only its last step and no induction over its length
(`ReplayClean`).  That a projection invents no Entry by hand rests on `InOrderSound`,
that every finite set of numbers has an increasing enumeration, proved by an induction
in set form (`SetInduction`, from the well-foundedness of `<`).
`ClosedStays` needs `VersionInv`: nothing speaks of a version that its source has not
reached, a batch says what some host claimed, a process under the lock has the Baseline
as it is, the Baseline has not overtaken a batch that is being committed, and it has what
a batch says once that batch advanced it.
`AlignedSound` needs `ToldInv` beside that: as long as nobody edits, an Entry whose source
is where the Baseline has it carries a text written for that version.  A rollback puts
Entries back, so every record must satisfy this too, under the Baseline that it keeps.
`DriftExplained` needs `FitInv`.  What must not happen is that a batch is accepted on a
Volume that another one left halfway, or that an archived record is carried out once
more; both compare bytes, so it must be shown that bytes never return.  Volumes are
ordered (`Below`: every Entry is still there, with the same text or a later one), the
Baseline only moves up, a receipt was issued on what is below the Baseline, for versions
that its Entries do not tell of yet, and a batch makes of that something strictly above
(`MakesSound`).  A Volume that drifted is then above the Baseline and equal to nothing
that a receipt or an archived record remembers (`NoReturn`).  TLC has checked `FitInv`
on the constants of `VolumeResume`, also with moving sources, two wordings, split and
verbatim batches.

Only model-checked:

* liveness (`StaleLockReclaimed`, `Converges`, `PendingCloses`, `ClosesOrConflicts`,
  `Closure`, `Closes`), which is out of the prover's reach;
* `ClosedNotUndone`: with several processes and rollbacks, Volumes do move back, and a
  receipt can be issued on bytes that a rollback took away since they were read, so the
  order behind `DriftExplained` is lost.  What remains to be shown is that the Baseline
  never returns to the one that a record keeps.

## Not modelled

The darwin, windows and other variants of the primitives; `AtomicWrite` without
CAS; the liveness probe of a PID (a predicate); the content of plans, approvals,
codecs and eligibility rules (guards on opaque values).

`LayoutSwitch` leaves out the dry run, a Locale migration begun by an older version,
damaged intents and a disabled ledger.
`VolumeCommit` leaves out removals and orphans, findings of validation and budgets,
the review of observe-only targets, a Maintain for one of the two scopes, retained recovery records, the legacy layout and
batches without a receipt.  `OverviewSession` leaves out incremental deliveries and
their base, probes, phase transitions, the semantic threshold, chain ids, a cursor
that carries half a proof, the block for an absent scope or a pending recovery,
event ids in receipts, the cap on governance snapshots, and runs with one Host.
`FingerprintCache` leaves out the in-process memo, the off switch, sizes and files
that are not regular.

Most of the repository, by lines, is not a state machine: parsers, editors and
generators of index text, strict decoders, validators and eligibility rules, budget
and plan computation, message catalogs, schemas, renderers, command line wiring,
connectors to database servers, Git subprocesses, and the black-box test drivers
under `scripts/`.  They map their arguments to a result and keep nothing between
calls; translating them would copy string processing that the repository's unit and
fuzz tests cover.  That is why the map names well under a third of the source lines:
it covers the files where state survives a call and processes meet, and there it
covers most of them.  `PROJECT.json` lists the remaining components with their
reasons.

## Plan

1. Theorems: `VolumeCommit`'s `ClosedNotUndone`; `DriftExplained` with siblings.
2. `MigrationTxn` and the database bootstrap as further clients of the shared
   mechanics and of `AtomicChange`.
3. Removals in `VolumeCommit`; `HumanApproval`, `UiRegistry`, the onboarding stages.
4. A compare-and-swap register that `AtomicCAS` implements.
