----------------------------- MODULE AtomicCAS -----------------------------
(***************************************************************************)
(* The compare-and-swap file operations of internal/fs/atomic.go on Linux: *)
(* AtomicWriteCAS over the path exchange (atomic_exchange_linux.go), and   *)
(* AtomicCreateCASMode and AtomicMoveCAS over the no-replace publication   *)
(* (atomic_create_linux.go).                                               *)
(*                                                                         *)
(* One call at a time works on a target path (the cross-process CAS lock), *)
(* while writers outside aoci change it whenever they like.  A call may    *)
(* stop at any point (Crash); the next one recovers what it finds.         *)
(* Contents are abstract versions: a digest comparison is an equality of   *)
(* versions.  Each action is one system call, or a few of the lock         *)
(* holder's calls that nobody outside can tell apart.                      *)
(***************************************************************************)
EXTENDS Naturals, FiniteSets

CONSTANTS
    Vals,       \* versions of the target file
    Initial,    \* the version on disk at the start
    None,       \* an absent file; not a version
    Environments, \* what the file system offers and how outsiders write
    Uses,       \* "replaced": written over; "created": created and moved away
    WriteBack,  \* may they write back the very version a pending call expects?
    MaxCalls, MaxWrites, MaxCrashes, MaxFaults  \* bounds

ASSUME CASConstants ==
    /\ Initial \in Vals
    /\ None \notin Vals
    /\ WriteBack \in BOOLEAN
    /\ Environments \subseteq {"primitive", "emulated", "emulated_rename"}
    /\ Uses \subseteq {"replaced", "created"}
    /\ {MaxCalls, MaxWrites, MaxCrashes, MaxFaults} \subseteq Nat

VARIABLES
    env, use,   \* the environment and the use at hand, which never change
    target,     \* what the target path holds
    swap,       \* target.aoci-cas.swap
    capture,    \* the target's second name: target.aoci-cas.swap.capture of an
                \* emulated exchange, or the recovery name of a move
    linked,     \* do target and capture name one inode?
    intent,     \* target.aoci-cas.intent: the digests [exp, new], or NoIntent
    kept,       \* versions under quarantine and recovery names, never deleted
    pc,         \* where the running call is, "idle" when none is
    exp, new,   \* its expected digest and its data
    ctx,        \* what the cleanup at hand concludes
    xfor,       \* which exchange is under way: forward, rollback, its undoing
    displaced,  \* history: what the call's publication removed from the target
    outcome,    \* what the last call returned
    live,       \* history: the versions somebody is owed
    budget      \* what is left of the bounds

call == <<pc, exp, new, ctx, xfor, displaced, outcome>>
disk == <<target, swap, capture, linked, intent, kept>>
vars == <<env, use, disk, call, live, budget>>

NoIntent == [exp |-> None, new |-> None]

Goto(l) == pc' = l

\* The call returns: everything it held in memory is gone.
Return(o) ==
    /\ pc' = "idle" /\ outcome' = o
    /\ exp' = None /\ new' = None /\ ctx' = "none" /\ xfor' = "none"
    /\ displaced' = None

\* The next step of the same call, its arguments kept.
Continue(l, c, x) ==
    /\ pc' = l /\ ctx' = c /\ xfor' = x
    /\ UNCHANGED <<exp, new, displaced, outcome>>

Spend(what) == budget[what] > 0 /\ budget' = [budget EXCEPT ![what] = @ - 1]

\* Does the file system have RENAME_EXCHANGE and RENAME_NOREPLACE?  Do outside
\* writers replace or delete the file, or only write into it?
Primitive == env = "primitive"
ExtRename == env # "emulated"

Init ==
    /\ env \in Environments /\ use \in Uses
    /\ target \in {Initial} \cup (IF use = "created" THEN {None} ELSE {})
    /\ swap = None /\ capture = None /\ linked = FALSE
    /\ intent = NoIntent /\ kept = {}
    /\ pc = "idle" /\ exp = None /\ new = None /\ ctx = "none"
    /\ xfor = "none" /\ displaced = None /\ outcome = "none"
    /\ live = {target} \ {None}
    /\ budget = [calls |-> MaxCalls, writes |-> MaxWrites,
                 crashes |-> MaxCrashes, faults |-> MaxFaults]

-----------------------------------------------------------------------------
(* recoverAtomicCAS, on entry ("recover") or after a failed exchange       *)
(* ("failed").                                                             *)

\* A call, the CAS lock taken: the expected digest and the new bytes.
AtomicWriteCAS(e, n) ==
    /\ use = "replaced"
    /\ pc = "idle" /\ Spend("calls")
    /\ pc' = "readintent" /\ exp' = e /\ new' = n /\ ctx' = "recover"
    /\ xfor' = "none" /\ displaced' = None /\ outcome' = "none"
    /\ UNCHANGED <<env, use, disk, live>>

\* What follows a recovery that succeeded.
AfterRecovery == IF ctx = "failed" THEN "afterfail" ELSE "check"

\* No intent: nothing to recover, and an unexplained swap file stops the call.
ReadIntent ==
    /\ pc = "readintent"
    /\ \/ intent # NoIntent /\ Continue("normalize", ctx, "none")
       \/ intent = NoIntent /\ swap = None /\ Continue(AfterRecovery, ctx, "none")
       \/ intent = NoIntent /\ swap # None /\ Return("recovery")
    /\ UNCHANGED <<env, use, disk, live, budget>>

\* normalizeAtomicExchangeArtifacts: drop a redundant capture, or finish the
\* emulated exchange whose swap name is already gone.
Normalize ==
    /\ pc = "normalize"
    /\ capture' = None /\ linked' = FALSE
    /\ swap' = IF swap = None THEN capture ELSE swap
    /\ Continue("judge", ctx, "none")
    /\ UNCHANGED <<env, use, target, intent, kept, live, budget>>

\* Mutant of Judge: an unplanned captured version is not swapped back.
Judge_NoRollback ==
    /\ pc = "judge"
    /\ \/ /\ swap = None /\ target # None
          /\ Continue("rmintent", ctx, "none")
       \/ /\ swap # None /\ target # None /\ swap \in {intent.new, intent.exp}
          /\ Continue("rmswap", ctx, "none")
       \/ /\ target = None \/ swap \notin {None, intent.new, intent.exp}
          /\ Return("recovery")
    /\ UNCHANGED <<env, use, disk, live, budget>>

\* The digests of target and swap against the intent.
Judge ==
    /\ pc = "judge"
    /\ \/ /\ swap = None /\ target # None
          /\ Continue("rmintent", ctx, "none")
       \/ /\ swap # None /\ target # None /\ swap \in {intent.new, intent.exp}
          /\ Continue("rmswap", ctx, "none")
       \/ /\ swap # None /\ swap \notin {intent.new, intent.exp}
          /\ target = intent.new
          /\ Continue("xchg", ctx, "rollback")
       \/ /\ \/ target = None
             \/ /\ swap \notin {None, intent.new, intent.exp}
                /\ target # intent.new
          /\ Return("recovery")
    /\ UNCHANGED <<env, use, disk, live, budget>>

\* Mutant of RemoveSwap: only the intent is cleaned up.
RemoveSwap_IntentOnly ==
    /\ pc = "rmswap"
    /\ Continue("rmintent", ctx, "none")
    /\ UNCHANGED <<env, use, disk, live, budget>>

\* cleanupAtomicCAS: first the swap file ...
RemoveSwap ==
    /\ pc = "rmswap"
    /\ swap' = None
    /\ Continue("rmintent", ctx, "none")
    /\ UNCHANGED <<env, use, target, capture, linked, intent, kept, live, budget>>

\* ... then the intent, which ends a recovery, a success or a rollback.
RemoveIntent ==
    /\ pc = "rmintent"
    /\ intent' = NoIntent
    /\ \/ ctx \in {"recover", "failed"} /\ Continue(AfterRecovery, ctx, "none")
       \/ ctx = "success" /\ Return("ok")
       \/ ctx = "rolledback" /\ Return("conflict")
       \/ ctx = "quarantined" /\ Return("recovery")
    /\ UNCHANGED <<env, use, target, swap, capture, linked, kept, live, budget>>

\* After a failed exchange and its recovery: did the write land after all?
AfterFailedExchange ==
    /\ pc = "afterfail"
    /\ Return(IF target = new THEN "ok" ELSE "unavailable")
    /\ UNCHANGED <<env, use, disk, live, budget>>

-----------------------------------------------------------------------------
(* The body of AtomicWriteCAS.                                             *)

CheckTarget ==
    /\ pc = "check"
    /\ \/ target = exp /\ Continue("wswap", ctx, "none")
       \/ target # exp /\ Return("conflict")
    /\ UNCHANGED <<env, use, disk, live, budget>>

\* Mutant of WriteSwap: the exchange comes before the recovery intent.
WriteSwap_NoIntent ==
    /\ pc = "wswap"
    /\ swap' = new
    /\ Continue("xchg", ctx, "forward")
    /\ UNCHANGED <<env, use, target, capture, linked, intent, kept, live, budget>>

\* The new bytes are staged under the swap name ...
WriteSwap ==
    /\ pc = "wswap"
    /\ swap' = new
    /\ Continue("wintent", ctx, "none")
    /\ UNCHANGED <<env, use, target, capture, linked, intent, kept, live, budget>>

\* ... and the recovery intent is written before anything is replaced.
WriteIntent ==
    /\ pc = "wintent"
    /\ intent' = [exp |-> exp, new |-> new]
    /\ Continue("xchg", ctx, "forward")
    /\ UNCHANGED <<env, use, target, swap, capture, linked, kept, live, budget>>

\* Staging fails: the intent's failure removes the swap file again.
StagingFails ==
    /\ pc \in {"wswap", "wintent"}
    /\ Spend("faults")
    /\ swap' = None
    /\ Return("unavailable")
    /\ UNCHANGED <<env, use, target, capture, linked, intent, kept, live>>

\* Who is owed what after a replacement of the target: a version replaced
\* because it was the expected one is spent, and the new one is owed instead.
Replaced(old) ==
    live' = IF xfor = "forward" /\ old = exp
            THEN (live \ {exp}) \cup {new} ELSE live

AfterExchange ==
    CASE xfor = "forward" -> "captured"
      [] xfor = "rollback" -> "displaced"
      [] xfor = "undo" -> "quarantine"

\* renameat2(RENAME_EXCHANGE): both names in one step.
Exchange ==
    /\ pc = "xchg" /\ Primitive
    /\ target # None
    /\ target' = swap /\ swap' = target
    /\ displaced' = IF xfor = "forward" THEN target ELSE displaced
    /\ Replaced(target)
    /\ Goto(AfterExchange)
    /\ UNCHANGED <<env, use, capture, linked, intent, kept, exp, new, ctx, xfor, outcome, budget>>

\* The emulation: link(target, capture), ...
LinkCapture ==
    /\ pc = "xchg" /\ ~Primitive
    /\ target # None
    /\ capture' = target /\ linked' = TRUE
    /\ Continue("xren", ctx, xfor)
    /\ UNCHANGED <<env, use, target, swap, intent, kept, live, budget>>

\* ... rename(swap, target), ...
RenameSwap ==
    /\ pc = "xren"
    /\ target' = swap /\ swap' = None /\ linked' = FALSE
    /\ displaced' = IF xfor = "forward" THEN target ELSE displaced
    /\ Replaced(target)
    /\ Goto("xcap")
    /\ UNCHANGED <<env, use, capture, intent, kept, exp, new, ctx, xfor, outcome, budget>>

\* ... rename(capture, swap).
RenameCapture ==
    /\ pc = "xcap"
    /\ swap' = capture /\ capture' = None
    /\ Continue(AfterExchange, ctx, xfor)
    /\ UNCHANGED <<env, use, target, linked, intent, kept, live, budget>>

\* An exchange that fails: the target is gone, or a call is refused.  The
\* second step's failure unlinks the capture, the third's leaves it.  A failed
\* forward exchange is recovered at once, a failed rollback is reported.
ExchangeFails ==
    /\ pc \in {"xchg", "xren", "xcap"}
    /\ IF pc = "xchg" /\ target = None THEN UNCHANGED budget ELSE Spend("faults")
    /\ capture' = IF pc = "xren" THEN None ELSE capture
    /\ linked' = FALSE
    /\ \/ xfor = "forward" /\ Continue("readintent", "failed", "none")
       \/ xfor # "forward" /\ Return("recovery")
    /\ UNCHANGED <<env, use, target, swap, intent, kept, live>>

\* Mutant of JudgeCaptured: the captured digest is not compared.
JudgeCaptured_Unchecked ==
    /\ pc = "captured"
    /\ Continue("rmswap", "success", "none")
    /\ UNCHANGED <<env, use, disk, live, budget>>

\* The forward exchange captured a version: the expected one ends in success,
\* any other is swapped back.
JudgeCaptured ==
    /\ pc = "captured"
    /\ \/ swap = exp /\ Continue("rmswap", "success", "none")
       \/ swap # exp /\ Continue("xchg", "rolledback", "rollback")
    /\ UNCHANGED <<env, use, disk, live, budget>>

\* Mutant of JudgeDisplaced: what the rollback displaced is not looked at.
JudgeDisplaced_Unchecked ==
    /\ pc = "displaced"
    /\ Continue("rmswap", ctx, "none")
    /\ UNCHANGED <<env, use, disk, live, budget>>

\* rollbackAtomicCAS: it displaced the new version, or an outside version that
\* entered meanwhile and is put back by a third exchange.
JudgeDisplaced ==
    /\ pc = "displaced"
    /\ \/ swap = intent.new /\ Continue("rmswap", ctx, "none")
       \/ swap # intent.new /\ Continue("xchg", ctx, "undo")
    /\ UNCHANGED <<env, use, disk, live, budget>>

\* The version captured first is moved to a quarantine name.
QuarantineSwap ==
    /\ pc = "quarantine"
    /\ kept' = kept \cup {swap}
    /\ swap' = None
    /\ Continue("rmintent", "quarantined", "none")
    /\ UNCHANGED <<env, use, target, capture, linked, intent, live, budget>>

\* Reading an asset back, or cleaning one up, fails: reported, assets left.
CleanupFails ==
    /\ pc \in {"normalize", "rmswap", "rmintent", "captured", "displaced", "quarantine"}
    /\ Spend("faults")
    /\ Return("recovery")
    /\ UNCHANGED <<env, use, disk, live>>

-----------------------------------------------------------------------------
(* AtomicCreateCASMode.                                                    *)

\* An existing target is a conflict; otherwise the bytes are staged beside it.
AtomicCreateCASMode(n) ==
    /\ use = "created"
    /\ pc = "idle" /\ Spend("calls")
    /\ \/ /\ target # None
          /\ Return("conflict")
       \/ /\ target = None
          /\ pc' = "cpublish" /\ new' = n /\ outcome' = "none"
          /\ UNCHANGED <<exp, ctx, xfor, displaced>>
    /\ UNCHANGED <<env, use, disk, live>>

\* The staged file takes the target's name if it is still free.
PublishCreate ==
    /\ pc = "cpublish"
    /\ \/ /\ target = None
          /\ target' = new
          /\ live' = live \cup {new}
          /\ Continue("cverify", "none", "none")
       \/ /\ target # None
          /\ Return("conflict")
          /\ UNCHANGED <<target, live>>
    /\ UNCHANGED <<env, use, swap, capture, linked, intent, kept, budget>>

\* The published bytes are read back.
VerifyCreate ==
    /\ pc = "cverify"
    /\ Return(IF target = new THEN "ok" ELSE "recovery")
    /\ UNCHANGED <<env, use, disk, live, budget>>

\* The publication fails, or the published bytes cannot be read back.  A publication
\* by link has happened when only the unlinking of the staged file fails; the error
\* is a conflict whenever the target exists by then.
CreateFails ==
    /\ Spend("faults")
    /\ \/ /\ pc = "cpublish"
          /\ Return(IF target = None THEN "unavailable" ELSE "conflict")
          /\ UNCHANGED <<target, live>>
       \/ /\ pc = "cpublish" /\ ~Primitive /\ target = None
          /\ target' = new /\ live' = live \cup {new}
          /\ Return("conflict")
       \/ /\ pc = "cverify"
          /\ Return("recovery")
          /\ UNCHANGED <<target, live>>
    /\ UNCHANGED <<env, use, swap, capture, linked, intent, kept>>

-----------------------------------------------------------------------------
(* AtomicMoveCAS.                                                          *)

\* The recovery name must be free and the source what the caller expects.
AtomicMoveCAS(e) ==
    /\ use = "created"
    /\ pc = "idle" /\ Spend("calls")
    /\ \/ /\ capture # None \/ target # e
          /\ Return("conflict")
       \/ /\ capture = None /\ target = e
          /\ pc' = "mpublish" /\ exp' = e /\ outcome' = "none"
          /\ UNCHANGED <<new, ctx, xfor, displaced>>
    /\ UNCHANGED <<env, use, disk, live>>

\* The source's name is free; taking the expected version off it is what the
\* caller asked for.
TakeOff ==
    /\ target' = None /\ displaced' = target
    /\ live' = IF target = exp THEN live \ {exp} ELSE live
    /\ Goto("mverify")
    /\ UNCHANGED <<env, use, swap, intent, kept, exp, new, ctx, xfor, outcome, budget>>

\* One rename moves whatever the source holds by now.
MoveByRename ==
    /\ pc = "mpublish" /\ Primitive /\ target # None
    /\ capture' = target /\ UNCHANGED linked
    /\ TakeOff

\* Without the primitive the source is linked under the recovery name ...
MoveByLink ==
    /\ pc = "mpublish" /\ ~Primitive /\ target # None
    /\ capture' = target /\ linked' = TRUE
    /\ Continue("munlink", "none", "none")
    /\ UNCHANGED <<env, use, target, swap, intent, kept, live, budget>>

\* ... and unlinked by name, whatever the name stands for by then.
MoveUnlink ==
    /\ pc = "munlink" /\ target # None
    /\ linked' = FALSE /\ UNCHANGED capture
    /\ TakeOff

\* The source is gone, or a call is refused: nothing (more) is moved.
MoveFails ==
    /\ pc \in {"mpublish", "munlink"}
    /\ IF target = None THEN UNCHANGED budget ELSE Spend("faults")
    /\ Return("unavailable")
    /\ UNCHANGED <<env, use, disk, live>>

\* The captured bytes are read back under the recovery name; others than the
\* expected ones are restored if the source's name is still free.
VerifyMove ==
    /\ pc = "mverify"
    /\ \/ capture = exp /\ Return("ok")
       \/ capture # exp /\ target = None /\ Continue("mrestore", "none", "none")
       \/ capture # exp /\ target # None /\ Return("recovery")
    /\ UNCHANGED <<env, use, disk, live, budget>>

\* The restoration does not replace either.
RestoreMove ==
    /\ pc = "mrestore"
    /\ \/ /\ target = None
          /\ target' = capture
          /\ \/ /\ Primitive /\ capture' = None
                /\ Return("conflict") /\ UNCHANGED linked
             \/ /\ ~Primitive /\ linked' = TRUE
                /\ Continue("munrestore", "none", "none") /\ UNCHANGED capture
       \/ /\ target # None
          /\ Return("recovery")
          /\ UNCHANGED <<target, capture, linked>>
    /\ UNCHANGED <<env, use, swap, intent, kept, live, budget>>

RestoreUnlink ==
    /\ pc = "munrestore"
    /\ capture' = None /\ linked' = FALSE
    /\ Return("conflict")
    /\ UNCHANGED <<env, use, target, swap, intent, kept, live, budget>>

\* The captured bytes cannot be read back, which counts as a mismatch, or a step of
\* the restoration is refused: they stay under the recovery name and are owed again.
RestoreFails ==
    /\ pc \in {"mverify", "mrestore", "munrestore"} /\ Spend("faults")
    /\ IF pc = "mverify" /\ target = None
       THEN Continue("mrestore", "none", "none") ELSE Return("recovery")
    /\ live' = live \cup {capture}
    /\ UNCHANGED <<env, use, disk>>

-----------------------------------------------------------------------------
(* Outside writers, and processes that stop.                               *)

\* Digests cannot tell an outside write from the bytes a pending or interrupted
\* replacement writes itself, nor, unless WriteBack, from the ones it expects: those
\* coincidences are left out.
Distinguishable(v) ==
    use = "replaced" =>
        /\ v \notin {new, intent.new}
        /\ WriteBack \/ v \notin {exp, intent.exp}

\* The version an outside writer replaces is its own responsibility.
External(v) ==
    /\ Spend("writes")
    /\ target' = v
    /\ live' = (live \ {target}) \cup ({v} \ {None})
    /\ UNCHANGED <<env, use, swap, intent, kept, call>>

\* An editor writes into the file: a capture link shows the same bytes.
WriteInPlace(v) ==
    /\ target # None
    /\ Distinguishable(v)
    /\ External(v)
    /\ capture' = IF linked THEN v ELSE capture
    /\ UNCHANGED linked

\* An editor renames a new file over it, or creates the file it does not find, ...
WriteNew(v) ==
    /\ ExtRename \/ target = None
    /\ Distinguishable(v)
    /\ External(v)
    /\ linked' = FALSE
    /\ UNCHANGED capture

\* ... or deletes it.
Delete ==
    /\ ExtRename
    /\ target # None
    /\ External(None)
    /\ linked' = FALSE
    /\ UNCHANGED capture

\* The process stops; the CAS lock is taken over from the dead owner.
Crash ==
    /\ pc # "idle" /\ Spend("crashes")
    /\ Return("none")
    /\ UNCHANGED <<env, use, disk, live>>

-----------------------------------------------------------------------------

Step ==
    \/ ReadIntent \/ Normalize \/ Judge \/ RemoveSwap \/ RemoveIntent
    \/ AfterFailedExchange \/ CheckTarget \/ WriteSwap \/ WriteIntent
    \/ Exchange \/ LinkCapture \/ RenameSwap \/ RenameCapture
    \/ JudgeCaptured \/ JudgeDisplaced \/ QuarantineSwap
    \/ PublishCreate \/ VerifyCreate
    \/ MoveByRename \/ MoveByLink \/ MoveUnlink \/ VerifyMove \/ RestoreMove \/ RestoreUnlink

Outside ==
    \/ \E v \in Vals : WriteInPlace(v) \/ WriteNew(v)
    \/ Delete

Next ==
    \/ \E e, n \in Vals : AtomicWriteCAS(e, n)
    \/ \E v \in Vals : AtomicCreateCASMode(v) \/ AtomicMoveCAS(v)
    \/ Step \/ StagingFails \/ ExchangeFails \/ CleanupFails
    \/ CreateFails \/ MoveFails \/ RestoreFails \/ Outside \/ Crash

Spec == Init /\ [][Next]_vars

\* A running call keeps going; a failed exchange is a step of it too.
Fairness == WF_vars(Step \/ ExchangeFails)

FairSpec == Spec /\ Fairness

-----------------------------------------------------------------------------
(* Properties.                                                             *)

\* No version anybody is owed is ever lost: an outside version that a call did
\* not expect, and a version a call published, are at the target, in the swap
\* file, under the capture or recovery name, or quarantined, after every
\* interleaving and every crash (atomic.go:230-232, "an external version that
\* cannot be proven is always preserved"; atomic.go:142-146, "no captured bytes
\* are deleted").
NothingLost == live \subseteq {target, swap, capture} \cup kept

\* A swap file without an intent, which recoverAtomicCAS refuses to explain,
\* never holds the only copy of such a version: it can be deleted by hand.
OrphanSwapDisposable ==
    use = "replaced" /\ intent = NoIntent => live \subseteq {target} \cup kept

\* A call returns nil only if what it took off the target was what it expected at
\* that instant: the expected version for AtomicWriteCAS (or it had nothing to
\* change) and AtomicMoveCAS, nothing at all for AtomicCreateCASMode.
SuccessIsCAS ==
    [][pc # "idle" /\ pc' = "idle" /\ outcome' = "ok" => displaced = exp \/ new = exp]_vars

\* A replacement that returned (other than asking for a human decision) leaves no
\* recovery asset behind.
CleanReturn ==
    use = "replaced" /\ outcome \in {"ok", "conflict", "unavailable"} =>
        intent = NoIntent /\ swap = None /\ capture = None

\* Two outside versions, or a deleted target, which recoverAtomicCAS leaves for
\* a human decision.
Unprovable ==
    LET captured == IF swap = None THEN capture ELSE swap IN
    \/ target = None
    \/ captured \notin {None, intent.exp, intent.new} /\ target # intent.new

\* "The recovery intent lets a process that exits before or after the swap
\* converge deterministically on the next call": once outside writers, crashes
\* and failures pause, a call that finds a provable intent ends up removing it.
Quiet == budget.writes = 0 /\ budget.crashes = 0 /\ budget.faults = 0

Converges ==
    (pc = "readintent" /\ intent # NoIntent /\ Quiet /\ ~Unprovable)
        ~> (intent = NoIntent)
=============================================================================
