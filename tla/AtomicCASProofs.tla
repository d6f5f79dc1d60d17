-------------------------- MODULE AtomicCASProofs --------------------------
(***************************************************************************)
(* The compare-and-swap operations lose nothing they do not own, for every *)
(* set of versions and every number of calls, outside writes, crashes and  *)
(* failures.  Two limits of the code, which the runs leave out as well,    *)
(* are hypotheses of every theorem (Provable).                             *)
(***************************************************************************)
EXTENDS AtomicCAS, TLAPS

\* What a digest comparison can prove: outside writers do not write back the very
\* version a pending call expects, nor rename over a file whose exchange is emulated
\* by links.
Provable == WriteBack = FALSE /\ Environments \subseteq {"primitive", "emulated"}

Versions == Vals \cup {None}

ReplaceSteps ==
    {"idle", "readintent", "normalize", "judge", "rmswap", "rmintent", "check", "wswap",
     "wintent", "xchg", "xren", "xcap", "captured", "displaced", "quarantine", "afterfail"}

CreateSteps ==
    {"idle", "cpublish", "cverify", "mpublish", "munlink", "mverify", "mrestore", "munrestore"}

\* The states of the variables.
TypeOK ==
    /\ env \in {"primitive", "emulated"} /\ use \in {"replaced", "created"}
    /\ target \in Versions /\ swap \in Versions /\ capture \in Versions
    /\ linked \in BOOLEAN
    /\ intent \in [exp : Vals, new : Vals] \cup {NoIntent}
    /\ kept \subseteq Vals /\ live \subseteq Vals
    /\ pc \in (IF use = "replaced" THEN ReplaceSteps ELSE CreateSteps)
    /\ exp \in Versions /\ new \in Versions /\ displaced \in Versions
    /\ ctx \in {"none", "recover", "failed", "success", "rolledback", "quarantined"}
    /\ xfor \in {"none", "forward", "rollback", "undo"}
    /\ outcome \in {"none", "ok", "conflict", "unavailable", "recovery"}

\* The version beside the target: the capture is a second name of the target, or
\* what an emulated exchange has yet to rename to the swap name.
Side == IF swap # None THEN swap ELSE capture

\* The versions an intent accounts for.
Ours == {intent.exp, intent.new}

\* Nothing is owed but what the target and the quarantine hold.
InTarget == live \subseteq {target} \cup kept

\* Under an intent at most one version is owed beside the target; it is none of the
\* intent's, and then the target is not owed as long as it is one of the intent's.
Accounted ==
    /\ live \subseteq {target, Side} \cup kept
    /\ Side \in Ours \cup {None} => InTarget
    /\ target \in Ours /\ Side \notin Ours \cup {None} => live \subseteq {Side} \cup kept

Owed == IF intent = NoIntent THEN InTarget ELSE Accounted

\* The files beside the target, by the step of the call.
Assets ==
    /\ env = "primitive" => capture = None
    /\ env = "emulated" => target # None
    /\ linked => capture = target /\ capture # None /\ swap # None
    /\ intent = NoIntent => capture = None
    /\ pc = "idle" /\ outcome \in {"ok", "conflict", "unavailable"} =>
           intent = NoIntent /\ swap = None
    /\ pc \notin {"idle", "readintent", "normalize", "xren", "xcap"} => capture = None
    /\ pc \in {"check", "wswap", "wintent", "afterfail"} => intent = NoIntent
    /\ pc \in {"normalize", "judge", "rmswap", "rmintent", "xchg", "xren", "xcap", "captured",
               "displaced", "quarantine"} => intent # NoIntent
    /\ pc \in {"rmintent", "check", "wswap", "afterfail"} => swap = None
    /\ pc \in {"xchg", "xren", "captured", "displaced", "quarantine"} => swap # None
    /\ pc = "wintent" => swap = new
    /\ pc = "xren" => linked /\ env = "emulated"
    /\ pc = "xcap" => swap = None /\ capture # None /\ ~linked
    /\ pc = "rmswap" => InTarget

\* The memory of the call: what its recovery is for, and whose intent it is.
Memory ==
    /\ pc = "idle" => exp = None /\ new = None /\ displaced = None
    /\ pc # "idle" => exp \in Vals /\ new \in Vals /\ outcome = "none"
    /\ pc \in {"readintent", "normalize", "judge"} => ctx \in {"recover", "failed"}
    /\ pc \in {"check", "wswap", "wintent"} => ctx = "recover"
    /\ pc = "afterfail" => ctx = "failed"
    /\ pc \in {"xchg", "xren", "xcap"} => xfor # "none"
    /\ ctx \in {"failed", "success", "rolledback"} /\ intent # NoIntent =>
           intent = [exp |-> exp, new |-> new]
    /\ ctx = "success" => displaced = exp

\* The call is at one of these steps of this exchange.
During(steps, x) == pc \in steps /\ xfor = x

\* The forward exchange: before it the target is not the new version already, after
\* it what it displaced is beside the target.
Forward ==
    /\ pc \in {"wswap", "wintent"} \/ During({"xchg", "xren"}, "forward") =>
           (target = new => exp = new)
    /\ pc = "captured" \/ During({"xchg", "xren", "xcap"}, "forward") =>
           ctx = "recover" /\ intent = [exp |-> exp, new |-> new]
    /\ During({"xchg", "xren"}, "forward") => swap = new
    /\ pc = "captured" \/ During({"xcap"}, "forward") =>
           Side = displaced /\ (displaced = new => exp = new)

\* The rollback puts an outside version back, its undoing what the rollback took off.
Backward ==
    /\ During({"xchg", "xren"}, "rollback") => swap \notin Ours
    /\ pc = "displaced" \/ During({"xcap"}, "rollback") => target \notin Ours
    /\ During({"xchg", "xren"}, "undo") => target \notin Ours /\ swap # intent.new
    /\ pc = "quarantine" \/ During({"xcap"}, "undo") => target # intent.new

\* A failed exchange whose bytes are at the target after all had displaced the
\* expected version, or the version it displaced is going to be put back.
Failed ==
    ctx = "failed" /\ target = new =>
        \/ exp = new \/ displaced = exp
        \/ /\ pc \in {"readintent", "normalize", "judge"} \/ During({"xchg", "xren"}, "rollback")
           /\ intent # NoIntent /\ Side \notin Ours \cup {None}

ReplaceInv == Owed /\ Assets /\ Memory /\ Forward /\ Backward /\ Failed

\* A create or a move: the recovery name is the target's second name, or holds what
\* was taken off it.
CreateInv ==
    /\ swap = None /\ intent = NoIntent /\ kept = {}
    /\ live \subseteq {target, capture}
    /\ linked => capture = target /\ capture # None
    /\ env = "primitive" => ~linked
    /\ pc \in {"idle", "cpublish", "cverify"} => exp = None /\ displaced = None
    /\ pc \in {"cpublish", "cverify"} => new \in Vals
    /\ pc \in {"idle", "mpublish", "munlink", "mverify", "mrestore", "munrestore"} => new = None
    /\ pc # "idle" => outcome = "none"
    /\ pc = "mpublish" => capture = None
    /\ pc = "munlink" => linked
    /\ pc = "mverify" => ~linked /\ capture = displaced /\ capture # None
    /\ pc = "mrestore" => ~linked /\ capture # None
    /\ pc = "munrestore" => linked

\* The inductive invariant.
CASInv ==
    /\ TypeOK
    /\ use = "replaced" => ReplaceInv
    /\ use = "created" => CreateInv

-----------------------------------------------------------------------------
(* The steps of a replacement.                                             *)

\* A call begins with a clean memory.
LEMMA AtomicWriteCASInv ==
    ASSUME CASInv, NEW e \in Vals, NEW n \in Vals, AtomicWriteCAS(e, n)
    PROVE  CASInv'
  <1> USE CASConstants DEF AtomicWriteCAS, disk, CASInv, ReplaceInv
  <1>1. TypeOK'
    BY DEF TypeOK, ReplaceSteps, Versions
  <1>2. Owed' /\ Assets'
    BY DEF Owed, Accounted, InTarget, Side, Ours, Assets
  <1>3. Memory' /\ Forward' /\ Backward' /\ Failed'
    BY DEF Memory, Forward, Backward, Failed, During
  <1> QED
    BY <1>1, <1>2, <1>3

\* recoverAtomicCAS without an intent ends with nothing owed beside the target.
LEMMA ReadIntentInv ==
    ASSUME TypeOK, use = "replaced", ReplaceInv, ReadIntent
    PROVE  CASInv'
  <1> USE CASConstants DEF ReadIntent, disk, Continue, Return, AfterRecovery, TypeOK, Versions,
                           NoIntent, ReplaceInv, Assets, Memory
  <1>1. TypeOK'
    BY DEF ReplaceSteps
  <1>2. Owed'
    BY DEF Owed, Accounted, InTarget, Side, Ours
  <1>3. Assets'
    OBVIOUS
  <1>4. Memory'
    OBVIOUS
  <1>5. Forward' /\ Backward'
    BY DEF Forward, Backward, During
  <1>6. Failed'
    BY DEF Failed, Side, Ours
  <1> QED
    BY <1>1, <1>2, <1>5, <1>6 DEF CASInv

\* normalizeAtomicExchangeArtifacts keeps the version beside the target.
LEMMA NormalizeInv ==
    ASSUME TypeOK, use = "replaced", ReplaceInv, Normalize
    PROVE  CASInv'
  <1> USE CASConstants DEF Normalize, disk, Continue, TypeOK, Versions, NoIntent, ReplaceInv,
                           Assets, Memory
  <1>1. TypeOK'
    BY DEF ReplaceSteps
  <1>2. Owed'
    BY DEF Owed, Accounted, InTarget, Side, Ours
  <1>3. Assets'
    OBVIOUS
  <1>4. Memory'
    OBVIOUS
  <1>5. Forward' /\ Backward'
    BY DEF Forward, Backward, During
  <1>6. Failed'
    BY DEF Failed, Side, Ours
  <1> QED
    BY <1>1, <1>2, <1>5, <1>6 DEF CASInv

\* The digests tell the intent's own versions from an outside one.
LEMMA JudgeInv ==
    ASSUME TypeOK, use = "replaced", ReplaceInv, Judge
    PROVE  CASInv'
  <1> USE CASConstants DEF Judge, disk, Continue, Return, TypeOK, Versions, NoIntent,
                           ReplaceInv, Assets, Memory
  <1>1. TypeOK'
    BY DEF ReplaceSteps
  <1>2. Owed'
    BY DEF Owed, Accounted, InTarget, Side, Ours
  <1>3. Assets'
    BY DEF Owed, Accounted, InTarget, Side, Ours
  <1>4. Memory'
    OBVIOUS
  <1>5. Forward' /\ Backward'
    BY DEF Forward, Backward, During, Ours
  <1>6. Failed'
    BY DEF Failed, During, Side, Ours
  <1> QED
    BY <1>1, <1>2, <1>3, <1>5, <1>6 DEF CASInv

\* cleanupAtomicCAS removes a swap file that holds nothing owed, ...
LEMMA RemoveSwapInv ==
    ASSUME TypeOK, use = "replaced", ReplaceInv, RemoveSwap
    PROVE  CASInv'
  <1> USE CASConstants DEF RemoveSwap, disk, Continue, TypeOK, Versions, NoIntent, ReplaceInv,
                           Assets, Memory
  <1>1. TypeOK'
    BY DEF ReplaceSteps
  <1>2. Owed'
    BY DEF Owed, Accounted, InTarget, Side
  <1>3. Assets'
    OBVIOUS
  <1>4. Memory'
    OBVIOUS
  <1>5. Forward' /\ Backward'
    BY DEF Forward, Backward, During
  <1>6. Failed'
    BY DEF Failed, During
  <1> QED
    BY <1>1, <1>2, <1>5, <1>6 DEF CASInv

\* ... then the intent, when there is no swap file any more.
LEMMA RemoveIntentInv ==
    ASSUME TypeOK, use = "replaced", ReplaceInv, RemoveIntent
    PROVE  CASInv'
  <1> USE CASConstants DEF RemoveIntent, disk, Continue, Return, AfterRecovery, TypeOK,
                           Versions, NoIntent, ReplaceInv, Assets, Memory
  <1>1. TypeOK'
    BY DEF ReplaceSteps
  <1>2. Owed'
    BY DEF Owed, Accounted, InTarget, Side
  <1>3. Assets'
    OBVIOUS
  <1>4. Memory'
    OBVIOUS
  <1>5. Forward' /\ Backward'
    BY DEF Forward, Backward, During
  <1>6. Failed'
    BY DEF Failed, During
  <1> QED
    BY <1>1, <1>2, <1>5, <1>6 DEF CASInv

\* After a failed exchange nothing is left beside the target.
LEMMA AfterFailedExchangeInv ==
    ASSUME TypeOK, use = "replaced", ReplaceInv, AfterFailedExchange
    PROVE  CASInv'
  <1> USE CASConstants DEF AfterFailedExchange, disk, Return, TypeOK, Versions, NoIntent,
                           ReplaceInv, Assets, Memory
  <1>1. TypeOK'
    BY DEF ReplaceSteps
  <1>2. Owed'
    BY DEF Owed, InTarget
  <1>3. Assets'
    OBVIOUS
  <1>4. Memory'
    OBVIOUS
  <1>5. Forward' /\ Backward'
    BY DEF Forward, Backward, During
  <1>6. Failed'
    BY DEF Failed
  <1> QED
    BY <1>1, <1>2, <1>5, <1>6 DEF CASInv

\* The target is compared when no intent and no swap file exist.
LEMMA CheckTargetInv ==
    ASSUME TypeOK, use = "replaced", ReplaceInv, CheckTarget
    PROVE  CASInv'
  <1> USE CASConstants DEF CheckTarget, disk, Continue, Return, TypeOK, Versions, NoIntent,
                           ReplaceInv, Assets, Memory
  <1>1. TypeOK'
    BY DEF ReplaceSteps
  <1>2. Owed'
    BY DEF Owed, InTarget
  <1>3. Assets'
    OBVIOUS
  <1>4. Memory'
    OBVIOUS
  <1>5. Forward' /\ Backward'
    BY DEF Forward, Backward, During
  <1>6. Failed'
    BY DEF Failed
  <1> QED
    BY <1>1, <1>2, <1>5, <1>6 DEF CASInv

\* The staged bytes are owed to nobody yet.
LEMMA WriteSwapInv ==
    ASSUME TypeOK, use = "replaced", ReplaceInv, WriteSwap
    PROVE  CASInv'
  <1> USE CASConstants DEF WriteSwap, disk, Continue, TypeOK, Versions, NoIntent, ReplaceInv,
                           Assets, Memory
  <1>1. TypeOK'
    BY DEF ReplaceSteps
  <1>2. Owed'
    BY DEF Owed, InTarget
  <1>3. Assets'
    OBVIOUS
  <1>4. Memory'
    OBVIOUS
  <1>5. Forward' /\ Backward'
    BY DEF Forward, Backward, During
  <1>6. Failed'
    BY DEF Failed
  <1> QED
    BY <1>1, <1>2, <1>5, <1>6 DEF CASInv

\* The intent accounts for the staged bytes and for the expected version.
LEMMA WriteIntentInv ==
    ASSUME TypeOK, use = "replaced", ReplaceInv, WriteIntent
    PROVE  CASInv'
  <1> USE CASConstants DEF WriteIntent, disk, Continue, TypeOK, Versions, NoIntent, ReplaceInv,
                           Assets, Memory
  <1>1. TypeOK'
    BY DEF ReplaceSteps
  <1>2. Owed'
    BY DEF Owed, Accounted, InTarget, Side, Ours
  <1>3. Assets'
    OBVIOUS
  <1>4. Memory'
    OBVIOUS
  <1>5. Forward' /\ Backward'
    BY DEF Forward, Backward, During
  <1>6. Failed'
    BY DEF Failed
  <1> QED
    BY <1>1, <1>2, <1>5, <1>6 DEF CASInv

\* A failed staging removes its swap file.
LEMMA StagingFailsInv ==
    ASSUME TypeOK, use = "replaced", ReplaceInv, StagingFails
    PROVE  CASInv'
  <1> USE CASConstants DEF StagingFails, disk, Return, TypeOK, Versions, NoIntent, ReplaceInv,
                           Assets, Memory
  <1>1. TypeOK'
    BY DEF ReplaceSteps
  <1>2. Owed'
    BY DEF Owed, InTarget
  <1>3. Assets'
    OBVIOUS
  <1>4. Memory'
    OBVIOUS
  <1>5. Forward' /\ Backward'
    BY DEF Forward, Backward, During
  <1>6. Failed'
    BY DEF Failed
  <1> QED
    BY <1>1, <1>2, <1>5, <1>6 DEF CASInv

\* renameat2 exchanges the target and the version beside it.
LEMMA ExchangeInv ==
    ASSUME TypeOK, use = "replaced", ReplaceInv, Exchange
    PROVE  CASInv'
  <1> USE CASConstants DEF Exchange, disk, Replaced, Goto, AfterExchange, Primitive, TypeOK,
                           Versions, NoIntent, ReplaceInv, Assets, Memory
  <1>1. TypeOK'
    BY DEF ReplaceSteps
  <1>2. Owed'
    BY DEF Owed, Accounted, InTarget, Side, Ours, Forward, Backward, During
  <1>3. Assets'
    OBVIOUS
  <1>4. Memory'
    BY DEF Forward, During
  <1>5. Forward' /\ Backward'
    BY DEF Forward, Backward, During, Side, Ours
  <1>6. Failed'
    BY DEF Forward, Backward, Failed, During, Ours
  <1> QED
    BY <1>1, <1>2, <1>4, <1>5, <1>6 DEF CASInv

\* The capture is a second name of the target.
LEMMA LinkCaptureInv ==
    ASSUME TypeOK, use = "replaced", ReplaceInv, LinkCapture
    PROVE  CASInv'
  <1> USE CASConstants DEF LinkCapture, disk, Continue, Primitive, TypeOK, Versions, NoIntent,
                           ReplaceInv, Assets, Memory
  <1>1. TypeOK'
    BY DEF ReplaceSteps
  <1>2. Owed'
    BY DEF Owed, Accounted, InTarget, Side, Ours
  <1>3. Assets'
    OBVIOUS
  <1>4. Memory'
    OBVIOUS
  <1>5. Forward' /\ Backward'
    BY DEF Forward, Backward, During, Ours
  <1>6. Failed'
    BY DEF Failed, During, Side, Ours
  <1> QED
    BY <1>1, <1>2, <1>5, <1>6 DEF CASInv

\* The rename leaves under the capture name what it takes off the target.
LEMMA RenameSwapInv ==
    ASSUME TypeOK, use = "replaced", ReplaceInv, RenameSwap
    PROVE  CASInv'
  <1> USE CASConstants DEF RenameSwap, disk, Replaced, Goto, TypeOK, Versions, NoIntent,
                           ReplaceInv, Assets, Memory
  <1>1. TypeOK'
    BY DEF ReplaceSteps
  <1>2. Owed'
    BY DEF Owed, Accounted, InTarget, Side, Ours, Forward, Backward, During
  <1>3. Assets'
    OBVIOUS
  <1>4. Memory'
    BY DEF Forward, During
  <1>5. Forward' /\ Backward'
    BY DEF Forward, Backward, During, Side, Ours
  <1>6. Failed'
    BY DEF Forward, Backward, Failed, During, Ours
  <1> QED
    BY <1>1, <1>2, <1>4, <1>5, <1>6 DEF CASInv

\* The capture takes the swap name.
LEMMA RenameCaptureInv ==
    ASSUME TypeOK, use = "replaced", ReplaceInv, RenameCapture
    PROVE  CASInv'
  <1> USE CASConstants DEF RenameCapture, disk, Continue, AfterExchange, TypeOK, Versions,
                           NoIntent, ReplaceInv, Assets, Memory
  <1>1. TypeOK'
    BY DEF ReplaceSteps
  <1>2. Owed'
    BY DEF Owed, Accounted, InTarget, Side, Ours
  <1>3. Assets'
    OBVIOUS
  <1>4. Memory'
    OBVIOUS
  <1>5. Forward' /\ Backward'
    BY DEF Forward, Backward, During, Side, Ours
  <1>6. Failed'
    BY DEF Failed, During
  <1> QED
    BY <1>1, <1>2, <1>5, <1>6 DEF CASInv

\* A failed exchange has exchanged both versions or none.
LEMMA ExchangeFailsInv ==
    ASSUME TypeOK, use = "replaced", ReplaceInv, ExchangeFails
    PROVE  CASInv'
  <1> USE CASConstants DEF ExchangeFails, disk, Continue, Return, TypeOK, Versions, NoIntent,
                           ReplaceInv, Assets, Memory
  <1>1. TypeOK'
    BY DEF ReplaceSteps
  <1>2. Owed'
    BY DEF Owed, Accounted, InTarget, Side, Ours
  <1>3. Assets'
    OBVIOUS
  <1>4. Memory'
    BY DEF Forward, During
  <1>5. Forward' /\ Backward'
    BY DEF Forward, Backward, During
  <1>6. Failed'
    BY DEF Forward, Failed, During, Side, Ours
  <1> QED
    BY <1>1, <1>2, <1>4, <1>5, <1>6 DEF CASInv

\* The captured digest decides between success and rollback.
LEMMA JudgeCapturedInv ==
    ASSUME TypeOK, use = "replaced", ReplaceInv, JudgeCaptured
    PROVE  CASInv'
  <1> USE CASConstants DEF JudgeCaptured, disk, Continue, TypeOK, Versions, NoIntent,
                           ReplaceInv, Assets, Memory
  <1>1. TypeOK'
    BY DEF ReplaceSteps
  <1>2. Owed'
    BY DEF Owed, Accounted, InTarget, Side, Ours
  <1>3. Assets'
    BY DEF Owed, Accounted, InTarget, Side, Forward, Ours
  <1>4. Memory'
    BY DEF Forward, Side
  <1>5. Forward' /\ Backward'
    BY DEF Forward, Backward, During, Side, Ours
  <1>6. Failed'
    BY DEF Failed
  <1> QED
    BY <1>1, <1>2, <1>3, <1>4, <1>5, <1>6 DEF CASInv

\* The displaced digest decides between the end of a rollback and its undoing.
LEMMA JudgeDisplacedInv ==
    ASSUME TypeOK, use = "replaced", ReplaceInv, JudgeDisplaced
    PROVE  CASInv'
  <1> USE CASConstants DEF JudgeDisplaced, disk, Continue, TypeOK, Versions, NoIntent,
                           ReplaceInv, Assets, Memory
  <1>1. TypeOK'
    BY DEF ReplaceSteps
  <1>2. Owed'
    BY DEF Owed, Accounted, InTarget, Side, Ours
  <1>3. Assets'
    BY DEF Owed, Accounted, InTarget, Side, Ours
  <1>4. Memory'
    OBVIOUS
  <1>5. Forward' /\ Backward'
    BY DEF Forward, Backward, During, Ours
  <1>6. Failed'
    BY DEF Failed, During
  <1> QED
    BY <1>1, <1>2, <1>3, <1>5, <1>6 DEF CASInv

\* A quarantined version is kept for good.
LEMMA QuarantineSwapInv ==
    ASSUME TypeOK, use = "replaced", ReplaceInv, QuarantineSwap
    PROVE  CASInv'
  <1> USE CASConstants DEF QuarantineSwap, disk, Continue, TypeOK, Versions, NoIntent,
                           ReplaceInv, Assets, Memory
  <1>1. TypeOK'
    BY DEF ReplaceSteps
  <1>2. Owed'
    BY DEF Owed, Accounted, InTarget, Side
  <1>3. Assets'
    OBVIOUS
  <1>4. Memory'
    OBVIOUS
  <1>5. Forward' /\ Backward'
    BY DEF Forward, Backward, During
  <1>6. Failed'
    BY DEF Failed
  <1> QED
    BY <1>1, <1>2, <1>5, <1>6 DEF CASInv

\* A failed clean-up leaves every asset.
LEMMA CleanupFailsInv ==
    ASSUME TypeOK, use = "replaced", ReplaceInv, CleanupFails
    PROVE  CASInv'
  <1> USE CASConstants DEF CleanupFails, disk, Return, TypeOK, Versions, NoIntent, ReplaceInv,
                           Assets, Memory
  <1>1. TypeOK'
    BY DEF ReplaceSteps
  <1>2. Owed'
    BY DEF Owed, Accounted, InTarget, Side, Ours
  <1>3. Assets'
    OBVIOUS
  <1>4. Memory'
    OBVIOUS
  <1>5. Forward' /\ Backward'
    BY DEF Forward, Backward, During
  <1>6. Failed'
    BY DEF Failed
  <1> QED
    BY <1>1, <1>2, <1>5, <1>6 DEF CASInv

-----------------------------------------------------------------------------
(* The steps of a create and of a move.                                    *)

\* AtomicCreateCASMode finds the target free, or returns.
LEMMA AtomicCreateCASModeInv ==
    ASSUME TypeOK, use = "created", CreateInv, NEW n \in Vals, AtomicCreateCASMode(n)
    PROVE  CASInv'
  <1> USE CASConstants DEF AtomicCreateCASMode, disk, Return, TypeOK, Versions, NoIntent,
                           CreateInv
  <1>1. TypeOK'
    BY DEF CreateSteps
  <1>2. CreateInv'
    OBVIOUS
  <1> QED
    BY <1>1 DEF CASInv

\* AtomicMoveCAS finds the recovery name free, or returns.
LEMMA AtomicMoveCASInv ==
    ASSUME TypeOK, use = "created", CreateInv, NEW e \in Vals, AtomicMoveCAS(e)
    PROVE  CASInv'
  <1> USE CASConstants DEF AtomicMoveCAS, disk, Return, TypeOK, Versions, NoIntent, CreateInv
  <1>1. TypeOK'
    BY DEF CreateSteps
  <1>2. CreateInv'
    OBVIOUS
  <1> QED
    BY <1>1 DEF CASInv

\* The no-replace publication adds a version where there is none.
LEMMA PublishCreateInv ==
    ASSUME TypeOK, use = "created", CreateInv, PublishCreate
    PROVE  CASInv'
  <1> USE CASConstants DEF PublishCreate, disk, Continue, Return, TypeOK, Versions, NoIntent,
                           CreateInv
  <1>1. TypeOK'
    BY DEF CreateSteps
  <1>2. CreateInv'
    OBVIOUS
  <1> QED
    BY <1>1 DEF CASInv

\* Reading back changes nothing.
LEMMA VerifyCreateInv ==
    ASSUME TypeOK, use = "created", CreateInv, VerifyCreate
    PROVE  CASInv'
  <1> USE CASConstants DEF VerifyCreate, disk, Return, TypeOK, Versions, NoIntent, CreateInv
  <1>1. TypeOK'
    BY DEF CreateSteps
  <1>2. CreateInv'
    OBVIOUS
  <1> QED
    BY <1>1 DEF CASInv

\* A failing publication adds its version or nothing.
LEMMA CreateFailsInv ==
    ASSUME TypeOK, use = "created", CreateInv, CreateFails
    PROVE  CASInv'
  <1> USE CASConstants DEF CreateFails, disk, Return, TypeOK, Versions, NoIntent, CreateInv
  <1>1. TypeOK'
    BY DEF CreateSteps
  <1>2. CreateInv'
    OBVIOUS
  <1> QED
    BY <1>1 DEF CASInv

\* The rename keeps under the recovery name what it takes off.
LEMMA MoveByRenameInv ==
    ASSUME TypeOK, use = "created", CreateInv, MoveByRename
    PROVE  CASInv'
  <1> USE CASConstants DEF MoveByRename, disk, TakeOff, Goto, Primitive, TypeOK, Versions,
                           NoIntent, CreateInv
  <1>1. TypeOK'
    BY DEF CreateSteps
  <1>2. CreateInv'
    OBVIOUS
  <1> QED
    BY <1>1 DEF CASInv

\* The recovery name is a second name of the target.
LEMMA MoveByLinkInv ==
    ASSUME TypeOK, use = "created", CreateInv, MoveByLink
    PROVE  CASInv'
  <1> USE CASConstants DEF MoveByLink, disk, Continue, Primitive, TypeOK, Versions, NoIntent,
                           CreateInv
  <1>1. TypeOK'
    BY DEF CreateSteps
  <1>2. CreateInv'
    OBVIOUS
  <1> QED
    BY <1>1 DEF CASInv

\* The unlinked name still has its second name.
LEMMA MoveUnlinkInv ==
    ASSUME TypeOK, use = "created", CreateInv, MoveUnlink
    PROVE  CASInv'
  <1> USE CASConstants DEF MoveUnlink, disk, TakeOff, Goto, TypeOK, Versions, NoIntent,
                           CreateInv
  <1>1. TypeOK'
    BY DEF CreateSteps
  <1>2. CreateInv'
    OBVIOUS
  <1> QED
    BY <1>1 DEF CASInv

\* A refused call moves nothing.
LEMMA MoveFailsInv ==
    ASSUME TypeOK, use = "created", CreateInv, MoveFails
    PROVE  CASInv'
  <1> USE CASConstants DEF MoveFails, disk, Return, TypeOK, Versions, NoIntent, CreateInv
  <1>1. TypeOK'
    BY DEF CreateSteps
  <1>2. CreateInv'
    OBVIOUS
  <1> QED
    BY <1>1 DEF CASInv

\* Reading back under the recovery name changes nothing.
LEMMA VerifyMoveInv ==
    ASSUME TypeOK, use = "created", CreateInv, VerifyMove
    PROVE  CASInv'
  <1> USE CASConstants DEF VerifyMove, disk, Continue, Return, TypeOK, Versions, NoIntent,
                           CreateInv
  <1>1. TypeOK'
    BY DEF CreateSteps
  <1>2. CreateInv'
    OBVIOUS
  <1> QED
    BY <1>1 DEF CASInv

\* The no-replace restoration gives the version its name back.
LEMMA RestoreMoveInv ==
    ASSUME TypeOK, use = "created", CreateInv, RestoreMove
    PROVE  CASInv'
  <1> USE CASConstants DEF RestoreMove, disk, Continue, Return, Primitive, TypeOK, Versions,
                           NoIntent, CreateInv
  <1>1. TypeOK'
    BY DEF CreateSteps
  <1>2. CreateInv'
    OBVIOUS
  <1> QED
    BY <1>1 DEF CASInv

\* The second name of a restored file is removed.
LEMMA RestoreUnlinkInv ==
    ASSUME TypeOK, use = "created", CreateInv, RestoreUnlink
    PROVE  CASInv'
  <1> USE CASConstants DEF RestoreUnlink, disk, Return, TypeOK, Versions, NoIntent, CreateInv
  <1>1. TypeOK'
    BY DEF CreateSteps
  <1>2. CreateInv'
    OBVIOUS
  <1> QED
    BY <1>1 DEF CASInv

\* A failing restoration leaves the version under the recovery name.
LEMMA RestoreFailsInv ==
    ASSUME TypeOK, use = "created", CreateInv, RestoreFails
    PROVE  CASInv'
  <1> USE CASConstants DEF RestoreFails, disk, Continue, Return, TypeOK, Versions, NoIntent,
                           CreateInv
  <1>1. TypeOK'
    BY DEF CreateSteps
  <1>2. CreateInv'
    OBVIOUS
  <1> QED
    BY <1>1 DEF CASInv

-----------------------------------------------------------------------------
(* Outside writers and crashes.                                            *)

\* An outside write while a replacement is pending is told from its own versions by
\* the digest; the version that it overwrites is its own.
LEMMA ExternalReplaceInv ==
    ASSUME Provable, TypeOK, use = "replaced", ReplaceInv, NEW v \in Versions,
           target' = v, live' = (live \ {target}) \cup ({v} \ {None}),
           UNCHANGED <<env, use, swap, intent, kept, call>>,
           v \notin {new, exp} \ {None}, intent # NoIntent => v \notin Ours,
           env = "emulated" => v # None,
           \/ linked /\ linked' = TRUE /\ capture' = v /\ v # None
           \/ (env = "emulated" => ~linked) /\ linked' = FALSE /\ capture' = capture
    PROVE  CASInv'
  <1> USE CASConstants DEF call, TypeOK, Versions, NoIntent, ReplaceInv, Assets, Memory
  <1>1. TypeOK'
    BY ZenonT(40)
  <1>2. Owed'
    BY DEF Owed, Accounted, InTarget, Side, Ours
  <1>3. Assets'
    BY DEF InTarget
  <1>4. Memory'
    OBVIOUS
  <1>5. Forward' /\ Backward'
    BY DEF Forward, Backward, During, Side, Ours
  <1>6. Failed'
    BY DEF Failed
  <1> QED
    BY <1>1, <1>2, <1>3, <1>5, <1>6 DEF CASInv

\* An outside write while a create or a move is pending.
LEMMA ExternalCreateInv ==
    ASSUME TypeOK, use = "created", CreateInv, NEW v \in Versions,
           target' = v, live' = (live \ {target}) \cup ({v} \ {None}),
           UNCHANGED <<env, use, swap, intent, kept, call>>,
           \/ linked /\ linked' = TRUE /\ capture' = v /\ v # None
           \/ ~linked /\ linked' = FALSE /\ capture' = capture
    PROVE  CASInv'
  <1> USE CASConstants DEF call, TypeOK, Versions, NoIntent, CreateInv
  <1>1. TypeOK'
    BY ZenonT(40)
  <1>2. CreateInv'
    OBVIOUS
  <1> QED
    BY <1>1 DEF CASInv

\* Whatever outsiders do to the target, its contents or its name.
LEMMA OutsideInv ==
    ASSUME Provable, CASInv, Outside
    PROVE  CASInv'
  <1>1. PICK v \in Versions : (v \in Vals /\ (WriteInPlace(v) \/ WriteNew(v))) \/ (v = None /\ Delete)
    BY DEF Outside, Versions
  <1>2. External(v)
    BY <1>1 DEF WriteInPlace, WriteNew, Delete
  <1>3. /\ target' = v /\ live' = (live \ {target}) \cup ({v} \ {None})
        /\ UNCHANGED <<env, use, swap, intent, kept, call>>
    BY <1>2 DEF External
  <1>4. env = "emulated" => v # None
    BY <1>1, CASConstants DEF Delete, ExtRename
  <1>5. CASE use = "replaced"
    <2>1. ReplaceInv /\ TypeOK
      BY <1>5 DEF CASInv
    <2>2. v \notin {new, exp} \ {None} /\ (intent # NoIntent => v \notin Ours)
      BY <1>1, <1>5, <2>1, CASConstants DEF Provable, WriteInPlace, WriteNew, Distinguishable,
                                            Ours, TypeOK
    <2>3. \/ linked /\ linked' = TRUE /\ capture' = v /\ v # None
          \/ (env = "emulated" => ~linked) /\ linked' = FALSE /\ capture' = capture
      BY <1>1, <2>1, CASConstants DEF WriteInPlace, WriteNew, Delete, ExtRename, ReplaceInv,
                                      Assets
    <2> QED
      BY <1>3, <1>4, <1>5, <2>1, <2>2, <2>3, ExternalReplaceInv
  <1>6. CASE use = "created"
    <2>1. CreateInv /\ TypeOK
      BY <1>6 DEF CASInv
    <2>2. \/ linked /\ linked' = TRUE /\ capture' = v /\ v # None
          \/ ~linked /\ linked' = FALSE /\ capture' = capture
      BY <1>1, <2>1, CASConstants DEF WriteInPlace, WriteNew, Delete, ExtRename, CreateInv,
                                      TypeOK
    <2> QED
      BY <1>3, <1>6, <2>1, <2>2, ExternalCreateInv
  <1> QED
    BY <1>5, <1>6 DEF CASInv, TypeOK

\* A crash leaves the files and forgets the call.
LEMMA CrashInv ==
    ASSUME CASInv, Crash
    PROVE  CASInv'
  <1> USE CASConstants DEF Crash, Return, disk, CASInv
  <1>1. TypeOK'
    BY DEF TypeOK, Versions, ReplaceSteps, CreateSteps
  <1>2. CASE use = "replaced"
    <2> USE <1>2 DEF ReplaceInv
    <2>1. Owed' /\ Assets'
      BY DEF Owed, Accounted, InTarget, Side, Ours, Assets
    <2>2. Memory' /\ Forward' /\ Backward' /\ Failed'
      BY DEF Memory, Forward, Backward, Failed, During
    <2> QED
      BY <1>1, <2>1, <2>2
  <1>3. CASE use = "created"
    BY <1>1, <1>3 DEF CreateInv
  <1> QED
    BY <1>2, <1>3 DEF TypeOK

-----------------------------------------------------------------------------
(* The theorems.                                                           *)

\* Nothing pending, nothing beside the target.
LEMMA InitInv == ASSUME Provable, Init PROVE CASInv
  <1> USE CASConstants DEF Init, Provable
  <1>1. TypeOK
    BY DEF TypeOK, Versions, ReplaceSteps, CreateSteps
  <1>2. use = "replaced" => ReplaceInv
    BY DEF ReplaceInv, Owed, InTarget, Assets, Memory, Forward, Backward, Failed, During
  <1>3. CreateInv
    BY DEF CreateInv
  <1> QED
    BY <1>1, <1>2, <1>3 DEF CASInv

\* The step of a call belongs to the use at hand.
LEMMA StepInv ==
    ASSUME CASInv, \/ Step \/ StagingFails \/ ExchangeFails \/ CleanupFails
                   \/ CreateFails \/ MoveFails \/ RestoreFails
    PROVE  CASInv'
  <1>1. CASE use = "replaced"
    <2>1. TypeOK /\ ReplaceInv /\ pc \in ReplaceSteps
      BY <1>1 DEF CASInv, TypeOK
    <2>2. ~(\/ PublishCreate \/ VerifyCreate \/ MoveByRename \/ MoveByLink \/ MoveUnlink
            \/ VerifyMove \/ RestoreMove \/ RestoreUnlink \/ CreateFails \/ MoveFails
            \/ RestoreFails)
      BY <2>1 DEF ReplaceSteps, PublishCreate, VerifyCreate, MoveByRename, MoveByLink,
                  MoveUnlink, VerifyMove, RestoreMove, RestoreUnlink, CreateFails, MoveFails,
                  RestoreFails
    <2> QED
      BY <1>1, <2>1, <2>2, ReadIntentInv, NormalizeInv, JudgeInv, RemoveSwapInv,
         RemoveIntentInv, AfterFailedExchangeInv, CheckTargetInv, WriteSwapInv, WriteIntentInv,
         StagingFailsInv, ExchangeInv, LinkCaptureInv, RenameSwapInv, RenameCaptureInv,
         ExchangeFailsInv, JudgeCapturedInv, JudgeDisplacedInv, QuarantineSwapInv,
         CleanupFailsInv DEF Step
  <1>2. CASE use = "created"
    <2>1. TypeOK /\ CreateInv /\ pc \in CreateSteps
      BY <1>2 DEF CASInv, TypeOK
    <2>2. ~(\/ ReadIntent \/ Normalize \/ Judge \/ RemoveSwap \/ RemoveIntent
            \/ AfterFailedExchange \/ CheckTarget \/ WriteSwap \/ WriteIntent \/ StagingFails
            \/ Exchange \/ LinkCapture \/ RenameSwap \/ RenameCapture \/ ExchangeFails
            \/ JudgeCaptured \/ JudgeDisplaced \/ QuarantineSwap \/ CleanupFails)
      BY <2>1 DEF CreateSteps, ReadIntent, Normalize, Judge, RemoveSwap, RemoveIntent,
                  AfterFailedExchange, CheckTarget, WriteSwap, WriteIntent, StagingFails,
                  Exchange, LinkCapture, RenameSwap, RenameCapture, ExchangeFails,
                  JudgeCaptured, JudgeDisplaced, QuarantineSwap, CleanupFails
    <2> QED
      BY <1>2, <2>1, <2>2, PublishCreateInv, VerifyCreateInv, MoveByRenameInv, MoveByLinkInv,
         MoveUnlinkInv, MoveFailsInv, VerifyMoveInv, RestoreMoveInv, RestoreUnlinkInv,
         CreateFailsInv, RestoreFailsInv DEF Step
  <1> QED
    BY <1>1, <1>2 DEF CASInv, TypeOK

\* Every step keeps the invariant.
LEMMA NextInv == ASSUME Provable, CASInv, [Next]_vars PROVE CASInv'
  <1>1. ASSUME NEW e \in Vals, NEW n \in Vals, AtomicWriteCAS(e, n)
        PROVE  CASInv'
    BY <1>1, AtomicWriteCASInv
  <1>2. ASSUME NEW v \in Vals, AtomicCreateCASMode(v) \/ AtomicMoveCAS(v)
        PROVE  CASInv'
    <2>1. use = "created" /\ TypeOK /\ CreateInv
      BY <1>2 DEF AtomicCreateCASMode, AtomicMoveCAS, CASInv
    <2> QED
      BY <1>2, <2>1, AtomicCreateCASModeInv, AtomicMoveCASInv
  <1>3. CASE UNCHANGED vars
    BY <1>3 DEF vars, disk, call, CASInv, TypeOK, ReplaceInv, CreateInv, Owed, Accounted,
                InTarget, Side, Ours, Assets, Memory, Forward, Backward, Failed, During
  <1> QED
    BY <1>1, <1>2, <1>3, StepInv, OutsideInv, CrashInv DEF Next

\* The inductive invariant holds of every run within the limits of Provable.
THEOREM CASInvariant == ASSUME Provable PROVE Spec => []CASInv
  <1>1. Init => CASInv
    BY InitInv
  <1>2. CASInv /\ [Next]_vars => CASInv'
    BY NextInv
  <1> QED
    BY <1>1, <1>2, PTL DEF Spec

\* No interleaving of outside writers, crashes and failures makes a compare-and-swap
\* operation lose a version somebody is owed.
THEOREM NothingLostAlways == ASSUME Provable PROVE Spec => []NothingLost
  <1>1. CASInv => NothingLost
    BY DEF CASInv, TypeOK, ReplaceInv, CreateInv, Owed, Accounted, InTarget, Side, NothingLost
  <1> QED
    BY <1>1, CASInvariant, PTL

\* An unexplained swap file, which stops recoverAtomicCAS, is never the only copy of
\* such a version.
THEOREM OrphanSwapDisposableAlways == ASSUME Provable PROVE Spec => []OrphanSwapDisposable
  <1>1. CASInv => OrphanSwapDisposable
    BY DEF CASInv, ReplaceInv, Owed, InTarget, OrphanSwapDisposable
  <1> QED
    BY <1>1, CASInvariant, PTL

\* A replacement that returns without asking for a human decision has cleaned up.
THEOREM CleanReturnAlways == ASSUME Provable PROVE Spec => []CleanReturn
  <1>1. CASInv => CleanReturn
    BY DEF CASInv, ReplaceInv, Assets, Memory, CleanReturn
  <1> QED
    BY <1>1, CASInvariant, PTL

\* Only the ends of the three operations return nil.
LEMMA WhoSucceeds ==
    ASSUME Next, pc # "idle", pc' = "idle", outcome' = "ok", CASInv
    PROVE  \/ RemoveIntent /\ ctx = "success"
           \/ AfterFailedExchange /\ target = new
           \/ VerifyCreate
           \/ VerifyMove /\ capture = exp
  <1>1. CASE Step
    <2> USE <1>1 DEF Continue, Return
    <2>1. ~(ReadIntent \/ Normalize \/ Judge \/ RemoveSwap \/ CheckTarget)
      BY DEF ReadIntent, Normalize, Judge, RemoveSwap, CheckTarget, AfterRecovery
    <2>2. ~(WriteSwap \/ WriteIntent \/ Exchange \/ LinkCapture \/ RenameSwap \/ RenameCapture)
      BY DEF WriteSwap, WriteIntent, Exchange, LinkCapture, RenameSwap, RenameCapture, CASInv,
             TypeOK, CreateSteps, ReplaceInv, Memory
    <2>3. ~(JudgeCaptured \/ JudgeDisplaced \/ QuarantineSwap \/ PublishCreate)
      BY DEF JudgeCaptured, JudgeDisplaced, QuarantineSwap, PublishCreate
    <2>4. ~(MoveByRename \/ MoveByLink \/ MoveUnlink \/ RestoreMove \/ RestoreUnlink)
      BY DEF MoveByRename, MoveByLink, MoveUnlink, TakeOff, Goto, RestoreMove, RestoreUnlink
    <2>5. RemoveIntent => ctx = "success"
      BY DEF RemoveIntent, AfterRecovery
    <2>6. AfterFailedExchange => target = new
      BY DEF AfterFailedExchange
    <2>7. VerifyMove => capture = exp
      BY DEF VerifyMove
    <2> QED
      BY <2>1, <2>2, <2>3, <2>4, <2>5, <2>6, <2>7 DEF Step
  <1>2. ~(\/ StagingFails \/ ExchangeFails \/ CleanupFails \/ CreateFails \/ MoveFails
          \/ RestoreFails \/ Crash)
    BY DEF StagingFails, ExchangeFails, CleanupFails, CreateFails, MoveFails, RestoreFails,
           Crash, Return, Continue
  <1>3. ~Outside
    BY DEF Outside, WriteInPlace, WriteNew, Delete, External, call
  <1>4. ~(\E v \in Vals : AtomicCreateCASMode(v) \/ AtomicMoveCAS(v))
    BY DEF AtomicCreateCASMode, AtomicMoveCAS
  <1>5. ~(\E e, n \in Vals : AtomicWriteCAS(e, n))
    BY DEF AtomicWriteCAS
  <1> QED
    BY <1>1, <1>2, <1>3, <1>4, <1>5 DEF Next

\* Success means that the call took off the target exactly what it expected.
THEOREM SuccessIsCASAlways == ASSUME Provable PROVE Spec => SuccessIsCAS
  <1> DEFINE A == pc # "idle" /\ pc' = "idle" /\ outcome' = "ok" => displaced = exp \/ new = exp
  <1>1. CASInv /\ [Next]_vars => [A]_vars
    <2> SUFFICES ASSUME CASInv, Next, pc # "idle", pc' = "idle", outcome' = "ok"
                 PROVE  displaced = exp \/ new = exp
      OBVIOUS
    <2>1. TypeOK
      BY DEF CASInv
    <2>2. CASE RemoveIntent /\ ctx = "success"
      BY <2>2 DEF RemoveIntent, CASInv, TypeOK, CreateSteps, ReplaceInv, Memory
    <2>3. CASE AfterFailedExchange /\ target = new
      BY <2>3 DEF AfterFailedExchange, CASInv, TypeOK, CreateSteps, ReplaceInv, Memory, Failed,
                  During
    <2>4. CASE VerifyCreate
      BY <2>4 DEF VerifyCreate, CASInv, TypeOK, ReplaceSteps, CreateInv
    <2>5. CASE VerifyMove /\ capture = exp
      BY <2>5 DEF VerifyMove, CASInv, TypeOK, ReplaceSteps, CreateInv
    <2> QED
      BY <2>2, <2>3, <2>4, <2>5, WhoSucceeds
  <1> QED
    BY <1>1, CASInvariant, PTL DEF Spec, SuccessIsCAS

=============================================================================
