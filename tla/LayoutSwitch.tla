---------------------------- MODULE LayoutSwitch ----------------------------
(***************************************************************************)
(* The two layout transactions of internal/cli: `config set locale' moves  *)
(* the Root's #Locale line, the team configuration and the Baseline's      *)
(* record of the Root to another Locale, and `index relocate' gives the    *)
(* Code Volume neutral section roots and the Meta the line that explains   *)
(* them.  Both plan under the index lock, stage, leave an immutable intent *)
(* in .aoci/transactions, publish file by file against exact preimages     *)
(* with the other assets as guards, and close with a ledger event and an   *)
(* archive; the same command given again resumes.                          *)
(*                                                                         *)
(* The bytes of a file are what these commands say in it and the number    *)
(* of edits by others; a digest stands for the bytes it is taken of.       *)
(* AtomicWriteCAS and the lock are atomic here (AtomicCAS, IndexLock).     *)
(***************************************************************************)
EXTENDS Naturals, Sequences, FiniteSets

CONSTANTS
    Procs,        \* processes running one of the commands
    Locales,      \* official Locales; First is the one at the start
    First,
    Layouts,      \* of "volumes", "legacy" and "none"
    Bindings,     \* sets of assets that the Baseline may record
    ConfigRace,   \* may the configuration be edited between its two reads?
    None,
    Bounds        \* bounds, each a record: how many commands find no intent and
                  \* plan, edits by others, processes that stop, seconds that pass

Assets == {"root", "meta", "code"}
Files == Assets \cup {"config", "baseline"}

ASSUME SwitchConstants ==
    /\ First \in Locales
    /\ Layouts \subseteq {"volumes", "legacy", "none"}
    /\ Bindings \subseteq SUBSET Assets
    /\ ConfigRace \in BOOLEAN
    /\ None \notin Locales \cup Procs
    /\ \A b \in Bounds : b \in [plans : Nat, edits : Nat, stops : Nat, ticks : Nat]

VARIABLES
    layout,   \* what kind of index there is, which never changes
    files,    \* the formal files
    active,   \* intents in .aoci/transactions
    archive,  \* intents in .aoci/transactions/history
    ledger,   \* terminal events
    clock,    \* the time, in seconds
    lock,     \* holder of the index lock
    pc, loc,  \* where a process is, and what it holds in memory
    edited,   \* history: has somebody else edited a file?
    budget    \* what is left of the bounds

record == <<active, archive, ledger>>
proc == <<lock, pc, loc>>
vars == <<layout, files, record, clock, proc, edited, budget>>

Bytes(s) == [say |-> s, ed |-> 0]

\* Nothing in memory.
Idle == [op |-> None, target |-> None, cfg |-> None, root |-> None,
         img |-> <<>>, guards |-> <<>>, it |-> None, pos |-> 0]

Init ==
    /\ layout \in Layouts
    /\ LET a == [root |-> Bytes(First), meta |-> Bytes(None), code |-> Bytes("machine"),
                 config |-> Bytes(First)]
       IN  \E B \in Bindings :
               files = [f \in Files |->
                           IF f = "baseline" THEN [rec |-> [b \in B |-> a[b]], at |-> 0, ed |-> 0]
                           ELSE a[f]]
    /\ active = {} /\ archive = {} /\ ledger = {}
    /\ clock = 0
    /\ lock = None
    /\ pc = [p \in Procs |-> "idle"] /\ loc = [p \in Procs |-> Idle]
    /\ edited = FALSE /\ budget \in Bounds

-----------------------------------------------------------------------------
(* Images and intents.                                                     *)

Image(f, pre, post) == [f |-> f, pre |-> pre, post |-> post]
Written(img) == {img[i].f : i \in DOMAIN img}

\* What the transaction's identity is a digest of.
Identity(i) == [op |-> i.op, target |-> i.target, img |-> i.img, guards |-> i.guards]

\* Mutant of Classify: the preimage is looked for first.
Classify_PreimageFirst(im) ==
    IF files[im.f] = im.pre THEN "preimage"
    ELSE IF files[im.f] = im.post THEN "postimage" ELSE "unknown"

\* cognitiontxn.Classify: a file that the switch leaves as it is counts as done.
Classify(im) ==
    IF files[im.f] = im.post THEN "postimage"
    ELSE IF files[im.f] = im.pre THEN "preimage" ELSE "unknown"

GuardsHold(i) == \A f \in DOMAIN i.guards : files[f] = i.guards[f]

\* A run of postimages, then a run of preimages, and nothing else.
InOrder(i) ==
    /\ \A k \in DOMAIN i.img : Classify(i.img[k]) # "unknown"
    /\ \A k \in DOMAIN i.img : Classify(i.img[k]) = "postimage" =>
           \A j \in 1..(k - 1) : Classify(i.img[j]) = "postimage"

\* Does the Baseline record what is in the files that the intent writes?
Recorded(i) ==
    \A f \in (Written(i.img) \ {"baseline"}) \cap DOMAIN files["baseline"].rec :
        files["baseline"].rec[f] = files[f]

-----------------------------------------------------------------------------
(* Steps of a process.                                                     *)

Goto(p, l) == pc' = [pc EXCEPT ![p] = l]
Hold(p, l, r) == Goto(p, l) /\ loc' = [loc EXCEPT ![p] = r] /\ UNCHANGED lock
Continue(p, l) == Goto(p, l) /\ UNCHANGED <<lock, loc>>
Spend(what) == budget[what] > 0 /\ budget' = [budget EXCEPT ![what] = @ - 1]

\* time.Now, truncated to seconds, is clock'.
Now == \/ UNCHANGED <<clock, budget>>
       \/ clock' = clock + 1 /\ Spend("ticks")

\* The command returns; the deferred Release gives the lock back.
Return(p) ==
    /\ Goto(p, "idle")
    /\ loc' = [loc EXCEPT ![p] = Idle]
    /\ lock' = IF lock = p THEN None ELSE lock

-----------------------------------------------------------------------------
(* The commands, up to the lock.                                           *)

\* enforceCognitionRecoveryGate: while an intent is pending only its own command
\* runs.  The relocation reads the configuration here, without the lock.
Begin(p, op, target) ==
    /\ pc[p] = "idle"
    /\ \A i \in active : i.op = op
    /\ active # {} \/ budget.plans > 0
    /\ Hold(p, "lock", [Idle EXCEPT !.op = op, !.target = target,
                                    !.cfg = IF op = "relocate" THEN files["config"] ELSE None])
    /\ UNCHANGED <<layout, files, record, clock, edited, budget>>

BeginLocale(p, target) == Begin(p, "locale", target)
BeginRelocate(p) == Begin(p, "relocate", None)

\* The command goes by its intent alone, whether it has just saved it or found it.
Resumed(l, i) == [Idle EXCEPT !.op = l.op, !.target = l.target, !.it = i]

\* AcquireIndexLock gives up.
LockTimeout(p) ==
    /\ pc[p] = "lock" /\ lock # None
    /\ Return(p)
    /\ UNCHANGED <<layout, files, record, clock, edited, budget>>

\* Under the lock: the intent of this very command is resumed; any other one, or a
\* switch to another Locale, is refused.
Lock(p) ==
    /\ pc[p] = "lock" /\ lock = None
    /\ LET mine == {i \in active : i.op = loc[p].op /\ i.target = loc[p].target}
       IN  IF active = {} \/ (Cardinality(mine) = 1 /\ mine = active)
           THEN /\ lock' = p
                /\ IF mine = {} THEN Goto(p, "plan") /\ Spend("plans") /\ UNCHANGED loc
                   ELSE /\ Goto(p, "inspect")
                        /\ loc' = [loc EXCEPT ![p] = Resumed(@, CHOOSE i \in mine : TRUE)]
                        /\ UNCHANGED budget
           ELSE Return(p) /\ UNCHANGED budget
    /\ UNCHANGED <<layout, files, record, clock, edited>>

-----------------------------------------------------------------------------
(* Planning.                                                               *)

\* The configuration and the Root are read, ...
PlanLocale(p) ==
    /\ pc[p] = "plan" /\ loc[p].op = "locale"
    /\ Hold(p, "load", [loc[p] EXCEPT !.cfg = files["config"], !.root = files["root"]])
    /\ UNCHANGED <<layout, files, record, clock, edited, budget>>

\* ... without a Volumes index only the configuration is saved, with no preimage
\* asked for; a Legacy index keeps its Locale, ...
SwitchConfigOnly(p) ==
    /\ pc[p] = "load" /\ layout # "volumes"
    /\ files' = IF layout = "none" \/ files["root"].say = loc[p].target
                THEN [files EXCEPT !["config"] = [loc[p].cfg EXCEPT !.say = loc[p].target]]
                ELSE files
    /\ Return(p)
    /\ UNCHANGED <<layout, record, clock, edited, budget>>

\* ... and otherwise the set is loaded, which must show the same Root, and the
\* configuration read once more as the preimage.
LoadLocale(p) ==
    LET l == loc[p]
        img == <<Image("root", l.root, [l.root EXCEPT !.say = l.target]),
                 Image("config", files["config"], [l.cfg EXCEPT !.say = l.target])>>
    IN  /\ pc[p] = "load" /\ layout = "volumes"
        /\ IF files["root"] # l.root \/ \A k \in DOMAIN img : img[k].pre = img[k].post
           THEN Return(p)
           ELSE Hold(p, "baseline",
                     [l EXCEPT !.cfg = None, !.root = None, !.img = img,
                               !.guards = [f \in Assets \ {"root"} |-> files[f]]])
        /\ UNCHANGED <<layout, files, record, clock, edited, budget>>

\* The relocation: the Meta without the line, in the configured Locale, and the Code
\* Volume with machine paths.
PlanRelocate(p) ==
    LET l == loc[p]
        meta == IF files["meta"].say # None THEN <<>>
                ELSE <<Image("meta", files["meta"], [files["meta"] EXCEPT !.say = l.cfg.say])>>
        code == IF files["code"].say = "neutral" THEN <<>>
                ELSE <<Image("code", files["code"], [files["code"] EXCEPT !.say = "neutral"])>>
        img == meta \o code
    IN  /\ pc[p] = "plan" /\ l.op = "relocate"
        /\ IF layout # "volumes" \/ img = <<>> THEN Return(p)
           ELSE Hold(p, "baseline",
                     [l EXCEPT !.cfg = None, !.img = img,
                               !.guards = [f \in Assets \ Written(img) |-> files[f]]])
        /\ UNCHANGED <<layout, files, record, clock, edited, budget>>

\* The Baseline takes part if it records a file that changes; a record that is
\* stale already is refused.
PlanBaseline(p) ==
    LET l == loc[p]
        b == files["baseline"]
        bound == {k \in DOMAIN l.img : l.img[k].pre # l.img[k].post /\ l.img[k].f \in DOMAIN b.rec}
        After(f) == IF \E k \in bound : l.img[k].f = f
                    THEN l.img[CHOOSE k \in bound : l.img[k].f = f].post ELSE b.rec[f]
    IN  /\ pc[p] = "baseline"
        /\ IF \E k \in bound : b.rec[l.img[k].f] # l.img[k].pre
           THEN Return(p) /\ UNCHANGED <<clock, budget>>
           ELSE IF bound = {} THEN Continue(p, "intent") /\ UNCHANGED <<clock, budget>>
           ELSE /\ Now
                /\ Hold(p, "intent",
                        [l EXCEPT !.img = Append(@, Image("baseline", b,
                            [b EXCEPT !.at = clock', !.rec = [f \in DOMAIN b.rec |-> After(f)]]))])
        /\ UNCHANGED <<layout, files, record, edited>>

Intent(l, now) ==
    [op |-> l.op, target |-> l.target, img |-> l.img, guards |-> l.guards, at |-> now]

\* Mutant of SaveIntent: nothing is recorded before the first write.
SaveIntent_Skipped(p) ==
    /\ pc[p] = "intent"
    /\ Hold(p, "inspect", Resumed(loc[p], Intent(loc[p], clock)))
    /\ UNCHANGED <<layout, files, record, clock, edited, budget>>

\* cognitiontxn.Stage, whose files stay for good, and SaveImmutable: from here on the
\* transaction is pending.
SaveIntent(p) ==
    /\ pc[p] = "intent"
    /\ Now
    /\ active' = active \cup {Intent(loc[p], clock')}
    /\ Hold(p, "inspect", Resumed(loc[p], Intent(loc[p], clock')))
    /\ UNCHANGED <<layout, files, archive, ledger, edited>>

-----------------------------------------------------------------------------
(* advanceLocaleSwitch and advanceIndexRelocate.                           *)

Inspect(p) ==
    /\ pc[p] = "inspect"
    /\ IF GuardsHold(loc[p].it) /\ InOrder(loc[p].it)
       THEN Hold(p, "publish", [loc[p] EXCEPT !.pos = 1])
       ELSE Return(p)
    /\ UNCHANGED <<layout, files, record, clock, edited, budget>>

\* Mutant of Publish: the inspection stands in for the comparison.
Publish_Unchecked(p) ==
    LET i == loc[p].it
        im == i.img[loc[p].pos]
    IN  /\ pc[p] = "publish" /\ loc[p].pos \in DOMAIN i.img
        /\ files' = [files EXCEPT ![im.f] = im.post]
        /\ Hold(p, "publish", [loc[p] EXCEPT !.pos = @ + 1])
        /\ UNCHANGED <<layout, record, clock, edited, budget>>

\* One image: passed over as postimage, or else AtomicWriteCAS over the preimage.
Publish(p) ==
    LET i == loc[p].it
        im == i.img[loc[p].pos]
    IN  /\ pc[p] = "publish" /\ loc[p].pos \in DOMAIN i.img
        /\ IF \/ Classify(im) = "postimage"
              \/ GuardsHold(i) /\ files[im.f] = im.pre
           THEN /\ files' = [files EXCEPT ![im.f] = im.post]
                /\ Hold(p, "publish", [loc[p] EXCEPT !.pos = @ + 1])
           ELSE Return(p) /\ UNCHANGED files
        /\ UNCHANGED <<layout, record, clock, edited, budget>>

\* The files themselves show the result.
Verify(p) ==
    LET i == loc[p].it IN
    /\ pc[p] = "publish" /\ loc[p].pos > Len(i.img)
    /\ IF /\ \A k \in DOMAIN i.img : Classify(i.img[k]) = "postimage"
          /\ GuardsHold(i)
          /\ i.op = "locale" =>
                 files["config"].say = i.target /\ files["root"].say = i.target
          /\ i.op = "relocate" => files["meta"].say # None /\ files["code"].say = "neutral"
          /\ "baseline" \in Written(i.img) => Recorded(i)
       THEN Continue(p, "ledger") ELSE Return(p)
    /\ UNCHANGED <<layout, files, record, clock, edited, budget>>

\* cognitiontxn.EnsureLedger, the ledger being enabled: once for each identity.
EnsureLedger(p) ==
    /\ pc[p] = "ledger"
    /\ ledger' = ledger \cup {Identity(loc[p].it)}
    /\ Continue(p, "archive")
    /\ UNCHANGED <<layout, files, active, archive, clock, edited, budget>>

\* cognitiontxn.ArchiveImmutable: the archive of this identity is this intent or a
\* conflict, ...
Archive(p) ==
    /\ pc[p] = "archive"
    /\ IF \A i \in archive : Identity(i) = Identity(loc[p].it) => i = loc[p].it
       THEN archive' = archive \cup {loc[p].it} /\ Continue(p, "unlink")
       ELSE Return(p) /\ UNCHANGED archive
    /\ UNCHANGED <<layout, files, active, ledger, clock, edited, budget>>

\* ... and the intent is removed.
Unlink(p) ==
    /\ pc[p] = "unlink"
    /\ active' = active \ {loc[p].it}
    /\ Return(p)
    /\ UNCHANGED <<layout, files, archive, ledger, clock, edited, budget>>

-----------------------------------------------------------------------------
(* What happens around the commands.                                       *)

\* Others add something to a file, change the Locale in it by hand (which `config
\* set' of another key also does, when it saves what it loaded before a switch),
\* or put back what a pending intent has of it.
OutsideBytes(f) ==
    {[files[f] EXCEPT !.ed = @ + 1]}
    \cup (IF f \in {"root", "config"}
          THEN {[files[f] EXCEPT !.say = s, !.ed = @ + 1] : s \in Locales} ELSE {})
    \cup UNION {{im.pre : im \in {i.img[k] : k \in {j \in DOMAIN i.img : i.img[j].f = f}}}
                \cup {i.guards[g] : g \in DOMAIN i.guards \cap {f}} : i \in active}

OutsideEdit(f) ==
    /\ Spend("edits")
    /\ f = "config" => ConfigRace \/ \A p \in Procs : pc[p] # "load"
    /\ \E b \in OutsideBytes(f) \ {files[f]} : files' = [files EXCEPT ![f] = b]
    /\ edited' = TRUE
    /\ UNCHANGED <<layout, record, clock, proc>>

\* A process is killed, or a system call fails and the command returns; the lock of
\* a dead process is recovered (IndexLock).
Stop(p) ==
    /\ pc[p] # "idle" /\ Spend("stops")
    /\ Return(p)
    /\ UNCHANGED <<layout, files, record, clock, edited>>

-----------------------------------------------------------------------------
Step(p) ==
    \/ Lock(p)
    \/ PlanLocale(p) \/ SwitchConfigOnly(p) \/ LoadLocale(p) \/ PlanRelocate(p)
    \/ PlanBaseline(p) \/ SaveIntent(p)
    \/ Inspect(p) \/ Publish(p) \/ Verify(p) \/ EnsureLedger(p) \/ Archive(p) \/ Unlink(p)

Next ==
    \/ \E p \in Procs :
          \/ \E target \in Locales : BeginLocale(p, target)
          \/ BeginRelocate(p)
          \/ Step(p) \/ LockTimeout(p) \/ Stop(p)
    \/ \E f \in Files : OutsideEdit(f)

Spec == Init /\ [][Next]_vars

\* The command of the pending intent is given again.
Retry(p) ==
    \/ \E i \in active : i.op = "locale" /\ BeginLocale(p, i.target)
    \/ (\E i \in active : i.op = "relocate") /\ BeginRelocate(p)

\* A command that runs goes on, and while an intent is pending its command is given
\* again: every other command names it.
Fairness ==
    /\ \A p \in Procs : WF_vars(Step(p))
    /\ SF_vars(\E p \in Procs : Retry(p))

FairSpec == Spec /\ Fairness

-----------------------------------------------------------------------------
(* Properties.                                                             *)

\* One transaction is pending at a time, each archived one has its ledger event, and
\* while none is pending, and nobody else has edited anything, the formal files are
\* from one side of every switch: Root and configuration name one Locale and the
\* Baseline records the bytes that are there, wherever two commands met and
\* whichever of them was killed.
Coherent ==
    /\ Cardinality(active) <= 1
    /\ \A i \in archive : Identity(i) \in ledger
    /\ active = {} /\ ~edited /\ layout # "none" =>
           /\ files["root"].say = files["config"].say
           /\ \A f \in DOMAIN files["baseline"].rec : files["baseline"].rec[f] = files[f]

\* A switch replaces what it is about and nothing else: an edit that somebody made
\* at any moment, before the plan or under it, is never undone.
EditsKept ==
    [][budget'.edits = budget.edits =>
          \A f \in Files : files'[f].ed = files[f].ed]_vars

\* The files are as the intent left them: guards unchanged, postimages and then
\* preimages.  Two intents no retry can close: one with an image it does not change
\* after one it does (it looks published out of order), and one whose identity an
\* earlier switch of another second has in the archive.
Resumable(i) ==
    /\ \A f \in DOMAIN i.guards : files[f] = i.guards[f]
    /\ \A k \in DOMAIN i.img : i.img[k].pre = i.img[k].post => k = 1
    /\ \A a \in archive : Identity(a) = Identity(i) => a = i
    /\ \E n \in 0..Len(i.img) : \A k \in DOMAIN i.img :
           files[i.img[k].f] = IF k <= n THEN i.img[k].post ELSE i.img[k].pre

\* "running the same command with the same target resumes at whatever was already
\* published" (docs/localization.md:46-47): a pending intent is closed in the end,
\* unless somebody else has changed a file under it.
Closes == (active # {}) ~> (active = {} \/ \E i \in active : ~Resumable(i))
=============================================================================
