------------------------- MODULE LayoutSwitchProofs -------------------------
(***************************************************************************)
(* The Locale switch and the relocation keep the layout coherent and the   *)
(* edits of others, for every set of processes, Locales and Bindings and   *)
(* whatever the bounds.                                                    *)
(***************************************************************************)
EXTENDS LayoutSwitch, FiniteSetTheorems, SequenceTheorems, TLAPS

Ops == {"locale", "relocate"}
Planning == {"plan", "load", "baseline", "intent"}
Advancing == {"inspect", "publish", "ledger", "archive", "unlink"}
Locked == Planning \cup Advancing

\* The bytes of a file: of a text, and of the Baseline, which records texts.
Texts == [say : Locales \cup {None, "machine", "neutral"}, ed : Nat]
Records == UNION {[B -> Texts] : B \in SUBSET Assets}
Baselines == [rec : Records, at : Nat, ed : Nat]
Content(f) == IF f = "baseline" THEN Baselines ELSE Texts

Images == [f : Files, pre : Texts \cup Baselines, post : Texts \cup Baselines]
Guards == Records \cup {<<>>}
Targets == Locales \cup {None}
Intents == [op : Ops, target : Targets, img : Seq(Images), guards : Guards, at : Nat]
Memory == [op : Ops \cup {None}, target : Targets, cfg : Texts \cup {None}, root : Texts \cup {None},
           img : Seq(Images), guards : Guards, it : Intents \cup {None}, pos : Nat]

\* The states of the variables.
TypeOK ==
    /\ layout \in {"volumes", "legacy", "none"}
    /\ files \in [Files -> Texts \cup Baselines] /\ \A f \in Files : files[f] \in Content(f)
    /\ active \in SUBSET Intents
    /\ clock \in Nat /\ edited \in BOOLEAN
    /\ budget \in [plans : Nat, edits : Nat, stops : Nat, ticks : Nat]
    /\ lock \in Procs \cup {None}
    /\ pc \in [Procs -> {"idle", "lock"} \cup Locked]
    /\ loc \in [Procs -> Memory]

-----------------------------------------------------------------------------
(* The inductive invariant.                                                *)

\* The images of a switch: each of another file, and none takes an edit away.
ImagesSound(s) ==
    /\ \A k \in DOMAIN s : s[k].pre \in Content(s[k].f) /\ s[k].post \in Content(s[k].f)
    /\ \A j, k \in DOMAIN s : s[j].f = s[k].f => j = k
    /\ ConfigRace \/ \A k \in DOMAIN s : s[k].post.ed = s[k].pre.ed

\* One Locale, and a Baseline that records what is there.
CoherentFiles(F) ==
    /\ F["root"].say = F["config"].say
    /\ \A f \in DOMAIN F["baseline"].rec : F["baseline"].rec[f] = F[f]

\* The files as they are once all images of s are published.
After(s) ==
    [f \in Files |-> IF f \in Written(s) THEN s[CHOOSE k \in DOMAIN s : s[k].f = f].post
                     ELSE files[f]]

Published(s) == \A k \in DOMAIN s : files[s[k].f] = s[k].post

\* The images over the files as they are, before the Baseline is added: Root and
\* configuration change together or not at all.
Planned(s) ==
    /\ \A k \in DOMAIN s : s[k].f # "baseline" /\ (edited \/ files[s[k].f] = s[k].pre)
    /\ \/ Written(s) \cap {"root", "config"} = {}
       \/ /\ {"root", "config"} \subseteq Written(s)
          /\ \A j, k \in DOMAIN s : s[j].f = "root" /\ s[k].f = "config" =>
                 s[j].post.say = s[k].post.say

IntentsSound ==
    \A i \in active : /\ active = {i} /\ layout = "volumes" /\ ImagesSound(i.img)
                      /\ edited \/ CoherentFiles(After(i.img))

QuietSound == active = {} /\ ~edited /\ layout # "none" => CoherentFiles(files)

ArchiveSound == \A i \in archive : Identity(i) \in ledger

DiskInv == IntentsSound /\ QuietSound /\ ArchiveSound

\* What the holder of the lock knows at step k with l in memory.
HolderInv(k, l) ==
    /\ k \in Planning => /\ active = {} /\ l.op \in Ops
                         /\ l.op = "locale" => l.target \in Locales
    /\ k = "plan" /\ l.op = "relocate" => l.cfg \in Texts
    /\ k = "load" => /\ l.op = "locale" /\ l.cfg \in Texts /\ l.root \in Texts
                     /\ ConfigRace \/ l.cfg.ed = files["config"].ed
    /\ k \in {"baseline", "intent"} => layout = "volumes" /\ ImagesSound(l.img)
    /\ k = "baseline" => Planned(l.img)
    /\ k = "intent" => edited \/ CoherentFiles(After(l.img))
    /\ k \in Advancing => active = {l.it}
    /\ k \in {"ledger", "archive", "unlink"} => edited \/ Published(l.it.img)
    /\ k \in {"archive", "unlink"} => Identity(l.it) \in ledger

\* A command knows what it is for, and is in its critical section just when it has
\* the lock.
ProcInv(p) ==
    /\ pc[p] = "lock" => /\ loc[p].op \in Ops
                         /\ loc[p].op = "locale" => loc[p].target \in Locales
                         /\ loc[p].op = "relocate" => loc[p].cfg \in Texts
    /\ pc[p] \in Locked <=> lock = p
    /\ pc[p] \in Locked => HolderInv(pc[p], loc[p])

SwitchInv == TypeOK /\ DiskInv /\ \A p \in Procs : ProcInv(p)

-----------------------------------------------------------------------------
(* Steps of one process.                                                   *)

\* What the invariant says of one process.
LEMMA OwnState ==
    ASSUME SwitchInv, NEW p \in Procs
    PROVE  /\ TypeOK /\ DiskInv /\ ProcInv(p)
           /\ loc[p] \in Memory /\ pc[p] \in {"idle", "lock"} \cup Locked
           /\ pc[p] \in Locked => lock = p /\ HolderInv(pc[p], loc[p])
  BY DEF SwitchInv, TypeOK, ProcInv

\* A step of process p keeps the invariant if the disk and p are sound after it: the
\* others are not in their critical sections, unless the disk is left alone.
LEMMA OwnStep ==
    ASSUME SwitchInv, NEW p \in Procs, TypeOK', DiskInv', ProcInv(p)',
           \A q \in Procs \ {p} : pc'[q] = pc[q] /\ loc'[q] = loc[q],
           \/ lock \in {p, None} /\ lock' \in {p, None}
           \/ UNCHANGED <<lock, layout, files, active, ledger, edited>>
    PROVE  SwitchInv'
  <1>1. ASSUME NEW q \in Procs \ {p}
        PROVE  ProcInv(q)'
    <2>1. pc'[q] = pc[q] /\ loc'[q] = loc[q] /\ ProcInv(q) /\ None \notin Procs
      BY SwitchConstants DEF SwitchInv
    <2>2. CASE lock \in {p, None} /\ lock' \in {p, None}
      BY <2>1, <2>2 DEF ProcInv
    <2>3. CASE UNCHANGED <<lock, layout, files, active, ledger, edited>>
      <3>1. HolderInv(pc[q], loc[q])' <=> HolderInv(pc[q], loc[q])
        BY <2>1, <2>3 DEF HolderInv, Planned, Published, After
      <3> QED
        BY <2>1, <2>3, <3>1 DEF ProcInv
    <2> QED
      BY <2>2, <2>3
  <1> QED
    BY <1>1 DEF SwitchInv

\* A process between two commands remembers nothing.
LEMMA IdleMemory == Idle \in Memory /\ Idle.op = None
  <1>1. <<>> \in Seq(Images)
    OBVIOUS
  <1> QED
    BY <1>1 DEF Idle, Memory, Guards, Targets

\* The disk is as sound as it was if it is what it was.
LEMMA SameDisk ==
    ASSUME DiskInv, UNCHANGED <<layout, files, record, edited>> PROVE DiskInv'
  BY SMTT(30) DEF DiskInv, IntentsSound, QuietSound, ArchiveSound, After, record

\* A command that returns forgets what it knew.
LEMMA ReturnInv ==
    ASSUME SwitchInv, NEW p \in Procs, Return(p), DiskInv',
           layout' = layout, files' \in [Files -> Texts \cup Baselines],
           \A f \in Files : files'[f] \in Content(f),
           active' \in SUBSET Intents, clock' \in Nat, edited' \in BOOLEAN,
           budget' \in [plans : Nat, edits : Nat, stops : Nat, ticks : Nat],
           lock = p \/ UNCHANGED <<files, active, ledger, edited>>
    PROVE  SwitchInv'
  <1>1. TypeOK'
    BY OwnState, IdleMemory DEF Return, Goto, TypeOK
  <1>2. pc'[p] = "idle" /\ \A q \in Procs \ {p} : pc'[q] = pc[q] /\ loc'[q] = loc[q]
    BY OwnState DEF Return, Goto, TypeOK
  <1>3. ProcInv(p)'
    BY <1>2, OwnState, SwitchConstants DEF Return, ProcInv, Locked, Planning, Advancing
  <1> QED
    BY <1>1, <1>2, <1>3, OwnStep DEF Return

\* Every answer that leaves the disk alone.
LEMMA AnswerInv ==
    ASSUME SwitchInv, NEW p \in Procs, Return(p), UNCHANGED <<layout, files, record, edited>>,
           clock' \in Nat, budget' \in [plans : Nat, edits : Nat, stops : Nat, ticks : Nat]
    PROVE  SwitchInv'
  <1>1. DiskInv'
    BY OwnState, SameDisk
  <1> QED
    BY <1>1, OwnState, ReturnInv DEF TypeOK, record

\* A command that goes on to step k with l in memory and the lock.
LEMMA HoldInv ==
    ASSUME SwitchInv, NEW p \in Procs, NEW k \in Locked, NEW l \in Memory,
           Goto(p, k), loc' = [loc EXCEPT ![p] = l], lock \in {p, None}, lock' = p,
           layout' = layout, files' \in [Files -> Texts \cup Baselines],
           \A f \in Files : files'[f] \in Content(f),
           active' \in SUBSET Intents, clock' \in Nat, edited' \in BOOLEAN,
           budget' \in [plans : Nat, edits : Nat, stops : Nat, ticks : Nat],
           DiskInv', HolderInv(k, l)'
    PROVE  SwitchInv'
  <1>1. /\ pc'[p] = k /\ loc'[p] = l
        /\ \A q \in Procs \ {p} : pc'[q] = pc[q] /\ loc'[q] = loc[q]
    BY OwnState DEF Goto, TypeOK
  <1>2. TypeOK'
    BY OwnState DEF Goto, TypeOK
  <1>3. k # "lock"
    BY DEF Locked, Planning, Advancing
  <1>4. ProcInv(p)'
    BY <1>1, <1>3 DEF ProcInv
  <1> QED
    BY <1>1, <1>2, <1>4, OwnStep

\* The same, when it leaves the disk alone.
LEMMA MoveInv ==
    ASSUME SwitchInv, NEW p \in Procs, NEW k \in Locked, NEW l \in Memory,
           Goto(p, k), loc' = [loc EXCEPT ![p] = l], lock \in {p, None}, lock' = p,
           UNCHANGED <<layout, files, record, edited>>, clock' \in Nat,
           budget' \in [plans : Nat, edits : Nat, stops : Nat, ticks : Nat], HolderInv(k, l)
    PROVE  SwitchInv'
  <1>1. HolderInv(k, l)'
    BY DEF record, HolderInv, Planned, Published, After
  <1>2. DiskInv'
    BY OwnState, SameDisk
  <1> QED
    BY <1>1, <1>2, OwnState, HoldInv DEF TypeOK, record

\* Continue is Hold of what is in memory.
LEMMA ContinueHolds ==
    ASSUME SwitchInv, NEW p \in Procs, NEW k, Continue(p, k)
    PROVE  Goto(p, k) /\ loc' = [loc EXCEPT ![p] = loc[p]] /\ lock' = lock
  BY OwnState DEF Continue, TypeOK

\* A bound that is spent stays a number, and the clock goes on.
LEMMA SpendType ==
    ASSUME TypeOK, NEW w \in {"plans", "edits", "stops", "ticks"}, Spend(w)
    PROVE  budget' \in [plans : Nat, edits : Nat, stops : Nat, ticks : Nat]
  BY DEF TypeOK, Spend

\* Time only decides the name an archive gets.
LEMMA NowType ==
    ASSUME TypeOK, Now
    PROVE  clock' \in Nat /\ budget' \in [plans : Nat, edits : Nat, stops : Nat, ticks : Nat]
           /\ budget'.edits = budget.edits
  BY SpendType DEF TypeOK, Now, Spend

-----------------------------------------------------------------------------
(* Up to the lock.                                                         *)

\* The gate writes nothing and holds nothing.
LEMMA BeginInv ==
    ASSUME SwitchInv, NEW p \in Procs, NEW op \in Ops, NEW target \in Targets, Begin(p, op, target),
           op = "locale" => target \in Locales
    PROVE  SwitchInv'
  <1> DEFINE l == [Idle EXCEPT !.op = op, !.target = target,
                               !.cfg = IF op = "relocate" THEN files["config"] ELSE None]
  <1>1. files["config"] \in Texts
    BY OwnState DEF TypeOK, Content, Files
  <1>2. /\ l \in Memory /\ l.op = op /\ l.target = target
        /\ l.cfg = IF op = "relocate" THEN files["config"] ELSE None
    BY ZenonT(40), <1>1, IdleMemory DEF Memory, Targets
  <1>3. pc' = [pc EXCEPT ![p] = "lock"] /\ loc' = [loc EXCEPT ![p] = l] /\ lock' = lock
    BY DEF Begin, Hold, Goto
  <1> HIDE DEF l
  <1>4. TypeOK'
    BY <1>2, <1>3, OwnState DEF Begin, TypeOK, record
  <1>5. pc'[p] = "lock" /\ loc'[p] = l /\ \A q \in Procs \ {p} : pc'[q] = pc[q] /\ loc'[q] = loc[q]
    BY <1>3, OwnState DEF TypeOK
  <1>6. ProcInv(p)'
    BY <1>1, <1>2, <1>3, <1>5, OwnState DEF Begin, ProcInv, Locked, Planning, Advancing
  <1>7. DiskInv'
    BY OwnState, SameDisk DEF Begin
  <1> QED
    BY <1>3, <1>4, <1>5, <1>6, <1>7, OwnStep DEF Begin, record

\* A command that does not get the lock returns.
LEMMA LockTimeoutInv ==
    ASSUME SwitchInv, NEW p \in Procs, LockTimeout(p) PROVE SwitchInv'
  BY OwnState, AnswerInv DEF LockTimeout, TypeOK

\* What a stopped command leaves is the intent, or nothing.
LEMMA StopInv == ASSUME SwitchInv, NEW p \in Procs, Stop(p) PROVE SwitchInv'
  BY OwnState, AnswerInv, SpendType DEF Stop, TypeOK

\* Under the lock a command plans with nothing pending, or goes on with the one intent.
LEMMA LockInv == ASSUME SwitchInv, NEW p \in Procs, Lock(p) PROVE SwitchInv'
  <1> DEFINE mine == {i \in active : i.op = loc[p].op /\ i.target = loc[p].target}
  <1>1. /\ pc[p] = "lock" /\ lock = None /\ UNCHANGED <<layout, files, record, clock, edited>>
        /\ clock' \in Nat
    BY OwnState DEF Lock, TypeOK
  <1>2. ASSUME Return(p), UNCHANGED budget PROVE SwitchInv'
    BY <1>1, <1>2, OwnState, AnswerInv DEF TypeOK
  <1>3. ASSUME active = {}, lock' = p, Goto(p, "plan"), Spend("plans"), UNCHANGED loc
        PROVE  SwitchInv'
    <2>1. HolderInv("plan", loc[p]) /\ loc' = [loc EXCEPT ![p] = loc[p]]
      BY <1>1, <1>3, OwnState DEF ProcInv, HolderInv, Advancing, TypeOK
    <2> QED
      BY <1>1, <1>3, <2>1, OwnState, SpendType, MoveInv DEF Locked, Planning
  <1>4. ASSUME mine # {}, mine = active, lock' = p, Goto(p, "inspect"), UNCHANGED budget,
               loc' = [loc EXCEPT ![p] = Resumed(@, CHOOSE i \in mine : TRUE)]
        PROVE  SwitchInv'
    <2>1. PICK i \in mine : i = CHOOSE j \in mine : TRUE
      BY <1>4
    <2>2. active = {i} /\ i \in Intents
      BY <1>4, <2>1, OwnState DEF DiskInv, IntentsSound, TypeOK
    <2> DEFINE l == Resumed(loc[p], i)
    <2>3. l \in Memory /\ l.it = i
      BY <2>2, OwnState, IdleMemory DEF Resumed, Memory
    <2>4. loc' = [loc EXCEPT ![p] = l]
      BY <1>4, <2>1
    <2> HIDE DEF l
    <2>5. HolderInv("inspect", l)
      BY <2>2, <2>3 DEF HolderInv, Planning
    <2> QED
      BY <1>1, <1>4, <2>3, <2>4, <2>5, OwnState, MoveInv DEF Locked, Advancing, TypeOK
  <1>5. active = {} => mine = {}
    OBVIOUS
  <1>6. mine = {} /\ Cardinality(mine) = 1 => FALSE
    BY FS_EmptySet
  <1> QED
    BY <1>2, <1>3, <1>4, <1>5, <1>6 DEF Lock

-----------------------------------------------------------------------------
(* Planning.                                                               *)

\* The Locale switch reads the configuration.
LEMMA PlanLocaleInv == ASSUME SwitchInv, NEW p \in Procs, PlanLocale(p) PROVE SwitchInv'
  <1> DEFINE l == [loc[p] EXCEPT !.cfg = files["config"], !.root = files["root"]]
  <1>1. pc[p] = "plan" /\ pc[p] \in Locked /\ loc[p].op = "locale"
    BY DEF PlanLocale, Locked, Planning
  <1>2. files["config"] \in Texts /\ files["root"] \in Texts
    BY OwnState DEF TypeOK, Content, Files, Assets
  <1>3. /\ l \in Memory /\ l.op = loc[p].op /\ l.target = loc[p].target
        /\ l.cfg = files["config"] /\ l.root = files["root"]
    BY <1>2, OwnState DEF Memory
  <1>4. Goto(p, "load") /\ loc' = [loc EXCEPT ![p] = l] /\ lock' = lock
    BY DEF PlanLocale, Hold
  <1> HIDE DEF l
  <1>5. HolderInv("load", l)
    BY <1>1, <1>2, <1>3, OwnState DEF HolderInv, Planning, Advancing
  <1> QED
    BY <1>1, <1>3, <1>4, <1>5, OwnState, MoveInv DEF PlanLocale, Locked, Planning, TypeOK

\* A configuration that is saved alone names the Locale of the Root, and keeps the edits.
LEMMA SwitchConfigOnlyInv ==
    ASSUME SwitchInv, NEW p \in Procs, SwitchConfigOnly(p)
    PROVE  SwitchInv'
  <1>1. pc[p] = "load" /\ pc[p] \in Locked /\ layout # "volumes"
    BY DEF SwitchConfigOnly, Locked, Planning
  <1>2. active = {} /\ loc[p].cfg \in Texts /\ loc[p].target \in Locales /\ lock = p
    BY <1>1, OwnState DEF HolderInv, Planning
  <1>3. CASE files' = files
    BY <1>3, OwnState, AnswerInv DEF SwitchConfigOnly, TypeOK
  <1>4. CASE /\ layout = "none" \/ files["root"].say = loc[p].target
             /\ files' = [files EXCEPT !["config"] = [loc[p].cfg EXCEPT !.say = loc[p].target]]
    <2>1. PICK c : c = [loc[p].cfg EXCEPT !.say = loc[p].target]
      OBVIOUS
    <2>2. c \in Texts /\ c.say = loc[p].target
      BY <1>2, <2>1 DEF Texts
    <2>3. /\ files' \in [Files -> Texts \cup Baselines]
          /\ \A f \in Files : files'[f] = IF f = "config" THEN c ELSE files[f]
      BY <1>4, <2>1, <2>2, OwnState DEF TypeOK
    <2>4. \A f \in Files : files'[f] \in Content(f)
      BY <2>2, <2>3, OwnState DEF TypeOK, Content
    <2>5. CoherentFiles(files) /\ layout # "none" => CoherentFiles(files')
      <3>1. files["baseline"].rec \in Records
        BY OwnState DEF TypeOK, Content, Baselines, Files
      <3>2. \A f \in DOMAIN files["baseline"].rec : f \in Assets
        BY <3>1 DEF Records
      <3> QED
        BY <1>4, <2>2, <2>3, <3>2 DEF CoherentFiles, Files, Assets
    <2>6. DiskInv'
      BY <1>2, <2>5, OwnState
      DEF SwitchConfigOnly, record, DiskInv, IntentsSound, QuietSound, ArchiveSound
    <2> QED
      BY <1>2, <2>3, <2>4, <2>6, OwnState, ReturnInv DEF SwitchConfigOnly, TypeOK, record
  <1> QED
    BY <1>3, <1>4 DEF SwitchConfigOnly

\* An image that gives a text another say: the edits of c stay.
LEMMA ImageIs ==
    ASSUME NEW f \in Files \ {"baseline"}, NEW b \in Texts, NEW c \in Texts,
           NEW v \in Locales \cup {None, "machine", "neutral"}, NEW im,
           im = Image(f, b, [c EXCEPT !.say = v])
    PROVE  /\ im \in Images /\ im.f = f /\ im.pre = b /\ im.post \in Texts
           /\ im.post.say = v /\ im.post.ed = c.ed
  <1>1. PICK d : d = [c EXCEPT !.say = v]
    OBVIOUS
  <1>2. d \in Texts /\ d.say = v /\ d.ed = c.ed
    BY <1>1 DEF Texts
  <1>3. im = [f |-> f, pre |-> b, post |-> d]
    BY <1>1 DEF Image
  <1> QED
    BY <1>2, <1>3 DEF Images

\* The guards are the assets a switch leaves alone.
LEMMA GuardsIs ==
    ASSUME TypeOK, NEW S \in SUBSET Assets
    PROVE  [f \in S |-> files[f]] \in Guards
  <1>1. \A f \in S : files[f] \in Texts
    BY DEF TypeOK, Content, Files, Assets
  <1>2. [f \in S |-> files[f]] \in [S -> Texts]
    BY <1>1
  <1> QED
    BY <1>2 DEF Guards, Records

\* Root and configuration, over the bytes that are there.
LEMMA LoadLocaleInv == ASSUME SwitchInv, NEW p \in Procs, LoadLocale(p) PROVE SwitchInv'
  <1>1. pc[p] = "load" /\ pc[p] \in Locked /\ layout = "volumes"
        /\ UNCHANGED <<layout, files, record, clock, edited, budget>>
    BY DEF LoadLocale, Locked, Planning
  <1>2. PICK m : m = loc[p]
    OBVIOUS
  <1>3. /\ m \in Memory /\ m.op = "locale" /\ active = {} /\ m.cfg \in Texts /\ m.root \in Texts
        /\ m.target \in Locales /\ lock = p /\ (ConfigRace \/ m.cfg.ed = files["config"].ed)
    BY <1>1, <1>2, OwnState DEF HolderInv, Planning
  <1>4. ASSUME Return(p) PROVE SwitchInv'
    BY <1>1, <1>4, OwnState, AnswerInv DEF TypeOK
  <1> DEFINE im1 == Image("root", m.root, [m.root EXCEPT !.say = m.target])
             im2 == Image("config", files["config"], [m.cfg EXCEPT !.say = m.target])
             img == <<im1, im2>>
             g == [f \in Assets \ {"root"} |-> files[f]]
             l == [m EXCEPT !.cfg = None, !.root = None, !.img = img, !.guards = g]
  <1>5. ASSUME files["root"] = m.root, Hold(p, "baseline", l) PROVE SwitchInv'
    <2>1. "root" \in Files /\ "config" \in Files
          /\ Content("root") = Texts /\ Content("config") = Texts
          /\ {"root", "config"} \subseteq Files \ {"baseline"}
      BY DEF Files, Assets, Content
    <2>2. files["config"] \in Texts
      BY <2>1, OwnState DEF TypeOK
    <2>3. /\ im1 \in Images /\ im1.f = "root" /\ im1.pre = files["root"] /\ im1.pre \in Texts
          /\ im1.post \in Texts /\ im1.post.say = m.target /\ im1.post.ed = im1.pre.ed
      BY <1>3, <1>5, <2>1, ImageIs
    <2>4. /\ im2 \in Images /\ im2.f = "config" /\ im2.pre = files["config"] /\ im2.pre \in Texts
          /\ im2.post \in Texts /\ im2.post.say = m.target
          /\ ConfigRace \/ im2.post.ed = im2.pre.ed
      BY <1>3, <2>1, <2>2, ImageIs
    <2> HIDE DEF im1, im2
    <2>5. /\ img \in Seq(Images) /\ DOMAIN img = 1..2 /\ img[1] = im1 /\ img[2] = im2
          /\ \A k \in DOMAIN img : k = 1 \/ k = 2
      BY <2>3, <2>4
    <2>6. g \in Guards
      BY OwnState, GuardsIs
    <2> HIDE DEF img, g
    <2>7. l \in Memory /\ l.op = m.op /\ l.target = m.target /\ l.img = img
      BY <1>3, <2>5, <2>6 DEF Memory
    <2>8. ImagesSound(img)
      BY <2>1, <2>3, <2>4, <2>5 DEF ImagesSound
    <2>9. Planned(img)
      BY <2>3, <2>4, <2>5 DEF Planned, Written
    <2> HIDE DEF l
    <2>10. HolderInv("baseline", l)
      BY <1>1, <1>3, <2>7, <2>8, <2>9 DEF HolderInv, Planning, Advancing, Ops
    <2> QED
      BY <1>1, <1>3, <1>5, <2>7, <2>10, OwnState, MoveInv DEF Hold, Locked, Planning, TypeOK
  <1> QED
    BY <1>2, <1>4, <1>5 DEF LoadLocale

\* One or two images of the Meta and the Code Volume.
LEMMA PlanRelocateInv == ASSUME SwitchInv, NEW p \in Procs, PlanRelocate(p) PROVE SwitchInv'
  <1>1. pc[p] = "plan" /\ pc[p] \in Locked
        /\ UNCHANGED <<layout, files, record, clock, edited, budget>>
    BY DEF PlanRelocate, Locked, Planning
  <1>2. PICK m : m = loc[p]
    OBVIOUS
  <1>3. m \in Memory /\ m.op = "relocate" /\ active = {} /\ m.cfg \in Texts /\ lock = p
    BY <1>1, <1>2, OwnState DEF PlanRelocate, HolderInv, Planning
  <1>4. ASSUME Return(p) PROVE SwitchInv'
    BY <1>1, <1>4, OwnState, AnswerInv DEF TypeOK
  <1> DEFINE im1 == Image("meta", files["meta"], [files["meta"] EXCEPT !.say = m.cfg.say])
             im2 == Image("code", files["code"], [files["code"] EXCEPT !.say = "neutral"])
             meta == IF files["meta"].say # None THEN <<>> ELSE <<im1>>
             code == IF files["code"].say = "neutral" THEN <<>> ELSE <<im2>>
             img == meta \o code
             g == [f \in Assets \ Written(img) |-> files[f]]
             l == [m EXCEPT !.cfg = None, !.img = img, !.guards = g]
  <1>5. ASSUME layout = "volumes", Hold(p, "baseline", l) PROVE SwitchInv'
    <2>1. "meta" \in Files /\ "code" \in Files
          /\ Content("meta") = Texts /\ Content("code") = Texts
          /\ {"meta", "code"} \subseteq Files \ {"baseline"}
      BY DEF Files, Assets, Content
    <2>2. files["meta"] \in Texts /\ files["code"] \in Texts
      BY <2>1, OwnState DEF TypeOK
    <2>3. m.cfg.say \in Locales \cup {None, "machine", "neutral"}
      BY <1>3 DEF Texts
    <2>4. /\ im1 \in Images /\ im1.f = "meta" /\ im1.pre = files["meta"] /\ im1.pre \in Texts
          /\ im1.post \in Texts /\ im1.post.ed = im1.pre.ed
      BY <2>1, <2>2, <2>3, ImageIs
    <2>5. /\ im2 \in Images /\ im2.f = "code" /\ im2.pre = files["code"] /\ im2.pre \in Texts
          /\ im2.post \in Texts /\ im2.post.ed = im2.pre.ed
      BY SMTT(30), <2>1, <2>2, ImageIs
    <2> HIDE DEF im1, im2
    <2>6. /\ img \in Seq(Images)
          /\ \A k \in DOMAIN img : img[k] \in {im1, im2}
          /\ \A j, k \in DOMAIN img : img[j] = img[k] => j = k
      <3>1. im1 # im2
        BY <2>4, <2>5
      <3>2. img \in {<<>>, <<im1>>, <<im2>>, <<im1, im2>>}
        <4>1. <<>> \o <<>> = <<>> /\ <<im1>> \o <<>> = <<im1>> /\ <<>> \o <<im2>> = <<im2>>
          OBVIOUS
        <4>2. <<im1>> \o <<im2>> = <<im1, im2>>
          <5>1. <<im1>> \in Seq(Images) /\ <<im2>> \in Seq(Images) /\ <<im1, im2>> \in Seq(Images)
            BY <2>4, <2>5
          <5>2. PICK t : t = <<im1>> \o <<im2>>
            OBVIOUS
          <5>3. t \in Seq(Images) /\ Len(t) = 2 /\ t[1] = im1 /\ t[2] = im2
            BY <5>1, <5>2, ConcatProperties
          <5>4. PICK u \in Seq(Images) : u = <<im1, im2>> /\ Len(u) = 2 /\ u[1] = im1 /\ u[2] = im2
            BY <5>1
          <5>5. \A i \in 1..Len(t) : t[i] = u[i]
            BY <5>3, <5>4
          <5>6. t = u
            BY <5>3, <5>4, <5>5, SeqEqual
          <5> QED
            BY <5>2, <5>4, <5>6
        <4> QED
          BY <4>1, <4>2
      <3> HIDE DEF img
      <3>3. CASE img = <<>>
        BY <3>3
      <3>4. CASE img = <<im1>>
        BY <2>4, <3>4
      <3>5. CASE img = <<im2>>
        BY <2>5, <3>5
      <3>6. CASE img = <<im1, im2>>
        BY <2>4, <2>5, <3>1, <3>6
      <3> QED
        BY <3>2, <3>3, <3>4, <3>5, <3>6
    <2>7. g \in Guards
      BY OwnState, GuardsIs
    <2> HIDE DEF img, g
    <2>8. l \in Memory /\ l.op = m.op /\ l.target = m.target /\ l.img = img
      BY <1>3, <2>6, <2>7 DEF Memory
    <2>9. ImagesSound(img)
      BY <2>1, <2>4, <2>5, <2>6 DEF ImagesSound
    <2>10. Planned(img)
      BY <2>4, <2>5, <2>6 DEF Planned, Written
    <2> HIDE DEF l
    <2>11. HolderInv("baseline", l)
      BY <1>3, <1>5, <2>8, <2>9, <2>10 DEF HolderInv, Planning, Advancing, Ops
    <2> QED
      BY <1>1, <1>3, <1>5, <2>8, <2>11, OwnState, MoveInv DEF Hold, Locked, Planning, TypeOK
  <1> QED
    BY <1>2, <1>4, <1>5 DEF PlanRelocate

-----------------------------------------------------------------------------
(* The files once an intent is published.                                  *)

\* Each image's postimage is what its file becomes; other files stay.
LEMMA AfterIs ==
    ASSUME NEW s \in Seq(Images), ImagesSound(s)
    PROVE  /\ \A k \in DOMAIN s : s[k].f \in Files /\ After(s)[s[k].f] = s[k].post
           /\ \A f \in Files : (\A k \in DOMAIN s : s[k].f # f) => After(s)[f] = files[f]
  <1>1. ASSUME NEW k \in DOMAIN s
        PROVE  s[k].f \in Files /\ After(s)[s[k].f] = s[k].post
    <2>1. s[k] \in Images
      OBVIOUS
    <2>2. s[k].f \in Files
      BY <2>1 DEF Images
    <2>3. k = CHOOSE j \in DOMAIN s : s[j].f = s[k].f
      BY DEF ImagesSound
    <2> QED
      BY <2>2, <2>3 DEF After, Written
  <1>2. ASSUME NEW f \in Files, \A k \in DOMAIN s : s[k].f # f
        PROVE  After(s)[f] = files[f]
    BY <1>2 DEF After, Written
  <1> QED
    BY <1>1, <1>2

\* Publishing everything is what After says.
LEMMA PublishedIsAfter ==
    ASSUME TypeOK, NEW s \in Seq(Images), ImagesSound(s), Published(s)
    PROVE  After(s) = files
  <1>1. \A f \in Files : After(s)[f] = files[f]
    BY AfterIs DEF Published
  <1> QED
    BY <1>1 DEF After, TypeOK

\* The Baseline with the postimages of the files that change and are recorded is the
\* record of the files once everything is published, if it was one before.
LEMMA PlanBaselineInv == ASSUME SwitchInv, NEW p \in Procs, PlanBaseline(p) PROVE SwitchInv'
  <1>1. pc[p] = "baseline" /\ pc[p] \in Locked /\ UNCHANGED <<layout, files, record, edited>>
    BY DEF PlanBaseline, Locked, Planning
  <1>2. PICK m : m = loc[p]
    OBVIOUS
  <1>3. PICK s : s = m.img
    OBVIOUS
  <1>4. /\ m \in Memory /\ s \in Seq(Images) /\ active = {} /\ lock = p /\ layout = "volumes"
        /\ ImagesSound(s) /\ Planned(s) /\ HolderInv("baseline", m)
    BY <1>1, <1>2, <1>3, OwnState DEF HolderInv, Planning, Memory
  <1>5. PICK b \in Baselines : b = files["baseline"]
    BY OwnState DEF TypeOK, Content, Files
  <1>6. b.rec \in Records /\ DOMAIN b.rec \subseteq Assets /\ \A f \in DOMAIN b.rec : b.rec[f] \in Texts
    BY <1>5 DEF Baselines, Records
  <1>7. edited \/ CoherentFiles(files)
    BY <1>4, OwnState DEF DiskInv, QuietSound, TypeOK
  <1>8. \A k \in DOMAIN s : /\ s[k].f \in Files \ {"baseline"} /\ s[k].pre \in Texts
                            /\ s[k].post \in Texts /\ (edited \/ files[s[k].f] = s[k].pre)
    <2>1. \A k \in DOMAIN s : s[k] \in Images
      BY <1>4
    <2> QED
      BY <1>4, <2>1 DEF Planned, ImagesSound, Content, Images
  <1> DEFINE bound == {k \in DOMAIN s : s[k].pre # s[k].post /\ s[k].f \in DOMAIN b.rec}
             New(f) == IF \E k \in bound : s[k].f = f
                       THEN s[CHOOSE k \in bound : s[k].f = f].post ELSE b.rec[f]
  <1>9. \A k \in bound : New(s[k].f) = s[k].post
    <2> SUFFICES ASSUME NEW k \in bound PROVE New(s[k].f) = s[k].post
      OBVIOUS
    <2>1. k = CHOOSE j \in bound : s[j].f = s[k].f
      BY <1>4 DEF ImagesSound
    <2> QED
      BY <2>1
  <1>10. \A f \in DOMAIN b.rec : (\A k \in bound : s[k].f # f) => New(f) = b.rec[f]
    OBVIOUS
  <1>11. \A f \in DOMAIN b.rec : New(f) \in Texts
    BY <1>6, <1>8, <1>9, <1>10
  \* With the record of a file that no bound image changes, the record is right.
  <1>12. ASSUME ~edited, NEW F, NEW f \in DOMAIN b.rec,
                \A k \in DOMAIN s : s[k].f = f => F[f] = s[k].post,
                (\A k \in DOMAIN s : s[k].f # f) => F[f] = files[f]
         PROVE  New(f) = F[f]
    <2>1. b.rec[f] = files[f]
      BY <1>5, <1>7, <1>12 DEF CoherentFiles
    <2>2. CASE \E k \in bound : s[k].f = f
      BY <1>9, <1>12, <2>2
    <2>3. CASE \A k \in bound : s[k].f # f
      <3>1. \A k \in DOMAIN s : s[k].f = f => s[k].pre = s[k].post
        BY <1>12, <2>3
      <3>2. F[f] = files[f]
        BY <1>8, <1>12, <3>1
      <3> QED
        BY <1>10, <2>1, <2>3, <3>2
    <2> QED
      BY <2>2, <2>3
  \* Root and configuration change together.
  <1>13. ASSUME ~edited, NEW F,
                \A k \in DOMAIN s : F[s[k].f] = s[k].post,
                \A f \in {"root", "config"} : (\A k \in DOMAIN s : s[k].f # f) => F[f] = files[f]
         PROVE  F["root"].say = F["config"].say
    <2>1. CASE Written(s) \cap {"root", "config"} = {}
      BY <1>7, <1>13, <2>1 DEF Written, CoherentFiles
    <2>2. CASE {"root", "config"} \subseteq Written(s)
      <3>1. PICK j \in DOMAIN s, k \in DOMAIN s : s[j].f = "root" /\ s[k].f = "config"
        BY <2>2 DEF Written
      <3>2. s[j].post.say = s[k].post.say
        BY <1>4, <2>2, <3>1 DEF Planned
      <3> QED
        BY <1>13, <3>1, <3>2
    <2> QED
      BY <1>4, <2>1, <2>2 DEF Planned
  <1> DEFINE rec == [f \in DOMAIN b.rec |-> New(f)]
             post == [b EXCEPT !.at = clock', !.rec = rec]
             im == Image("baseline", b, post)
             t == Append(s, im)
             l == [m EXCEPT !.img = t]
  <1>14. ASSUME Return(p), UNCHANGED <<clock, budget>> PROVE SwitchInv'
    BY <1>1, <1>14, OwnState, AnswerInv DEF TypeOK
  <1>15. ASSUME bound = {}, Continue(p, "intent"), UNCHANGED <<clock, budget>> PROVE SwitchInv'
    <2>1. ASSUME ~edited PROVE CoherentFiles(After(s))
      <3>1. After(s)["baseline"] = b
        BY <1>4, <1>5, <1>8, AfterIs DEF Files
      <3>2. \A f \in DOMAIN b.rec : b.rec[f] = After(s)[f]
        BY <1>4, <1>6, <1>10, <1>12, <1>15, <2>1, AfterIs DEF Files
      <3>3. After(s)["root"].say = After(s)["config"].say
        BY <1>4, <1>13, <2>1, AfterIs DEF Files, Assets
      <3> QED
        BY <3>1, <3>2, <3>3 DEF CoherentFiles
    <2>2. HolderInv("intent", m)
      BY <1>3, <1>4, <2>1 DEF HolderInv, Planning, Advancing
    <2> QED
      BY <1>1, <1>2, <1>4, <1>15, <2>2, OwnState, ContinueHolds, MoveInv
      DEF Locked, Planning, TypeOK
  <1>16. ASSUME Now, Hold(p, "intent", l) PROVE SwitchInv'
    <2>1. clock' \in Nat /\ budget' \in [plans : Nat, edits : Nat, stops : Nat, ticks : Nat]
      BY <1>16, OwnState, NowType
    <2>2. rec \in Records /\ DOMAIN rec = DOMAIN b.rec
      <3>1. rec \in [DOMAIN b.rec -> Texts]
        BY <1>11
      <3> QED
        BY <1>6, <3>1 DEF Records
    <2> HIDE DEF New, rec
    <2>3. post \in Baselines /\ post.rec = rec /\ post.ed = b.ed
      BY <2>1, <2>2 DEF Baselines
    <2> HIDE DEF post
    <2>4. im \in Images /\ im.f = "baseline" /\ im.pre = b /\ im.post = post
      BY <2>3 DEF Image, Images, Files
    <2> HIDE DEF im
    <2>5. /\ t \in Seq(Images) /\ DOMAIN t = 1..(Len(s) + 1) /\ DOMAIN s = 1..Len(s)
          /\ \A k \in DOMAIN s : t[k] = s[k]
          /\ t[Len(s) + 1] = im /\ Len(s) + 1 \in DOMAIN t /\ Len(s) + 1 \notin DOMAIN s
          /\ \A k \in DOMAIN t : k \in DOMAIN s \/ k = Len(s) + 1
      BY <1>4, <2>4
    <2> HIDE DEF t
    <2>6. l \in Memory /\ l.op = m.op /\ l.target = m.target /\ l.img = t
      BY <1>4, <2>5 DEF Memory
    <2> HIDE DEF l
    <2>7. ImagesSound(t)
      <3>1. \A k \in DOMAIN t : t[k].pre \in Content(t[k].f) /\ t[k].post \in Content(t[k].f)
        BY <1>4, <2>3, <2>4, <2>5 DEF ImagesSound, Content
      <3>2. \A j, k \in DOMAIN t : t[j].f = t[k].f => j = k
        BY <1>4, <1>8, <2>4, <2>5 DEF ImagesSound
      <3>3. ConfigRace \/ \A k \in DOMAIN t : t[k].post.ed = t[k].pre.ed
        BY <1>4, <2>3, <2>4, <2>5 DEF ImagesSound
      <3> QED
        BY <3>1, <3>2, <3>3 DEF ImagesSound
    <2>8. ASSUME ~edited PROVE CoherentFiles(After(t))
      <3>1. PICK F : F = After(t)
        OBVIOUS
      <3>2. /\ \A k \in DOMAIN s : F[s[k].f] = s[k].post
            /\ F["baseline"] = post
            /\ \A f \in Files \ {"baseline"} : (\A k \in DOMAIN s : s[k].f # f) => F[f] = files[f]
        BY <2>4, <2>5, <2>7, <3>1, AfterIs
      <3>3. \A f \in DOMAIN b.rec : New(f) = F[f]
        BY <1>6, <1>12, <2>8, <3>2 DEF Files, Assets
      <3>4. F["root"].say = F["config"].say
        BY <1>13, <2>8, <3>2 DEF Files, Assets
      <3>5. \A f \in DOMAIN b.rec : rec[f] = New(f)
        BY DEF rec
      <3> QED
        BY <2>2, <2>3, <3>1, <3>2, <3>3, <3>4, <3>5 DEF CoherentFiles
    <2>9. HolderInv("intent", l)
      BY <1>4, <2>6, <2>7, <2>8 DEF HolderInv, Planning, Advancing
    <2> QED
      BY <1>1, <1>4, <1>16, <2>1, <2>6, <2>9, MoveInv DEF Hold, Locked, Planning
  <1> QED
    BY ZenonT(40), <1>2, <1>3, <1>5, <1>14, <1>15, <1>16 DEF PlanBaseline

\* The intent is what was planned, and nothing else is pending.
LEMMA SaveIntentInv == ASSUME SwitchInv, NEW p \in Procs, SaveIntent(p) PROVE SwitchInv'
  <1>1. pc[p] = "intent" /\ pc[p] \in Locked /\ UNCHANGED <<layout, files, archive, ledger, edited>>
    BY DEF SaveIntent, Locked, Planning
  <1>2. PICK m : m = loc[p]
    OBVIOUS
  <1>3. /\ m \in Memory /\ active = {} /\ lock = p /\ layout = "volumes" /\ m.op \in Ops
        /\ ImagesSound(m.img) /\ (edited \/ CoherentFiles(After(m.img)))
    BY <1>1, <1>2, OwnState DEF HolderInv, Planning
  <1>4. clock' \in Nat /\ budget' \in [plans : Nat, edits : Nat, stops : Nat, ticks : Nat]
    BY OwnState, NowType DEF SaveIntent
  <1>5. PICK i : i = Intent(m, clock')
    OBVIOUS
  <1>6. i \in Intents /\ i.img = m.img
    BY <1>3, <1>4, <1>5 DEF Intent, Intents, Memory
  <1>7. PICK l : l = Resumed(m, i)
    OBVIOUS
  <1>8. l \in Memory /\ l.it = i
    BY <1>3, <1>6, <1>7, IdleMemory DEF Resumed, Memory
  <1>9. active' = {i} /\ Goto(p, "inspect") /\ loc' = [loc EXCEPT ![p] = l] /\ lock' = lock
    BY <1>2, <1>3, <1>5, <1>7 DEF SaveIntent, Hold
  <1>10. DiskInv'
    <2>1. edited' \/ CoherentFiles(After(i.img))'
      <3>1. After(m.img)' = After(m.img)
        BY <1>1 DEF After
      <3>2. CoherentFiles(After(m.img)) => CoherentFiles(After(m.img)')
        BY <3>1
      <3> QED
        BY <1>1, <1>3, <1>6, <3>2 DEF CoherentFiles
    <2>2. IntentsSound'
      BY <1>1, <1>3, <1>6, <1>9, <2>1 DEF IntentsSound
    <2> QED
      BY <1>1, <1>9, <2>2, OwnState DEF DiskInv, QuietSound, ArchiveSound
  <1>11. HolderInv("inspect", l)'
    BY <1>8, <1>9 DEF HolderInv, Planning
  <1> QED
    BY <1>1, <1>3, <1>4, <1>6, <1>8, <1>9, <1>10, <1>11, OwnState, HoldInv
    DEF Locked, Advancing, TypeOK

-----------------------------------------------------------------------------
(* advanceLocaleSwitch and advanceIndexRelocate.                           *)

\* What the invariant says while a command works on an intent.
LEMMA HolderState ==
    ASSUME SwitchInv, NEW p \in Procs, pc[p] \in Advancing
    PROVE  /\ lock = p /\ loc[p] \in Memory /\ loc[p].it \in Intents /\ active = {loc[p].it}
           /\ HolderInv(pc[p], loc[p]) /\ layout = "volumes"
           /\ loc[p].it.img \in Seq(Images) /\ ImagesSound(loc[p].it.img)
           /\ edited \/ CoherentFiles(After(loc[p].it.img))
  <1>1. pc[p] \in Locked
    BY DEF Locked
  <1>2. lock = p /\ HolderInv(pc[p], loc[p]) /\ loc[p] \in Memory /\ active = {loc[p].it}
    BY <1>1, OwnState DEF HolderInv
  <1>3. loc[p].it \in Intents /\ IntentsSound
    BY <1>2, OwnState DEF TypeOK, DiskInv
  <1> QED
    BY <1>2, <1>3 DEF IntentsSound, Intents

\* An inspection under the lock sees what a pending switch may have left.
LEMMA InspectInv == ASSUME SwitchInv, NEW p \in Procs, Inspect(p) PROVE SwitchInv'
  <1>1. /\ pc[p] = "inspect" /\ pc[p] \in Advancing
        /\ UNCHANGED <<layout, files, record, clock, edited, budget>>
    BY DEF Inspect, Advancing
  <1>2. ASSUME Return(p) PROVE SwitchInv'
    BY <1>1, <1>2, OwnState, AnswerInv DEF TypeOK
  <1>3. ASSUME Hold(p, "publish", [loc[p] EXCEPT !.pos = 1]) PROVE SwitchInv'
    <2>1. PICK l : l = [loc[p] EXCEPT !.pos = 1]
      OBVIOUS
    <2>2. l \in Memory /\ l.it = loc[p].it
      BY <2>1, OwnState DEF Memory
    <2>3. HolderInv("publish", l)
      BY <1>1, <2>2, HolderState DEF HolderInv, Planning
    <2> QED
      BY <1>1, <1>3, <2>1, <2>2, <2>3, HolderState, OwnState, MoveInv
      DEF Hold, Locked, Advancing, TypeOK
  <1> QED
    BY <1>2, <1>3 DEF Inspect

\* What Publish writes: a postimage over its preimage or over itself.
LEMMA PublishWrites ==
    ASSUME SwitchInv, NEW p \in Procs, Publish(p), files' # files
    PROVE  \E k \in DOMAIN loc[p].it.img :
               /\ loc[p].it.img[k].f \in Files
               /\ files[loc[p].it.img[k].f] = loc[p].it.img[k].pre
               /\ files' = [files EXCEPT ![loc[p].it.img[k].f] = loc[p].it.img[k].post]
  <1>1. PICK s : s = loc[p].it.img
    OBVIOUS
  <1>2. PICK k \in DOMAIN s : k = loc[p].pos
    BY <1>1 DEF Publish
  <1>3. pc[p] \in Advancing
    BY DEF Publish, Advancing
  <1>4. s \in Seq(Images)
    BY <1>1, <1>3, HolderState
  <1>5. s[k] \in Images
    BY <1>4
  <1>6. s[k].f \in Files
    BY <1>5 DEF Images
  <1>7. /\ files' = [files EXCEPT ![s[k].f] = s[k].post]
        /\ Classify(s[k]) = "postimage" \/ files[s[k].f] = s[k].pre
    BY <1>1, <1>2 DEF Publish
  <1>8. files[s[k].f] # s[k].post
    BY <1>6, <1>7, OwnState DEF TypeOK
  <1>9. Classify(s[k]) # "postimage"
    BY <1>8 DEF Classify
  <1> QED
    BY <1>1, <1>6, <1>7, <1>9

\* Publishing an image of the intent does not change where it leads.
LEMMA PublishInv == ASSUME SwitchInv, NEW p \in Procs, Publish(p) PROVE SwitchInv'
  <1>1. /\ pc[p] = "publish" /\ pc[p] \in Advancing
        /\ UNCHANGED <<layout, record, clock, edited, budget>>
    BY DEF Publish, Advancing
  <1>2. ASSUME Return(p), UNCHANGED files PROVE SwitchInv'
    BY <1>1, <1>2, OwnState, AnswerInv DEF TypeOK
  <1>3. ASSUME Hold(p, "publish", [loc[p] EXCEPT !.pos = @ + 1]) PROVE SwitchInv'
    <2>1. PICK l : l = [loc[p] EXCEPT !.pos = @ + 1]
      OBVIOUS
    <2>2. l \in Memory /\ l.it = loc[p].it
      BY <2>1, OwnState DEF Memory
    <2>3. CASE files' = files
      <3>1. HolderInv("publish", l)
        BY <1>1, <2>2, HolderState DEF HolderInv, Planning
      <3> QED
        BY <1>1, <1>3, <2>1, <2>2, <2>3, <3>1, HolderState, OwnState, MoveInv
        DEF Hold, Locked, Advancing, TypeOK
    <2>4. CASE files' # files
      <3>1. PICK s : s = loc[p].it.img
        OBVIOUS
      <3>2. PICK k \in DOMAIN s :
                s[k].f \in Files /\ files' = [files EXCEPT ![s[k].f] = s[k].post]
        BY <2>4, <3>1, PublishWrites
      <3>3. s \in Seq(Images) /\ ImagesSound(s) /\ s[k].post \in Content(s[k].f)
        BY <1>1, <3>1, HolderState DEF ImagesSound
      <3>4. /\ \A f \in Files : files'[f] = IF f = s[k].f THEN s[k].post ELSE files[f]
            /\ files' \in [Files -> Texts \cup Baselines] /\ \A f \in Files : files'[f] \in Content(f)
        BY <3>2, <3>3, OwnState DEF TypeOK, Content
      <3>5. After(s)' = After(s)
        BY <3>2, <3>4 DEF After, Written
      <3>6. HolderInv("publish", l)'
        BY <1>1, <2>2, HolderState DEF HolderInv, Planning, record
      <3>7. DiskInv'
        BY <1>1, <3>1, <3>5, HolderState, OwnState
        DEF DiskInv, IntentsSound, QuietSound, ArchiveSound, record
      <3> QED
        BY <1>1, <1>3, <2>1, <2>2, <3>4, <3>6, <3>7, HolderState, OwnState, HoldInv
        DEF Hold, Locked, Advancing, TypeOK, record
    <2> QED
      BY <2>3, <2>4
  <1> QED
    BY <1>2, <1>3 DEF Publish

\* All images are published when the command verifies.
LEMMA VerifyInv == ASSUME SwitchInv, NEW p \in Procs, Verify(p) PROVE SwitchInv'
  <1>1. /\ pc[p] = "publish" /\ pc[p] \in Advancing
        /\ UNCHANGED <<layout, files, record, clock, edited, budget>>
    BY DEF Verify, Advancing
  <1>2. ASSUME Return(p) PROVE SwitchInv'
    BY <1>1, <1>2, OwnState, AnswerInv DEF TypeOK
  <1>3. ASSUME \A k \in DOMAIN loc[p].it.img : Classify(loc[p].it.img[k]) = "postimage",
               Continue(p, "ledger")
        PROVE  SwitchInv'
    <2>1. Published(loc[p].it.img)
      BY <1>3 DEF Published, Classify
    <2>2. HolderInv("ledger", loc[p])
      BY <1>1, <2>1, HolderState DEF HolderInv, Planning
    <2> QED
      BY <1>1, <1>3, <2>2, HolderState, OwnState, ContinueHolds, MoveInv
      DEF Locked, Advancing, TypeOK
  <1> QED
    BY <1>2, <1>3 DEF Verify

\* The ledger has the switch before it is archived.
LEMMA EnsureLedgerInv == ASSUME SwitchInv, NEW p \in Procs, EnsureLedger(p) PROVE SwitchInv'
  <1>1. /\ pc[p] = "ledger" /\ pc[p] \in Advancing /\ Continue(p, "archive")
        /\ UNCHANGED <<layout, files, active, archive, clock, edited, budget>>
        /\ ledger' = ledger \cup {Identity(loc[p].it)}
    BY DEF EnsureLedger, Advancing
  <1>2. PICK l : l = loc[p]
    OBVIOUS
  <1>3. HolderInv("archive", l)'
    BY <1>1, <1>2, HolderState DEF HolderInv, Planning, Published
  <1>4. DiskInv'
    BY <1>1, OwnState DEF DiskInv, IntentsSound, QuietSound, ArchiveSound, After
  <1> QED
    BY <1>1, <1>2, <1>3, <1>4, HolderState, OwnState, ContinueHolds, HoldInv
    DEF Locked, Advancing, TypeOK

\* What is archived is the pending intent, and the ledger has it.
LEMMA ArchiveInv == ASSUME SwitchInv, NEW p \in Procs, Archive(p) PROVE SwitchInv'
  <1>1. /\ pc[p] = "archive" /\ pc[p] \in Advancing
        /\ UNCHANGED <<layout, files, active, ledger, clock, edited, budget>>
    BY DEF Archive, Advancing
  <1>2. ASSUME Return(p), UNCHANGED archive PROVE SwitchInv'
    BY <1>1, <1>2, OwnState, AnswerInv DEF TypeOK, record
  <1>3. ASSUME archive' = archive \cup {loc[p].it}, Continue(p, "unlink") PROVE SwitchInv'
    <2>1. Identity(loc[p].it) \in ledger
      BY <1>1, HolderState DEF HolderInv
    <2>2. PICK l : l = loc[p]
      OBVIOUS
    <2>3. HolderInv("unlink", l)'
      BY <1>1, <2>1, <2>2, HolderState DEF HolderInv, Planning, Published
    <2>4. DiskInv'
      BY <1>1, <1>3, <2>1, OwnState
      DEF DiskInv, IntentsSound, QuietSound, ArchiveSound, After
    <2> QED
      BY <1>1, <1>3, <2>2, <2>3, <2>4, HolderState, OwnState, ContinueHolds, HoldInv
      DEF Locked, Advancing, TypeOK
  <1> QED
    BY <1>2, <1>3 DEF Archive

\* When the intent goes, the files are what it leads to.
LEMMA UnlinkInv == ASSUME SwitchInv, NEW p \in Procs, Unlink(p) PROVE SwitchInv'
  <1>1. /\ pc[p] = "unlink" /\ pc[p] \in Advancing /\ Return(p)
        /\ UNCHANGED <<layout, files, archive, ledger, clock, edited, budget>>
    BY DEF Unlink, Advancing
  <1>2. active' = {}
    BY <1>1, HolderState DEF Unlink
  <1>3. edited \/ CoherentFiles(files)
    <2>1. edited \/ Published(loc[p].it.img)
      BY <1>1, HolderState DEF HolderInv
    <2> QED
      BY <1>1, <2>1, HolderState, OwnState, PublishedIsAfter
  <1>4. DiskInv'
    BY <1>1, <1>2, <1>3, OwnState DEF DiskInv, IntentsSound, QuietSound, ArchiveSound
  <1> QED
    BY <1>1, <1>2, <1>4, HolderState, OwnState, ReturnInv DEF TypeOK

-----------------------------------------------------------------------------
(* The world around the commands.                                          *)

\* What others put into a file is bytes of its kind.
LEMMA OutsideBytesType ==
    ASSUME SwitchInv, NEW f \in Files, NEW b \in OutsideBytes(f)
    PROVE  b \in Content(f)
  <1>1. TypeOK /\ files[f] \in Content(f)
    BY DEF SwitchInv, TypeOK
  <1>2. CASE b = [files[f] EXCEPT !.ed = @ + 1]
    <2>1. CASE f = "baseline"
      <3>1. PICK o \in Baselines : o = files[f]
        BY <1>1, <2>1 DEF Content
      <3> QED
        BY <1>2, <2>1, <3>1 DEF Content, Baselines
    <2>2. CASE f # "baseline"
      <3>1. PICK o \in Texts : o = files[f]
        BY <1>1, <2>2 DEF Content
      <3> QED
        BY <1>2, <2>2, <3>1 DEF Content, Texts
    <2> QED
      BY <2>1, <2>2
  <1>3. ASSUME f \in {"root", "config"}, NEW v \in Locales,
               b = [files[f] EXCEPT !.say = v, !.ed = @ + 1]
        PROVE  b \in Content(f)
    <2>1. PICK o \in Texts : o = files[f]
      BY <1>1, <1>3 DEF Content
    <2>2. b = [o EXCEPT !.say = v, !.ed = @ + 1]
      BY <1>3, <2>1
    <2>3. b = [say |-> v, ed |-> o.ed + 1] /\ o.ed \in Nat
      BY <2>2 DEF Texts
    <2>4. b \in Texts
      BY <2>3 DEF Texts
    <2>5. Content(f) = Texts
      BY <1>3 DEF Content
    <2> QED
      BY <2>4, <2>5
  <1>4. ASSUME NEW i \in active, NEW k \in DOMAIN i.img, i.img[k].f = f, b = i.img[k].pre
        PROVE  b \in Content(f)
    BY <1>4 DEF SwitchInv, DiskInv, IntentsSound, ImagesSound
  <1>5. ASSUME NEW i \in active, NEW g \in DOMAIN i.guards \cap {f}, b = i.guards[g]
        PROVE  b \in Content(f)
    <2>1. i.guards \in Guards
      BY <1>1 DEF TypeOK, Intents
    <2>2. CASE i.guards = <<>>
      BY <1>5, <2>2
    <2>3. CASE i.guards \in Records
      <3>1. g \in Assets /\ i.guards[g] \in Texts
        BY <1>5, <2>3 DEF Records
      <3> QED
        BY <1>5, <3>1 DEF Content, Assets
    <2> QED
      BY <2>1, <2>2, <2>3 DEF Guards
  <1> QED
    <2> DEFINE Restored(i) ==
                 {im.pre : im \in {i.img[k] : k \in {j \in DOMAIN i.img : i.img[j].f = f}}}
                 \cup {i.guards[g] : g \in DOMAIN i.guards \cap {f}}
    <2>1. \/ b = [files[f] EXCEPT !.ed = @ + 1]
          \/ f \in {"root", "config"} /\ \E v \in Locales : b = [files[f] EXCEPT !.say = v, !.ed = @ + 1]
          \/ \E i \in active : b \in Restored(i)
      BY DEF OutsideBytes
    <2>2. ASSUME NEW i \in active, b \in Restored(i) PROVE b \in Content(f)
      <3>1. \/ \E k \in DOMAIN i.img : i.img[k].f = f /\ b = i.img[k].pre
            \/ \E g \in DOMAIN i.guards \cap {f} : b = i.guards[g]
        BY <2>2
      <3> QED
        BY <1>4, <1>5, <3>1
    <2> QED
      BY <1>2, <1>3, <2>1, <2>2

\* After an edit nothing is promised of the files but that edits stay.
LEMMA OutsideEditInv ==
    ASSUME SwitchInv, NEW f \in Files, OutsideEdit(f) PROVE SwitchInv'
  <1>1. PICK b \in OutsideBytes(f) : files' = [files EXCEPT ![f] = b]
    BY DEF OutsideEdit
  <1>2. /\ UNCHANGED <<layout, record, clock, lock, pc, loc>> /\ edited' = TRUE
        /\ \A g \in Files : files'[g] = IF g = f THEN b ELSE files[g]
        /\ f = "config" => ConfigRace \/ \A p \in Procs : pc[p] # "load"
    BY <1>1 DEF OutsideEdit, proc, SwitchInv, TypeOK
  <1>3. TypeOK'
    <2>1. b \in Content(f)
      BY OutsideBytesType
    <2>2. budget' \in [plans : Nat, edits : Nat, stops : Nat, ticks : Nat]
      BY SpendType DEF OutsideEdit, SwitchInv
    <2> QED
      BY <1>1, <1>2, <2>1, <2>2 DEF SwitchInv, TypeOK, Content, record
  <1>4. DiskInv'
    BY <1>2 DEF SwitchInv, DiskInv, IntentsSound, QuietSound, ArchiveSound, record
  <1>5. ASSUME NEW p \in Procs PROVE ProcInv(p)'
    <2>1. PICK k, l : k = pc[p] /\ l = loc[p]
      OBVIOUS
    <2>2. ASSUME HolderInv(k, l), pc[p] = k PROVE HolderInv(k, l)'
      BY <1>2, <2>2 DEF HolderInv, Planned, record, Files
    <2> QED
      BY <1>2, <2>1, <2>2 DEF SwitchInv, ProcInv
  <1> QED
    BY <1>3, <1>4, <1>5 DEF SwitchInv

-----------------------------------------------------------------------------
(* The theorems.                                                           *)

\* The files of the start are coherent.
LEMMA InitInv == ASSUME Init PROVE SwitchInv
  <1> DEFINE a == [root |-> Bytes(First), meta |-> Bytes(None), code |-> Bytes("machine"),
                   config |-> Bytes(First)]
  <1>1. PICK B \in Bindings :
            files = [f \in Files |->
                        IF f = "baseline" THEN [rec |-> [b \in B |-> a[b]], at |-> 0, ed |-> 0]
                        ELSE a[f]]
    BY DEF Init
  <1>2. \A f \in Files \ {"baseline"} : a[f] \in Texts
    BY SwitchConstants DEF Bytes, Texts, Files, Assets
  <1>3. a["root"].say = a["config"].say
    OBVIOUS
  <1> HIDE DEF a
  <1>4. PICK r : r = [b \in B |-> a[b]]
    OBVIOUS
  <1>5. B \subseteq Assets /\ B \subseteq Files \ {"baseline"}
    BY SwitchConstants DEF Files, Assets
  <1>6. r \in Records
    <2>1. r \in [B -> Texts]
      BY <1>2, <1>4, <1>5
    <2> QED
      BY <1>5, <2>1 DEF Records
  <1>7. /\ \A f \in Files \ {"baseline"} : files[f] = a[f]
        /\ files["baseline"] = [rec |-> r, at |-> 0, ed |-> 0]
    BY <1>1, <1>4 DEF Files
  <1>8. files["baseline"] \in Baselines
    BY <1>6, <1>7 DEF Baselines
  <1>9. TypeOK
    <2>1. files \in [Files -> Texts \cup Baselines] /\ \A f \in Files : files[f] \in Content(f)
      BY <1>1, <1>2, <1>7, <1>8 DEF Content
    <2> QED
      BY <2>1, SwitchConstants, IdleMemory DEF Init, TypeOK
  <1>10. CoherentFiles(files)
    <2>1. "root" \in Files \ {"baseline"} /\ "config" \in Files \ {"baseline"}
      BY DEF Files, Assets
    <2> QED
      BY <1>3, <1>4, <1>5, <1>7, <2>1 DEF CoherentFiles
  <1>11. DiskInv
    BY <1>10 DEF Init, DiskInv, IntentsSound, QuietSound, ArchiveSound
  <1>12. \A p \in Procs : ProcInv(p)
    BY SwitchConstants DEF Init, ProcInv, Locked, Planning, Advancing
  <1> QED
    BY <1>9, <1>11, <1>12 DEF SwitchInv

\* The invariant the other theorems rest on.
THEOREM SwitchInvariant == Spec => []SwitchInv
  <1>1. SwitchInv /\ [Next]_vars => SwitchInv'
    <2> SUFFICES ASSUME SwitchInv, [Next]_vars PROVE SwitchInv'
      OBVIOUS
    <2>1. CASE UNCHANGED vars
      <3>1. TypeOK' /\ DiskInv'
        BY <2>1, SameDisk DEF vars, record, proc, SwitchInv, TypeOK
      <3>2. ASSUME NEW p \in Procs PROVE ProcInv(p)'
        <4>1. PICK k, l : k = pc[p] /\ l = loc[p]
          OBVIOUS
        <4>2. HolderInv(k, l) => HolderInv(k, l)'
          BY <2>1 DEF vars, record, proc, HolderInv, Planned, Published, After
        <4> QED
          BY <2>1, <4>1, <4>2 DEF vars, record, proc, SwitchInv, ProcInv
      <3> QED
        BY <3>1, <3>2 DEF SwitchInv
    <2>2. ASSUME NEW p \in Procs, Step(p) PROVE SwitchInv'
      BY <2>2, LockInv, PlanLocaleInv, SwitchConfigOnlyInv, LoadLocaleInv, PlanRelocateInv,
         PlanBaselineInv, SaveIntentInv, InspectInv, PublishInv, VerifyInv, EnsureLedgerInv,
         ArchiveInv, UnlinkInv DEF Step
    <2>3. ASSUME NEW p \in Procs, NEW target \in Locales, BeginLocale(p, target) PROVE SwitchInv'
      BY <2>3, BeginInv DEF BeginLocale, Targets, Ops
    <2>4. ASSUME NEW p \in Procs, BeginRelocate(p) PROVE SwitchInv'
      BY <2>4, BeginInv DEF BeginRelocate, Targets, Ops
    <2> QED
      BY <2>1, <2>2, <2>3, <2>4, LockTimeoutInv, StopInv, OutsideEditInv DEF Next
  <1> QED
    BY <1>1, InitInv, PTL DEF Spec

\* One intent at a time, a ledger event for each archived one, and, while nothing is
\* pending and nobody else has edited anything, one Locale and a Baseline that records
\* what is there.
THEOREM CoherentAlways == Spec => []Coherent
  <1>1. SwitchInv => Coherent
    <2> SUFFICES ASSUME SwitchInv PROVE Coherent
      OBVIOUS
    <2>1. Cardinality(active) <= 1
      <3>1. CASE active = {}
        BY <3>1, FS_EmptySet
      <3>2. ASSUME NEW i \in active PROVE Cardinality(active) <= 1
        <4>1. active = {i}
          BY DEF SwitchInv, DiskInv, IntentsSound
        <4> QED
          <5>1. Cardinality({i}) = 1
            BY FS_Singleton
          <5> QED
            BY <4>1, <5>1
      <3> QED
        BY <3>1, <3>2
    <2> QED
      BY <2>1 DEF SwitchInv, DiskInv, QuietSound, ArchiveSound, CoherentFiles, Coherent
  <1> QED
    BY <1>1, SwitchInvariant, PTL

\* A switch never undoes an edit, provided the configuration is not edited between the
\* two reads that a plan makes of it.
THEOREM EditsKeptAlways == ~ConfigRace => (Spec => EditsKept)
  <1> SUFFICES ASSUME ~ConfigRace PROVE Spec => EditsKept
    OBVIOUS
  <1>1. SwitchInv /\ [Next]_vars =>
            [budget'.edits = budget.edits => \A f \in Files : files'[f].ed = files[f].ed]_vars
    <2> SUFFICES ASSUME SwitchInv, Next, budget'.edits = budget.edits, files' # files,
                        NEW f \in Files
                 PROVE  files'[f].ed = files[f].ed
      OBVIOUS
    <2>1. ASSUME NEW g \in Files, OutsideEdit(g) PROVE FALSE
      BY <2>1 DEF OutsideEdit, Spend, SwitchInv, TypeOK
    <2>2. ASSUME NEW p \in Procs, SwitchConfigOnly(p) PROVE files'[f].ed = files[f].ed
      <3>1. pc[p] = "load" /\ pc[p] \in Locked
        BY <2>2 DEF SwitchConfigOnly, Locked, Planning
      <3>2. loc[p].cfg \in Texts /\ loc[p].cfg.ed = files["config"].ed
        BY <3>1, OwnState DEF HolderInv
      <3>3. PICK c : c = [loc[p].cfg EXCEPT !.say = loc[p].target]
        OBVIOUS
      <3>4. c.ed = files["config"].ed
        BY <3>2, <3>3 DEF Texts
      <3>5. files' = [files EXCEPT !["config"] = c]
        BY <2>2, <3>3 DEF SwitchConfigOnly
      <3> QED
        BY <3>4, <3>5, OwnState DEF TypeOK
    <2>3. ASSUME NEW p \in Procs, Publish(p) PROVE files'[f].ed = files[f].ed
      <3>1. PICK s : s = loc[p].it.img
        OBVIOUS
      <3>2. PICK k \in DOMAIN s :
                /\ s[k].f \in Files /\ files[s[k].f] = s[k].pre
                /\ files' = [files EXCEPT ![s[k].f] = s[k].post]
        BY <2>3, <3>1, PublishWrites
      <3>3. pc[p] \in Advancing
        BY <2>3 DEF Publish, Advancing
      <3>4. s[k].post.ed = s[k].pre.ed
        BY <3>1, <3>3, HolderState DEF ImagesSound
      <3> QED
        BY <3>2, <3>4, OwnState DEF TypeOK
    <2> QED
      BY <2>1, <2>2, <2>3
      DEF Next, Step, BeginLocale, BeginRelocate, Begin, LockTimeout, Stop, Lock, PlanLocale,
          LoadLocale, PlanRelocate, PlanBaseline, SaveIntent, Inspect, Verify, EnsureLedger,
          Archive, Unlink
  <1> QED
    BY <1>1, SwitchInvariant, PTL DEF Spec, EditsKept
=============================================================================
