------------------------ MODULE OverviewSessionProofs ------------------------
(***************************************************************************)
(* What the refresh session promises to Hosts, for every number of         *)
(* requests, compaction events and versions of the index: the loop breaker *)
(* of interrupted reloads and the proof behind a reliable receipt.  Which  *)
(* deliveries the store has evicted does not matter for any of it.  And    *)
(* what the store of retained deliveries promises for every limit: that it *)
(* never exceeds one, and that its byte count is what its entries weigh.   *)
(***************************************************************************)
EXTENDS OverviewSession, FiniteSetTheorems, SequenceTheorems, WellFoundedInduction, TLAPS

Halfs == [confirm : {"none", "yes", "no"}, report : {"none", "pass", "partial"},
          body : Bodies \cup {None}]
Evidence == [confirmed : BOOLEAN, report : Halfs]
Attestations == [provided : BOOLEAN, integrity : {"unconfirmed", "confirmed", "incomplete"},
                 grade : {"none", "pass", "partial", "fail"}]
Receipts == [body : Bodies, generation : Nat, reliable : BOOLEAN]
Attempts == [body : Bodies, tokens : Nat]
Sessions == [established : BOOLEAN, generation : Nat, last : Receipts \cup {None},
             pending : SUBSET Events, consumed : SUBSET Events, attempt : Attempts \cup {None},
             capacity : Nat \cup {None}, evidence : [Bodies -> Evidence],
             snapshot : [Bodies -> Versions \cup {None}]]
Guards == [index : Versions, source : Versions]
Deliveries == [owner : Hosts, body : Bodies, guard : Guards, aligned : BOOLEAN, generation : Nat,
               bytes : Int, proof : Int, complete : BOOLEAN, evidence : Evidence]
Cursors == [id : Nat, body : Bodies]
Places == {"idle", "live", "lookup", "proof", "reserve", "evaluate", "postflight", "record"}
Requests == [pc : Places, kind : {"check", "fresh", "next", "proof"}, scope : {"all", "code"},
             event : Events \cup {None}, adopt : BOOLEAN, half : Halfs, cursor : Cursors \cup {None},
             index : Versions, source : Versions, id : Nat, att : Attestations]
Tellings == [declared : SUBSET Events, confirmed : SUBSET Bodies, passed : SUBSET Bodies,
             governed : SUBSET Bodies, refused : SUBSET Bodies, failed : Nat \cup {None},
             adopted : BOOLEAN, retried : BOOLEAN]

\* The states of the variables, but for the store, which the session does not depend on.
TypeOK ==
    /\ repo \in Guards
    /\ session \in Sessions
    /\ delivery \in Seq(Deliveries)
    /\ req \in [Procs -> Requests]
    /\ holds \in [Hosts -> [cursors : SUBSET Cursors, bodies : SUBSET Bodies]]
    /\ told \in Tellings

-----------------------------------------------------------------------------
(* The inductive invariant.  Its parts take the history as an argument,    *)
(* because a step moves it on together with the session.                   *)

\* What a Host said of a body is on record.
HalfSound(half, t) ==
    /\ half.confirm = "yes" => half.body \in t.confirmed
    /\ half.report = "pass" => half.body \in t.passed

EvidenceSound(ev, body, t) ==
    /\ ev.confirmed => body \in t.confirmed
    /\ ev.report.report = "pass" => ev.report.body \in t.passed

AttestationSound(att, body, t) ==
    /\ att.integrity = "confirmed" => body \in t.confirmed
    /\ att.grade = "pass" => body \in t.passed

\* An open reload waits for a compaction and is smaller than the capacity verdict.
LoopBroken(s) ==
    s.attempt # None => /\ s.pending # {}
                        /\ s.capacity # None => s.attempt.tokens < s.capacity

\* The session knows no event that nobody declared, and every declared one while
\* they are fewer than it remembers.
EventsKnown(s, t) ==
    /\ IsFiniteSet(t.declared) /\ s.pending \cup s.consumed \subseteq t.declared
    /\ s.pending \cap s.consumed = {}
    /\ Cardinality(t.declared) < MaxConsumed => t.declared \subseteq s.pending \cup s.consumed

\* The verdict is the smallest reload that was interrupted, until a Host is known
\* to have held as much.
VerdictSound(s, t) ==
    /\ s.capacity # None => t.failed # None
    /\ t.failed # None => HeldOnce(t) \/ s.capacity = t.failed

\* Bodies that were bound under aligned governance, delivered or refused.
BoundAligned(t) == t.governed \cup t.refused

\* The session: its events and its verdict are what the history says, a body whose
\* snapshot is its own version was bound aligned, and a reliable receipt is proven.
SessionSound(s, t) ==
    /\ s \in Sessions /\ t \in Tellings
    /\ LoopBroken(s) /\ EventsKnown(s, t) /\ VerdictSound(s, t)
    /\ \A b \in Bodies : EvidenceSound(s.evidence[b], b, t)
    /\ \A b \in Bodies : s.snapshot[b] = b.index => b \in BoundAligned(t)
    /\ s.last # None /\ ~t.adopted /\ s.last.reliable =>
           s.last.body \in t.confirmed \cap t.passed \cap BoundAligned(t)

DeliveriesSound(ds, t) ==
    \A id \in DOMAIN ds : /\ EvidenceSound(ds[id].evidence, ds[id].body, t)
                          /\ ds[id].aligned => ds[id].body \in BoundAligned(t)

\* A request names a delivery that was made, and what it carries is on record.
RequestSound(r, ds, t) ==
    /\ HalfSound(r.half, t)
    /\ r.pc = "lookup" => r.cursor \in Cursors /\ r.cursor.id \in DOMAIN ds
    /\ r.kind = "next" => r.cursor \in Cursors
    /\ r.pc \notin {"idle", "live"} => ~Fresh(r)
    /\ r.pc \in {"reserve", "evaluate", "postflight", "record"} => r.id \in DOMAIN ds
    /\ r.pc \in {"postflight", "record"} => AttestationSound(r.att, ds[r.id].body, t)

CursorsSound == \A h \in Hosts : \A c \in holds[h].cursors : c.id = 0 \/ c.id \in DOMAIN delivery

OverviewInv ==
    /\ TypeOK /\ SessionSound(session, told) /\ DeliveriesSound(delivery, told)
    /\ \A p \in Procs : RequestSound(req[p], delivery, told)
    /\ CursorsSound /\ RetryNeverInterrupts

-----------------------------------------------------------------------------
(* The operators of the session.                                           *)

\* History only grows.
Grows(t, u) ==
    /\ t.confirmed \subseteq u.confirmed /\ t.passed \subseteq u.passed
    /\ BoundAligned(t) \subseteq BoundAligned(u)
    /\ t.adopted => u.adopted

\* What a request asks for is a body, and a body has a weight.
LEMMA BodyType ==
    /\ \A r \in Requests : Current(r) \in Bodies /\ Current(r).index = r.index
    /\ \A b \in Bodies : Tokens(b) \in Nat /\ b.index \in Versions
  BY OverviewConstants DEF Current, Bodies, Requests, Tokens

\* The smaller of two token counts.
LEMMA MinType ==
    ASSUME NEW a \in Nat, NEW b \in Nat
    PROVE  Min({a, b}) \in Nat /\ Min({a, b}) <= a /\ Min({a, b}) <= b
  <1>1. \E x \in {a, b} : \A y \in {a, b} : x =< y
    OBVIOUS
  <1> QED
    BY <1>1 DEF Min

\* An adopted receipt is from an earlier server: nothing is claimed of it.
LEMMA AdoptSound ==
    ASSUME NEW s \in Sessions, NEW r \in Requests
    PROVE  /\ Adopt(s, r) \in Sessions
           /\ Adopt(s, r).pending = s.pending /\ Adopt(s, r).consumed = s.consumed
           /\ Adopt(s, r).attempt = s.attempt /\ Adopt(s, r).capacity = s.capacity
           /\ Adopt(s, r).evidence = s.evidence /\ Adopt(s, r).snapshot = s.snapshot
           /\ ~(r.adopt /\ ~s.established) => Adopt(s, r).last = s.last
  <1>1. PICK receipt : receipt = [body |-> Current(r), generation |-> 1, reliable |-> TRUE]
    OBVIOUS
  <1>2. receipt \in Receipts
    BY <1>1, BodyType DEF Receipts
  <1>3. CASE r.adopt /\ ~s.established
    <2>1. PICK s1 : s1 = [s EXCEPT !.established = TRUE, !.generation = 1, !.last = receipt]
      OBVIOUS
    <2>2. Adopt(s, r) = s1
      BY <1>1, <1>3, <2>1 DEF Adopt
    <2>3. /\ s1 \in Sessions /\ s1.pending = s.pending /\ s1.consumed = s.consumed
          /\ s1.attempt = s.attempt /\ s1.capacity = s.capacity
          /\ s1.evidence = s.evidence /\ s1.snapshot = s.snapshot
      BY <1>2, <2>1 DEF Sessions
    <2> QED
      BY <1>3, <2>2, <2>3
  <1>4. CASE ~(r.adopt /\ ~s.established)
    BY <1>4 DEF Adopt
  <1> QED
    BY <1>3, <1>4

\* A compaction that interrupts a reload closes it, and the verdict only gets smaller.
LEMMA DeclarationSound ==
    ASSUME NEW s \in Sessions, NEW event, LoopBroken(s)
    PROVE  /\ NoteCompactionDeclaration(s, event) \in Sessions
           /\ LoopBroken(NoteCompactionDeclaration(s, event))
           /\ NoteCompactionDeclaration(s, event).pending = s.pending
           /\ NoteCompactionDeclaration(s, event).consumed = s.consumed
           /\ NoteCompactionDeclaration(s, event).evidence = s.evidence
           /\ NoteCompactionDeclaration(s, event).snapshot = s.snapshot
           /\ NoteCompactionDeclaration(s, event).last = s.last
  <1>1. CASE Interrupts(s, event)
    <2>1. PICK c : c = IF s.capacity = None THEN s.attempt.tokens
                       ELSE Min({s.capacity, s.attempt.tokens})
      OBVIOUS
    <2>2. s.attempt \in Attempts
      BY <1>1 DEF Interrupts, Sessions
    <2>3. s.attempt.tokens \in Nat
      BY <2>2 DEF Attempts
    <2>4. s.capacity = None \/ s.capacity \in Nat
      BY DEF Sessions
    <2>5. c \in Nat
      BY <2>1, <2>3, <2>4, MinType
    <2>6. NoteCompactionDeclaration(s, event) = [s EXCEPT !.capacity = c, !.attempt = None]
      BY <1>1, <2>1 DEF NoteCompactionDeclaration
    <2> QED
      BY <2>5, <2>6 DEF Sessions, LoopBroken
  <1>2. CASE ~Interrupts(s, event)
    BY <1>2 DEF NoteCompactionDeclaration
  <1> QED
    BY <1>1, <1>2

\* A declared event is pending from now on, unless it was consumed before.
LEMMA HostReasonsSound ==
    ASSUME NEW s \in Sessions, NEW event \in Events \cup {None}, LoopBroken(s),
           s.pending \cap s.consumed = {}
    PROVE  /\ AddHostReasons(s, event) \in Sessions /\ LoopBroken(AddHostReasons(s, event))
           /\ s.pending \cup s.consumed \cup ({event} \ {None})
                  = AddHostReasons(s, event).pending \cup AddHostReasons(s, event).consumed
           /\ AddHostReasons(s, event).pending \cap AddHostReasons(s, event).consumed = {}
           /\ AddHostReasons(s, event).evidence = s.evidence
           /\ AddHostReasons(s, event).snapshot = s.snapshot
           /\ AddHostReasons(s, event).capacity = s.capacity
           /\ AddHostReasons(s, event).last = s.last
  <1>1. CASE event \in {None} \cup s.consumed
    BY <1>1 DEF AddHostReasons
  <1>2. CASE event \notin {None} \cup s.consumed
    <2>1. AddHostReasons(s, event) = [s EXCEPT !.pending = s.pending \cup {event}]
      BY <1>2 DEF AddHostReasons
    <2> QED
      BY <1>2, <2>1 DEF Sessions, LoopBroken
  <1> QED
    BY <1>1, <1>2

\* Two finite sets together, and how many they are when they are disjoint.
LEMMA FiniteUnion ==
    ASSUME NEW S, NEW T, IsFiniteSet(S), IsFiniteSet(T)
    PROVE  /\ IsFiniteSet(S \cup T)
           /\ S \cap T = {} => Cardinality(S \cup T) = Cardinality(S) + Cardinality(T)
  <1>1. /\ IsFiniteSet(S \cup T)
        /\ Cardinality(S \cup T) = Cardinality(S) + Cardinality(T) - Cardinality(S \cap T)
    BY FS_Union, Zenon
  <1>2. Cardinality(S) \in Nat /\ Cardinality(T) \in Nat
    BY FS_CardinalityType
  <1>3. S \cap T = {} => Cardinality(S \cap T) = 0
    BY FS_EmptySet
  <1> QED
    BY <1>1, <1>2, <1>3

\* One more declared event: what is known of the events stays known.
LEMMA EventsGrow ==
    ASSUME NEW s, NEW t, EventsKnown(s, t), NEW s1, NEW u, NEW E,
           IsFiniteSet(E), u.declared = t.declared \cup E,
           s.pending \cup s.consumed \cup E = s1.pending \cup s1.consumed,
           s1.pending \cap s1.consumed = {}
    PROVE  EventsKnown(s1, u)
  <1>1. IsFiniteSet(u.declared)
    BY FiniteUnion DEF EventsKnown
  <1>2. t.declared \subseteq u.declared
    OBVIOUS
  <1>3. /\ Cardinality(t.declared) <= Cardinality(u.declared)
        /\ Cardinality(t.declared) \in Nat /\ Cardinality(u.declared) \in Nat
    BY <1>1, <1>2, FS_Subset, FS_CardinalityType
  <1>4. Cardinality(u.declared) < MaxConsumed => t.declared \subseteq s.pending \cup s.consumed
    BY <1>3, OverviewConstants DEF EventsKnown
  <1>5. s1.pending \cup s1.consumed \subseteq u.declared
    BY DEF EventsKnown
  <1> QED
    BY <1>1, <1>4, <1>5 DEF EventsKnown

\* The smallest of what failed before and of a reload that fails now.
Failed(t, s, fails) ==
    IF ~fails THEN t.failed
    ELSE IF t.failed = None THEN s.attempt.tokens ELSE Min({t.failed, s.attempt.tokens})

\* A Host that held as much as failed before held as much as fails now.
LEMMA HeldLess ==
    ASSUME NEW t \in Tellings, NEW u, HeldOnce(t), t.confirmed \subseteq u.confirmed,
           t.failed \in Nat, u.failed \in Nat, u.failed <= t.failed
    PROVE  HeldOnce(u)
  <1>1. PICK b \in t.confirmed : b.scope = "all" /\ Tokens(b) >= t.failed
    BY DEF HeldOnce
  <1>2. Tokens(b) \in Nat
    BY BodyType DEF Tellings
  <1>3. Tokens(b) >= u.failed
    BY <1>1, <1>2
  <1> QED
    BY <1>1, <1>3 DEF HeldOnce

\* The verdict follows the history through a declaration that interrupts, or does not.
LEMMA VerdictKept ==
    ASSUME NEW s \in Sessions, NEW t \in Tellings, NEW u \in Tellings, VerdictSound(s, t),
           t.confirmed \subseteq u.confirmed, NEW event,
           u.failed = Failed(t, s, Interrupts(s, event))
    PROVE  VerdictSound(NoteCompactionDeclaration(s, event), u)
  <1>1. CASE Interrupts(s, event)
    <2>1. PICK c : c = IF s.capacity = None THEN s.attempt.tokens
                       ELSE Min({s.capacity, s.attempt.tokens})
      OBVIOUS
    <2>2. s.attempt \in Attempts
      BY <1>1 DEF Interrupts, Sessions
    <2>3. s.attempt.tokens \in Nat
      BY <2>2 DEF Attempts
    <2>4. NoteCompactionDeclaration(s, event).capacity = c
      BY <1>1, <2>1 DEF NoteCompactionDeclaration, Sessions
    <2>5. u.failed = IF t.failed = None THEN s.attempt.tokens ELSE Min({t.failed, s.attempt.tokens})
      BY <1>1 DEF Failed
    <2>6. t.failed # None => t.failed \in Nat
      BY DEF Tellings
    <2>7. u.failed \in Nat /\ u.failed # None
      <3>1. u.failed \in Nat
        BY <2>3, <2>5, <2>6, MinType
      <3> QED
        BY <3>1, OverviewConstants
    <2>8. CASE HeldOnce(t) /\ t.failed # None
      <3>1. u.failed <= t.failed
        BY <2>3, <2>5, <2>6, <2>8, MinType
      <3> QED
        BY <2>4, <2>6, <2>7, <2>8, <3>1, HeldLess DEF VerdictSound
    <2>9. CASE t.failed # None /\ s.capacity = t.failed
      BY <2>1, <2>4, <2>5, <2>7, <2>9 DEF VerdictSound
    <2>10. CASE t.failed = None
      BY <2>1, <2>4, <2>5, <2>7, <2>10 DEF VerdictSound
    <2> QED
      BY <2>8, <2>9, <2>10 DEF VerdictSound
  <1>2. CASE ~Interrupts(s, event)
    <2>1. NoteCompactionDeclaration(s, event) = s /\ u.failed = t.failed
      BY <1>2 DEF NoteCompactionDeclaration, Failed
    <2>2. HeldOnce(t) => HeldOnce(u)
      BY <2>1 DEF HeldOnce
    <2> QED
      BY <2>1, <2>2 DEF VerdictSound
  <1> QED
    BY <1>1, <1>2

\* An evaluation takes in what the request declares.
LEMMA EvaluateSound ==
    ASSUME NEW s, NEW t, NEW u \in Tellings, NEW r \in Requests, SessionSound(s, t), Grows(t, u),
           u.declared = t.declared \cup ({r.event} \ {None}),
           u.failed = Failed(t, s, Interrupts(s, r.event)),
           r.adopt /\ ~s.established => u.adopted
    PROVE  SessionSound(Evaluate(s, r), u)
  <1>1. PICK s1 : s1 = Adopt(s, r)
    OBVIOUS
  <1>2. PICK s2 : s2 = NoteCompactionDeclaration(s1, r.event)
    OBVIOUS
  <1>3. PICK s3 : s3 = AddHostReasons(s2, r.event)
    OBVIOUS
  <1>4. s3 = Evaluate(s, r) /\ r.event \in Events \cup {None}
    BY <1>1, <1>2, <1>3 DEF Evaluate, Requests
  <1>5. /\ s1 \in Sessions /\ LoopBroken(s1) /\ VerdictSound(s1, t)
        /\ s1.pending = s.pending /\ s1.consumed = s.consumed /\ s1.attempt = s.attempt
        /\ s1.evidence = s.evidence /\ s1.snapshot = s.snapshot
        /\ u.adopted \/ s1.last = s.last
    BY <1>1, AdoptSound DEF SessionSound, LoopBroken, VerdictSound
  <1>6. u.failed = Failed(t, s1, Interrupts(s1, r.event))
    BY <1>5 DEF Failed, Interrupts
  <1>7. /\ s2 \in Sessions /\ LoopBroken(s2)
        /\ s2.pending = s.pending /\ s2.consumed = s.consumed
        /\ s2.evidence = s.evidence /\ s2.snapshot = s.snapshot
        /\ u.adopted \/ s2.last = s.last
    BY <1>2, <1>5, DeclarationSound
  <1>8. VerdictSound(s2, u)
    BY <1>2, <1>5, <1>6, VerdictKept DEF SessionSound, Grows
  <1>9. PICK e \in Events \cup {None} : e = r.event /\ s3 = AddHostReasons(s2, e)
    BY <1>3, <1>4
  <1>10. /\ s3 \in Sessions /\ LoopBroken(s3)
         /\ s2.pending \cup s2.consumed \cup ({e} \ {None}) = s3.pending \cup s3.consumed
         /\ s3.pending \cap s3.consumed = {} /\ s3.capacity = s2.capacity
         /\ s3.evidence = s2.evidence /\ s3.snapshot = s2.snapshot /\ s3.last = s2.last
    <2>1. s2.pending \cap s2.consumed = {}
      BY <1>7 DEF SessionSound, EventsKnown
    <2> QED
      BY <1>7, <1>9, <2>1, HostReasonsSound
  <1>11. EventsKnown(s3, u)
    <2>1. PICK E : E = {e} \ {None}
      OBVIOUS
    <2>2. IsFiniteSet(E)
      <3>1. IsFiniteSet({e})
        BY FS_Singleton
      <3> QED
        BY <2>1, <3>1, FS_Subset
    <2>3. EventsKnown(s, t) /\ u.declared = t.declared \cup E
      BY <1>9, <2>1 DEF SessionSound
    <2>4. s.pending \cup s.consumed \cup E = s3.pending \cup s3.consumed
      BY <1>7, <1>10, <2>1
    <2> QED
      BY <1>10, <2>2, <2>3, <2>4, EventsGrow
  <1>12. VerdictSound(s3, u)
    BY <1>8, <1>10 DEF VerdictSound
  <1>13. s3.evidence = s.evidence /\ s3.snapshot = s.snapshot /\ (u.adopted \/ s3.last = s.last)
    BY <1>7, <1>10
  <1> QED
    BY <1>4, <1>10, <1>11, <1>12, <1>13 DEF SessionSound, EvidenceSound, Grows

\* What is consumed was pending or consumed before, and none is forgotten while
\* the declared events are fewer than the session remembers.
LEMMA ConsumedSound ==
    ASSUME NEW s, NEW t, s \in Sessions, EventsKnown(s, t), NEW C \in ConsumedAfter(s)
    PROVE  /\ C \subseteq s.pending \cup s.consumed
           /\ Cardinality(t.declared) < MaxConsumed => C = s.pending \cup s.consumed
  <1>1. PICK n : n = Cardinality(s.consumed)
    OBVIOUS
  <1>2. PICK k : k = Cardinality(s.pending)
    OBVIOUS
  <1>3. C \in IF n + k <= MaxConsumed THEN {s.consumed \cup s.pending}
              ELSE {S \in SUBSET s.pending : Cardinality(S) = ((n + k - 1) % MaxConsumed) + 1}
    BY <1>1, <1>2 DEF ConsumedAfter
  <1>4. C \subseteq s.pending \cup s.consumed
    <2>1. CASE n + k <= MaxConsumed
      BY <1>3, <2>1
    <2>2. CASE ~(n + k <= MaxConsumed)
      <3>1. C \in SUBSET s.pending
        BY <1>3, <2>2
      <3> QED
        BY <3>1
    <2> QED
      BY <2>1, <2>2
  <1>5. ASSUME Cardinality(t.declared) < MaxConsumed PROVE C = s.pending \cup s.consumed
    <2>1. IsFiniteSet(t.declared) /\ s.pending \cup s.consumed \subseteq t.declared
      BY DEF EventsKnown
    <2>2. IsFiniteSet(s.pending) /\ IsFiniteSet(s.consumed)
      BY <2>1, FS_Subset
    <2>3. s.consumed \cap s.pending = {}
      BY DEF EventsKnown
    <2>4. n \in Nat /\ k \in Nat
      BY <1>1, <1>2, <2>2, FS_CardinalityType
    <2>5. Cardinality(s.consumed \cup s.pending) = n + k
      BY <1>1, <1>2, <2>2, <2>3, FiniteUnion
    <2>6. s.consumed \cup s.pending \subseteq t.declared
      BY <2>1
    <2>7. n + k <= Cardinality(t.declared) /\ Cardinality(t.declared) \in Nat
      BY <2>1, <2>5, <2>6, FS_Subset, FS_CardinalityType
    <2>8. n + k <= MaxConsumed
      BY <1>5, <2>4, <2>7, OverviewConstants
    <2> QED
      BY <1>3, <2>8
  <1> QED
    BY <1>4, <1>5

\* A delivery, proven or not, or a stop settles what was pending.
LEMMA MarkSound ==
    ASSUME NEW s, NEW t, SessionSound(s, t), NEW C \in ConsumedAfter(s),
           NEW body \in Bodies, NEW n \in Nat, NEW reliable \in BOOLEAN,
           reliable => body \in t.confirmed \cap t.passed \cap BoundAligned(t)
    PROVE  SessionSound(MarkDeliveryAttempt(s, C, body, n, reliable), t)
  <1>1. PICK receipt : receipt = [body |-> body, generation |-> n, reliable |-> reliable]
    OBVIOUS
  <1>2. receipt \in Receipts /\ receipt.body = body /\ receipt.reliable = reliable
    BY <1>1 DEF Receipts
  <1>3. PICK s1 : s1 = MarkDeliveryAttempt(s, C, body, n, reliable)
    OBVIOUS
  <1>4. s1 = [s EXCEPT !.consumed = C, !.pending = {}, !.attempt = None,
                       !.established = TRUE, !.generation = n, !.last = receipt]
    BY <1>1, <1>3 DEF MarkDeliveryAttempt, SessionSound, Sessions
  <1>5. s \in Sessions /\ EventsKnown(s, t)
    BY DEF SessionSound
  <1>6. /\ C \subseteq s.pending \cup s.consumed
        /\ Cardinality(t.declared) < MaxConsumed => C = s.pending \cup s.consumed
    BY <1>5, ConsumedSound
  <1>7. C \in SUBSET Events
    BY <1>5, <1>6 DEF Sessions
  <1>8. /\ s1 \in Sessions /\ s1.pending = {} /\ s1.consumed = C
        /\ s1.attempt = None /\ s1.last = receipt /\ s1.capacity = s.capacity
        /\ s1.evidence = s.evidence /\ s1.snapshot = s.snapshot
    BY <1>2, <1>4, <1>5, <1>7 DEF Sessions
  <1>9. EventsKnown(s1, t)
    BY <1>5, <1>6, <1>8 DEF EventsKnown
  <1>10. VerdictSound(s1, t)
    BY <1>8 DEF SessionSound, VerdictSound
  <1> QED
    BY <1>2, <1>3, <1>8, <1>9, <1>10 DEF SessionSound, LoopBroken

\* A fresh body binds its snapshot; a later call keeps or taints it.
LEMMA BindSound ==
    ASSUME NEW s, NEW t, NEW r \in Requests, SessionSound(s, t),
           Fresh(r) /\ r.source = r.index => Current(r) \in BoundAligned(t)
    PROVE  SessionSound(BindSnapshot(s, r), t)
  <1>1. PICK b \in Bodies : b = Current(r) /\ b.index = r.index
    BY BodyType
  <1>2. PICK v : v = IF Fresh(r) THEN r.source
                     ELSE IF s.snapshot[b] = r.source THEN s.snapshot[b] ELSE None
    OBVIOUS
  <1>3. s \in Sessions /\ s.snapshot \in [Bodies -> Versions \cup {None}] /\ r.source \in Versions
    BY DEF SessionSound, Sessions, Requests
  <1>4. v \in Versions \cup {None}
    BY <1>2, <1>3
  <1>5. PICK f : f = [s.snapshot EXCEPT ![b] = v]
    OBVIOUS
  <1>6. /\ f \in [Bodies -> Versions \cup {None}]
        /\ \A c \in Bodies : f[c] = IF c = b THEN v ELSE s.snapshot[c]
    BY <1>3, <1>4, <1>5
  <1>7. PICK s1 : s1 = BindSnapshot(s, r)
    OBVIOUS
  <1>8. s1 = [s EXCEPT !.snapshot = f]
    BY <1>1, <1>2, <1>3, <1>5, <1>7 DEF BindSnapshot, Sessions
  <1>9. /\ s1 \in Sessions /\ s1.snapshot = f /\ s1.evidence = s.evidence /\ s1.last = s.last
        /\ s1.pending = s.pending /\ s1.consumed = s.consumed
        /\ s1.attempt = s.attempt /\ s1.capacity = s.capacity
    BY <1>3, <1>6, <1>8 DEF Sessions
  <1>10. v = b.index => b \in BoundAligned(t)
    <2>1. b.index # None
      BY OverviewConstants, BodyType
    <2>2. CASE Fresh(r)
      BY <1>1, <1>2, <2>2
    <2>3. CASE ~Fresh(r)
      BY <1>1, <1>2, <2>1, <2>3 DEF SessionSound
    <2> QED
      BY <2>2, <2>3
  <1>11. \A c \in Bodies : s1.snapshot[c] = c.index => c \in BoundAligned(t)
    BY <1>6, <1>9, <1>10 DEF SessionSound
  <1> QED
    BY <1>7, <1>9, <1>11 DEF SessionSound, LoopBroken, EventsKnown, VerdictSound

\* New evidence of one body.
LEMMA EvidenceBound ==
    ASSUME NEW s, NEW t, SessionSound(s, t), NEW b \in Bodies, NEW ev \in Evidence,
           EvidenceSound(ev, b, t)
    PROVE  SessionSound([s EXCEPT !.evidence[b] = ev], t)
  <1>1. s \in Sessions /\ s.evidence \in [Bodies -> Evidence]
    BY DEF SessionSound, Sessions
  <1>2. PICK f : f = [s.evidence EXCEPT ![b] = ev]
    OBVIOUS
  <1>3. f \in [Bodies -> Evidence] /\ \A c \in Bodies : f[c] = IF c = b THEN ev ELSE s.evidence[c]
    BY <1>1, <1>2
  <1>4. PICK s1 : s1 = [s EXCEPT !.evidence[b] = ev]
    OBVIOUS
  <1>5. s1 = [s EXCEPT !.evidence = f]
    BY <1>1, <1>2, <1>4 DEF Sessions
  <1>6. /\ s1 \in Sessions /\ s1.evidence = f /\ s1.snapshot = s.snapshot /\ s1.last = s.last
        /\ s1.pending = s.pending /\ s1.consumed = s.consumed
        /\ s1.attempt = s.attempt /\ s1.capacity = s.capacity
    BY <1>1, <1>3, <1>5 DEF Sessions
  <1> QED
    BY <1>3, <1>4, <1>6 DEF SessionSound, LoopBroken, EventsKnown, VerdictSound

\* Merging what a call carries keeps evidence on record.
LEMMA MergeSound ==
    ASSUME NEW t, NEW ev \in Evidence, NEW r \in Requests, NEW body \in Bodies,
           EvidenceSound(ev, body, t), HalfSound(r.half, t)
    PROVE  /\ Merge(ev, r, body) \in Evidence
           /\ EvidenceSound(Merge(ev, r, body), body, t)
  <1>1. r.half \in Halfs /\ ev.report \in Halfs /\ ev.confirmed \in BOOLEAN
    BY DEF Requests, Evidence
  <1>2. PICK st : st = HostStatus(r.half, body)
    OBVIOUS
  <1>3. st = "confirmed" => body \in t.confirmed
    BY <1>2 DEF HostStatus, HalfSound
  <1>4. PICK c : c = (st = "confirmed" \/ (st = "unconfirmed" /\ ev.confirmed))
    OBVIOUS
  <1>5. PICK h : h = IF r.half.report # "none" THEN r.half ELSE ev.report
    OBVIOUS
  <1>6. Merge(ev, r, body) = [confirmed |-> c, report |-> h]
    BY <1>2, <1>4, <1>5 DEF Merge
  <1>7. c \in BOOLEAN /\ h \in Halfs
    BY <1>1, <1>4, <1>5
  <1>8. c => body \in t.confirmed
    BY <1>3, <1>4 DEF EvidenceSound
  <1>9. h.report = "pass" => h.body \in t.passed
    BY <1>5 DEF EvidenceSound, HalfSound
  <1> QED
    BY <1>6, <1>7, <1>8, <1>9 DEF Evidence, EvidenceSound

\* An attestation says no more than the evidence.
LEMMA AssessSound ==
    ASSUME NEW t, NEW ev \in Evidence, NEW r \in Requests, NEW body \in Bodies,
           EvidenceSound(ev, body, t), HalfSound(r.half, t)
    PROVE  /\ Assess(ev, r, body) \in Attestations
           /\ AttestationSound(Assess(ev, r, body), body, t)
  <1>1. r.half \in Halfs /\ ev.report \in Halfs
    BY DEF Requests, Evidence
  <1>2. PICK st : st = HostStatus(r.half, body)
    OBVIOUS
  <1>3. st \in {"unconfirmed", "confirmed", "incomplete"} /\ (st = "confirmed" => body \in t.confirmed)
    BY <1>2 DEF HostStatus, HalfSound
  <1>4. PICK i : i = IF ev.confirmed THEN "confirmed" ELSE st
    OBVIOUS
  <1>5. PICK g : g = IF ev.report.body = body THEN ev.report.report ELSE "fail"
    OBVIOUS
  <1>6. PICK q \in BOOLEAN : q = (ev.report.report # "none")
    OBVIOUS
  <1>7. Assess(ev, r, body) = [provided |-> q, integrity |-> i, grade |-> g]
    BY <1>2, <1>4, <1>5, <1>6 DEF Assess
  <1>8. i \in {"unconfirmed", "confirmed", "incomplete"} /\ (i = "confirmed" => body \in t.confirmed)
    BY <1>3, <1>4 DEF EvidenceSound
  <1>9. g \in {"none", "pass", "partial", "fail"} /\ (g = "pass" => body \in t.passed)
    BY <1>1, <1>5 DEF EvidenceSound, Halfs
  <1> QED
    BY <1>7, <1>8, <1>9 DEF Attestations, AttestationSound

\* A reload opens below the capacity verdict, and a proof only closes one.
LEMMA ChainSound ==
    ASSUME NEW s, NEW t, SessionSound(s, t), NEW r, NEW body \in Bodies, NEW att,
           Fresh(r) => ~CapacityStopApplies(s, Tokens(body)),
           att.integrity = "confirmed" => body \in t.confirmed
    PROVE  SessionSound(NoteDeliveryChain(s, r, body, att), t)
  <1>1. s \in Sessions /\ Tokens(body) \in Nat
    BY BodyType DEF SessionSound
  <1>2. SessionSound(NoteProof(s, body, att), t)
    <2>1. PICK c : c \in {None, s.capacity} /\
                   c = IF /\ body.scope = "all" /\ att.integrity = "confirmed"
                          /\ s.capacity # None /\ Tokens(body) >= s.capacity
                       THEN None ELSE s.capacity
      OBVIOUS
    <2>2. PICK a : a \in {None, s.attempt} /\
                   a = IF s.attempt # None /\ s.attempt.body = body THEN None ELSE s.attempt
      OBVIOUS
    <2>3. PICK s1 : s1 = [s EXCEPT !.capacity = c, !.attempt = a]
      OBVIOUS
    <2>4. NoteProof(s, body, att) \in {s, s1}
      BY <1>1, <2>1, <2>2, <2>3 DEF NoteProof, Sessions
    <2>5. /\ s1 \in Sessions /\ s1.capacity = c /\ s1.attempt = a
          /\ s1.pending = s.pending /\ s1.consumed = s.consumed
          /\ s1.last = s.last /\ s1.evidence = s.evidence /\ s1.snapshot = s.snapshot
      BY <1>1, <2>1, <2>2, <2>3 DEF Sessions
    <2>7. VerdictSound(s1, t)
      <3>1. CASE c = s.capacity
        BY <2>5, <3>1 DEF SessionSound, VerdictSound
      <3>2. CASE c # s.capacity
        <4>1. /\ c = None /\ body.scope = "all" /\ body \in t.confirmed
              /\ s.capacity # None /\ Tokens(body) >= s.capacity
          BY <2>1, <3>2
        <4>2. HeldOnce(t) \/ s.capacity = t.failed
          BY <4>1 DEF SessionSound, VerdictSound
        <4>3. HeldOnce(t)
          BY <4>1, <4>2 DEF HeldOnce
        <4> QED
          BY <2>5, <4>1, <4>3 DEF VerdictSound
      <3> QED
        BY <3>1, <3>2
    <2>6. SessionSound(s1, t)
      BY <2>1, <2>2, <2>5, <2>7 DEF SessionSound, LoopBroken, EventsKnown
    <2> QED
      BY <2>4, <2>6
  <1>3. ASSUME Fresh(r) PROVE SessionSound(NoteFreshDelivery(s, body), t)
    <2>1. CASE CompactionPending(s)
      <3>1. PICK a : a = [body |-> body, tokens |-> Tokens(body)]
        OBVIOUS
      <3>2. a \in Attempts /\ a.tokens = Tokens(body)
        BY <1>1, <3>1 DEF Attempts
      <3>3. s.capacity # None => a.tokens < s.capacity
        <4>1. s.capacity # None => s.capacity \in Nat /\ ~(Tokens(body) >= s.capacity)
          BY <1>1, <1>3, <2>1 DEF CapacityStopApplies, Sessions
        <4> QED
          BY <1>1, <3>2, <4>1
      <3>4. PICK s1 : s1 = [s EXCEPT !.attempt = a]
        OBVIOUS
      <3>5. /\ s1 \in Sessions /\ s1.capacity = s.capacity /\ s1.attempt = a
            /\ s1.pending = s.pending /\ s1.consumed = s.consumed
            /\ s1.last = s.last /\ s1.evidence = s.evidence /\ s1.snapshot = s.snapshot
        BY <1>1, <3>2, <3>4 DEF Sessions
      <3>6. NoteFreshDelivery(s, body) = s1
        BY <2>1, <3>1, <3>4 DEF NoteFreshDelivery
      <3> QED
        BY <2>1, <3>3, <3>5, <3>6
        DEF SessionSound, LoopBroken, CompactionPending, EventsKnown, VerdictSound
    <2>2. CASE ~CompactionPending(s)
      BY <2>2 DEF NoteFreshDelivery
    <2> QED
      BY <2>1, <2>2
  <1> QED
    BY <1>2, <1>3 DEF NoteDeliveryChain

\* Only a body that is confirmed, attested and governed leaves a reliable receipt.
LEMMA RecordSound ==
    ASSUME NEW s, NEW t, SessionSound(s, t), NEW C \in ConsumedAfter(s),
           NEW body \in Bodies, NEW n \in Nat,
           NEW att, AttestationSound(att, body, t), NEW eligible \in BOOLEAN,
           eligible => body \in BoundAligned(t)
    PROVE  SessionSound(RecordAttestedDelivery(s, C, body, n, att, eligible), t)
  <1>1. CASE eligible /\ att.provided /\ att.integrity = "confirmed"
    <2>1. PICK b \in BOOLEAN : b = (att.grade = "pass")
      OBVIOUS
    <2>2. b => body \in t.confirmed \cap t.passed \cap BoundAligned(t)
      BY <1>1, <2>1 DEF AttestationSound
    <2>3. SessionSound(MarkDeliveryAttempt(s, C, body, n, b), t)
      BY <2>2, MarkSound
    <2> QED
      BY <1>1, <2>1, <2>3 DEF RecordAttestedDelivery
  <1>2. CASE ~(eligible /\ att.provided /\ att.integrity = "confirmed")
    BY <1>2 DEF RecordAttestedDelivery
  <1> QED
    BY <1>1, <1>2

-----------------------------------------------------------------------------
(* Steps of one request.                                                   *)

\* What the invariant says of one request.
LEMMA OwnState ==
    ASSUME OverviewInv, NEW p \in Procs
    PROVE  /\ TypeOK /\ SessionSound(session, told) /\ DeliveriesSound(delivery, told)
           /\ CursorsSound /\ RetryNeverInterrupts
           /\ req[p] \in Requests /\ RequestSound(req[p], delivery, told)
           /\ Owner[p] \in Hosts /\ HalfSound(req[p].half, told)
  BY DEF OverviewInv, TypeOK, Hosts, RequestSound

\* Deliveries are only added, and keep their body.
Kept(ds, es) == \A id \in DOMAIN ds : id \in DOMAIN es /\ es[id].body = ds[id].body

\* What holds of a request stays true while others add deliveries and history.
LEMMA RequestKept ==
    ASSUME NEW r, NEW ds, NEW es, NEW t, NEW u, RequestSound(r, ds, t), Grows(t, u), Kept(ds, es)
    PROVE  RequestSound(r, es, u)
  BY DEF RequestSound, Grows, Kept, HalfSound, AttestationSound

\* A step without history.
LEMMA GrowsRefl == ASSUME NEW t PROVE Grows(t, t)
  BY DEF Grows

\* A step without deliveries.
LEMMA KeptRefl == ASSUME NEW ds PROVE Kept(ds, ds)
  BY DEF Kept

\* Deliveries stay sound when history grows.
LEMMA DeliveriesGrow ==
    ASSUME NEW ds, NEW t, NEW u, DeliveriesSound(ds, t), Grows(t, u)
    PROVE  DeliveriesSound(ds, u)
  BY DEF DeliveriesSound, Grows, EvidenceSound

\* A step of p keeps the invariant if what it shares, and p, are sound after it.
LEMMA OwnStep ==
    ASSUME OverviewInv, NEW p \in Procs, NEW r \in Requests, Goto(p, r), repo' = repo,
           told' \in Tellings, Grows(told, told'), RetryNeverInterrupts',
           SessionSound(session', told'),
           delivery' \in Seq(Deliveries), DeliveriesSound(delivery', told'), Kept(delivery, delivery'),
           holds' \in [Hosts -> [cursors : SUBSET Cursors, bodies : SUBSET Bodies]], CursorsSound',
           RequestSound(r, delivery', told')
    PROVE  OverviewInv'
  <1>1. req' \in [Procs -> Requests] /\ \A q \in Procs : req'[q] = IF q = p THEN r ELSE req[q]
    BY DEF Goto, OverviewInv, TypeOK
  <1>2. TypeOK'
    BY <1>1 DEF OverviewInv, TypeOK, SessionSound
  <1>3. ASSUME NEW q \in Procs PROVE RequestSound(req'[q], delivery', told')
    BY <1>1, RequestKept DEF OverviewInv
  <1> QED
    BY <1>2, <1>3 DEF OverviewInv

\* A request that is done asks for nothing.
LEMMA IdleSound ==
    /\ Idle \in Requests
    /\ \A ds, t : RequestSound(Idle, ds, t)
  <1>1. NoHalves \in Halfs /\ NoAttestation \in Attestations
    BY DEF NoHalves, NoAttestation, Halfs, Attestations
  <1> QED
    BY <1>1, OverviewConstants DEF Idle, Requests, Places, RequestSound, HalfSound, NoHalves, Fresh

\* A request that leaves everything but the store and itself alone.
LEMMA QuietStep ==
    ASSUME OverviewInv, NEW p \in Procs, NEW r \in Requests, Goto(p, r),
           UNCHANGED <<repo, session, delivery, holds, told>>, RequestSound(r, delivery, told)
    PROVE  OverviewInv'
  <1>1. CursorsSound' /\ RetryNeverInterrupts'
    BY OwnState DEF CursorsSound, RetryNeverInterrupts
  <1> QED
    BY <1>1, OwnState, OwnStep, GrowsRefl, KeptRefl DEF TypeOK

\* A request that ends, or starts over on the live path.
LEMMA DoneStep ==
    ASSUME OverviewInv, NEW p \in Procs, Done(p) \/ GoLive(p),
           UNCHANGED <<repo, session, delivery, holds, told>>
    PROVE  OverviewInv'
  <1>1. CASE Done(p)
    BY <1>1, IdleSound, QuietStep DEF Done
  <1>2. CASE GoLive(p)
    <2>1. PICK r : r = [req[p] EXCEPT !.pc = "live", !.source = repo.source, !.id = 0]
      OBVIOUS
    <2>2. repo.source \in Versions
      BY OwnState DEF TypeOK, Guards
    <2>3. r \in Requests /\ r.pc = "live" /\ r.half = req[p].half /\ r.cursor = req[p].cursor
          /\ r.kind = req[p].kind
      BY <2>1, <2>2, OwnState DEF Requests, Places
    <2>4. RequestSound(r, delivery, told)
      BY <2>3, OwnState DEF RequestSound, Fresh
    <2> QED
      BY <1>2, <2>1, <2>3, <2>4, QuietStep DEF GoLive
  <1> QED
    BY <1>1, <1>2

\* What a Host was given in full, and the cursors it has, are typed.
LEMMA HostState ==
    ASSUME OverviewInv, NEW h \in Hosts
    PROVE  holds[h].cursors \subseteq Cursors /\ holds[h].bodies \subseteq Bodies
  BY DEF OverviewInv, TypeOK

\* A new request: what its half says is on record from here on.
LEMMA SubmitInv == ASSUME OverviewInv, NEW p \in Procs, Submit(p) PROVE OverviewInv'
  <1> DEFINE base == [Idle EXCEPT !.pc = "live", !.index = repo.index, !.source = repo.source]
  <1>1. repo.index \in Versions /\ repo.source \in Versions
    BY OwnState DEF TypeOK, Guards
  <1>2. /\ base \in Requests /\ base.pc = "live" /\ base.kind = "check" /\ base.half = NoHalves
        /\ base.cursor = None
    BY <1>1, IdleSound DEF Idle, Requests, Places
  <1> HIDE DEF base
  \* Whatever is submitted, the history has what it says.
  <1>3. ASSUME NEW r \in Requests, Goto(p, r), r.pc \in {"live", "lookup", "proof"},
               r.half.confirm = "yes" \/ r.half.report = "pass" => r.half.body \in Bodies,
               r.pc = "lookup" => r.cursor \in Cursors /\ r.cursor.id \in DOMAIN delivery,
               r.kind = "next" => r.cursor \in Cursors,
               r.pc \notin {"idle", "live"} => ~Fresh(r)
        PROVE  OverviewInv'
    <2>1. req'[p] = r
      BY <1>3, OwnState DEF Goto, TypeOK
    <2>2. PICK C : C = told.confirmed \cup {b \in Bodies : r.half.body = b /\ r.half.confirm = "yes"}
      OBVIOUS
    <2>3. PICK P : P = told.passed \cup {b \in Bodies : r.half.body = b /\ r.half.report = "pass"}
      OBVIOUS
    <2>4. told' = [told EXCEPT !.confirmed = C, !.passed = P] /\ told \in Tellings
      BY <2>1, <2>2, <2>3, OwnState DEF Submit, TypeOK, Tellings
    <2>5. C \in SUBSET Bodies /\ P \in SUBSET Bodies
      BY <2>2, <2>3, <2>4 DEF Tellings
    <2>6. /\ told' \in Tellings /\ told'.confirmed = C /\ told'.passed = P
          /\ told'.declared = told.declared /\ told'.governed = told.governed
          /\ told'.refused = told.refused /\ told'.failed = told.failed
          /\ told'.adopted = told.adopted /\ told'.retried = told.retried
      BY <2>4, <2>5 DEF Tellings
    <2>7. Grows(told, told') /\ RetryNeverInterrupts'
      <3>1. RetryNeverInterrupts'
        BY <2>6, OwnState DEF RetryNeverInterrupts
      <3> QED
        BY <2>2, <2>3, <2>6, <3>1 DEF Grows, BoundAligned
    <2>8. HalfSound(r.half, told')
      BY <1>3, <2>2, <2>3, <2>6 DEF HalfSound
    <2>13. EventsKnown(session, told') /\ VerdictSound(session, told')
      <3>1. EventsKnown(session, told')
        BY <2>6, OwnState DEF SessionSound, EventsKnown
      <3>2. HeldOnce(told) => HeldOnce(told')
        BY <2>6, <2>7 DEF HeldOnce, Grows
      <3> QED
        BY <2>6, <3>1, <3>2, OwnState DEF SessionSound, VerdictSound
    <2>9. SessionSound(session, told')
      BY <2>6, <2>7, <2>13, OwnState DEF SessionSound, EvidenceSound, Grows
    <2>10. RequestSound(r, delivery, told')
      BY <1>3, <2>8 DEF RequestSound
    <2>11. UNCHANGED <<repo, session, delivery, stored, bytes, holds>>
      BY DEF Submit
    <2>12. CursorsSound'
      BY <2>11, OwnState DEF CursorsSound
    <2> QED
      BY <1>3, <2>6, <2>7, <2>9, <2>10, <2>11, <2>12, OwnState, OwnStep, DeliveriesGrow, KeptRefl
      DEF TypeOK
  <1>10. NoHalves.confirm = "none" /\ NoHalves.report = "none"
    BY DEF NoHalves
  <1>11. ASSUME NEW r \in Requests, Goto(p, r), r.pc = "live", r.kind \in {"check", "fresh"},
                r.half = NoHalves
         PROVE  OverviewInv'
    BY <1>3, <1>10, <1>11
  <1>4. ASSUME NEW scope \in {"all", "code"}, Goto(p, [base EXCEPT !.kind = "fresh", !.scope = scope])
        PROVE  OverviewInv'
    <2>1. PICK r : r = [base EXCEPT !.kind = "fresh", !.scope = scope]
      OBVIOUS
    <2>2. r \in Requests /\ r.pc = "live" /\ r.kind = "fresh" /\ r.half = NoHalves
      BY <1>2, <2>1 DEF Requests
    <2> QED
      BY <1>4, <1>11, <2>1, <2>2
  <1>5. ASSUME NEW event \in Events, Goto(p, [base EXCEPT !.kind = "fresh", !.event = event])
        PROVE  OverviewInv'
    <2>1. PICK r : r = [base EXCEPT !.kind = "fresh", !.event = event]
      OBVIOUS
    <2>2. r \in Requests /\ r.pc = "live" /\ r.kind = "fresh" /\ r.half = NoHalves
      BY <1>2, <2>1 DEF Requests
    <2> QED
      BY <1>5, <1>11, <2>1, <2>2
  <1>6. ASSUME NEW event \in Events, Goto(p, [base EXCEPT !.event = event])
        PROVE  OverviewInv'
    <2>1. PICK r : r = [base EXCEPT !.event = event]
      OBVIOUS
    <2>2. r \in Requests /\ r.pc = "live" /\ r.kind = "check" /\ r.half = NoHalves
      BY <1>2, <2>1 DEF Requests
    <2> QED
      BY <1>6, <1>11, <2>1, <2>2
  <1>7. ASSUME Goto(p, [base EXCEPT !.adopt = TRUE]) PROVE OverviewInv'
    <2>1. PICK r : r = [base EXCEPT !.adopt = TRUE]
      OBVIOUS
    <2>2. r \in Requests /\ r.pc = "live" /\ r.kind = "check" /\ r.half = NoHalves
      BY <1>2, <2>1 DEF Requests
    <2> QED
      BY <1>7, <1>11, <2>1, <2>2
  <1>8. ASSUME NEW cursor \in holds[Owner[p]].cursors,
               Goto(p, [base EXCEPT !.pc = IF cursor.id = 0 THEN @ ELSE "lookup",
                                    !.kind = "next", !.cursor = cursor])
        PROVE  OverviewInv'
    <2>1. PICK l \in {"live", "lookup"} : l = IF cursor.id = 0 THEN "live" ELSE "lookup"
      OBVIOUS
    <2>2. PICK r : r = [base EXCEPT !.pc = l, !.kind = "next", !.cursor = cursor]
      OBVIOUS
    <2>3. cursor \in Cursors /\ (cursor.id = 0 \/ cursor.id \in DOMAIN delivery)
      BY OwnState, HostState DEF CursorsSound
    <2>4. r \in Requests /\ r.pc = l /\ r.kind = "next" /\ r.half = NoHalves /\ r.cursor = cursor
      BY <1>2, <2>2, <2>3 DEF Requests, Places
    <2>5. Goto(p, r)
      BY <1>2, <1>8, <2>1, <2>2 DEF Requests
    <2> QED
      BY <1>3, <1>10, <2>1, <2>3, <2>4, <2>5 DEF Fresh
  <1>9. ASSUME NEW half \in Halves(Owner[p]),
               Goto(p, [base EXCEPT !.pc = "proof", !.kind = "proof", !.scope = half.body.scope,
                                    !.half = half])
        PROVE  OverviewInv'
    <2>1. PICK r : r = [base EXCEPT !.pc = "proof", !.kind = "proof", !.scope = half.body.scope,
                                    !.half = half]
      OBVIOUS
    <2>2. /\ half.confirm \in {"none", "yes", "no"} /\ half.report \in {"none", "pass", "partial"}
          /\ half.body \in holds[Owner[p]].bodies
          /\ half \in [confirm : {"none", "yes", "no"}, report : {"none", "pass", "partial"},
                       body : holds[Owner[p]].bodies]
      BY DEF Halves
    <2>3. half.body \in Bodies
      BY <2>2, OwnState, HostState
    <2>4. half \in Halfs /\ half.body.scope \in {"all", "code"}
      BY <2>2, <2>3 DEF Halfs, Bodies
    <2>5. r \in Requests /\ r.pc = "proof" /\ r.kind = "proof" /\ r.half = half
      BY <1>2, <2>1, <2>4 DEF Requests, Places
    <2> QED
      BY <1>3, <1>9, <2>1, <2>3, <2>5 DEF Fresh
  <1> QED
    BY <1>4, <1>5, <1>6, <1>7, <1>8, <1>9 DEF Submit, base

-----------------------------------------------------------------------------
(* The sections of a request for a retained delivery.                      *)

\* A request that takes up a delivery leaves everything but the store alone.
LEMMA HoldStep ==
    ASSUME OverviewInv, NEW p \in Procs, NEW id \in DOMAIN delivery, ~Fresh(req[p]),
           Goto(p, [req[p] EXCEPT !.pc = "reserve", !.id = id]),
           UNCHANGED <<repo, session, delivery, holds, told>>
    PROVE  OverviewInv'
  <1>1. PICK r : r = [req[p] EXCEPT !.pc = "reserve", !.id = id]
    OBVIOUS
  <1>2. id \in Nat
    BY OwnState DEF TypeOK
  <1>3. /\ r \in Requests /\ r.pc = "reserve" /\ r.id = id /\ r.half = req[p].half
        /\ r.kind = req[p].kind /\ r.cursor = req[p].cursor
    BY <1>1, <1>2, OwnState DEF Requests, Places
  <1>4. RequestSound(r, delivery, told)
    BY <1>3, OwnState DEF RequestSound, Fresh
  <1> QED
    BY <1>1, <1>3, <1>4, QuietStep

\* A cursor names a delivery that was made, stored or not.
LEMMA LookupInv == ASSUME OverviewInv, NEW p \in Procs, Lookup(p) PROVE OverviewInv'
  <1>1. UNCHANGED <<repo, session, delivery, holds, told>> /\ req[p].pc = "lookup"
    BY DEF Lookup, At
  <1>2. req[p].cursor.id \in DOMAIN delivery /\ ~Fresh(req[p])
    BY <1>1, OwnState DEF RequestSound
  <1>3. Done(p) \/ Goto(p, [req[p] EXCEPT !.pc = "reserve", !.id = req[p].cursor.id])
    BY DEF Lookup
  <1> QED
    BY <1>1, <1>2, <1>3, DoneStep, HoldStep

\* The delivery found for a proof was made for that body.
LEMMA FindProofInv == ASSUME OverviewInv, NEW p \in Procs, FindProof(p) PROVE OverviewInv'
  <1>1. UNCHANGED <<repo, session, delivery, holds, told>> /\ req[p].pc = "proof"
    BY DEF FindProof, At
  <1>2. ~Fresh(req[p])
    BY <1>1, OwnState DEF RequestSound
  <1>3. ASSUME NEW id \in ProofEntries(p), Goto(p, [req[p] EXCEPT !.pc = "reserve", !.id = id])
        PROVE  OverviewInv'
    <2>1. id \in DOMAIN delivery
      BY DEF ProofEntries
    <2> QED
      BY <1>1, <1>2, <1>3, <2>1, HoldStep
  <1> QED
    BY <1>1, <1>3, DoneStep DEF FindProof

\* A delivery is rewritten: it stays the delivery of its body.
LEMMA DeliveryStep ==
    ASSUME OverviewInv, NEW id \in DOMAIN delivery, NEW d \in Deliveries, NEW t,
           d.body = delivery[id].body, d.aligned = delivery[id].aligned,
           EvidenceSound(d.evidence, d.body, t), Grows(told, t),
           delivery' = [delivery EXCEPT ![id] = d]
    PROVE  /\ delivery' \in Seq(Deliveries) /\ DeliveriesSound(delivery', t)
           /\ Kept(delivery, delivery') /\ DOMAIN delivery' = DOMAIN delivery
           /\ delivery'[id] = d
  <1>1. delivery \in Seq(Deliveries) /\ DeliveriesSound(delivery, told)
    BY DEF OverviewInv, TypeOK
  <1>2. /\ delivery' \in Seq(Deliveries) /\ DOMAIN delivery' = DOMAIN delivery
        /\ \A i \in DOMAIN delivery : delivery'[i] = IF i = id THEN d ELSE delivery[i]
    BY <1>1
  <1>3. DeliveriesSound(delivery, t)
    BY <1>1, DeliveriesGrow
  <1>4. DeliveriesSound(delivery', t)
    BY <1>2, <1>3 DEF DeliveriesSound
  <1> QED
    BY <1>2, <1>4 DEF Kept

\* A delivery and its evidence.
LEMMA DeliveryType ==
    ASSUME OverviewInv, NEW id \in DOMAIN delivery
    PROVE  delivery[id] \in Deliveries /\ EvidenceSound(delivery[id].evidence, delivery[id].body, told)
  BY DEF OverviewInv, TypeOK, DeliveriesSound

\* A step of p that rewrites its delivery and moves p on.
LEMMA RetainedStep ==
    ASSUME OverviewInv, NEW p \in Procs, NEW r \in Requests, Goto(p, r), repo' = repo, holds' = holds,
           told' \in Tellings, Grows(told, told'), RetryNeverInterrupts', SessionSound(session', told'),
           NEW id \in DOMAIN delivery, NEW d \in Deliveries,
           d.body = delivery[id].body, d.aligned = delivery[id].aligned,
           EvidenceSound(d.evidence, d.body, told'),
           delivery' = [delivery EXCEPT ![id] = d], RequestSound(r, delivery', told')
    PROVE  OverviewInv'
  <1>1. /\ delivery' \in Seq(Deliveries) /\ DeliveriesSound(delivery', told')
        /\ Kept(delivery, delivery') /\ DOMAIN delivery' = DOMAIN delivery
    BY DeliveryStep
  <1>2. CursorsSound'
    BY <1>1, OwnState DEF CursorsSound
  <1> QED
    BY <1>1, <1>2, OwnState, OwnStep DEF TypeOK

\* A proof that grows its delivery changes the weight and nothing else.
LEMMA ReserveInv == ASSUME OverviewInv, NEW p \in Procs, Reserve(p) PROVE OverviewInv'
  <1> DEFINE id == req[p].id
             serve == [req[p] EXCEPT !.pc = "evaluate"]
  <1>1. req[p].pc = "reserve" /\ UNCHANGED <<repo, session, holds, told>>
    BY DEF Reserve, At
  <1>2. id \in DOMAIN delivery /\ ~Fresh(req[p])
    BY <1>1, OwnState DEF RequestSound
  <1>3. PICK r : r = serve
    OBVIOUS
  <1>4. /\ r \in Requests /\ r.pc = "evaluate" /\ r.id = id /\ r.half = req[p].half
        /\ r.kind = req[p].kind /\ r.cursor = req[p].cursor
    BY <1>3, OwnState DEF Requests, Places
  <1>5. \A ds : Kept(delivery, ds) => RequestSound(r, ds, told)
    BY <1>2, <1>4, OwnState DEF RequestSound, Fresh, Kept
  <1>6. CASE UNCHANGED delivery /\ (Done(p) \/ GoLive(p))
    BY <1>1, <1>6, DoneStep
  <1>7. CASE UNCHANGED delivery /\ Goto(p, serve)
    BY <1>1, <1>3, <1>4, <1>5, <1>7, QuietStep, KeptRefl
  <1>8. ASSUME NEW cost, NEW delta, req[p].half.report # "none", cost = ProofCost[req[p].half.report],
               delta = cost - delivery[id].proof, Goto(p, serve),
               delivery' = [delivery EXCEPT ![id].proof = cost, ![id].bytes = @ + delta]
        PROVE  OverviewInv'
    <2>1. delivery \in Seq(Deliveries) /\ delivery[id] \in Deliveries
      BY <1>2, DeliveryType, OwnState DEF TypeOK
    <2>2. cost \in Int /\ delta \in Int
      <3>1. req[p].half.report \in {"pass", "partial"}
        BY <1>8, OwnState DEF Requests, Halfs
      <3>2. cost \in Int
        BY <1>8, <3>1 DEF ProofCost
      <3> QED
        BY <1>8, <2>1, <3>2 DEF Deliveries
    <2>3. PICK d : d = [delivery[id] EXCEPT !.proof = cost, !.bytes = delivery[id].bytes + delta]
      OBVIOUS
    <2>4. /\ d \in Deliveries /\ d.body = delivery[id].body /\ d.aligned = delivery[id].aligned
          /\ d.evidence = delivery[id].evidence
      <3>1. PICK weight \in Int : weight = delivery[id].bytes + delta
        BY <2>1, <2>2 DEF Deliveries
      <3>2. d = [delivery[id] EXCEPT !.proof = cost, !.bytes = weight]
        BY <2>3, <3>1
      <3> HIDE DEF id
      <3> QED
        BY <2>1, <2>2, <3>2 DEF Deliveries
    <2>5. delivery' = [delivery EXCEPT ![id] = d]
      BY <1>2, <1>8, <2>1, <2>3 DEF Deliveries
    <2>6. EvidenceSound(d.evidence, d.body, told)
      BY <1>2, <2>4, DeliveryType
    <2>7. Kept(delivery, delivery')
      BY <1>2, <2>4, <2>5, <2>6, DeliveryStep, GrowsRefl
    <2>8. RequestSound(r, delivery', told') /\ RetryNeverInterrupts'
      BY <1>1, <1>5, <2>7, OwnState DEF RetryNeverInterrupts
    <2> QED
      BY <1>1, <1>2, <1>3, <1>4, <1>8, <2>4, <2>5, <2>6, <2>8, RetainedStep, GrowsRefl, OwnState
      DEF TypeOK
  <1> QED
    BY <1>6, <1>7, <1>8 DEF Reserve

\* What an evaluation leaves in the history.
LEMMA ToldIs ==
    ASSUME OverviewInv, NEW p \in Procs, NEW governed \in SUBSET Bodies,
           NEW refused \in SUBSET Bodies, Told(p, governed, refused)
    PROVE  /\ told' \in Tellings /\ Grows(told, told') /\ RetryNeverInterrupts'
           /\ governed \cup refused \subseteq BoundAligned(told')
           /\ SessionSound(Evaluate(session, req[p]), told')
           /\ HalfSound(req[p].half, told')
  <1>1. /\ told \in Tellings /\ session \in Sessions /\ req[p] \in Requests
        /\ EventsKnown(session, told)
    BY OwnState DEF TypeOK, SessionSound
  <1>2. PICK e : e = req[p].event
    OBVIOUS
  <1>3. PICK D : D = told.declared \cup ({e} \ {None})
    OBVIOUS
  <1>4. PICK G : G = told.governed \cup governed
    OBVIOUS
  <1>5. PICK F : F = told.refused \cup refused
    OBVIOUS
  <1>6. PICK A \in BOOLEAN : A = (told.adopted \/ (req[p].adopt /\ ~session.established))
    OBVIOUS
  <1>7. PICK R \in BOOLEAN : R = (told.retried \/ (Interrupts(session, e) /\ e \in told.declared))
    OBVIOUS
  \* The session knows only declared events, so an event that is new to Hosts is new to it.
  <1>8. ReloadFails(e) = Interrupts(session, e)
    BY <1>1 DEF ReloadFails, Interrupts, EventsKnown
  <1>9. PICK f : f = Failed(told, session, Interrupts(session, e))
    OBVIOUS
  <1>10. f \in Nat \cup {None}
    <2>1. told.failed \in Nat \cup {None}
      BY <1>1 DEF Tellings
    <2>2. Interrupts(session, e) => session.attempt.tokens \in Nat
      BY <1>1 DEF Interrupts, Sessions, Attempts
    <2> QED
      BY <1>9, <2>1, <2>2, MinType DEF Failed
  <1>11. told' = [told EXCEPT !.declared = D, !.governed = G, !.refused = F, !.failed = f,
                              !.adopted = A, !.retried = R]
    BY <1>1, <1>2, <1>3, <1>4, <1>5, <1>6, <1>7, <1>8, <1>9 DEF Told, Tellings, Failed
  <1>12. D \in SUBSET Events /\ G \in SUBSET Bodies /\ F \in SUBSET Bodies
    BY <1>1, <1>2, <1>3, <1>4, <1>5 DEF Tellings, Requests
  <1>13. /\ told' \in Tellings /\ told'.declared = D /\ told'.governed = G /\ told'.refused = F
         /\ told'.failed = f /\ told'.adopted = A /\ told'.retried = R
         /\ told'.confirmed = told.confirmed /\ told'.passed = told.passed
    BY <1>1, <1>10, <1>11, <1>12 DEF Tellings
  <1>14. Grows(told, told') /\ governed \cup refused \subseteq BoundAligned(told')
    BY <1>4, <1>5, <1>6, <1>13 DEF Grows, BoundAligned
  <1>15. RetryNeverInterrupts'
    <2> SUFFICES ASSUME Cardinality(D) < MaxConsumed PROVE ~R
      BY <1>13 DEF RetryNeverInterrupts
    <2>1. IsFiniteSet(D) /\ told.declared \subseteq D
      <3>1. IsFiniteSet({e} \ {None})
        BY FS_Singleton, FS_Subset
      <3> QED
        BY <1>1, <1>3, <3>1, FiniteUnion DEF EventsKnown
    <2>2. Cardinality(told.declared) < MaxConsumed
      <3>1. /\ Cardinality(told.declared) <= Cardinality(D)
            /\ Cardinality(told.declared) \in Nat /\ Cardinality(D) \in Nat
        BY <1>1, <2>1, FS_Subset, FS_CardinalityType DEF EventsKnown
      <3> QED
        BY <3>1, OverviewConstants
    <2>3. ~told.retried
      BY <2>2, OwnState DEF RetryNeverInterrupts
    <2>4. told.declared \subseteq session.pending \cup session.consumed
      BY <1>1, <2>2 DEF EventsKnown
    <2> QED
      BY <1>7, <2>3, <2>4 DEF Interrupts
  <1>16. SessionSound(Evaluate(session, req[p]), told')
    <2>1. told'.declared = told.declared \cup ({req[p].event} \ {None})
      BY <1>2, <1>3, <1>13
    <2>2. told'.failed = Failed(told, session, Interrupts(session, req[p].event))
      BY <1>2, <1>9, <1>13
    <2>3. req[p].adopt /\ ~session.established => told'.adopted
      BY <1>6, <1>13
    <2> QED
      BY <1>1, <1>13, <1>14, <2>1, <2>2, <2>3, OwnState, EvaluateSound
  <1>17. HalfSound(req[p].half, told')
    BY <1>13, OwnState DEF HalfSound
  <1> QED
    BY <1>13, <1>14, <1>15, <1>16, <1>17

\* A half is merged into the delivery's own evidence, and the request keeps the assessment.
LEMMA EvaluateRetainedInv ==
    ASSUME OverviewInv, NEW p \in Procs, EvaluateRetained(p) PROVE OverviewInv'
  <1> DEFINE id == req[p].id
  <1>1. /\ req[p].pc = "evaluate" /\ UNCHANGED <<repo, stored, bytes, holds, budget>>
        /\ Told(p, {}, {}) /\ session' = Evaluate(session, req[p])
    BY DEF EvaluateRetained, At
  <1>2. id \in DOMAIN delivery /\ ~Fresh(req[p])
    BY <1>1, OwnState DEF RequestSound
  <1>3. /\ told' \in Tellings /\ Grows(told, told') /\ RetryNeverInterrupts'
        /\ SessionSound(session', told') /\ HalfSound(req[p].half, told')
    BY <1>1, ToldIs
  <1>4. delivery[id] \in Deliveries /\ delivery[id].body \in Bodies /\ delivery[id].evidence \in Evidence
    BY <1>2, DeliveryType DEF Deliveries
  <1>5. EvidenceSound(delivery[id].evidence, delivery[id].body, told')
    BY <1>2, <1>3, DeliveryType DEF EvidenceSound, Grows
  <1>6. PICK ev : ev = Merge(delivery[id].evidence, req[p], delivery[id].body)
    OBVIOUS
  <1>7. ev \in Evidence /\ EvidenceSound(ev, delivery[id].body, told')
    BY <1>3, <1>4, <1>5, <1>6, MergeSound, OwnState
  <1>8. PICK att : att = Assess(ev, req[p], delivery[id].body)
    OBVIOUS
  <1>9. att \in Attestations /\ AttestationSound(att, delivery[id].body, told')
    BY <1>3, <1>4, <1>7, <1>8, AssessSound, OwnState
  <1>10. PICK d : d = [delivery[id] EXCEPT !.evidence = ev]
    OBVIOUS
  <1>11. /\ d \in Deliveries /\ d.body = delivery[id].body /\ d.aligned = delivery[id].aligned
         /\ d.evidence = ev
    BY <1>4, <1>7, <1>10 DEF Deliveries
  <1>12. delivery' = [delivery EXCEPT ![id] = d]
    BY <1>2, <1>6, <1>10, OwnState DEF EvaluateRetained, TypeOK
  <1>13. PICK r : r = [req[p] EXCEPT !.pc = "postflight", !.att = att]
    OBVIOUS
  <1>14. /\ r \in Requests /\ r.pc = "postflight" /\ r.id = id /\ r.half = req[p].half
         /\ r.kind = req[p].kind /\ r.cursor = req[p].cursor /\ r.att = att
    BY <1>9, <1>13, OwnState DEF Requests, Places
  <1>15. Goto(p, r)
    BY <1>6, <1>8, <1>13 DEF EvaluateRetained
  <1>16. DOMAIN delivery' = DOMAIN delivery /\ delivery'[id] = d
    BY <1>2, <1>3, <1>7, <1>11, <1>12, DeliveryStep
  <1>17. RequestSound(r, delivery', told')
    BY <1>2, <1>3, <1>9, <1>11, <1>14, <1>16, OwnState DEF RequestSound, Fresh
  <1> QED
    BY <1>1, <1>2, <1>3, <1>7, <1>11, <1>12, <1>14, <1>15, <1>17, RetainedStep

\* The last chunk makes a delivery complete.
LEMMA PostflightInv == ASSUME OverviewInv, NEW p \in Procs, Postflight(p) PROVE OverviewInv'
  <1> DEFINE id == req[p].id
             complete == delivery[id].complete \/ (~IsProof(req[p]) /\ IsStored(id))
  <1>1. req[p].pc = "postflight" /\ UNCHANGED <<repo, session, holds, told>>
    BY DEF Postflight, At
  <1>2. /\ id \in DOMAIN delivery /\ ~Fresh(req[p])
        /\ AttestationSound(req[p].att, delivery[id].body, told)
    BY <1>1, OwnState DEF RequestSound
  <1>3. CASE UNCHANGED delivery /\ Done(p)
    BY <1>1, <1>3, DoneStep
  <1>4. CASE /\ delivery' = [delivery EXCEPT ![id].complete =
                                @ \/ (~IsProof(req[p]) /\ IsStored(id))]
             /\ Goto(p, [req[p] EXCEPT !.pc = "record"])
    <2>1. delivery[id] \in Deliveries
      BY <1>2, DeliveryType
    <2>2. PICK c \in BOOLEAN : c = complete
      OBVIOUS
    <2>3. PICK d : d = [delivery[id] EXCEPT !.complete = c]
      OBVIOUS
    <2>4. /\ d \in Deliveries /\ d.body = delivery[id].body /\ d.aligned = delivery[id].aligned
          /\ d.evidence = delivery[id].evidence
      BY <2>1, <2>3 DEF Deliveries
    <2>5. delivery' = [delivery EXCEPT ![id] = d]
      BY <1>2, <1>4, <2>2, <2>3, OwnState DEF TypeOK
    <2>6. EvidenceSound(d.evidence, d.body, told)
      BY <1>2, <2>4, DeliveryType
    <2>7. PICK r : r = [req[p] EXCEPT !.pc = "record"]
      OBVIOUS
    <2>8. /\ r \in Requests /\ r.pc = "record" /\ r.id = id /\ r.half = req[p].half
          /\ r.kind = req[p].kind /\ r.cursor = req[p].cursor /\ r.att = req[p].att
      BY <2>7, OwnState DEF Requests, Places
    <2>9. DOMAIN delivery' = DOMAIN delivery /\ delivery'[id] = d
      BY <1>2, <2>4, <2>5, <2>6, DeliveryStep, GrowsRefl
    <2>10. RequestSound(r, delivery', told')
      BY <1>1, <1>2, <2>4, <2>8, <2>9, OwnState DEF RequestSound, Fresh
    <2>11. RetryNeverInterrupts'
      BY <1>1, OwnState DEF RetryNeverInterrupts
    <2> QED
      BY <1>1, <1>2, <1>4, <2>4, <2>5, <2>6, <2>7, <2>8, <2>10, <2>11, RetainedStep, GrowsRefl, OwnState
      DEF TypeOK
  <1> QED
    BY <1>3, <1>4 DEF Postflight

\* A body that reaches its Host.
LEMMA ReceivesType ==
    ASSUME OverviewInv, NEW h \in Hosts, NEW body \in Bodies, Receives(h, body)
    PROVE  /\ holds' \in [Hosts -> [cursors : SUBSET Cursors, bodies : SUBSET Bodies]]
           /\ \A g \in Hosts : holds'[g].cursors = holds[g].cursors
  <1> DEFINE Shelves == [cursors : SUBSET Cursors, bodies : SUBSET Bodies]
  <1>1. holds \in [Hosts -> Shelves] /\ holds[h] \in Shelves
    BY DEF OverviewInv, TypeOK
  <1>2. PICK w : w = [holds[h] EXCEPT !.bodies = holds[h].bodies \cup {body}]
    OBVIOUS
  <1>3. w \in Shelves /\ w.cursors = holds[h].cursors
    BY <1>1, <1>2
  <1>4. holds' = [holds EXCEPT ![h] = w]
    BY <1>1, <1>2 DEF Receives
  <1> HIDE DEF Shelves
  <1>5. /\ holds' \in [Hosts -> Shelves]
        /\ \A g \in Hosts : holds'[g] = IF g = h THEN w ELSE holds[g]
    BY <1>1, <1>3, <1>4
  <1> QED
    BY <1>3, <1>5 DEF Shelves

\* A step that ends p, with a session and deliveries that are sound.
LEMMA EndStep ==
    ASSUME OverviewInv, NEW p \in Procs, Done(p), repo' = repo,
           told' \in Tellings, Grows(told, told'), RetryNeverInterrupts', SessionSound(session', told'),
           delivery' = delivery, NEW body \in Bodies,
           holds' = holds \/ Receives(Owner[p], body)
    PROVE  OverviewInv'
  <1>1. holds' \in [Hosts -> [cursors : SUBSET Cursors, bodies : SUBSET Bodies]]
    BY OwnState, ReceivesType DEF TypeOK
  <1>2. \A g \in Hosts : holds'[g].cursors = holds[g].cursors
    BY OwnState, ReceivesType
  <1>3. CursorsSound'
    BY <1>2, OwnState DEF CursorsSound
  <1>4. DeliveriesSound(delivery', told') /\ delivery' \in Seq(Deliveries) /\ Kept(delivery, delivery')
    BY OwnState, DeliveriesGrow, KeptRefl DEF TypeOK
  <1> QED
    BY <1>1, <1>3, <1>4, IdleSound, OwnStep DEF Done

\* The receipt made with the delivery is recorded, whatever the session has become.
LEMMA RecordInv == ASSUME OverviewInv, NEW p \in Procs, Record(p) PROVE OverviewInv'
  <1>1. PICK d : d = delivery[req[p].id]
    OBVIOUS
  <1>2. /\ req[p].pc = "record" /\ Done(p) /\ UNCHANGED <<repo, delivery, told>>
        /\ holds' = holds \/ Receives(Owner[p], d.body)
    BY <1>1 DEF Record, At
  <1>3. /\ req[p].id \in DOMAIN delivery /\ ~Fresh(req[p])
        /\ AttestationSound(req[p].att, d.body, told)
    BY <1>1, <1>2, OwnState DEF RequestSound
  <1>4. d.body \in Bodies /\ d.generation \in Nat /\ d.aligned \in BOOLEAN
    BY <1>1, <1>3, DeliveryType DEF Deliveries
  <1>5. d.aligned => d.body \in BoundAligned(told)
    BY <1>1, <1>3, OwnState DEF DeliveriesSound
  <1>6. PICK s : s = NoteDeliveryChain(session, req[p], d.body, req[p].att)
    OBVIOUS
  <1>7. SessionSound(s, told)
    BY <1>3, <1>4, <1>6, ChainSound, OwnState DEF AttestationSound
  <1>9. PICK C \in ConsumedAfter(s) :
            session' = RecordAttestedDelivery(s, C, d.body, d.generation, req[p].att, d.aligned)
    BY <1>1, <1>6 DEF Record
  <1>8. SessionSound(session', told)
    BY <1>3, <1>4, <1>5, <1>7, <1>9, RecordSound
  <1>10. RetryNeverInterrupts'
    BY <1>2, OwnState DEF RetryNeverInterrupts
  <1> QED
    BY <1>2, <1>4, <1>8, <1>10, EndStep, GrowsRefl, OwnState DEF TypeOK

\* check_only changes the session by its evaluation alone.
LEMMA CheckOnlyInv == ASSUME OverviewInv, NEW p \in Procs, CheckOnly(p) PROVE OverviewInv'
  <1>1. Told(p, {}, {}) /\ Done(p) /\ UNCHANGED <<repo, delivery, holds>>
    BY DEF CheckOnly
  <1>2. SessionSound(session', told')
    BY <1>1, ToldIs DEF CheckOnly
  <1>3. Current(req[p]) \in Bodies
    BY OwnState, BodyType
  <1> QED
    BY <1>1, <1>2, <1>3, ToldIs, EndStep

\* A stop settles the reload with an unreliable receipt.
LEMMA CapacityStopInv == ASSUME OverviewInv, NEW p \in Procs, CapacityStop(p) PROVE OverviewInv'
  <1>1. Told(p, {}, {}) /\ Done(p) /\ UNCHANGED <<repo, delivery, holds>>
    BY DEF CapacityStop
  <1>2. PICK s : s = Evaluate(session, req[p])
    OBVIOUS
  <1>3. SessionSound(s, told') /\ s.generation + 1 \in Nat
    BY <1>1, <1>2, ToldIs DEF SessionSound, Sessions
  <1>4. Current(req[p]) \in Bodies
    BY OwnState, BodyType
  <1>5. PICK C \in ConsumedAfter(s) :
            session' = MarkDeliveryAttempt(s, C, Current(req[p]), s.generation + 1, FALSE)
    BY <1>2 DEF CapacityStop
  <1>6. SessionSound(session', told')
    BY <1>3, <1>4, <1>5, MarkSound
  <1> QED
    BY <1>1, <1>4, <1>6, ToldIs, EndStep

\* A new delivery is made.
LEMMA NewDelivery ==
    ASSUME OverviewInv, NEW d \in Deliveries, NEW t, Grows(told, t),
           EvidenceSound(d.evidence, d.body, t), d.aligned => d.body \in BoundAligned(t),
           delivery' = Append(delivery, d)
    PROVE  /\ delivery' \in Seq(Deliveries) /\ DeliveriesSound(delivery', t)
           /\ Kept(delivery, delivery') /\ Len(delivery) + 1 \in DOMAIN delivery'
  <1>1. delivery \in Seq(Deliveries) /\ DeliveriesSound(delivery, t)
    BY DeliveriesGrow DEF OverviewInv, TypeOK
  <1>2. /\ delivery' \in Seq(Deliveries) /\ DOMAIN delivery' = 1..(Len(delivery) + 1)
        /\ DOMAIN delivery = 1..Len(delivery) /\ Len(delivery) \in Nat
        /\ \A i \in 1..Len(delivery) : delivery'[i] = delivery[i]
        /\ delivery'[Len(delivery) + 1] = d
    BY <1>1
  <1>3. DeliveriesSound(delivery', t)
    BY <1>1, <1>2 DEF DeliveriesSound
  <1>4. Kept(delivery, delivery')
    BY <1>2 DEF Kept
  <1> QED
    BY <1>2, <1>3, <1>4

\* A Host is given a cursor.
LEMMA CursorGiven ==
    ASSUME OverviewInv, NEW h \in Hosts, NEW c \in Cursors,
           holds' = [holds EXCEPT ![h].cursors = @ \cup {c}]
    PROVE  /\ holds' \in [Hosts -> [cursors : SUBSET Cursors, bodies : SUBSET Bodies]]
           /\ \A g \in Hosts : holds'[g].cursors \subseteq holds[g].cursors \cup {c}
  <1> DEFINE Shelves == [cursors : SUBSET Cursors, bodies : SUBSET Bodies]
  <1>1. holds \in [Hosts -> Shelves] /\ holds[h] \in Shelves
    BY DEF OverviewInv, TypeOK
  <1>2. PICK w : w = [holds[h] EXCEPT !.cursors = holds[h].cursors \cup {c}]
    OBVIOUS
  <1>3. w \in Shelves /\ w.cursors = holds[h].cursors \cup {c}
    BY <1>1, <1>2
  <1>4. holds' = [holds EXCEPT ![h] = w]
    BY <1>1, <1>2
  <1> HIDE DEF Shelves
  <1>5. /\ holds' \in [Hosts -> Shelves]
        /\ \A g \in Hosts : holds'[g] = IF g = h THEN w ELSE holds[g]
    BY <1>1, <1>3, <1>4
  <1> QED
    BY <1>3, <1>5 DEF Shelves

\* The session of a live delivery once its snapshot is bound.
LEMMA LiveSession ==
    ASSUME OverviewInv, NEW p \in Procs, NEW governed \in SUBSET Bodies,
           NEW refused \in SUBSET Bodies, Told(p, governed, refused),
           Fresh(req[p]) /\ req[p].source = req[p].index
               => Current(req[p]) \in governed \cup refused
    PROVE  SessionSound(BindSnapshot(Evaluate(session, req[p]), req[p]), told')
  <1>1. /\ SessionSound(Evaluate(session, req[p]), told')
        /\ governed \cup refused \subseteq BoundAligned(told')
    BY ToldIs
  <1> QED
    BY <1>1, OwnState, BindSound

\* A fresh body: its snapshot is bound, its evidence reset, a reload opened below the verdict.
LEMMA DeliverFreshInv == ASSUME OverviewInv, NEW p \in Procs, DeliverFresh(p) PROVE OverviewInv'
  <1>1. PICK r : r = req[p]
    OBVIOUS
  <1>2. PICK body \in Bodies : body = Current(r)
    BY <1>1, BodyType, OwnState
  <1>3. PICK s0 : s0 = BindSnapshot(Evaluate(session, r), r)
    OBVIOUS
  <1>4. PICK aligned \in BOOLEAN : aligned = (r.source = r.index)
    OBVIOUS
  <1>5. PICK d : d = [owner |-> Owner[p], body |-> body,
                      guard |-> [index |-> r.index, source |-> r.source],
                      aligned |-> aligned, generation |-> s0.generation + 1, bytes |-> Tokens(body),
                      proof |-> 0, complete |-> ChunkCount(body) = 1, evidence |-> NoEvidence]
    OBVIOUS
  <1>6. /\ Fresh(r) /\ Done(p) /\ repo' = repo /\ ~CapacityStopApplies(s0, Tokens(body))
        /\ Told(p, {b \in {body} : aligned /\ SnapshotHolds(r)},
                   {b \in {body} : aligned /\ ~SnapshotHolds(r)})
    BY <1>1, <1>2, <1>3, <1>4 DEF DeliverFresh
  <1>7. PICK guarded \in BOOLEAN :
            LET se == IF guarded THEN s0 ELSE [s0 EXCEPT !.evidence[body] = NoEvidence]
                kept == guarded /\ CanPut(Tokens(body))
                new == IF kept THEN Len(delivery) + 1 ELSE 0
            IN  IF SnapshotHolds(r)
                THEN /\ session' = NoteDeliveryChain(se, r, body, NoAttestation)
                     /\ IF kept
                        THEN delivery' = Append(delivery, d) /\ SetStore(Put(new, Tokens(body)))
                        ELSE UNCHANGED <<delivery, stored, bytes>>
                     /\ IF ChunkCount(body) = 1 THEN Receives(Owner[p], body)
                        ELSE holds' = [holds EXCEPT ![Owner[p]].cursors =
                                                        @ \cup {[id |-> new, body |-> body]}]
                ELSE session' = se /\ UNCHANGED <<delivery, stored, bytes, holds>>
    BY <1>1, <1>2, <1>3, <1>4, <1>5, ZenonT(60) DEF DeliverFresh
  <1> DEFINE kept == guarded /\ CanPut(Tokens(body))
  <1>21. PICK s : s = IF guarded THEN s0 ELSE [s0 EXCEPT !.evidence[body] = NoEvidence]
    OBVIOUS
  <1>22. PICK id : id = IF kept THEN Len(delivery) + 1 ELSE 0
    OBVIOUS
  <1>23. \/ /\ session' = NoteDeliveryChain(s, r, body, NoAttestation)
            /\ delivery' = IF kept THEN Append(delivery, d) ELSE delivery
            /\ \/ Receives(Owner[p], body)
               \/ holds' = [holds EXCEPT ![Owner[p]].cursors = @ \cup {[id |-> id, body |-> body]}]
         \/ session' = s /\ UNCHANGED <<delivery, holds>>
    BY <1>7, <1>21, <1>22
  <1>24. PICK G \in SUBSET Bodies : G = {b \in {body} : aligned /\ SnapshotHolds(r)}
    OBVIOUS
  <1>25. PICK F \in SUBSET Bodies : F = {b \in {body} : aligned /\ ~SnapshotHolds(r)}
    OBVIOUS
  <1>26. Told(p, G, F) /\ (aligned => body \in G \cup F)
    BY <1>6, <1>24, <1>25
  <1>8. /\ told' \in Tellings /\ Grows(told, told') /\ RetryNeverInterrupts'
        /\ aligned => body \in BoundAligned(told')
    BY <1>26, ToldIs
  <1>9. SessionSound(s0, told')
    BY <1>1, <1>2, <1>3, <1>4, <1>26, LiveSession
  <1>10. NoEvidence \in Evidence /\ EvidenceSound(NoEvidence, body, told')
    BY DEF NoEvidence, NoHalves, Evidence, Halfs, EvidenceSound
  <1>11. PICK se : se = [s0 EXCEPT !.evidence[body] = NoEvidence]
    OBVIOUS
  <1>12. SessionSound(se, told')
    BY <1>9, <1>10, <1>11, EvidenceBound
  <1>13. se.capacity = s0.capacity /\ se.pending = s0.pending
    BY <1>9, <1>11 DEF SessionSound, Sessions
  <1>14. SessionSound(s, told') /\ ~CapacityStopApplies(s, Tokens(body))
    <2>1. CASE s = s0
      BY <1>6, <1>9, <2>1
    <2>2. CASE s = se
      BY <1>6, <1>12, <1>13, <2>2 DEF CapacityStopApplies, CompactionPending
    <2> QED
      BY <1>11, <1>21, <2>1, <2>2
  <1>15. SessionSound(session', told')
    <2>1. PICK sc : sc = NoteDeliveryChain(s, r, body, NoAttestation)
      OBVIOUS
    <2>2. session' = sc \/ session' = s
      BY <1>23, <2>1
    <2>4. NoAttestation.integrity # "confirmed"
      BY DEF NoAttestation
    <2>3. SessionSound(sc, told')
      BY <1>14, <2>1, <2>4, ChainSound
    <2> QED
      BY <1>14, <2>2, <2>3
  <1>16. d \in Deliveries /\ d.body = body /\ d.aligned = aligned /\ d.evidence = NoEvidence
    <2>1. Tokens(body) \in Nat /\ r.index \in Versions /\ r.source \in Versions
      BY <1>1, BodyType, OwnState DEF Requests
    <2>2. s0.generation + 1 \in Nat
      BY <1>9 DEF SessionSound, Sessions
    <2>3. Owner[p] \in Hosts
      BY OwnState
    <2> QED
      BY <1>5, <1>10, <2>1, <2>2, <2>3 DEF Deliveries, Guards
  <1>17. /\ delivery' \in Seq(Deliveries) /\ DeliveriesSound(delivery', told')
         /\ Kept(delivery, delivery')
    <2>1. CASE delivery' = delivery
      BY <1>8, <2>1, OwnState, DeliveriesGrow, KeptRefl DEF TypeOK
    <2>2. CASE delivery' = Append(delivery, d)
      BY <1>8, <1>10, <1>16, <2>2, NewDelivery
    <2> QED
      BY <1>23, <2>1, <2>2
  <1>18. /\ holds' \in [Hosts -> [cursors : SUBSET Cursors, bodies : SUBSET Bodies]]
         /\ CursorsSound'
    <2>1. CASE \/ Receives(Owner[p], body)
               \/ holds' = holds
      <3>1. /\ holds' \in [Hosts -> [cursors : SUBSET Cursors, bodies : SUBSET Bodies]]
            /\ \A g \in Hosts : holds'[g].cursors = holds[g].cursors
        BY <2>1, OwnState, ReceivesType DEF TypeOK
      <3> QED
        BY <1>17, <3>1, OwnState DEF CursorsSound, Kept
    <2>2. CASE holds' = [holds EXCEPT ![Owner[p]].cursors = @ \cup {[id |-> id, body |-> body]}] /\
               delivery' = IF kept THEN Append(delivery, d) ELSE delivery
      <3>1. PICK c : c = [id |-> id, body |-> body]
        OBVIOUS
      <3>2. Len(delivery) \in Nat
        BY OwnState DEF TypeOK
      <3>3. c \in Cursors /\ c.id = id
        BY <1>22, <3>1, <3>2 DEF Cursors
      <3>4. /\ holds' \in [Hosts -> [cursors : SUBSET Cursors, bodies : SUBSET Bodies]]
            /\ \A g \in Hosts : holds'[g].cursors \subseteq holds[g].cursors \cup {c}
        BY <2>2, <3>1, <3>3, OwnState, CursorGiven
      <3>5. id = 0 \/ id \in DOMAIN delivery'
        BY <1>8, <1>10, <1>16, <1>22, <2>2, NewDelivery
      <3> QED
        BY <1>17, <3>3, <3>4, <3>5, OwnState DEF CursorsSound, Kept
    <2> QED
      BY <1>23, <2>1, <2>2
  <1> QED
    BY <1>6, <1>8, <1>15, <1>17, <1>18, IdleSound, OwnStep DEF Done

\* A half on the live path counts for a body that was delivered under the present source.
LEMMA DeliverLiveInv == ASSUME OverviewInv, NEW p \in Procs, DeliverLive(p) PROVE OverviewInv'
  <1>1. PICK r : r = req[p]
    OBVIOUS
  <1>2. PICK body \in Bodies : body = Current(r) /\ body.index = r.index
    BY <1>1, BodyType, OwnState
  <1>3. PICK s0 : s0 = BindSnapshot(Evaluate(session, r), r)
    OBVIOUS
  <1>4. PICK ev : ev = Merge(s0.evidence[body], r, body)
    OBVIOUS
  <1>5. PICK att : att = Assess(ev, r, body)
    OBVIOUS
  <1>6. PICK s : s = [s0 EXCEPT !.evidence[body] = ev]
    OBVIOUS
  <1>7. PICK aligned \in BOOLEAN : aligned = (r.source = r.index /\ Bound(s0, r))
    OBVIOUS
  <1>17. PICK sc : sc = NoteDeliveryChain(s, r, body, att)
    OBVIOUS
  <1>8. /\ r.kind \in {"next", "proof"} /\ Done(p) /\ repo' = repo /\ delivery' = delivery
        /\ Told(p, {}, {})
        /\ \/ /\ \E C \in ConsumedAfter(sc) :
                   session' = RecordAttestedDelivery(sc, C, body, s.generation + 1, att, aligned)
              /\ holds' = holds \/ Receives(Owner[p], body)
           \/ session' = s /\ holds' = holds
    BY <1>1, <1>2, <1>3, <1>4, <1>5, <1>6, <1>7, <1>17 DEF DeliverLive
  <1>9. ~Fresh(r)
    BY <1>8 DEF Fresh
  <1>10. /\ told' \in Tellings /\ Grows(told, told') /\ RetryNeverInterrupts'
         /\ HalfSound(r.half, told') /\ r \in Requests
    BY <1>1, <1>8, ToldIs, OwnState
  <1>11. SessionSound(s0, told')
    BY <1>1, <1>3, <1>8, <1>9, LiveSession
  <1>12. s0.evidence[body] \in Evidence /\ EvidenceSound(s0.evidence[body], body, told')
    BY <1>11 DEF SessionSound, Sessions
  <1>13. ev \in Evidence /\ EvidenceSound(ev, body, told')
    BY <1>4, <1>10, <1>12, MergeSound
  <1>14. AttestationSound(att, body, told')
    BY <1>5, <1>10, <1>13, AssessSound
  <1>15. SessionSound(s, told') /\ s.generation + 1 \in Nat
    <2>1. SessionSound(s, told')
      BY <1>6, <1>11, <1>13, EvidenceBound
    <2> QED
      BY <2>1 DEF SessionSound, Sessions
  <1>16. aligned => body \in BoundAligned(told')
    BY <1>2, <1>7, <1>11 DEF Bound, SessionSound
  <1>18. SessionSound(sc, told')
    BY <1>9, <1>14, <1>15, <1>17, ChainSound DEF AttestationSound
  <1>19. PICK n \in Nat : n = s.generation + 1
    BY <1>15
  <1>20. \A C \in ConsumedAfter(sc) :
             SessionSound(RecordAttestedDelivery(sc, C, body, n, att, aligned), told')
    BY <1>14, <1>16, <1>18, RecordSound
  <1>21. SessionSound(session', told')
    BY <1>8, <1>15, <1>19, <1>20
  <1> QED
    BY <1>8, <1>10, <1>21, EndStep

-----------------------------------------------------------------------------
(* The specification.                                                      *)

\* The repository and the clock touch neither the session nor a request.
LEMMA OutsideInv ==
    ASSUME OverviewInv, repo' \in Guards, UNCHANGED <<session, delivery, req, holds, told>>
    PROVE  OverviewInv'
  BY DEF OverviewInv, TypeOK, CursorsSound, RetryNeverInterrupts

\* The repository moves on.
LEMMA EditInv == ASSUME OverviewInv, Edit PROVE OverviewInv'
  <1>1. repo \in Guards
    BY DEF OverviewInv, TypeOK
  <1>2. UNCHANGED <<session, delivery, req, holds, told>>
    BY DEF Edit
  <1>3. repo' \in Guards
    <2>1. ASSUME NEW v \in Versions, repo' = [repo EXCEPT !.source = v] PROVE repo' \in Guards
      BY <1>1, <2>1 DEF Guards
    <2>2. ASSUME NEW v \in Versions, repo' = [index |-> v, source |-> v] PROVE repo' \in Guards
      BY <2>2 DEF Guards
    <2>3. ASSUME repo' = [repo EXCEPT !.index = repo.source] PROVE repo' \in Guards
      BY <1>1, <2>3 DEF Guards
    <2> QED
      BY <2>1, <2>2, <2>3 DEF Edit
  <1> QED
    BY <1>2, <1>3, OutsideInv

\* A server that has just started.
LEMMA InitInv == ASSUME Init PROVE OverviewInv
  <1>1. repo \in Guards /\ NoEvidence \in Evidence
    BY OverviewConstants DEF Init, Guards, NoEvidence, NoHalves, Evidence, Halfs
  <1>2. session \in Sessions
    BY <1>1 DEF Init, Sessions
  <1>3. /\ session.attempt = None /\ session.last = None
        /\ \A b \in Bodies : session.evidence[b] = NoEvidence /\ session.snapshot[b] = None
    BY DEF Init
  <1>4. told \in Tellings /\ told.declared = {} /\ told.retried = FALSE /\ told.failed = None
    BY DEF Init, Tellings
  <1>5. \A b \in Bodies : EvidenceSound(NoEvidence, b, told) /\ b.index # None
    BY BodyType, OverviewConstants DEF NoEvidence, NoHalves, EvidenceSound
  <1>11. EventsKnown(session, told) /\ VerdictSound(session, told)
    <2>1. session.pending = {} /\ session.consumed = {} /\ session.capacity = None
      BY DEF Init
    <2> QED
      BY <1>4, <2>1, FS_EmptySet DEF EventsKnown, VerdictSound
  <1>6. SessionSound(session, told)
    BY <1>2, <1>3, <1>4, <1>5, <1>11 DEF SessionSound, LoopBroken
  <1>7. /\ delivery = <<>> /\ req = [p \in Procs |-> Idle]
        /\ holds = [h \in Hosts |-> [cursors |-> {}, bodies |-> {}]]
    BY DEF Init
  <1>8. TypeOK
    <2>1. holds \in [Hosts -> [cursors : SUBSET Cursors, bodies : SUBSET Bodies]]
      BY <1>7
    <2> QED
      BY <1>1, <1>2, <1>4, <1>7, <2>1, IdleSound DEF TypeOK
  <1>9. DeliveriesSound(delivery, told) /\ CursorsSound
    BY <1>7 DEF DeliveriesSound, CursorsSound
  <1>10. \A p \in Procs : RequestSound(req[p], delivery, told)
    BY <1>7, IdleSound
  <1> QED
    BY <1>4, <1>6, <1>8, <1>9, <1>10 DEF OverviewInv, RetryNeverInterrupts

\* Every step keeps the invariant.
LEMMA StepInv == ASSUME OverviewInv, [Next]_vars PROVE OverviewInv'
  <1>1. ASSUME NEW p \in Procs,
               \/ Submit(p) \/ Lookup(p) \/ FindProof(p) \/ Reserve(p) \/ EvaluateRetained(p)
               \/ Postflight(p) \/ Record(p) \/ CheckOnly(p) \/ CapacityStop(p)
               \/ DeliverFresh(p) \/ DeliverLive(p)
        PROVE  OverviewInv'
    BY <1>1, SubmitInv, LookupInv, FindProofInv, ReserveInv, EvaluateRetainedInv, PostflightInv,
       RecordInv, CheckOnlyInv, CapacityStopInv, DeliverFreshInv, DeliverLiveInv
  <1>2. CASE Edit
    BY <1>2, EditInv
  <1>3. ASSUME NEW id \in ToSet(stored), Prune(id) PROVE OverviewInv'
    <2>1. repo' \in Guards /\ UNCHANGED <<session, delivery, req, holds, told>>
      BY <1>3 DEF Prune, OverviewInv, TypeOK
    <2> QED
      BY <2>1, OutsideInv
  <1>4. CASE UNCHANGED vars
    <2>1. repo' \in Guards /\ UNCHANGED <<session, delivery, req, holds, told>>
      BY <1>4 DEF vars, OverviewInv, TypeOK
    <2> QED
      BY <2>1, OutsideInv
  <1> QED
    BY <1>1, <1>2, <1>3, <1>4 DEF Next

\* The sessions, deliveries and requests are sound, for every number of requests,
\* Hosts, events and index versions, and whatever the store evicts meanwhile.
THEOREM OverviewInvariant == Spec => []OverviewInv
  <1> QED
    BY InitInv, StepInv, PTL DEF Spec

\* The loop breaker: a reload is open only while a compaction waits for it, and
\* is smaller than every reload that a compaction interrupted, unless a Host
\* confirmed a whole scope of that size (noteCompactionDeclaration, noteFreshDelivery
\* and capacityStopApplies under one session mutex).
THEOREM ReloadLoopBrokenAlways == Spec => []ReloadLoopBroken
  <1>1. OverviewInv => ReloadLoopBroken
    <2> SUFFICES ASSUME OverviewInv, session.attempt # None
                 PROVE  /\ CompactionPending(session)
                        /\ session.capacity # None => session.attempt.tokens < session.capacity
                        /\ told.failed # None /\ session.attempt.tokens >= told.failed
                               => HeldOnce(told)
      BY DEF ReloadLoopBroken
    <2>1. LoopBroken(session) /\ VerdictSound(session, told)
      BY DEF OverviewInv, SessionSound
    <2>2. session.attempt.tokens \in Nat /\ told.failed \in Nat \cup {None}
      BY DEF OverviewInv, TypeOK, Sessions, Attempts, Tellings
    <2>3. session.pending # {} /\ (session.capacity # None => session.attempt.tokens < session.capacity)
      BY <2>1 DEF LoopBroken
    <2>4. told.failed # None => HeldOnce(told) \/ session.capacity = told.failed
      BY <2>1 DEF VerdictSound
    <2> QED
      BY <2>2, <2>3, <2>4 DEF CompactionPending
  <1> QED
    BY <1>1, OverviewInvariant, PTL

\* While fewer events were declared than the session remembers, a declaration
\* that a Host sends again, in a request of any kind and however late, never
\* counts as a new compaction (noteCompactionDeclaration, consumeEvent).
THEOREM RetryNeverInterruptsAlways == Spec => []RetryNeverInterrupts
  <1>1. OverviewInv => RetryNeverInterrupts
    BY DEF OverviewInv
  <1> QED
    BY <1>1, OverviewInvariant, PTL

\* A reliable receipt of this server has a Host's confirmation, a passed report
\* and a delivery under aligned governance behind it, or a fresh request refused
\* only at its postflight, also when the retained delivery, the session or the
\* repository changed between its sections (recordAttestedDelivery).
THEOREM ReliableProvenAlways == Spec => []ReliableProven
  <1>1. OverviewInv => ReliableProven
    BY DEF OverviewInv, SessionSound, ReliableProven, BoundAligned
  <1> QED
    BY <1>1, OverviewInvariant, PTL

-----------------------------------------------------------------------------
(* The store.  The invariant says of the weight that prefix sums exist, so *)
(* that removing an entry or growing one shifts the sums behind it.        *)

\* w[n] is what the first n of ids weigh.
Sums(w, ids, ds) ==
    /\ w \in [0..Len(ids) -> Int] /\ w[0] = 0
    /\ \A i \in 1..Len(ids) : w[i] = w[i - 1] + ds[ids[i]].bytes

\* ids are deliveries that were made, each once.
Entries(ids, ds) ==
    /\ ids \in Seq(Nat)
    /\ \A i \in 1..Len(ids) : ids[i] \in DOMAIN ds
    /\ \A i, j \in 1..Len(ids) : ids[i] = ids[j] => i = j

Weighing(ids, n, ds) ==
    Entries(ids, ds) /\ \E w : Sums(w, ids, ds) /\ w[Len(ids)] = n

Weights(ds) == \A id \in DOMAIN ds : ds[id].bytes \in Nat

StoreInv ==
    /\ Weights(delivery) /\ Weighing(stored, bytes, delivery)
    /\ bytes <= MaxBytes /\ Len(stored) <= MaxCount

\* The entries behind the one that is removed move up.
LEMMA RemoveFirstIs ==
    ASSUME NEW ids \in Seq(Nat), NEW k \in 1..Len(ids),
           \A i \in 1..Len(ids) : ids[i] = ids[k] => i = k
    PROVE  /\ RemoveFirst(ids, ids[k]) \in Seq(Nat)
           /\ Len(RemoveFirst(ids, ids[k])) = Len(ids) - 1
           /\ \A i \in 1..(Len(ids) - 1) :
                 RemoveFirst(ids, ids[k])[i] = IF i < k THEN ids[i] ELSE ids[i + 1]
  <1> DEFINE I == {i \in 1..Len(ids) : ids[i] = ids[k]}
             front == SubSeq(ids, 1, k - 1)
             back == SubSeq(ids, k + 1, Len(ids))
  <1>1. I = {k} /\ Len(ids) \in Nat
    OBVIOUS
  <1>2. Min(I) = k
    <2>1. \A x \in {k} : \A y \in {k} : x =< y
      OBVIOUS
    <2> QED
      BY <1>1, <2>1, Zenon DEF Min
  <1>3. SelectInSeq(ids, LAMBDA v : v = ids[k]) = k
    BY <1>1, <1>2, Zenon DEF SelectInSeq
  <1>4. RemoveFirst(ids, ids[k]) = front \o back
    BY <1>3 DEF RemoveFirst, RemoveAt
  <1>5. /\ front \in Seq(Nat) /\ Len(front) = k - 1
        /\ \A i \in 1..(k - 1) : front[i] = ids[i]
    BY <1>1, SubSeqProperties
  <1>6. /\ back \in Seq(Nat) /\ Len(back) = Len(ids) - k
        /\ \A i \in 1..(Len(ids) - k) : back[i] = ids[k + i]
    BY <1>1, SubSeqProperties
  <1>7. PICK f \in Seq(Nat), g \in Seq(Nat), N \in Nat : f = front /\ g = back /\ N = Len(ids)
    BY <1>1, <1>5, <1>6
  <1> HIDE DEF front, back
  <1>8. Len(f) = k - 1 /\ Len(g) = N - k
    BY <1>5, <1>6, <1>7
  <1>9. /\ f \o g \in Seq(Nat) /\ Len(f \o g) = N - 1
        /\ \A i \in 1..(N - 1) : (f \o g)[i] = IF i <= k - 1 THEN f[i] ELSE g[i - (k - 1)]
    <2>1. /\ f \o g \in Seq(Nat) /\ Len(f \o g) = Len(f) + Len(g)
          /\ \A i \in 1..Len(f) + Len(g) : (f \o g)[i] = IF i <= Len(f) THEN f[i] ELSE g[i - Len(f)]
      BY ConcatProperties
    <2>2. Len(f) + Len(g) = N - 1
      BY <1>7, <1>8
    <2> QED
      BY <1>8, <2>1, <2>2
  <1>10. /\ \A i \in 1..(k - 1) : f[i] = ids[i]
         /\ \A i \in 1..(N - k) : g[i] = ids[k + i]
    BY <1>5, <1>6, <1>7
  <1>11. PICK c : c = f \o g
    OBVIOUS
  <1>12. \A i \in 1..(N - 1) : c[i] = IF i <= k - 1 THEN f[i] ELSE g[i - (k - 1)]
    BY <1>9, <1>11
  <1>13. ASSUME NEW i \in 1..(N - 1) PROVE c[i] = IF i < k THEN ids[i] ELSE ids[i + 1]
    <2>1. CASE i < k
      <3>1. i <= k - 1 /\ i \in 1..(k - 1)
        BY <2>1
      <3> QED
        BY <1>10, <1>12, <2>1, <3>1
    <2>2. CASE ~(i < k)
      <3>1. i - (k - 1) \in 1..(N - k) /\ k + (i - (k - 1)) = i + 1
        BY <1>7, <2>2
      <3>2. g[i - (k - 1)] = ids[i + 1]
        BY <1>10, <3>1
      <3>3. ~(i <= k - 1)
        BY <2>2
      <3> QED
        BY <1>12, <2>2, <3>2, <3>3
    <2> QED
      BY <2>1, <2>2
  <1> QED
    BY <1>4, <1>7, <1>9, <1>11, <1>13

\* What is not there is not removed.
LEMMA RemoveNothing ==
    ASSUME NEW ids, NEW id, \A i \in 1..Len(ids) : ids[i] # id
    PROVE  RemoveFirst(ids, id) = ids
  BY DEF RemoveFirst

\* Where an entry is.
LEMMA EntryAt ==
    ASSUME NEW ids \in Seq(Nat), NEW id
    PROVE  id \in ToSet(ids) <=> \E k \in 1..Len(ids) : ids[k] = id
  BY DEF ToSet

\* An entry less weighs less by what it weighs.
LEMMA WeighRemove ==
    ASSUME NEW ids, NEW n, NEW ds, NEW id \in ToSet(ids), Weights(ds), Weighing(ids, n, ds)
    PROVE  /\ Weighing(RemoveFirst(ids, id), n - ds[id].bytes, ds)
           /\ ToSet(RemoveFirst(ids, id)) = ToSet(ids) \ {id}
           /\ Len(RemoveFirst(ids, id)) = Len(ids) - 1 /\ ds[id].bytes \in Nat /\ n \in Int
  <1>1. /\ ids \in Seq(Nat) /\ Len(ids) \in Nat
        /\ \A i \in 1..Len(ids) : ids[i] \in DOMAIN ds
        /\ \A i, j \in 1..Len(ids) : ids[i] = ids[j] => i = j
    BY DEF Weighing, Entries
  <1>2. PICK w : Sums(w, ids, ds) /\ w[Len(ids)] = n
    BY DEF Weighing
  <1>3. PICK k \in 1..Len(ids) : ids[k] = id
    BY <1>1, EntryAt
  <1>3a. PICK N \in Nat : N = Len(ids)
    BY <1>1
  <1>4. PICK t, b : t = RemoveFirst(ids, id) /\ N = Len(ids) /\ b = ds[id].bytes
    BY <1>3a
  <1>5. k \in 1..N /\ \A i, j \in 1..N : ids[i] = ids[j] => i = j
    BY <1>1, <1>4
  <1>6. t \in Seq(Nat) /\ Len(t) = N - 1
    BY <1>1, <1>3, <1>4, RemoveFirstIs
  <1>7. \A i \in 1..(N - 1) : t[i] = IF i < k THEN ids[i] ELSE ids[i + 1]
    BY <1>1, <1>3, <1>4, RemoveFirstIs
  <1>8. b \in Nat /\ \A i \in 1..N : ids[i] \in DOMAIN ds /\ ds[ids[i]].bytes \in Nat
    BY <1>1, <1>3, <1>4 DEF Weights
  <1>9. /\ w \in [0..N -> Int] /\ w[0] = 0 /\ w[N] = n
        /\ \A i \in 1..N : w[i] = w[i - 1] + ds[ids[i]].bytes
    BY <1>2, <1>4 DEF Sums
  <1>10. PICK u : u = [i \in 0..(N - 1) |-> IF i < k THEN w[i] ELSE w[i + 1] - b]
    OBVIOUS
  <1>11. Entries(t, ds)
    <2>1. ASSUME NEW i \in 1..(N - 1) PROVE t[i] \in DOMAIN ds
      <3>1. t[i] = ids[i] \/ t[i] = ids[i + 1]
        BY <1>7
      <3>2. i \in 1..N /\ i + 1 \in 1..N
        OBVIOUS
      <3> QED
        BY <1>8, <3>1, <3>2
    <2>2. \A i, j \in 1..(N - 1) : t[i] = t[j] => i = j
      BY <1>5, <1>7
    <2> QED
      BY <1>6, <2>1, <2>2 DEF Entries
  <1>12. u \in [0..(N - 1) -> Int] /\ u[0] = 0
    <2>1. ASSUME NEW i \in 0..(N - 1) PROVE (IF i < k THEN w[i] ELSE w[i + 1] - b) \in Int
      <3>1. i \in 0..N /\ i + 1 \in 0..N
        OBVIOUS
      <3>2. w[i] \in Int /\ w[i + 1] \in Int
        BY <1>9, <3>1
      <3> QED
        BY <1>8, <3>2
    <2>2. 0 \in 0..(N - 1) /\ 0 < k
      BY <1>5
    <2> QED
      BY <1>9, <1>10, <2>1, <2>2
  <1>13. ASSUME NEW i \in 1..(N - 1) PROVE u[i] = u[i - 1] + ds[t[i]].bytes
    <2>1. i \in 1..N /\ i + 1 \in 1..N /\ i - 1 \in 0..(N - 1) /\ i \in 0..(N - 1)
      OBVIOUS
    <2>2. CASE i < k
      <3>1. u[i] = w[i] /\ u[i - 1] = w[i - 1] /\ t[i] = ids[i]
        BY <1>7, <1>10, <2>1, <2>2
      <3> QED
        BY <1>9, <2>1, <3>1
    <2>3. CASE ~(i < k)
      <3>1. u[i] = w[i + 1] - b /\ t[i] = ids[i + 1]
        BY <1>7, <1>10, <2>1, <2>3
      <3>2. u[i - 1] = w[i] - b
        <4>1. CASE i = k
          <5>1. u[i - 1] = w[i - 1]
            BY <1>10, <2>1, <4>1
          <5>2. w[i] = w[i - 1] + b /\ w[i - 1] \in Int
            BY <1>3, <1>4, <1>9, <2>1, <4>1
          <5> QED
            BY <1>8, <5>1, <5>2
        <4>2. CASE i > k
          BY <1>10, <2>1, <4>2
        <4> QED
          BY <1>5, <2>3, <4>1, <4>2
      <3>3. w[i + 1] = w[i] + ds[ids[i + 1]].bytes
        BY <1>9, <2>1
      <3>4. w[i] \in Int /\ ds[ids[i + 1]].bytes \in Nat
        <4>1. w[i] \in Int
          BY <1>9, <2>1
        <4> QED
          BY <1>8, <2>1, <4>1
      <3> QED
        BY <1>8, <3>1, <3>2, <3>3, <3>4
    <2> QED
      BY <2>2, <2>3
  <1>14. Sums(u, t, ds)
    BY <1>6, <1>12, <1>13 DEF Sums
  <1>15. u[N - 1] = n - b /\ n \in Int
    <2>1. N \in 1..N /\ N - 1 \in 0..(N - 1) /\ n \in Int /\ w[N - 1] \in Int
      BY <1>5, <1>9
    <2>2. CASE N - 1 < k
      <3>1. u[N - 1] = w[N - 1] /\ k = N
        BY <1>5, <1>10, <2>1, <2>2
      <3>2. w[N] = w[N - 1] + b
        BY <1>3, <1>4, <1>9, <2>1, <3>1
      <3> QED
        BY <1>8, <1>9, <2>1, <3>1, <3>2
    <2>3. CASE ~(N - 1 < k)
      BY <1>9, <1>10, <2>1, <2>3
    <2> QED
      BY <2>2, <2>3
  <1>16. ToSet(t) = ToSet(ids) \ {id}
    <2>1. ASSUME NEW x \in ToSet(t) PROVE x \in ToSet(ids) /\ x # id
      <3>1. PICK i \in 1..(N - 1) : t[i] = x
        BY <1>6, EntryAt
      <3>2. PICK j \in 1..N : j = (IF i < k THEN i ELSE i + 1) /\ j # k
        BY <1>5
      <3>3. ids[j] = x
        BY <1>7, <3>1, <3>2
      <3> QED
        BY <1>1, <1>3, <1>4, <1>5, <3>2, <3>3, EntryAt
    <2>2. ASSUME NEW x \in ToSet(ids), x # id PROVE x \in ToSet(t)
      <3>1. PICK j \in 1..N : ids[j] = x /\ j # k
        BY <1>1, <1>3, <1>4, <2>2, EntryAt
      <3>2. PICK i \in 1..(N - 1) : i = IF j < k THEN j ELSE j - 1
        BY <1>5, <3>1
      <3>3. t[i] = x
        BY <1>5, <1>7, <3>1, <3>2
      <3> QED
        BY <1>6, <3>3, EntryAt
    <2> QED
      BY <2>1, <2>2
  <1>17. Weighing(t, n - b, ds)
    BY <1>6, <1>11, <1>14, <1>15 DEF Weighing
  <1> QED
    BY <1>4, <1>6, <1>8, <1>15, <1>16, <1>17

\* An entry more weighs more by what it weighs.
LEMMA WeighAppend ==
    ASSUME NEW ids, NEW n, NEW ds, NEW id \in DOMAIN ds \ ToSet(ids), id \in Nat,
           Weights(ds), Weighing(ids, n, ds)
    PROVE  Weighing(Append(ids, id), n + ds[id].bytes, ds)
  <1>1. ids \in Seq(Nat) /\ Len(ids) \in Nat
    BY DEF Weighing, Entries
  <1>2. PICK N \in Nat : N = Len(ids)
    BY <1>1
  <1>3. PICK t, b : t = Append(ids, id) /\ b = ds[id].bytes
    OBVIOUS
  <1>4. t \in Seq(Nat) /\ Len(t) = N + 1 /\ t[N + 1] = id
    BY <1>1, <1>2, <1>3, AppendProperties
  <1>5. \A i \in 1..N : t[i] = ids[i] /\ t[i] # id
    <2>1. \A i \in 1..N : t[i] = ids[i]
      BY <1>1, <1>2, <1>3, AppendProperties
    <2>2. \A i \in 1..N : ids[i] # id
      BY <1>1, <1>2, EntryAt
    <2> QED
      BY <2>1, <2>2
  <1>6. PICK w : Sums(w, ids, ds) /\ w[Len(ids)] = n
    BY DEF Weighing
  <1>7. /\ w \in [0..N -> Int] /\ w[0] = 0 /\ w[N] = n
        /\ \A i \in 1..N : w[i] = w[i - 1] + ds[ids[i]].bytes
    BY <1>2, <1>6 DEF Sums
  <1>8. b \in Nat /\ n \in Int
    BY <1>3, <1>7 DEF Weights
  <1>9. PICK u : u = [i \in 0..(N + 1) |-> IF i <= N THEN w[i] ELSE n + b]
    OBVIOUS
  <1>10. \A i \in 0..N : u[i] = w[i]
    BY <1>9
  <1>11. u[N + 1] = n + b /\ u[N] = n /\ u[0] = 0
    BY <1>7, <1>9
  <1>12. u \in [0..(N + 1) -> Int]
    <2>1. ASSUME NEW i \in 0..(N + 1) PROVE (IF i <= N THEN w[i] ELSE n + b) \in Int
      <3>1. CASE i <= N
        BY <1>7, <3>1
      <3>2. CASE ~(i <= N)
        BY <1>8, <3>2
      <3> QED
        BY <3>1, <3>2
    <2> QED
      BY <1>9, <2>1
  <1>13. ASSUME NEW i \in 1..(N + 1) PROVE u[i] = u[i - 1] + ds[t[i]].bytes
    <2>1. CASE i = N + 1
      BY <1>3, <1>4, <1>11, <2>1
    <2>2. CASE i # N + 1
      <3>1. i \in 1..N /\ i - 1 \in 0..N /\ i \in 0..N
        BY <2>2
      <3> QED
        BY <1>5, <1>7, <1>10, <3>1
    <2> QED
      BY <2>1, <2>2
  <1>14. Sums(u, t, ds)
    BY <1>4, <1>11, <1>12, <1>13 DEF Sums
  <1>15. Entries(t, ds)
    <2>1. /\ \A i \in 1..N : ids[i] \in DOMAIN ds
          /\ \A i, j \in 1..N : ids[i] = ids[j] => i = j
      BY <1>2 DEF Weighing, Entries
    <2>2. ASSUME NEW i \in 1..(N + 1) PROVE t[i] \in DOMAIN ds
      <3>1. i = N + 1 \/ i \in 1..N
        OBVIOUS
      <3> QED
        BY <1>4, <1>5, <2>1, <3>1
    <2>3. ASSUME NEW i \in 1..(N + 1), NEW j \in 1..(N + 1), t[i] = t[j] PROVE i = j
      <3>1. (i = N + 1 \/ i \in 1..N) /\ (j = N + 1 \/ j \in 1..N)
        OBVIOUS
      <3> QED
        BY <1>4, <1>5, <2>1, <2>3, <3>1
    <2> QED
      BY <1>4, <2>2, <2>3 DEF Entries
  <1> QED
    BY <1>3, <1>4, <1>11, <1>14, <1>15 DEF Weighing

\* Deliveries that weigh the same weigh the same together.
LEMMA WeighSame ==
    ASSUME NEW ids, NEW n, NEW ds, NEW es, Weighing(ids, n, ds), DOMAIN ds \subseteq DOMAIN es,
           \A id \in DOMAIN ds : es[id].bytes = ds[id].bytes
    PROVE  Weighing(ids, n, es)
  <1>1. PICK w : Sums(w, ids, ds) /\ w[Len(ids)] = n
    BY DEF Weighing
  <1>2. Entries(ids, es) /\ \A i \in 1..Len(ids) : ids[i] \in DOMAIN ds
    BY DEF Weighing, Entries
  <1>3. Sums(w, ids, es)
    BY <1>1, <1>2 DEF Sums
  <1> QED
    BY <1>1, <1>2, <1>3 DEF Weighing

\* An entry that grows adds its growth, once.
LEMMA WeighGrow ==
    ASSUME NEW ids, NEW n, NEW ds, NEW es, NEW id \in ToSet(ids), NEW delta \in Int,
           Weights(ds), Weighing(ids, n, ds), DOMAIN es = DOMAIN ds,
           es[id].bytes = ds[id].bytes + delta,
           \A other \in DOMAIN ds \ {id} : es[other].bytes = ds[other].bytes
    PROVE  Weighing(ids, n + delta, es)
  <1>1. ids \in Seq(Nat) /\ Len(ids) \in Nat
    BY DEF Weighing, Entries
  <1>2. PICK N \in Nat : N = Len(ids)
    BY <1>1
  <1>3. PICK k \in 1..N : ids[k] = id
    BY <1>1, <1>2, EntryAt
  <1>4. PICK w : Sums(w, ids, ds) /\ w[Len(ids)] = n
    BY DEF Weighing
  <1>5. /\ w \in [0..N -> Int] /\ w[0] = 0 /\ w[N] = n
        /\ \A i \in 1..N : w[i] = w[i - 1] + ds[ids[i]].bytes
    BY <1>2, <1>4 DEF Sums
  <1>6. /\ \A i \in 1..N : ids[i] \in DOMAIN ds /\ ds[ids[i]].bytes \in Nat
        /\ \A i \in 1..N : ids[i] = id => i = k
    BY <1>2, <1>3 DEF Weighing, Entries, Weights
  <1>7. PICK u : u = [i \in 0..N |-> IF i < k THEN w[i] ELSE w[i] + delta]
    OBVIOUS
  <1>8. u \in [0..N -> Int] /\ u[0] = 0 /\ u[N] = n + delta
    <2>1. \A i \in 0..N : w[i] \in Int
      BY <1>5
    <2>2. \A i \in 0..N : (IF i < k THEN w[i] ELSE w[i] + delta) \in Int
      BY <2>1
    <2>3. 0 \in 0..N /\ N \in 0..N /\ 0 < k /\ ~(N < k)
      BY <1>3
    <2> QED
      BY <1>5, <1>7, <2>2, <2>3
  <1>9. ASSUME NEW i \in 1..N PROVE u[i] = u[i - 1] + es[ids[i]].bytes
    <2>1. i \in 0..N /\ i - 1 \in 0..N
      OBVIOUS
    <2>2. w[i - 1] \in Int /\ w[i] = w[i - 1] + ds[ids[i]].bytes
      BY <1>5, <2>1
    <2>3. ds[ids[i]].bytes \in Nat
      BY <1>6
    <2>4. CASE i < k
      <3>1. u[i] = w[i] /\ u[i - 1] = w[i - 1]
        BY <1>7, <2>1, <2>4
      <3>2. es[ids[i]].bytes = ds[ids[i]].bytes
        BY <1>6, <2>4
      <3> QED
        BY <2>2, <3>1, <3>2
    <2>5. CASE i = k
      <3>1. u[i] = w[i] + delta /\ u[i - 1] = w[i - 1]
        BY <1>7, <2>1, <2>5
      <3>2. es[ids[i]].bytes = ds[ids[i]].bytes + delta
        BY <1>3, <2>5
      <3> QED
        BY <2>2, <2>3, <3>1, <3>2
    <2>6. CASE i > k
      <3>1. u[i] = w[i] + delta /\ u[i - 1] = w[i - 1] + delta
        BY <1>7, <2>1, <2>6
      <3>2. es[ids[i]].bytes = ds[ids[i]].bytes
        BY <1>6, <2>6
      <3> QED
        BY <2>2, <2>3, <3>1, <3>2
    <2> QED
      BY <2>4, <2>5, <2>6
  <1>10. Sums(u, ids, es)
    BY <1>2, <1>8, <1>9 DEF Sums
  <1>11. Entries(ids, es)
    BY DEF Weighing, Entries
  <1> QED
    BY <1>2, <1>8, <1>10, <1>11 DEF Weighing

\* A store of nothing, and a store of one delivery.
LEMMA WeighFew ==
    ASSUME NEW ids, NEW n, NEW ds, Weighing(ids, n, ds), Weights(ds)
    PROVE  /\ n \in Int /\ Len(ids) \in Nat
           /\ ToSet(ids) = {} => n = 0 /\ Len(ids) = 0
           /\ \A id : ToSet(ids) = {id} => n = ds[id].bytes /\ Len(ids) = 1
  <1>1. ids \in Seq(Nat) /\ Len(ids) \in Nat
    BY DEF Weighing, Entries
  <1>2. PICK N \in Nat : N = Len(ids)
    BY <1>1
  <1>3. PICK w : Sums(w, ids, ds) /\ w[Len(ids)] = n
    BY DEF Weighing
  <1>4. /\ w \in [0..N -> Int] /\ w[0] = 0 /\ w[N] = n
        /\ \A i \in 1..N : w[i] = w[i - 1] + ds[ids[i]].bytes
    BY <1>2, <1>3 DEF Sums
  <1>5. /\ \A i, j \in 1..N : ids[i] = ids[j] => i = j
        /\ \A i \in 1..N : ds[ids[i]].bytes \in Nat
    BY <1>2 DEF Weighing, Entries, Weights
  <1>6. \A i \in 1..N : ids[i] \in ToSet(ids)
    BY <1>1, <1>2, EntryAt
  <1>7. ASSUME ToSet(ids) = {} PROVE n = 0 /\ N = 0
    <2>1. ~(1 \in 1..N)
      BY <1>6, <1>7
    <2>2. N = 0
      BY <2>1
    <2> QED
      BY <1>4, <2>2
  <1>8. ASSUME NEW id, ToSet(ids) = {id} PROVE n = ds[id].bytes /\ N = 1
    <2>1. \A i \in 1..N : ids[i] = id
      BY <1>6, <1>8
    <2>2. \E i \in 1..N : ids[i] = id
      BY <1>1, <1>2, <1>8, EntryAt
    <2>3. N >= 1
      BY <2>2
    <2>4. ~(2 \in 1..N)
      <3>1. SUFFICES ASSUME 2 \in 1..N PROVE FALSE
        OBVIOUS
      <3>2. ids[1] = ids[2] /\ 1 \in 1..N
        BY <2>1, <3>1
      <3> QED
        BY <1>5, <3>1, <3>2
    <2>5. N = 1
      BY <2>3, <2>4
    <2>6. n = w[1] /\ 1 \in 1..N /\ ids[1] = id
      BY <1>4, <2>1, <2>5
    <2>7. w[1] = w[0] + ds[id].bytes /\ ds[id].bytes \in Nat
      BY <1>4, <1>5, <2>6
    <2> QED
      BY <1>4, <2>5, <2>6, <2>7
  <1>9. n \in Int
    BY <1>4
  <1> QED
    BY <1>2, <1>7, <1>8, <1>9

\* A store that weighs what it believes.
Balanced(st) == Weighing(st.stored, st.bytes, delivery)

\* Dropping an entry, or one that is gone already, keeps the balance.
LEMMA DropBalanced ==
    ASSUME NEW st, NEW id, Weights(delivery), Balanced(st)
    PROVE  /\ Balanced(Drop(st, id)) /\ ToSet(Drop(st, id).stored) = ToSet(st.stored) \ {id}
           /\ Drop(st, id).bytes <= st.bytes /\ Len(Drop(st, id).stored) <= Len(st.stored)
  <1>1. CASE id \in ToSet(st.stored)
    <2>1. PICK t, n : t = RemoveFirst(st.stored, id) /\ n = st.bytes - delivery[id].bytes
      OBVIOUS
    <2>2. Drop(st, id) = [stored |-> t, bytes |-> n]
      BY <1>1, <2>1 DEF Drop
    <2>3. Drop(st, id).stored = t /\ Drop(st, id).bytes = n
      BY <2>2
    <2>4. /\ Weighing(t, n, delivery) /\ ToSet(t) = ToSet(st.stored) \ {id}
          /\ Len(t) = Len(st.stored) - 1 /\ delivery[id].bytes \in Nat /\ st.bytes \in Int
      BY <1>1, <2>1, WeighRemove DEF Balanced
    <2>5. Len(st.stored) \in Nat
      BY WeighFew DEF Balanced
    <2>6. n <= st.bytes /\ Len(t) <= Len(st.stored)
      BY <2>1, <2>4, <2>5
    <2> QED
      BY <2>3, <2>4, <2>6 DEF Balanced
  <1>2. CASE id \notin ToSet(st.stored)
    <2>1. Drop(st, id) = st
      BY <1>2 DEF Drop
    <2>2. st.bytes \in Int /\ Len(st.stored) \in Nat
      BY WeighFew DEF Balanced
    <2> QED
      BY <1>2, <2>1, <2>2
  <1> QED
    BY <1>1, <1>2

\* Induction, with a set in the place of a predicate.
LEMMA SetInduction ==
    ASSUME NEW S, 0 \in S, \A n \in Nat : n \in S => n + 1 \in S
    PROVE  Nat \subseteq S
  <1> SUFFICES ASSUME Nat \ S # {} PROVE FALSE
    OBVIOUS
  <1>1. PICK n \in Nat \ S : \A m \in Nat \ S : ~(<<m, n>> \in OpToRel(<, Nat))
    BY WFMin, NatLessThanWellFounded
  <1>2. \A m \in Nat \ S : ~(m < n)
    BY <1>1, Zenon DEF OpToRel
  <1>3. n # 0 /\ n - 1 \in Nat /\ n - 1 < n
    BY SMT
  <1>4. n - 1 \in S
    BY <1>2, <1>3
  <1> QED
    BY <1>3, <1>4, SMT

\* The loop of an eviction: each round drops one more.
LEMMA DroppingIs ==
    ASSUME NEW st, NEW ids \in Seq(Nat)
    PROVE  /\ Dropping(st, ids)[0] = st
           /\ \A n \in 1..Len(ids) :
                 Dropping(st, ids)[n] = Drop(Dropping(st, ids)[n - 1], ids[n])
  <1>1. PICK N \in Nat : N = Len(ids)
    OBVIOUS
  <1> DEFINE S == {m \in Nat : \E g : g = [n \in 0..m |-> IF n = 0 THEN st ELSE Drop(g[n - 1], ids[n])]}
  <1>2. 0 \in S
    <2>1. PICK g : g = [n \in 0..0 |-> st]
      OBVIOUS
    <2>2. \A n \in 0..0 : n = 0
      OBVIOUS
    <2>3. g = [n \in 0..0 |-> IF n = 0 THEN st ELSE Drop(g[n - 1], ids[n])]
      BY <2>1, <2>2
    <2> QED
      BY <2>3
  <1>3. ASSUME NEW m \in Nat, m \in S PROVE m + 1 \in S
    <2>1. PICK g : g = [n \in 0..m |-> IF n = 0 THEN st ELSE Drop(g[n - 1], ids[n])]
      BY <1>3
    <2>2. PICK h : h = [n \in 0..(m + 1) |-> IF n <= m THEN g[n] ELSE Drop(g[m], ids[n])]
      OBVIOUS
    <2>3. ASSUME NEW n \in 0..(m + 1)
          PROVE  (IF n <= m THEN g[n] ELSE Drop(g[m], ids[n]))
                     = IF n = 0 THEN st ELSE Drop(h[n - 1], ids[n])
      <3>1. CASE n = 0
        <4>1. 0 \in 0..m /\ n <= m
          BY <3>1
        <4>2. g[0] = st
          BY <2>1, <4>1
        <4> QED
          BY <3>1, <4>1, <4>2
      <3>2. CASE n # 0 /\ n <= m
        <4>1. n \in 0..m /\ n - 1 \in 0..(m + 1) /\ n - 1 <= m
          BY <3>2
        <4>2. g[n] = Drop(g[n - 1], ids[n])
          BY <2>1, <3>2, <4>1
        <4>3. h[n - 1] = g[n - 1]
          BY <2>2, <4>1
        <4> QED
          BY <3>2, <4>2, <4>3
      <3>3. CASE n # 0 /\ ~(n <= m)
        <4>1. n - 1 = m /\ m \in 0..(m + 1) /\ m <= m
          BY <3>3
        <4>2. h[n - 1] = g[m]
          BY <2>2, <4>1
        <4> QED
          BY <3>3, <4>2
      <3> QED
        BY <3>1, <3>2, <3>3
    <2>4. h = [n \in 0..(m + 1) |-> IF n = 0 THEN st ELSE Drop(h[n - 1], ids[n])]
      BY <2>2, <2>3, Zenon
    <2>5. m + 1 \in Nat
      OBVIOUS
    <2> QED
      BY <2>4, <2>5, Zenon
  <1>4. N \in S
    <2> HIDE DEF S
    <2> QED
      BY <1>2, <1>3, SetInduction
  <1>5. \E g : g = [n \in 0..Len(ids) |-> IF n = 0 THEN st ELSE Drop(g[n - 1], ids[n])]
    BY <1>1, <1>4
  <1>6. PICK f : f = Dropping(st, ids)
    OBVIOUS
  <1>7. f = [n \in 0..Len(ids) |-> IF n = 0 THEN st ELSE Drop(f[n - 1], ids[n])]
    BY <1>5, <1>6, Zenon DEF Dropping
  <1>8. f = [n \in 0..N |-> IF n = 0 THEN st ELSE Drop(f[n - 1], ids[n])]
    BY <1>1, <1>7
  <1>9. f[0] = st /\ \A n \in 1..N : f[n] = Drop(f[n - 1], ids[n])
    <2>1. 0 \in 0..N /\ \A n \in 1..N : n \in 0..N /\ n # 0
      OBVIOUS
    <2> QED
      BY <1>8, <2>1
  <1> QED
    BY <1>1, <1>6, <1>9

\* After n rounds the store is balanced, and the first n are gone.
LEMMA DroppingBalanced ==
    ASSUME NEW st, NEW ids \in Seq(Nat), Weights(delivery), Balanced(st), NEW n \in 0..Len(ids)
    PROVE  /\ Balanced(Dropping(st, ids)[n])
           /\ ToSet(Dropping(st, ids)[n].stored) = ToSet(st.stored) \ {ids[i] : i \in 1..n}
  <1>1. PICK f : f = Dropping(st, ids)
    OBVIOUS
  <1>2. PICK N \in Nat : N = Len(ids)
    OBVIOUS
  <1>3. f[0] = st /\ \A m \in 1..N : f[m] = Drop(f[m - 1], ids[m])
    BY <1>1, <1>2, DroppingIs
  <1> DEFINE Good(m) == /\ Balanced(f[m])
                        /\ ToSet(f[m].stored) = ToSet(st.stored) \ {ids[i] : i \in 1..m}
             S == {m \in Nat : m <= N => Good(m)}
  <1>4. Good(0)
    <2>1. {ids[i] : i \in 1..0} = {}
      OBVIOUS
    <2> QED
      BY <1>3, <2>1
  <1>5. ASSUME NEW m \in Nat, m + 1 <= N, Good(m) PROVE Good(m + 1)
    <2>1. m + 1 \in 1..N /\ (m + 1) - 1 = m
      BY <1>5
    <2>2. f[m + 1] = Drop(f[m], ids[m + 1])
      BY <1>3, <2>1
    <2>2a. Balanced(f[m])
      BY <1>5
    <2>3. /\ Balanced(f[m + 1])
          /\ ToSet(f[m + 1].stored) = ToSet(f[m].stored) \ {ids[m + 1]}
      BY <2>2, <2>2a, DropBalanced
    <2>4. {ids[i] : i \in 1..(m + 1)} = {ids[i] : i \in 1..m} \cup {ids[m + 1]}
      <3>1. 1..(m + 1) = (1..m) \cup {m + 1}
        OBVIOUS
      <3> QED
        BY <3>1, Zenon
    <2>5. ToSet(f[m].stored) = ToSet(st.stored) \ {ids[i] : i \in 1..m}
      BY <1>5
    <2>6. ToSet(f[m + 1].stored) = ToSet(st.stored) \ {ids[i] : i \in 1..(m + 1)}
      BY <2>3, <2>4, <2>5, Zenon
    <2> QED
      BY <2>3, <2>6
  <1> HIDE DEF Good
  <1>6. 0 \in S
    BY <1>4
  <1>7. \A m \in Nat : m \in S => m + 1 \in S
    BY <1>2, <1>5
  <1>8. n \in S /\ n <= N
    <2> HIDE DEF S
    <2>1. n \in Nat /\ n <= N
      BY <1>2
    <2>2. Nat \subseteq S
      BY <1>6, <1>7, SetInduction
    <2> QED
      BY <2>1, <2>2
  <1>9. Good(n)
    BY <1>8
  <1> QED
    BY <1>1, <1>9 DEF Good

\* The least of the rounds that are enough.
LEMMA MinOf ==
    ASSUME NEW N \in Nat, NEW S, S \subseteq 0..N, S # {}
    PROVE  Min(S) \in S
  <1>1. S \subseteq Nat
    OBVIOUS
  <1>2. PICK m \in S : \A x \in S : ~(<<x, m>> \in OpToRel(<, Nat))
    BY <1>1, WFMin, NatLessThanWellFounded
  <1>3. \A x \in S : ~(x < m)
    BY <1>1, <1>2, Zenon DEF OpToRel
  <1>4. \A x \in S : m =< x
    BY <1>1, <1>3
  <1> QED
    BY <1>4, Zenon DEF Min

\* What an eviction may drop: every entry but the one that is kept.
LEMMA OthersAre ==
    ASSUME NEW ids, NEW n, NEW keep, Weights(delivery), Weighing(ids, n, delivery)
    PROVE  /\ RemoveFirst(ids, keep) \in Seq(Nat)
           /\ ToSet(RemoveFirst(ids, keep)) = ToSet(ids) \ {keep}
  <1>1. CASE keep \in ToSet(ids)
    <2>1. PICK t : t = RemoveFirst(ids, keep)
      OBVIOUS
    <2>2. Weighing(t, n - delivery[keep].bytes, delivery) /\ ToSet(t) = ToSet(ids) \ {keep}
      BY <1>1, <2>1, WeighRemove
    <2>3. t \in Seq(Nat)
      BY <2>2 DEF Weighing, Entries
    <2> QED
      BY <2>1, <2>2, <2>3
  <1>2. CASE keep \notin ToSet(ids)
    <2>1. ids \in Seq(Nat)
      BY DEF Weighing, Entries
    <2>2. RemoveFirst(ids, keep) = ids
      BY <1>2, <2>1, EntryAt, RemoveNothing
    <2> QED
      BY <1>2, <2>1, <2>2
  <1> QED
    BY <1>1, <1>2

\* An eviction ends with room for what is to come, and keeps the kept entry: the
\* loop cannot run out of entries as long as the kept one alone leaves room.
LEMMA EvictMakesRoom ==
    ASSUME NEW st, NEW keep, NEW need \in Int, NEW room \in Int, Weights(delivery), Balanced(st),
           keep \notin ToSet(st.stored) => need <= MaxBytes /\ 0 <= room,
           keep \in ToSet(st.stored) => delivery[keep].bytes + need <= MaxBytes /\ 1 <= room
    PROVE  /\ Balanced(Evict(st, keep, need, room))
           /\ Evict(st, keep, need, room).bytes + need <= MaxBytes
           /\ Len(Evict(st, keep, need, room).stored) <= room
           /\ ToSet(Evict(st, keep, need, room).stored) \subseteq ToSet(st.stored)
           /\ keep \in ToSet(st.stored) => keep \in ToSet(Evict(st, keep, need, room).stored)
  <1>1. PICK others : others = RemoveFirst(st.stored, keep)
    OBVIOUS
  <1>2. others \in Seq(Nat) /\ ToSet(others) = ToSet(st.stored) \ {keep}
    BY <1>1, OthersAre DEF Balanced
  <1>3. PICK after : after = Dropping(st, others)
    OBVIOUS
  <1>4. PICK N \in Nat : N = Len(others)
    BY <1>2
  <1> DEFINE Enough(n) == after[n].bytes + need <= MaxBytes /\ Len(after[n].stored) <= room
             S == {n \in 0..N : Enough(n)}
  <1>5. Evict(st, keep, need, room) = after[Min(S)]
    BY <1>1, <1>3, <1>4 DEF Evict
  <1>6. \A n \in 0..N : /\ Balanced(after[n])
                        /\ ToSet(after[n].stored) = ToSet(st.stored) \ {others[i] : i \in 1..n}
    BY <1>2, <1>3, <1>4, DroppingBalanced
  <1>7. \A n \in 0..N : \A i \in 1..n : others[i] \in ToSet(st.stored) /\ others[i] # keep
    <2>1. \A i \in 1..N : others[i] \in ToSet(others)
      BY <1>2, <1>4, EntryAt
    <2> QED
      BY <1>2, <2>1
  <1>8. Enough(N)
    <2>1. N \in 0..N
      OBVIOUS
    <2>2. {others[i] : i \in 1..N} = ToSet(others)
      BY <1>2, <1>4, EntryAt
    <2>3. ToSet(after[N].stored) = ToSet(st.stored) \ (ToSet(st.stored) \ {keep})
      BY <1>2, <1>6, <2>1, <2>2
    <2>4. Balanced(after[N])
      BY <1>6, <2>1
    <2>5. CASE keep \notin ToSet(st.stored)
      <3>1. ToSet(after[N].stored) = {}
        BY <2>3, <2>5
      <3>2. after[N].bytes = 0 /\ Len(after[N].stored) = 0
        BY <2>4, <3>1, WeighFew DEF Balanced
      <3> QED
        BY <2>5, <3>2
    <2>6. CASE keep \in ToSet(st.stored)
      <3>1. ToSet(after[N].stored) = {keep}
        BY <2>3, <2>6
      <3>2. after[N].bytes = delivery[keep].bytes /\ Len(after[N].stored) = 1
        BY <2>4, <3>1, WeighFew DEF Balanced
      <3> QED
        BY <2>6, <3>2
    <2> QED
      BY <2>5, <2>6
  <1>9. PICK m : m = Min(S)
    OBVIOUS
  <1>10. m \in 0..N /\ Enough(m)
    <2>1. S \subseteq 0..N /\ N \in S
      BY <1>8
    <2>2. Min(S) \in S
      <3> HIDE DEF S
      <3> QED
        BY <2>1, MinOf
    <2> QED
      BY <1>9, <2>2
  <1>11. /\ Balanced(after[m])
         /\ ToSet(after[m].stored) = ToSet(st.stored) \ {others[i] : i \in 1..m}
    BY <1>6, <1>10
  <1>12. keep \notin {others[i] : i \in 1..m}
    BY <1>7, <1>10
  <1> QED
    BY <1>5, <1>9, <1>10, <1>11, <1>12

-----------------------------------------------------------------------------
(* The steps that reach the store.                                         *)

\* The store of a state that satisfies the invariant.
LEMMA StoreOf ==
    ASSUME StoreInv
    PROVE  /\ Balanced(Store) /\ Store.stored = stored /\ Store.bytes = bytes
           /\ bytes \in Int /\ Len(stored) \in Nat /\ stored \in Seq(Nat)
           /\ \A id \in ToSet(stored) : id \in DOMAIN delivery /\ id \in Nat
  <1>1. Store.stored = stored /\ Store.bytes = bytes
    BY DEF Store
  <1>2. Weighing(stored, bytes, delivery) /\ Weights(delivery)
    BY DEF StoreInv
  <1>3. bytes \in Int /\ Len(stored) \in Nat
    BY <1>2, WeighFew
  <1>4. stored \in Seq(Nat) /\ \A i \in 1..Len(stored) : stored[i] \in DOMAIN delivery
    BY <1>2 DEF Weighing, Entries
  <1>5. \A id \in ToSet(stored) : id \in DOMAIN delivery /\ id \in Nat
    BY <1>4, EntryAt
  <1> QED
    BY <1>1, <1>2, <1>3, <1>4, <1>5 DEF Balanced

\* The weights stay, and with them what the entries weigh.
SameWeights == /\ DOMAIN delivery' = DOMAIN delivery
               /\ \A id \in DOMAIN delivery : delivery'[id].bytes = delivery[id].bytes

\* Nothing in the store changes.
LEMMA StoreKept ==
    ASSUME StoreInv, UNCHANGED <<stored, bytes>>, SameWeights
    PROVE  StoreInv'
  <1>1. Weights(delivery) /\ Weighing(stored, bytes, delivery)
    BY DEF StoreInv
  <1>2. Weighing(stored, bytes, delivery')
    BY <1>1, WeighSame DEF SameWeights
  <1>3. Weights(delivery')
    BY <1>1 DEF Weights, SameWeights
  <1> QED
    BY <1>2, <1>3 DEF StoreInv

\* remove, of an entry that may be gone.
LEMMA StoreRemoved ==
    ASSUME StoreInv, NEW id, SetStore(RemoveEntry(id)), delivery' = delivery
    PROVE  StoreInv'
  <1>1. PICK st : st = Drop(Store, id)
    OBVIOUS
  <1>2. stored' = st.stored /\ bytes' = st.bytes
    BY <1>1 DEF SetStore, RemoveEntry
  <1>3. Weights(delivery) /\ bytes <= MaxBytes /\ Len(stored) <= MaxCount
    BY DEF StoreInv
  <1>4. Balanced(st) /\ st.bytes <= bytes /\ Len(st.stored) <= Len(stored)
    BY <1>1, <1>3, StoreOf, DropBalanced
  <1>5. Weighing(st.stored, st.bytes, delivery)
    BY <1>4 DEF Balanced
  <1>6. st.bytes \in Int /\ Len(st.stored) \in Nat
    BY <1>3, <1>5, WeighFew
  <1>7. st.bytes <= MaxBytes /\ Len(st.stored) <= MaxCount
    BY <1>3, <1>4, <1>6, StoreOf, OverviewConstants
  <1> QED
    BY <1>2, <1>3, <1>5, <1>7 DEF StoreInv

\* An entry that is used becomes the most recently used one.
LEMMA StoreTouched ==
    ASSUME StoreInv, NEW id \in ToSet(stored), stored' = Touch(id), UNCHANGED <<bytes, delivery>>
    PROVE  StoreInv'
  <1>1. PICK t : t = RemoveFirst(stored, id)
    OBVIOUS
  <1>2. Weights(delivery) /\ Weighing(stored, bytes, delivery) /\ Len(stored) <= MaxCount
    BY DEF StoreInv
  <1>3. PICK b \in Nat : b = delivery[id].bytes
    BY <1>2, StoreOf DEF Weights
  <1>4. Weighing(t, bytes - b, delivery) /\ ToSet(t) = ToSet(stored) \ {id} /\ Len(t) = Len(stored) - 1
    BY <1>1, <1>2, <1>3, WeighRemove
  <1>5. stored' = Append(t, id) /\ id \in DOMAIN delivery \ ToSet(t) /\ id \in Nat
    BY <1>1, <1>4, StoreOf DEF Touch
  <1>6. Weighing(Append(t, id), (bytes - b) + b, delivery)
    BY <1>2, <1>3, <1>4, <1>5, WeighAppend
  <1>7. (bytes - b) + b = bytes
    BY <1>3, StoreOf
  <1>8. t \in Seq(Nat)
    BY <1>4 DEF Weighing, Entries
  <1>9. Len(Append(t, id)) = Len(stored)
    BY <1>4, <1>5, <1>8, StoreOf, AppendProperties
  <1> QED
    BY <1>2, <1>5, <1>6, <1>7, <1>9 DEF StoreInv

\* put: a new delivery, after an eviction that made room for it.
LEMMA StorePut ==
    ASSUME OverviewInv, StoreInv, NEW d \in Deliveries, NEW weight \in Nat, d.bytes = weight,
           CanPut(weight), delivery' = Append(delivery, d), SetStore(Put(Len(delivery) + 1, weight))
    PROVE  StoreInv'
  <1>1. delivery \in Seq(Deliveries)
    BY DEF OverviewInv, TypeOK
  <1>2. PICK N \in Nat : N = Len(delivery)
    BY <1>1
  <1>3. /\ delivery' \in Seq(Deliveries) /\ DOMAIN delivery = 1..N /\ DOMAIN delivery' = 1..(N + 1)
        /\ \A i \in 1..N : delivery'[i] = delivery[i]
        /\ delivery'[N + 1] = d
    BY <1>1, <1>2
  <1>4. PICK st : st = Evict(Store, 0, weight, MaxCount - 1)
    OBVIOUS
  <1>5. stored' = Append(st.stored, N + 1) /\ bytes' = st.bytes + weight
    BY <1>2, <1>4 DEF SetStore, Put
  <1>6. Weights(delivery)
    BY DEF StoreInv
  <1>7. 0 \notin ToSet(stored)
    BY <1>3, StoreOf
  <1>8. weight <= MaxBytes /\ 0 <= MaxCount - 1 /\ MaxCount - 1 \in Int
    BY OverviewConstants DEF CanPut
  <1>9. /\ Balanced(st) /\ st.bytes + weight <= MaxBytes
        /\ Len(st.stored) <= MaxCount - 1 /\ ToSet(st.stored) \subseteq ToSet(stored)
    <2>1. PICK room \in Int, need \in Int, s0 \in {Store} : room = MaxCount - 1 /\ need = weight
      BY <1>8
    <2>2. Balanced(s0) /\ s0.stored = stored /\ 0 \notin ToSet(s0.stored)
      BY <1>7, <2>1, StoreOf
    <2>3. need <= MaxBytes /\ 0 <= room /\ st = Evict(s0, 0, need, room)
      BY <1>4, <1>8, <2>1
    <2>4. /\ Balanced(st) /\ st.bytes + need <= MaxBytes
          /\ Len(st.stored) <= room /\ ToSet(st.stored) \subseteq ToSet(s0.stored)
      BY <1>6, <2>2, <2>3, EvictMakesRoom
    <2> QED
      BY <2>1, <2>2, <2>4
  <1>10. Weighing(st.stored, st.bytes, delivery)
    BY <1>9 DEF Balanced
  <1>11. Weights(delivery')
    <2>1. ASSUME NEW i \in 1..(N + 1) PROVE delivery'[i].bytes \in Nat
      <3>1. CASE i = N + 1
        BY <1>3, <3>1
      <3>2. CASE i \in 1..N
        BY <1>3, <1>6, <3>2 DEF Weights
      <3>3. i = N + 1 \/ i \in 1..N
        OBVIOUS
      <3> QED
        BY <3>1, <3>2, <3>3
    <2> QED
      BY <1>3, <2>1 DEF Weights
  <1>12. Weighing(st.stored, st.bytes, delivery')
    <2>1. DOMAIN delivery \subseteq DOMAIN delivery'
      BY <1>3
    <2>2. \A i \in DOMAIN delivery : delivery'[i].bytes = delivery[i].bytes
      BY <1>3
    <2> QED
      BY <1>10, <2>1, <2>2, WeighSame
  <1>13. N + 1 \in DOMAIN delivery' \ ToSet(st.stored) /\ N + 1 \in Nat
    <2>1. N + 1 \notin ToSet(stored)
      BY <1>3, StoreOf
    <2> QED
      BY <1>3, <1>9, <2>1
  <1>14. delivery'[N + 1].bytes = weight
    BY <1>3
  <1>15. Weighing(Append(st.stored, N + 1), st.bytes + weight, delivery')
    BY <1>11, <1>12, <1>13, <1>14, WeighAppend
  <1>16. st.stored \in Seq(Nat) /\ Len(st.stored) \in Nat
    BY <1>10 DEF Weighing, Entries
  <1>17. Len(Append(st.stored, N + 1)) <= MaxCount
    <2>1. Len(Append(st.stored, N + 1)) = Len(st.stored) + 1
      BY <1>13, <1>16, AppendProperties
    <2> QED
      BY <1>9, <1>16, <2>1, OverviewConstants
  <1> QED
    BY <1>5, <1>9, <1>11, <1>15, <1>17 DEF StoreInv

\* reserveProof: an entry grows by its proof, after an eviction of others.
LEMMA StoreGrown ==
    ASSUME StoreInv, NEW id \in ToSet(stored), NEW delta \in Nat, NEW st,
           st = Evict(Store, id, delta, MaxCount), delivery[id].bytes + delta <= MaxBytes,
           stored' = st.stored, bytes' = st.bytes + delta,
           DOMAIN delivery' = DOMAIN delivery, delivery'[id].bytes = delivery[id].bytes + delta,
           \A other \in DOMAIN delivery \ {id} : delivery'[other].bytes = delivery[other].bytes
    PROVE  StoreInv'
  <1>1. Weights(delivery) /\ Len(stored) <= MaxCount
    BY DEF StoreInv
  <1>2. 1 <= MaxCount /\ MaxCount \in Int /\ delta \in Int
    <2>1. \E k \in 1..Len(stored) : stored[k] = id
      BY StoreOf, EntryAt
    <2> QED
      BY <1>1, <2>1, StoreOf, OverviewConstants
  <1>3. /\ Balanced(st) /\ st.bytes + delta <= MaxBytes
        /\ Len(st.stored) <= MaxCount /\ id \in ToSet(st.stored)
    BY <1>1, <1>2, StoreOf, EvictMakesRoom
  <1>4. Weighing(st.stored, st.bytes, delivery)
    BY <1>3 DEF Balanced
  <1>5. Weighing(st.stored, st.bytes + delta, delivery')
    BY <1>1, <1>2, <1>3, <1>4, WeighGrow
  <1>6. Weights(delivery')
    <2>1. ASSUME NEW i \in DOMAIN delivery PROVE delivery'[i].bytes \in Nat
      BY <1>1 DEF Weights
    <2> QED
      BY <2>1 DEF Weights
  <1> QED
    BY <1>3, <1>5, <1>6 DEF StoreInv

\* One field of a delivery is set that is not its weight.
LEMMA WeightsKept ==
    ASSUME OverviewInv, NEW id \in DOMAIN delivery, NEW d, d.bytes = delivery[id].bytes,
           delivery' = [delivery EXCEPT ![id] = d]
    PROVE  SameWeights
  <1>1. delivery \in Seq(Deliveries)
    BY DEF OverviewInv, TypeOK
  <1>2. DOMAIN delivery' = DOMAIN delivery
    BY <1>1
  <1>3. \A i \in DOMAIN delivery : delivery'[i] = IF i = id THEN d ELSE delivery[i]
    BY <1>1
  <1> QED
    BY <1>2, <1>3 DEF SameWeights

\* The steps that leave the store and the deliveries alone.
LEMMA StoreApart ==
    ASSUME StoreInv, UNCHANGED <<delivery, stored, bytes>>
    PROVE  StoreInv'
  BY StoreKept DEF SameWeights

\* A cursor is looked up.
LEMMA LookupStore == ASSUME OverviewInv, StoreInv, NEW p \in Procs, Lookup(p) PROVE StoreInv'
  <1>1. CASE stored' = stored
    BY <1>1, StoreApart DEF Lookup
  <1>2. CASE stored' # stored
    <2>1. PICK id : id = req[p].cursor.id
      OBVIOUS
    <2>2. /\ stored' = (IF IsStored(id) /\ delivery[id].owner = Owner[p] THEN Touch(id) ELSE stored)
          /\ UNCHANGED <<delivery, bytes>>
      BY <2>1 DEF Lookup
    <2>3. id \in ToSet(stored) /\ stored' = Touch(id)
      BY <1>2, <2>2 DEF IsStored
    <2> QED
      BY <2>2, <2>3, StoreTouched
  <1> QED
    BY <1>1, <1>2

\* A proof looks for its delivery.
LEMMA FindProofStore == ASSUME OverviewInv, StoreInv, NEW p \in Procs, FindProof(p) PROVE StoreInv'
  <1>1. CASE UNCHANGED <<stored, bytes>>
    BY <1>1, StoreApart DEF FindProof
  <1>2. ASSUME NEW id \in ProofEntries(p), stored' = Touch(id), UNCHANGED bytes PROVE StoreInv'
    <2>1. id \in ToSet(stored)
      BY <1>2 DEF ProofEntries, IsStored
    <2>2. delivery' = delivery
      BY DEF FindProof
    <2> QED
      BY <1>2, <2>1, <2>2, StoreTouched
  <1>3. ASSUME NEW id, SetStore(RemoveEntry(id)) PROVE StoreInv'
    <2>1. delivery' = delivery
      BY DEF FindProof
    <2> QED
      BY <1>3, <2>1, StoreRemoved
  <1> QED
    BY <1>1, <1>2, <1>3 DEF FindProof

\* A proof is reserved.
LEMMA ReserveStore == ASSUME OverviewInv, StoreInv, NEW p \in Procs, Reserve(p) PROVE StoreInv'
  <1>1. PICK id : id = req[p].id
    OBVIOUS
  <1>2. PICK cost : cost = IF req[p].half.report = "none" THEN 0 ELSE ProofCost[req[p].half.report]
    OBVIOUS
  <1>3. PICK delta : delta = cost - delivery[id].proof
    OBVIOUS
  <1>4. \/ SetStore(RemoveEntry(id)) /\ UNCHANGED delivery
        \/ UNCHANGED <<stored, bytes, delivery>>
        \/ /\ IsStored(id) /\ delta > 0 /\ delivery[id].bytes + delta <= MaxBytes
           /\ stored' = Evict(Store, id, delta, MaxCount).stored
           /\ bytes' = Evict(Store, id, delta, MaxCount).bytes + delta
           /\ delivery' = [delivery EXCEPT ![id].proof = cost, ![id].bytes = @ + delta]
    BY <1>1, <1>2, <1>3 DEF Reserve
  <1>5. CASE SetStore(RemoveEntry(id)) /\ UNCHANGED delivery
    BY <1>5, StoreRemoved
  <1>6. CASE UNCHANGED <<stored, bytes, delivery>>
    BY <1>6, StoreApart
  <1>7. CASE /\ IsStored(id) /\ delta > 0 /\ delivery[id].bytes + delta <= MaxBytes
             /\ stored' = Evict(Store, id, delta, MaxCount).stored
             /\ bytes' = Evict(Store, id, delta, MaxCount).bytes + delta
             /\ delivery' = [delivery EXCEPT ![id].proof = cost, ![id].bytes = @ + delta]
    <2>1. id \in ToSet(stored) /\ id \in DOMAIN delivery
      BY <1>7, StoreOf DEF IsStored
    <2>2. delivery \in Seq(Deliveries) /\ delivery[id] \in Deliveries
      BY <2>1, DeliveryType DEF OverviewInv, TypeOK
    <2>3. cost \in Int /\ delivery[id].proof \in Int /\ delivery[id].bytes \in Int
      <3>1. req[p].half.report \in {"none", "pass", "partial"}
        BY OwnState DEF Requests, Halfs
      <3>2. cost \in Int
        BY <1>2, <3>1 DEF ProofCost
      <3> QED
        BY <2>2, <3>2 DEF Deliveries
    <2>4. delta \in Nat
      BY <1>3, <1>7, <2>3
    <2>5. PICK d : d = [delivery[id] EXCEPT !.proof = cost, !.bytes = delivery[id].bytes + delta]
      OBVIOUS
    <2>6. d.bytes = delivery[id].bytes + delta
      BY <2>2, <2>5 DEF Deliveries
    <2>7. delivery' = [delivery EXCEPT ![id] = d]
      BY <1>7, <2>1, <2>2, <2>5
    <2>8. /\ DOMAIN delivery' = DOMAIN delivery
          /\ \A i \in DOMAIN delivery : delivery'[i] = IF i = id THEN d ELSE delivery[i]
      BY <2>2, <2>7
    <2>9. PICK st : st = Evict(Store, id, delta, MaxCount)
      OBVIOUS
    <2>10. stored' = st.stored /\ bytes' = st.bytes + delta
      BY <1>7, <2>9
    <2>11. /\ delivery'[id].bytes = delivery[id].bytes + delta
           /\ \A other \in DOMAIN delivery \ {id} : delivery'[other].bytes = delivery[other].bytes
      BY <2>1, <2>6, <2>8
    <2> QED
      BY <1>7, <2>1, <2>4, <2>8, <2>9, <2>10, <2>11, StoreGrown
  <1> QED
    BY <1>4, <1>5, <1>6, <1>7

\* Evidence weighs nothing.
LEMMA EvaluateRetainedStore ==
    ASSUME OverviewInv, StoreInv, NEW p \in Procs, EvaluateRetained(p) PROVE StoreInv'
  <1>1. PICK id : id = req[p].id
    OBVIOUS
  <1>2. PICK ev : ev = Merge(delivery[id].evidence, req[p], delivery[id].body)
    OBVIOUS
  <1>3. /\ At(p, "evaluate") /\ delivery' = [delivery EXCEPT ![id].evidence = ev]
        /\ UNCHANGED <<stored, bytes>>
    BY <1>1, <1>2 DEF EvaluateRetained
  <1>4. id \in DOMAIN delivery
    BY <1>1, <1>3, OwnState DEF RequestSound, At
  <1>5. delivery \in Seq(Deliveries) /\ delivery[id] \in Deliveries
    BY <1>4, DeliveryType DEF OverviewInv, TypeOK
  <1>6. PICK d : d = [delivery[id] EXCEPT !.evidence = ev]
    OBVIOUS
  <1>7. d.bytes = delivery[id].bytes /\ delivery' = [delivery EXCEPT ![id] = d]
    BY <1>3, <1>4, <1>5, <1>6 DEF Deliveries
  <1> QED
    BY <1>3, <1>4, <1>7, WeightsKept, StoreKept

\* The guard fails and the delivery goes, or the last chunk completes it.
LEMMA PostflightStore ==
    ASSUME OverviewInv, StoreInv, NEW p \in Procs, Postflight(p) PROVE StoreInv'
  <1>1. PICK id : id = req[p].id
    OBVIOUS
  <1>2. PICK c : c = (delivery[id].complete \/ (~IsProof(req[p]) /\ IsStored(id)))
    OBVIOUS
  <1>3. CASE SetStore(RemoveEntry(id)) /\ UNCHANGED delivery
    BY <1>3, StoreRemoved
  <1>4. CASE /\ delivery' = [delivery EXCEPT ![id].complete =
                                @ \/ (~IsProof(req[p]) /\ IsStored(id))]
             /\ UNCHANGED <<stored, bytes>>
    <2>1. id \in DOMAIN delivery
      BY <1>1, OwnState DEF RequestSound, At, Postflight
    <2>2. delivery \in Seq(Deliveries) /\ delivery[id] \in Deliveries
      BY <2>1, DeliveryType DEF OverviewInv, TypeOK
    <2>3. PICK d : d = [delivery[id] EXCEPT !.complete = c]
      OBVIOUS
    <2>4. d.bytes = delivery[id].bytes
      BY <2>2, <2>3 DEF Deliveries
    <2>5. delivery' = [delivery EXCEPT ![id] = d]
      BY <1>2, <1>4, <2>1, <2>2, <2>3
    <2> QED
      BY <1>4, <2>1, <2>4, <2>5, WeightsKept, StoreKept
  <1> QED
    BY <1>1, <1>3, <1>4 DEF Postflight

\* A fresh delivery is retained if the store can take it.
LEMMA DeliverFreshStore ==
    ASSUME OverviewInv, StoreInv, NEW p \in Procs, DeliverFresh(p) PROVE StoreInv'
  <1>1. PICK body \in Bodies : body = Current(req[p])
    BY BodyType, OwnState
  <1>2. PICK weight \in Nat : weight = Tokens(body)
    BY BodyType
  <1>3. \/ UNCHANGED <<delivery, stored, bytes>>
        \/ \E d : /\ d.bytes = weight /\ delivery' = Append(delivery, d)
                  /\ CanPut(weight) /\ SetStore(Put(Len(delivery) + 1, weight))
    BY <1>1, <1>2 DEF DeliverFresh
  <1>4. ASSUME NEW d, d.bytes = weight, delivery' = Append(delivery, d), CanPut(weight),
               SetStore(Put(Len(delivery) + 1, weight))
        PROVE  StoreInv'
    <2>1. delivery' \in Seq(Deliveries)
      BY DeliverFreshInv DEF OverviewInv, TypeOK
    <2>2. delivery \in Seq(Deliveries)
      BY DEF OverviewInv, TypeOK
    <2>3. PICK N \in Nat : N = Len(delivery)
      BY <2>2
    <2>4. DOMAIN delivery' = 1..(N + 1) /\ delivery'[N + 1] = d
      BY <1>4, <2>2, <2>3
    <2>5. d \in Deliveries
      BY <2>1, <2>4
    <2> QED
      BY <1>4, <2>5, StorePut
  <1> QED
    BY <1>3, <1>4, StoreApart

\* Every step keeps the store's invariant.
LEMMA StoreStep == ASSUME OverviewInv, StoreInv, [Next]_vars PROVE StoreInv'
  <1>1. ASSUME NEW p \in Procs,
               Submit(p) \/ Record(p) \/ CheckOnly(p) \/ CapacityStop(p) \/ DeliverLive(p)
        PROVE  UNCHANGED <<delivery, stored, bytes>>
    BY <1>1, Zenon DEF Submit, Record, CheckOnly, CapacityStop, DeliverLive
  <1>2. ASSUME Edit \/ UNCHANGED vars PROVE UNCHANGED <<delivery, stored, bytes>>
    BY <1>2 DEF Edit, vars
  <1>3. ASSUME NEW id, Prune(id) PROVE SetStore(RemoveEntry(id)) /\ delivery' = delivery
    BY <1>3 DEF Prune
  <1> QED
    BY <1>1, <1>2, <1>3, StoreApart, StoreRemoved, LookupStore, FindProofStore, ReserveStore,
       EvaluateRetainedStore, PostflightStore, DeliverFreshStore DEF Next

\* An empty store.
LEMMA StoreInit == ASSUME Init PROVE StoreInv
  <1>1. delivery = <<>> /\ stored = <<>> /\ bytes = 0
    BY DEF Init
  <1>2. PICK w : w = [i \in 0..0 |-> 0]
    OBVIOUS
  <1>3. Len(stored) = 0 /\ stored \in Seq(Nat)
    BY <1>1
  <1>4. w \in [0..0 -> Int] /\ w[0] = 0 /\ 1..0 = {}
    BY <1>2
  <1>5. Sums(w, stored, delivery) /\ w[Len(stored)] = bytes
    BY <1>1, <1>3, <1>4 DEF Sums
  <1>6. Entries(stored, delivery)
    BY <1>3, <1>4 DEF Entries
  <1>7. Weights(delivery)
    BY <1>1 DEF Weights
  <1> QED
    BY <1>1, <1>3, <1>5, <1>6, <1>7, OverviewConstants DEF StoreInv, Weighing

\* The store's entries are deliveries that were made, each once, prefix sums of
\* their weights end in its byte count, and neither limit is exceeded.
THEOREM StoreInvariant == Spec => []StoreInv
  <1>1. Spec => [](OverviewInv /\ StoreInv)
    BY InitInv, StepInv, StoreInit, StoreStep, PTL DEF Spec
  <1> QED
    BY <1>1, PTL

\* Prefix sums are what the weight is defined by.
LEMMA WeightIs ==
    ASSUME NEW ids \in Seq(Nat), NEW w, Sums(w, ids, delivery)
    PROVE  Weight(ids) = w[Len(ids)]
  <1>1. PICK N \in Nat : N = Len(ids)
    OBVIOUS
  <1>2. /\ w \in [0..N -> Int] /\ w[0] = 0
        /\ \A i \in 1..N : w[i] = w[i - 1] + delivery[ids[i]].bytes
    BY <1>1 DEF Sums
  <1>3. \A n \in 0..N : w[n] = IF n = 0 THEN 0 ELSE w[n - 1] + delivery[ids[n]].bytes
    <2>1. \A n \in 0..N : n = 0 \/ n \in 1..N
      OBVIOUS
    <2> QED
      BY <1>2, <2>1
  <1>4. w = [n \in 0..N |-> IF n = 0 THEN 0 ELSE w[n - 1] + delivery[ids[n]].bytes]
    BY <1>2, <1>3
  <1> DEFINE upTo == CHOOSE g : g = [n \in 0..Len(ids) |->
                         IF n = 0 THEN 0 ELSE g[n - 1] + delivery[ids[n]].bytes]
  <1>5. Weight(ids) = upTo[Len(ids)]
    BY Zenon DEF Weight
  <1>6. PICK f : f = upTo
    OBVIOUS
  <1>7. f = [n \in 0..Len(ids) |-> IF n = 0 THEN 0 ELSE f[n - 1] + delivery[ids[n]].bytes]
    <2>1. \E g : g = [n \in 0..Len(ids) |-> IF n = 0 THEN 0 ELSE g[n - 1] + delivery[ids[n]].bytes]
      BY <1>1, <1>4
    <2> QED
      BY <1>6, <2>1, Zenon
  <1> HIDE DEF upTo
  <1>8. \A n \in 0..N : f[n] = IF n = 0 THEN 0 ELSE f[n - 1] + delivery[ids[n]].bytes
    BY <1>1, <1>7
  <1> DEFINE S == {n \in Nat : n <= N => f[n] = w[n]}
  <1>9. 0 \in S
    BY <1>2, <1>8
  <1>10. \A n \in Nat : n \in S => n + 1 \in S
    <2>1. ASSUME NEW n \in Nat, n + 1 <= N, f[n] = w[n] PROVE f[n + 1] = w[n + 1]
      <3>1. n + 1 \in 0..N /\ n + 1 # 0 /\ (n + 1) - 1 = n
        BY <2>1
      <3> QED
        BY <1>3, <1>8, <2>1, <3>1
    <2> QED
      BY <2>1
  <1>11. N \in S
    <2> HIDE DEF S
    <2> QED
      BY <1>9, <1>10, SetInduction
  <1> QED
    BY <1>1, <1>5, <1>6, <1>11

\* The store's byte count is the weight of its entries and neither limit is
\* exceeded, for every number of requests and deliveries, both limits, and in
\* whatever order entries are evicted, pruned, removed twice or grown by a proof
\* (put, lookup, remove, prune and reserveProof of volumeDeliveryStore).
THEOREM StoreAccountedAlways == Spec => []StoreAccounted
  <1>1. StoreInv => StoreAccounted
    <2> SUFFICES ASSUME StoreInv PROVE StoreAccounted
      OBVIOUS
    <2>1. PICK w : Sums(w, stored, delivery) /\ w[Len(stored)] = bytes
      BY DEF StoreInv, Weighing
    <2>2. bytes = Weight(stored)
      BY <2>1, StoreOf, WeightIs
    <2> QED
      BY <2>2 DEF StoreInv, StoreAccounted
  <1> QED
    BY <1>1, StoreInvariant, PTL
=============================================================================
