-------------------------- MODULE OverviewSession --------------------------
(***************************************************************************)
(* The Overview tool of internal/mcptools in one MCP server: the refresh   *)
(* session every request shares (generation, pending and consumed events,  *)
(* the two halves of a delivery's proof, the capacity verdict) and the     *)
(* bounded store of retained deliveries.  Requests run concurrently.  A    *)
(* fresh request, and whatever the store does not answer, takes the live   *)
(* path: one section under session.mu.  A continuation or a proof of a     *)
(* retained delivery takes a path of five sections, with the mutex let go  *)
(* in between, against a delivery another request may evict meanwhile.     *)
(*                                                                         *)
(* A body is the scope and the index version it was rendered from; its     *)
(* hash, byte count and Challenge stand for it.  The repository is aligned *)
(* when the index describes the source as it is.  Incremental delivery,    *)
(* probes, phase transitions, the semantic threshold, delivery chain ids   *)
(* a cursor that carries a proof half, and everything that only words the  *)
(* response are left out.                                                  *)
(***************************************************************************)
EXTENDS Naturals, Sequences, FiniteSets, SequencesExt, FiniteSetsExt

CONSTANTS
    Procs,          \* requests the server handles at the same time
    Owner,          \* Owner[p]: the Host session that request p comes from
    Events,         \* ids a Host declares a context compaction with
    AllTokens,      \* AllTokens[v]: tokens of the whole scope at version v
    MaxBytes,       \* OverviewDeliverySessionMaxBytes
    MaxCount,       \* OverviewDeliverySessionMaxCount
    MaxConsumed,    \* consumed event ids the session remembers (256)
    None,
    MaxRequests,    \* bound: requests
    MaxEdits,       \* bound: changes of the repository
    MaxExpired      \* bound: deliveries that reach their idle or life time

Versions == DOMAIN AllTokens
Hosts == {Owner[p] : p \in Procs}
Bodies == [scope : {"all", "code"}, index : Versions]

ASSUME OverviewConstants ==
    /\ 0 \in Versions /\ Versions \subseteq Nat
    /\ \A v \in Versions : AllTokens[v] \in Nat \ {0}
    /\ MaxBytes \in Nat /\ MaxCount \in Nat /\ MaxConsumed \in Nat \ {0}
    /\ None \notin Events \cup Procs \cup Versions /\ None \notin Nat
    /\ {MaxRequests, MaxEdits, MaxExpired} \subseteq Nat

VARIABLES
    repo,       \* the index version and the source version it should describe
    session,    \* cognitionRefreshSession
    delivery,   \* every delivery made retainable, by id in order of creation
    stored,     \* ids of the store's entries, the least recently used first
    bytes,      \* what the store believes its entries weigh
    req,        \* each request in progress
    holds,      \* Host side: cursors and bodies each Host was given
    told,       \* history: what Hosts declared, confirmed and attested
    budget

vars == <<repo, session, delivery, stored, bytes, req, holds, told, budget>>

---------------------------------------------------------------------------
(* Bodies, their weight, and the proof a report costs.                     *)

Tokens(b) == IF b.scope = "all" THEN AllTokens[b.index] ELSE 1
ChunkCount(b) == IF b.scope = "all" THEN 2 ELSE 1

\* Retained-memory accounting grows with the body, a proof with its report.
ProofCost == [pass |-> 1, partial |-> 2]

NoHalves == [confirm |-> "none", report |-> "none", body |-> None]
NoEvidence == [confirmed |-> FALSE, report |-> NoHalves]

NoAttestation == [provided |-> FALSE, integrity |-> "unconfirmed", grade |-> "none"]

Idle == [pc |-> "idle", kind |-> "check", scope |-> "all", event |-> None,
         adopt |-> FALSE, half |-> NoHalves, cursor |-> None, index |-> 0,
         source |-> 0, id |-> 0, att |-> NoAttestation]

Current(r) == [scope |-> r.scope, index |-> r.index]
IsProof(r) == r.half # NoHalves
Fresh(r) == r.kind = "fresh"

Init ==
    /\ repo = [index |-> 0, source |-> 0]
    /\ session = [established |-> FALSE, generation |-> 0, last |-> None,
                  pending |-> {}, consumed |-> {}, attempt |-> None,
                  capacity |-> None, evidence |-> [b \in Bodies |-> NoEvidence],
                  snapshot |-> [b \in Bodies |-> None]]
    /\ delivery = <<>> /\ stored = <<>> /\ bytes = 0
    /\ req = [p \in Procs |-> Idle]
    /\ holds = [h \in Hosts |-> [cursors |-> {}, bodies |-> {}]]
    /\ told = [declared |-> {}, confirmed |-> {}, passed |-> {},
               governed |-> {}, refused |-> {}, failed |-> None,
               adopted |-> FALSE, retried |-> FALSE]
    /\ budget = [requests |-> 0, edits |-> 0, expired |-> 0]

Goto(p, r) == req' = [req EXCEPT ![p] = r]
At(p, pc) == req[p].pc = pc
Done(p) == Goto(p, Idle)

---------------------------------------------------------------------------
(* volumeDeliveryStore.  Each operator maps [stored, bytes] to the next.   *)

Store == [stored |-> stored, bytes |-> bytes]
IsStored(id) == id \in ToSet(stored)
SetStore(st) == stored' = st.stored /\ bytes' = st.bytes

Drop(st, id) ==
    IF id \in ToSet(st.stored)
    THEN [stored |-> RemoveFirst(st.stored, id), bytes |-> st.bytes - delivery[id].bytes]
    ELSE st

\* Mutant: remove takes the weight off whether or not the entry is still there.
RemoveEntry_Blind(id) ==
    [stored |-> RemoveFirst(stored, id), bytes |-> bytes - delivery[id].bytes]

\* remove: a delivery that is no longer in the store is left alone.
RemoveEntry(id) == Drop(Store, id)

Touch(id) == Append(RemoveFirst(stored, id), id)

\* The store after the first n of ids are dropped, one after the other.
Dropping(st, ids) ==
    LET after[n \in 0..Len(ids)] == IF n = 0 THEN st ELSE Drop(after[n - 1], ids[n])
    IN  after

\* Evict the least recently used entries, never keep, until need more bytes
\* fit and at most room entries are left.
Evict(st, keep, need, room) ==
    LET others == RemoveFirst(st.stored, keep)
        after == Dropping(st, others)
        Enough(n) == /\ after[n].bytes + need <= MaxBytes
                     /\ Len(after[n].stored) <= room
    IN  after[Min({n \in 0..Len(others) : Enough(n)})]

\* The store can take a delivery of this weight at all.
CanPut(weight) == weight <= MaxBytes /\ MaxCount >= 1

Put(id, weight) ==
    LET st == Evict(Store, 0, weight, MaxCount - 1)
    IN  [stored |-> Append(st.stored, id), bytes |-> st.bytes + weight]

\* proof: the latest complete delivery of the body, of this Host.
ProofEntries(p) ==
    {id \in DOMAIN delivery :
        LET d == delivery[id] IN
        /\ IsStored(id) /\ d.owner = Owner[p] /\ d.complete /\ d.body = Current(req[p])
        /\ req[p].half.confirm # "none" => req[p].half.body = d.body}

\* overviewSourceGuard.validate: the inputs are what they were.
GuardValid(id) == repo = delivery[id].guard

---------------------------------------------------------------------------
(* The refresh session.  Each operator maps a session to the next.         *)

\* adoptReliableReceipt: a Host brings a receipt of an earlier server process.
Adopt(s, r) ==
    IF r.adopt /\ ~s.established
    THEN [s EXCEPT !.established = TRUE, !.generation = 1,
                   !.last = [body |-> Current(r), generation |-> 1, reliable |-> TRUE]]
    ELSE s

\* Mutant: only consumed events are recognised as declared before.
Interrupts_Pending(s, event) ==
    s.attempt # None /\ event \notin {None} \cup s.consumed

\* A compaction declared with an event nobody declared before, over an open reload.
Interrupts(s, event) ==
    s.attempt # None /\ event \notin {None} \cup s.pending \cup s.consumed

\* Mutant: the interrupted reload is closed and leaves no verdict.
NoteCompactionDeclaration_NoVerdict(s, event) ==
    IF Interrupts(s, event) THEN [s EXCEPT !.attempt = None] ELSE s

\* The interrupted reload is closed, and its size is what the Host cannot hold.
NoteCompactionDeclaration(s, event) ==
    IF Interrupts(s, event)
    THEN [s EXCEPT !.capacity = IF @ = None THEN s.attempt.tokens ELSE Min({@, s.attempt.tokens}),
                   !.attempt = None]
    ELSE s

AddHostReasons(s, event) ==
    IF event \in {None} \cup s.consumed THEN s ELSE [s EXCEPT !.pending = @ \cup {event}]

Evaluate(s, r) ==
    AddHostReasons(NoteCompactionDeclaration(Adopt(s, r), r.event), r.event)

CompactionPending(s) == s.pending # {}

CapacityStopApplies(s, tokens) ==
    s.capacity # None /\ CompactionPending(s) /\ tokens >= s.capacity

\* consumeEvent for each pending event, in any order: a memory that is full is
\* emptied before the next id goes in, so that only the last ones are left.
ConsumedAfter(s) ==
    LET n == Cardinality(s.consumed)
        k == Cardinality(s.pending)
    IN  IF n + k <= MaxConsumed THEN {s.consumed \cup s.pending}
        ELSE {S \in SUBSET s.pending : Cardinality(S) = ((n + k - 1) % MaxConsumed) + 1}

MarkDeliveryAttempt(s, consumed, body, generation, reliable) ==
    [s EXCEPT !.consumed = consumed, !.pending = {}, !.attempt = None,
              !.established = TRUE, !.generation = generation,
              !.last = [body |-> body, generation |-> generation, reliable |-> reliable]]

\* bindVolumeGovernanceSnapshot: the source version a body was delivered under;
\* a proof or continuation that sees another one taints it until the next body.
BindSnapshot(s, r) ==
    [s EXCEPT !.snapshot[Current(r)] =
        IF Fresh(r) THEN r.source ELSE IF @ = r.source THEN @ ELSE None]

Bound(s, r) == s.snapshot[Current(r)] = r.source

\* hostDeliveryStatus
HostStatus(half, body) ==
    CASE half.confirm = "none" -> "unconfirmed"
      [] half.confirm = "yes" /\ half.body = body -> "confirmed"
      [] OTHER -> "incomplete"

\* mergeDeliveryEvidence: the half a call carries wins, the other is remembered.
Merge(ev, r, body) ==
    LET status == HostStatus(r.half, body)
    IN  [confirmed |-> status = "confirmed" \/ (status = "unconfirmed" /\ ev.confirmed),
         report |-> IF r.half.report # "none" THEN r.half ELSE ev.report]

\* assessOverviewAttestation over the merged halves.
Assess(ev, r, body) ==
    [provided |-> ev.report.report # "none",
     integrity |-> IF ev.confirmed THEN "confirmed" ELSE HostStatus(r.half, body),
     grade |-> IF ev.report.body = body THEN ev.report.report ELSE "fail"]

NoteFreshDelivery(s, body) ==
    IF CompactionPending(s)
    THEN [s EXCEPT !.attempt = [body |-> body, tokens |-> Tokens(body)]]
    ELSE s

\* A proof half for the body: clear the verdict it refutes, close the reload.
NoteProof(s, body, att) ==
    LET cleared == /\ body.scope = "all" /\ att.integrity = "confirmed"
                   /\ s.capacity # None /\ Tokens(body) >= s.capacity
        closed == s.attempt # None /\ s.attempt.body = body
    IN  IF att.integrity = "incomplete" /\ ~att.provided THEN s
        ELSE [s EXCEPT !.capacity = IF cleared THEN None ELSE @,
                       !.attempt = IF closed THEN None ELSE @]

NoteDeliveryChain(s, r, body, att) ==
    IF IsProof(r) THEN NoteProof(s, body, att)
    ELSE IF Fresh(r) /\ body.scope = "all" THEN NoteFreshDelivery(s, body) ELSE s

\* Mutant: the model's report counts before the Host confirmed the body.
RecordAttestedDelivery_Unconfirmed(s, consumed, body, generation, att, eligible) ==
    IF eligible /\ att.provided
    THEN MarkDeliveryAttempt(s, consumed, body, generation, att.grade = "pass")
    ELSE s

RecordAttestedDelivery(s, consumed, body, generation, att, eligible) ==
    IF eligible /\ att.provided /\ att.integrity = "confirmed"
    THEN MarkDeliveryAttempt(s, consumed, body, generation, att.grade = "pass")
    ELSE s

\* The live path looks at the governance of the repository as it is now.
GoLive(p) == Goto(p, [req[p] EXCEPT !.pc = "live", !.source = repo.source, !.id = 0])

---------------------------------------------------------------------------
(* Requests.                                                               *)

\* What a Host may say of a body it was given in full.
Halves(h) ==
    {half \in [confirm : {"none", "yes", "no"}, report : {"none", "pass", "partial"},
               body : holds[h].bodies] :
        IF half.report = "none" THEN half.confirm # "none" ELSE half.confirm # "no"}

\* The request's kind decides what the handler looks at first: a retained
\* delivery named by a cursor, one that a proof is for, or the live repository.
\* Compactions are declared by requests for the whole scope and by check_only
\* ones, which also bring receipts of earlier servers: any other request that
\* did would evaluate the same declaration before the rest of its work.
Submit(p) ==
    /\ At(p, "idle") /\ budget.requests < MaxRequests
    /\ LET h == Owner[p]
           base == [Idle EXCEPT !.pc = "live", !.index = repo.index, !.source = repo.source]
       IN  \/ \E scope \in {"all", "code"} :
                Goto(p, [base EXCEPT !.kind = "fresh", !.scope = scope])
           \/ \E event \in Events : Goto(p, [base EXCEPT !.kind = "fresh", !.event = event])
           \/ \E event \in Events : Goto(p, [base EXCEPT !.event = event])
           \/ ~session.established /\ Goto(p, [base EXCEPT !.adopt = TRUE])
           \/ \E cursor \in holds[h].cursors :
                Goto(p, [base EXCEPT !.pc = IF cursor.id = 0 THEN @ ELSE "lookup",
                                     !.kind = "next", !.cursor = cursor])
           \/ \E half \in Halves(h) :
                Goto(p, [base EXCEPT !.pc = "proof", !.kind = "proof", !.scope = half.body.scope,
                                     !.half = half])
    /\ budget' = [budget EXCEPT !.requests = @ + 1]
    /\ told' = [told EXCEPT
         !.confirmed = @ \cup {b \in Bodies : req'[p].half.body = b /\ req'[p].half.confirm = "yes"},
         !.passed = @ \cup {b \in Bodies : req'[p].half.body = b /\ req'[p].half.report = "pass"}]
    /\ UNCHANGED <<repo, session, delivery, stored, bytes, holds>>

\* A v2 cursor names its delivery; only its own Host may use it.
Lookup(p) ==
    /\ At(p, "lookup")
    /\ LET id == req[p].cursor.id
           found == IsStored(id) /\ delivery[id].owner = Owner[p]
       IN  /\ stored' = IF found THEN Touch(id) ELSE stored
           /\ IF found /\ delivery[id].body = Current(req[p])
              THEN Goto(p, [req[p] EXCEPT !.pc = "reserve", !.id = id])
              ELSE Done(p)
    /\ UNCHANGED <<repo, session, delivery, bytes, holds, told, budget>>

\* A proof without a cursor reuses a complete delivery, or goes live.
FindProof(p) ==
    /\ At(p, "proof")
    /\ \/ ProofEntries(p) = {} /\ GoLive(p) /\ UNCHANGED <<stored, bytes>>
       \/ \E id \in ProofEntries(p) :
             /\ \A other \in ProofEntries(p) : other <= id
             /\ IF GuardValid(id)
                THEN /\ Goto(p, [req[p] EXCEPT !.pc = "reserve", !.id = id])
                     /\ stored' = Touch(id) /\ UNCHANGED bytes
                ELSE GoLive(p) /\ SetStore(RemoveEntry(id))
    /\ UNCHANGED <<repo, session, delivery, holds, told, budget>>

\* serveVolumeDelivery, first section: guard, then reserveProof.
Reserve(p) ==
    /\ At(p, "reserve")
    /\ LET id == req[p].id
           report == req[p].half.report
           cost == IF report = "none" THEN 0 ELSE ProofCost[report]
           delta == cost - delivery[id].proof
           serve == Goto(p, [req[p] EXCEPT !.pc = "evaluate"])
       IN  \/ /\ ~GuardValid(id)
              /\ SetStore(RemoveEntry(id)) /\ Done(p) /\ UNCHANGED delivery
           \/ /\ GuardValid(id) /\ (report = "none" \/ (IsStored(id) /\ delta <= 0))
              /\ serve /\ UNCHANGED <<stored, bytes, delivery>>
           \/ /\ GuardValid(id) /\ report # "none"
              /\ ~IsStored(id) \/ (delta > 0 /\ delivery[id].bytes + delta > MaxBytes)
              /\ SetStore(RemoveEntry(id)) /\ UNCHANGED delivery
              /\ GoLive(p)
           \/ /\ GuardValid(id) /\ report # "none" /\ IsStored(id)
              /\ delta > 0 /\ delivery[id].bytes + delta <= MaxBytes
              /\ LET st == Evict(Store, id, delta, MaxCount)
                 IN  stored' = st.stored /\ bytes' = st.bytes + delta
              /\ delivery' = [delivery EXCEPT ![id].proof = cost, ![id].bytes = @ + delta]
              /\ serve
    /\ UNCHANGED <<repo, session, holds, told, budget>>

\* A compaction is declared over an open reload: with an id no Host used before,
\* or with one the session takes for such.
ReloadFails(event) ==
    /\ session.attempt # None /\ event # None
    /\ event \notin told.declared \/ Interrupts(session, event)

\* History of an evaluation: the event it declares, whether a retry of an event
\* interrupted a reload, the smallest reload that was interrupted, the bodies it
\* delivered under aligned governance and those it bound so but did not deliver.
Told(p, governed, refused) ==
    told' = [told EXCEPT
        !.declared = @ \cup ({req[p].event} \ {None}),
        !.governed = @ \cup governed,
        !.refused = @ \cup refused,
        !.failed = IF ~ReloadFails(req[p].event) THEN @
                   ELSE IF @ = None THEN session.attempt.tokens
                   ELSE Min({@, session.attempt.tokens}),
        !.adopted = @ \/ (req[p].adopt /\ ~session.established),
        !.retried = @ \/ (Interrupts(session, req[p].event) /\ req[p].event \in told.declared)]

\* Second section: evaluate and render under session.mu, with the delivery's
\* own evidence; the mutex is let go afterwards.
EvaluateRetained(p) ==
    /\ At(p, "evaluate")
    /\ LET d == delivery[req[p].id]
           ev == Merge(d.evidence, req[p], d.body)
       IN  /\ session' = Evaluate(session, req[p])
           /\ delivery' = [delivery EXCEPT ![req[p].id].evidence = ev]
           /\ Goto(p, [req[p] EXCEPT !.pc = "postflight", !.att = Assess(ev, req[p], d.body)])
    /\ Told(p, {}, {})
    /\ UNCHANGED <<repo, stored, bytes, holds, budget>>

\* Third section: the guard again; the last chunk makes the delivery complete.
Postflight(p) ==
    /\ At(p, "postflight")
    /\ LET id == req[p].id
       IN  \/ /\ GuardValid(id)
              /\ delivery' = [delivery EXCEPT ![id].complete =
                                @ \/ (~IsProof(req[p]) /\ IsStored(id))]
              /\ Goto(p, [req[p] EXCEPT !.pc = "record"])
              /\ UNCHANGED <<stored, bytes>>
           \/ /\ ~GuardValid(id)
              /\ SetStore(RemoveEntry(id)) /\ Done(p) /\ UNCHANGED delivery
    /\ UNCHANGED <<repo, session, holds, told, budget>>

\* The body, or its last chunk, reaches the Host.
Receives(h, body) == holds' = [holds EXCEPT ![h].bodies = @ \cup {body}]

\* Last section: the chain and the attested delivery, with the receipt that was
\* made when the delivery was.
Record(p) ==
    /\ At(p, "record")
    /\ LET r == req[p]
           d == delivery[r.id]
           s == NoteDeliveryChain(session, r, d.body, r.att)
       IN  /\ \E consumed \in ConsumedAfter(s) :
                session' = RecordAttestedDelivery(s, consumed, d.body, d.generation,
                                                  r.att, d.aligned)
           /\ IF IsProof(r) THEN UNCHANGED holds ELSE Receives(Owner[p], d.body)
    /\ Done(p)
    /\ UNCHANGED <<repo, delivery, stored, bytes, told, budget>>

\* check_only answers from the assessment alone.
CheckOnly(p) ==
    /\ At(p, "live") /\ req[p].kind = "check"
    /\ session' = Evaluate(session, req[p])
    /\ Told(p, {}, {}) /\ Done(p)
    /\ UNCHANGED <<repo, delivery, stored, bytes, holds, budget>>

\* A reload the Host was seen not to hold is answered without a body.
CapacityStop(p) ==
    /\ At(p, "live") /\ Fresh(req[p])
    /\ LET s == Evaluate(session, req[p])
           body == Current(req[p])
       IN  /\ CapacityStopApplies(s, Tokens(body))
           /\ \E consumed \in ConsumedAfter(s) :
                session' = MarkDeliveryAttempt(s, consumed, body, s.generation + 1, FALSE)
    /\ Told(p, {}, {}) /\ Done(p)
    /\ UNCHANGED <<repo, delivery, stored, bytes, holds, budget>>

\* The repository still is what was loaded and inspected.
SnapshotHolds(r) == repo = [index |-> r.index, source |-> r.source]

\* A fresh delivery.  With a guard it renders against evidence of its own and
\* is retained if the store can take it.
DeliverFresh(p) ==
    /\ At(p, "live") /\ Fresh(req[p])
    /\ LET r == req[p]
           body == Current(r)
           s0 == BindSnapshot(Evaluate(session, r), r)
           aligned == r.source = r.index
           d == [owner |-> Owner[p], body |-> body, guard |-> [index |-> r.index, source |-> r.source],
                 aligned |-> aligned, generation |-> s0.generation + 1,
                 bytes |-> Tokens(body), proof |-> 0, complete |-> ChunkCount(body) = 1,
                 evidence |-> NoEvidence]
       IN  /\ ~CapacityStopApplies(s0, Tokens(body))
           /\ \E guarded \in BOOLEAN :
                LET s == IF guarded THEN s0 ELSE [s0 EXCEPT !.evidence[body] = NoEvidence]
                    kept == guarded /\ CanPut(Tokens(body))
                    id == IF kept THEN Len(delivery) + 1 ELSE 0
                IN  IF SnapshotHolds(r)
                    THEN /\ session' = NoteDeliveryChain(s, r, body, NoAttestation)
                         /\ IF kept
                            THEN delivery' = Append(delivery, d) /\ SetStore(Put(id, Tokens(body)))
                            ELSE UNCHANGED <<delivery, stored, bytes>>
                         /\ IF ChunkCount(body) = 1 THEN Receives(Owner[p], body)
                            ELSE holds' = [holds EXCEPT ![Owner[p]].cursors = @ \cup {[id |-> id, body |-> body]}]
                    ELSE session' = s /\ UNCHANGED <<delivery, stored, bytes, holds>>
           /\ Told(p, {b \in {body} : aligned /\ SnapshotHolds(r)},
                      {b \in {body} : aligned /\ ~SnapshotHolds(r)})
    /\ Done(p)
    /\ UNCHANGED <<repo, budget>>

\* A continuation by a v1 cursor, or a proof, on the live path: the session's
\* own evidence, and a receipt of the generation that is current now.
DeliverLive(p) ==
    /\ At(p, "live") /\ req[p].kind \in {"next", "proof"}
    /\ LET r == req[p]
           body == Current(r)
           s0 == BindSnapshot(Evaluate(session, r), r)
           ev == Merge(s0.evidence[body], r, body)
           att == Assess(ev, r, body)
           s == [s0 EXCEPT !.evidence[body] = ev]
           noted == NoteDeliveryChain(s, r, body, att)
           aligned == r.source = r.index /\ Bound(s0, r)
       IN  IF SnapshotHolds(r) /\ (IsProof(r) \/ r.cursor.body = body)
           THEN /\ \E consumed \in ConsumedAfter(noted) :
                     session' = RecordAttestedDelivery(noted, consumed, body, s.generation + 1,
                                                       att, aligned)
                /\ IF IsProof(r) THEN UNCHANGED holds ELSE Receives(Owner[p], body)
           ELSE session' = s /\ UNCHANGED holds
    /\ Told(p, {}, {}) /\ Done(p)
    /\ UNCHANGED <<repo, delivery, stored, bytes, budget>>

---------------------------------------------------------------------------
(* The repository and the clock.                                           *)

\* A source is edited, an aligned write brings the index up to it, or both.
Edit ==
    /\ budget.edits < MaxEdits
    /\ \/ \E v \in Versions \ {repo.source} : repo' = [repo EXCEPT !.source = v]
       \/ \E v \in Versions \ {repo.source} : repo' = [index |-> v, source |-> v]
       \/ repo.index # repo.source /\ repo' = [repo EXCEPT !.index = repo.source]
    /\ budget' = [budget EXCEPT !.edits = @ + 1]
    /\ UNCHANGED <<session, delivery, stored, bytes, req, holds, told>>

\* prune: a delivery idle for 15 minutes or 60 minutes old goes with the next
\* operation of the store; a request that holds it finishes without it.
Prune(id) ==
    /\ budget.expired < MaxExpired
    /\ SetStore(RemoveEntry(id))
    /\ budget' = [budget EXCEPT !.expired = @ + 1]
    /\ UNCHANGED <<repo, session, delivery, req, holds, told>>

Next ==
    \/ \E p \in Procs :
        \/ Submit(p) \/ Lookup(p) \/ FindProof(p) \/ Reserve(p) \/ EvaluateRetained(p)
        \/ Postflight(p) \/ Record(p) \/ CheckOnly(p) \/ CapacityStop(p)
        \/ DeliverFresh(p) \/ DeliverLive(p)
    \/ Edit
    \/ \E id \in ToSet(stored) : Prune(id)

Spec == Init /\ [][Next]_vars

---------------------------------------------------------------------------
(* Properties.                                                             *)

\* What the deliveries of a sequence of ids weigh together.
Weight(ids) ==
    LET upTo[n \in 0..Len(ids)] == IF n = 0 THEN 0 ELSE upTo[n - 1] + delivery[ids[n]].bytes
    IN  upTo[Len(ids)]

\* The store's byte count is the weight of its entries, and neither limit is
\* exceeded, whatever is evicted, pruned, removed twice or grown by a proof
\* while requests hold its deliveries.
StoreAccounted ==
    /\ bytes = Weight(stored)
    /\ bytes <= MaxBytes /\ Len(stored) <= MaxCount

\* A Host held a whole scope at least as large as the reload that was interrupted.
HeldOnce(t) == \E b \in t.confirmed : b.scope = "all" /\ Tokens(b) >= t.failed

\* The loop breaker: a reload is open only while a compaction waits for it, below
\* the verdict, and never one as large as a reload that a compaction interrupted,
\* unless a Host ever confirmed a whole scope of that size.
ReloadLoopBroken ==
    session.attempt # None =>
        /\ CompactionPending(session)
        /\ session.capacity # None => session.attempt.tokens < session.capacity
        /\ told.failed # None /\ session.attempt.tokens >= told.failed => HeldOnce(told)

\* While fewer ids were used than the session remembers, a retry of a declaration,
\* whatever happened since, never counts as the compaction that interrupts a
\* reload.  Beyond that number consumeEvent forgets and a retry may interrupt.
RetryNeverInterrupts == Cardinality(told.declared) < MaxConsumed => ~told.retried

\* A reliable receipt made in this server is for a body that a Host confirmed
\* and attested, and that was delivered under aligned governance; the one other
\* way is a fresh request that bound its body under aligned governance and was
\* refused at its postflight (bindVolumeGovernanceSnapshot comes before the checks).
ReliableProven ==
    (session.last # None /\ ~told.adopted) =>
        (session.last.reliable =>
            /\ session.last.body \in told.confirmed \cap told.passed
            /\ session.last.body \in told.governed \cup told.refused)
=============================================================================
