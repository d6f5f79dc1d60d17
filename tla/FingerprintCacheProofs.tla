----------------------- MODULE FingerprintCacheProofs -----------------------
(***************************************************************************)
(* The stat cache never answers with anything but a cold hash, for every   *)
(* number of calls and files, every racy window and every lag of the time  *)
(* stamps that the window covers.                                          *)
(***************************************************************************)
EXTENDS FingerprintCache, TLAPS

Steps == {"idle", "open", "stamp", "first", "second", "stat"}

\* A request q at step k has its path, and what was read is a version or a mixture.
RequestWellFormed(k, q) ==
    /\ k \notin {"idle", "open"} => q.path \in Paths
    /\ k \in {"second", "stat"} => q.read \in Reads

\* What a request q at step k of a call with the entries m has read is of the file as
\* it is, if what comes of it will be trusted: the digest under the stamp it has
\* taken, or the count beside the entry it is for.
RequestSound(k, q, m) ==
    k \in {"second", "stat"} =>
        /\ (q.op = "hash" /\ file[q.path].mtime = q.mtime /\ q.mtime + Window < q.at)
               => q.read = Cold(q.path)
        /\ (q.op = "lines" /\ Answers(m[q.path], q.path)) => q.read = Cold(q.path)

\* An entry answers with what a cold hash and a cold count would give.
EntrySound(e, f) == Answers(e, f) => e.digest = Cold(f) /\ e.lines \in {None, Cold(f)}

MapSound(m) == \A f \in Paths : EntrySound(m[f], f)

CallSound(k, q, m) == RequestWellFormed(k, q) /\ RequestSound(k, q, m) /\ MapSound(m)

\* The inductive invariant.
CacheInv ==
    /\ TypeOK
    /\ MapSound(disk)
    /\ \A c \in Calls : CallSound(pc[c], req[c], entries[c])

-----------------------------------------------------------------------------
(* Steps of one call.                                                      *)

\* A step of one call that leaves time and files alone keeps the invariant if what
\* it leaves behind of itself and in the cache file is well typed and sound.
LEMMA OwnStep ==
    ASSUME CacheInv, UNCHANGED <<clock, file, writes>>,
           NEW c \in Calls, NEW k \in Steps, NEW q \in Requests, NEW m \in Maps,
           pc' = [pc EXCEPT ![c] = k], req' = [req EXCEPT ![c] = q],
           entries' = [entries EXCEPT ![c] = m], CallSound(k, q, m),
           disk' \in Maps, MapSound(disk'),
           seen' \in [Calls -> SUBSET Paths], dirty' \in [Calls -> BOOLEAN]
    PROVE  CacheInv'
  <1>1. TypeOK'
    BY DEF CacheInv, TypeOK, Requests, Maps, Entries, Steps
  <1>2. MapSound(disk)'
    BY DEF MapSound, EntrySound, Answers, Trusted, Cold
  <1>3. ASSUME NEW d \in Calls
        PROVE  CallSound(pc[d], req[d], entries[d])'
    <2>1. CallSound(pc'[d], req'[d], entries'[d])
      BY DEF CacheInv, TypeOK
    <2> QED
      BY <2>1 DEF CallSound, MapSound, RequestWellFormed, RequestSound, EntrySound, Answers,
                  Trusted, Cold
  <1> QED
    BY <1>1, <1>2, <1>3 DEF CacheInv

\* What the invariant says of one call and of the cache file.
LEMMA OwnState ==
    ASSUME CacheInv, NEW c \in Calls
    PROVE  /\ clock \in Nat /\ file \in [Paths -> [v : Nat, mtime : Nat]]
           /\ disk \in Maps /\ MapSound(disk)
           /\ pc[c] \in Steps /\ req[c] \in Requests /\ entries[c] \in Maps
           /\ CallSound(pc[c], req[c], entries[c])
           /\ seen \in [Calls -> SUBSET Paths] /\ dirty \in [Calls -> BOOLEAN]
           /\ entries = [entries EXCEPT ![c] = entries[c]]
           /\ req = [req EXCEPT ![c] = req[c]]
           /\ pc = [pc EXCEPT ![c] = pc[c]]
  BY DEF CacheInv, TypeOK, Steps

\* A step that only moves the request of one call.
LEMMA RequestStep ==
    ASSUME CacheInv, UNCHANGED <<clock, file, writes, disk, entries, dirty>>,
           NEW c \in Calls, NEW k \in Steps, NEW q \in Requests,
           pc' = [pc EXCEPT ![c] = k], req' = [req EXCEPT ![c] = q],
           RequestWellFormed(k, q), RequestSound(k, q, entries[c]),
           seen' \in [Calls -> SUBSET Paths]
    PROVE  CacheInv'
  <1>1. CallSound(k, q, entries[c])
    BY OwnState DEF CallSound
  <1>2. entries' = [entries EXCEPT ![c] = entries[c]]
    BY OwnState
  <1>3. disk' \in Maps /\ MapSound(disk') /\ dirty' \in [Calls -> BOOLEAN] /\ entries[c] \in Maps
    BY OwnState
  <1> QED
    BY <1>1, <1>2, <1>3, OwnStep

\* A request that does not exist yet, or any more, owes nothing.
LEMMA NoRequestSound ==
    ASSUME clock \in Nat
    PROVE  /\ NoRequest \in Requests
           /\ \A k \in {"idle", "open"}, m \in Maps :
                 RequestWellFormed(k, NoRequest) /\ RequestSound(k, NoRequest, m)
           /\ Empty \in Maps /\ MapSound(Empty)
  BY DEF NoRequest, Requests, RequestWellFormed, RequestSound, Empty, Maps, MapSound, EntrySound,
         Answers, Trusted

-----------------------------------------------------------------------------
(* The actions.                                                            *)

\* A fresh repository has an empty cache and idle calls.
LEMMA InitInv == Init => CacheInv
  <1> SUFFICES ASSUME Init PROVE CacheInv
    OBVIOUS
  <1>1. clock = 0
    BY DEF Init
  <1>2. TypeOK
    BY <1>1, NoRequestSound DEF Init, TypeOK
  <1>3. MapSound(disk)
    BY <1>1, NoRequestSound DEF Init
  <1>4. ASSUME NEW c \in Calls
        PROVE  CallSound(pc[c], req[c], entries[c])
    BY <1>1, NoRequestSound DEF Init, CallSound
  <1> QED
    BY <1>2, <1>3, <1>4 DEF CacheInv

\* OpenFingerprintCache: the copy is as sound as the file, or empty.
LEMMA OpenInv ==
    ASSUME CacheInv, NEW c \in Calls, OpenFingerprintCache(c)
    PROVE  CacheInv'
  <1>1. PICK m \in {disk, Empty} : entries' = [entries EXCEPT ![c] = m]
    BY DEF OpenFingerprintCache
  <1>2. m \in Maps /\ MapSound(m)
    BY OwnState, NoRequestSound
  <1>3. /\ pc' = [pc EXCEPT ![c] = "open"]
        /\ UNCHANGED <<clock, file, writes, disk, seen, dirty, req>>
    BY DEF OpenFingerprintCache, GoTo, world
  <1>4. CallSound("open", req[c], m)
    BY <1>2 DEF CallSound, RequestWellFormed, RequestSound
  <1>5. "open" \in Steps
    BY DEF Steps
  <1> QED
    BY <1>1, <1>2, <1>3, <1>4, <1>5, OwnState, OwnStep

\* HashFile up to the hit, or to the decision to read.
LEMMA StatBeforeInv ==
    ASSUME CacheInv, NEW c \in Calls, NEW f \in Paths, StatBefore(c, f)
    PROVE  CacheInv'
  <1>1. /\ UNCHANGED <<clock, file, writes, disk, entries, dirty>>
        /\ seen' \in [Calls -> SUBSET Paths]
    BY OwnState DEF StatBefore, world
  <1>2. CASE UNCHANGED <<pc, req>>
    BY <1>1, <1>2, OwnState, RequestStep DEF CallSound
  <1>3. CASE GoTo(c, "open", "stamp")
    <2> DEFINE q == [op |-> "hash", path |-> f, mtime |-> file[f].mtime, at |-> 0, read |-> None]
    <2>1. req' = [req EXCEPT ![c] = q] \/ UNCHANGED <<pc, req>>
      BY DEF StatBefore
    <2>2. q \in Requests /\ q.path = f
      BY OwnState DEF Requests
    <2> HIDE DEF q
    <2>3. pc' = [pc EXCEPT ![c] = "stamp"] /\ "stamp" \in Steps
      BY <1>3 DEF GoTo, Steps
    <2>4. RequestWellFormed("stamp", q) /\ RequestSound("stamp", q, entries[c])
      BY <2>2 DEF RequestWellFormed, RequestSound
    <2> QED
      BY <1>1, <1>2, <2>1, <2>2, <2>3, <2>4, RequestStep
  <1> QED
    BY <1>2, <1>3 DEF StatBefore

\* HashFile's stamp, taken before the first byte is read.
LEMMA StampInv ==
    ASSUME CacheInv, NEW c \in Calls, Stamp(c)
    PROVE  CacheInv'
  <1> DEFINE q == [req[c] EXCEPT !.at = clock]
  <1>1. /\ UNCHANGED <<clock, file, writes, disk, entries, dirty, seen>>
        /\ pc[c] = "stamp" /\ pc' = [pc EXCEPT ![c] = "first"]
        /\ req' = [req EXCEPT ![c] = q]
    BY DEF Stamp, GoTo, world, copy
  <1>2. req[c].path \in Paths
    BY <1>1, OwnState DEF CallSound, RequestWellFormed
  <1>3. q \in Requests /\ q.path = req[c].path
    BY SMTT(30), OwnState DEF Requests
  <1> HIDE DEF q
  <1>4. RequestWellFormed("first", q) /\ RequestSound("first", q, entries[c]) /\ "first" \in Steps
    BY <1>2, <1>3 DEF RequestWellFormed, RequestSound, Steps
  <1> QED
    BY <1>1, <1>3, <1>4, OwnState, RequestStep

\* The first bytes are of the file as it is.
LEMMA ReadFirstInv ==
    ASSUME CacheInv, NEW c \in Calls, ReadFirst(c)
    PROVE  CacheInv'
  <1> DEFINE q == [req[c] EXCEPT !.read = file[req[c].path].v]
  <1>1. /\ UNCHANGED <<clock, file, writes, disk, entries, dirty, seen>>
        /\ pc[c] = "first" /\ pc' = [pc EXCEPT ![c] = "second"]
        /\ req' = [req EXCEPT ![c] = q]
    BY DEF ReadFirst, GoTo, world, copy
  <1>2. req[c].path \in Paths /\ file[req[c].path].v \in Reads
    BY <1>1, OwnState DEF CallSound, RequestWellFormed, Reads
  <1>3. q \in Requests /\ q.path = req[c].path /\ q.read = file[req[c].path].v
    BY <1>2, OwnState DEF Requests
  <1> HIDE DEF q
  <1>4. /\ RequestWellFormed("second", q) /\ RequestSound("second", q, entries[c])
        /\ "second" \in Steps
    BY <1>2, <1>3 DEF RequestWellFormed, RequestSound, Steps, Cold
  <1> QED
    BY <1>1, <1>3, <1>4, OwnState, RequestStep

\* The last bytes are, or the digest is of a mixture.
LEMMA ReadSecondInv ==
    ASSUME CacheInv, NEW c \in Calls, ReadSecond(c)
    PROVE  CacheInv'
  <1> DEFINE x == IF req[c].read = file[req[c].path].v THEN req[c].read ELSE Mixed
             q == [req[c] EXCEPT !.read = x]
  <1>1. /\ UNCHANGED <<clock, file, writes, disk, entries, dirty, seen>>
        /\ pc[c] = "second" /\ pc' = [pc EXCEPT ![c] = "stat"]
    BY DEF ReadSecond, GoTo, world, copy
  <1>8. req' = [req EXCEPT ![c] = q]
    BY Zenon, OwnState DEF ReadSecond
  <1>2. req[c].path \in Paths /\ req[c].read \in Reads
    BY <1>1, OwnState DEF CallSound, RequestWellFormed
  <1>3. x \in Reads /\ (req[c].read = Cold(req[c].path) => x = Cold(req[c].path))
    BY <1>2 DEF Reads, Cold
  <1> HIDE DEF x
  <1>4. /\ q \in Requests /\ q.op = req[c].op /\ q.path = req[c].path
        /\ q.mtime = req[c].mtime /\ q.at = req[c].at /\ q.read = x
    BY <1>3, OwnState DEF Requests
  <1> HIDE DEF q
  <1>5. RequestWellFormed("stat", q)
    BY <1>2, <1>3, <1>4 DEF RequestWellFormed
  <1>6. RequestSound("second", req[c], entries[c])
    BY <1>1, OwnState DEF CallSound
  <1>7. RequestSound("stat", q, entries[c]) /\ "stat" \in Steps
    BY <1>3, <1>4, <1>6 DEF RequestSound, Steps
  <1> QED
    BY <1>1, <1>4, <1>5, <1>7, <1>8, OwnState, RequestStep

\* A request that fails leaves nothing.
LEMMA ReadFailsInv ==
    ASSUME CacheInv, NEW c \in Calls, ReadFails(c)
    PROVE  CacheInv'
  <1>1. /\ UNCHANGED <<clock, file, writes, disk, entries, dirty, seen>>
        /\ pc' = [pc EXCEPT ![c] = "open"] /\ req' = [req EXCEPT ![c] = NoRequest]
    BY DEF ReadFails, Answer, GoTo, world, copy
  <1>2. "open" \in Steps /\ NoRequest \in Requests
    BY OwnState, NoRequestSound DEF Steps
  <1> QED
    BY <1>1, <1>2, OwnState, NoRequestSound, RequestStep

\* FileLines up to the decision to count.
LEMMA FileLinesInv ==
    ASSUME CacheInv, NEW c \in Calls, NEW f \in Paths, FileLines(c, f)
    PROVE  CacheInv'
  <1> DEFINE q == [op |-> "lines", path |-> f, mtime |-> 0, at |-> 0, read |-> None]
  <1>1. /\ UNCHANGED <<clock, file, writes, disk, entries, dirty, seen>>
        /\ pc' = [pc EXCEPT ![c] = "first"] /\ req' = [req EXCEPT ![c] = q]
    BY DEF FileLines, GoTo, world, copy
  <1>2. q \in Requests /\ q.path = f
    BY OwnState DEF Requests
  <1> HIDE DEF q
  <1>3. RequestWellFormed("first", q) /\ RequestSound("first", q, entries[c]) /\ "first" \in Steps
    BY <1>2 DEF RequestWellFormed, RequestSound, Steps
  <1> QED
    BY <1>1, <1>2, <1>3, OwnState, RequestStep

-----------------------------------------------------------------------------
(* What is remembered.                                                     *)

\* The entry of one path is replaced by a sound one.
LEMMA MapUpdate ==
    ASSUME NEW m \in Maps, MapSound(m), NEW f \in Paths, NEW e \in Entries, EntrySound(e, f)
    PROVE  [m EXCEPT ![f] = e] \in Maps /\ MapSound([m EXCEPT ![f] = e])
  BY DEF Maps, MapSound

\* The end of a request: the entries m it leaves are sound, and nothing else changes.
LEMMA AnswerStep ==
    ASSUME CacheInv, UNCHANGED <<clock, file, writes, disk, seen>>, NEW c \in Calls,
           Answer(c, "stat"), NEW m \in Maps, MapSound(m),
           entries' = [entries EXCEPT ![c] = m], dirty' \in [Calls -> BOOLEAN]
    PROVE  CacheInv'
  <1>1. pc' = [pc EXCEPT ![c] = "open"] /\ req' = [req EXCEPT ![c] = NoRequest]
    BY DEF Answer, GoTo
  <1>2. NoRequest \in Requests /\ CallSound("open", NoRequest, m) /\ "open" \in Steps
    BY OwnState, NoRequestSound DEF CallSound, Steps
  <1> QED
    BY <1>1, <1>2, OwnState, OwnStep

\* HashFile remembers a digest: it is sound because what was read is.
LEMMA StatAfterInv ==
    ASSUME CacheInv, NEW c \in Calls, StatAfter(c)
    PROVE  CacheInv'
  <1> DEFINE f == req[c].path
             e == NewEntry(req[c], entries[c][f])
  <1>1. /\ req[c].op = "hash" /\ pc[c] = "stat" /\ Answer(c, "stat")
        /\ UNCHANGED <<clock, file, writes, disk, seen>>
    BY DEF StatAfter, Answer, GoTo, world
  <1>2. f \in Paths /\ req[c].read \in Reads /\ RequestSound("stat", req[c], entries[c])
    BY <1>1, OwnState DEF CallSound, RequestWellFormed
  <1>3. CASE UNCHANGED <<entries, dirty>>
    BY <1>1, <1>3, OwnState, AnswerStep DEF CallSound
  <1>4. CASE file[f].mtime = req[c].mtime /\ Remember(c, f, e)
    <2>1. /\ e \in Entries /\ e.mtime = req[c].mtime /\ e.at = req[c].at
          /\ e.digest = req[c].read /\ e.lines = None
      BY <1>2, OwnState DEF NewEntry, Entries, Requests
    <2> HIDE DEF e
    <2>2. EntrySound(e, f)
      BY <1>1, <1>2, <1>4, <2>1 DEF EntrySound, Answers, Trusted, RequestSound
    <2> HIDE DEF f
    <2>3. entries' = [entries EXCEPT ![c] = [entries[c] EXCEPT ![f] = e]]
      BY <1>4, OwnState DEF Remember
    <2>4. dirty' \in [Calls -> BOOLEAN]
      BY <1>4, OwnState DEF Remember
    <2>5. /\ [entries[c] EXCEPT ![f] = e] \in Maps
          /\ MapSound([entries[c] EXCEPT ![f] = e])
      BY <1>2, <2>1, <2>2, OwnState, MapUpdate DEF CallSound
    <2> QED
      BY <1>1, <2>3, <2>4, <2>5, AnswerStep
  <1> QED
    BY <1>3, <1>4 DEF StatAfter

\* FileLines puts a count beside a digest that was taken at another time.
LEMMA StatLinesInv ==
    ASSUME CacheInv, NEW c \in Calls, StatLines(c)
    PROVE  CacheInv'
  <1> DEFINE f == req[c].path
             old == entries[c][f]
             e == [old EXCEPT !.lines = req[c].read]
  <1>1. /\ req[c].op = "lines" /\ pc[c] = "stat" /\ Answer(c, "stat")
        /\ UNCHANGED <<clock, file, writes, disk, seen>>
    BY DEF StatLines, Answer, GoTo, world
  <1>2. f \in Paths /\ req[c].read \in Reads /\ RequestSound("stat", req[c], entries[c])
    BY <1>1, OwnState DEF CallSound, RequestWellFormed
  <1>3. CASE UNCHANGED <<entries, dirty>>
    BY <1>1, <1>3, OwnState, AnswerStep DEF CallSound
  <1>4. CASE old # None /\ Remember(c, f, e)
    <2>1. old \in Entries /\ EntrySound(old, f)
      BY <1>2, <1>4, OwnState DEF Maps, CallSound, MapSound
    <2>2. Answers(old, f) => req[c].read = Cold(f)
      BY <1>1, <1>2 DEF RequestSound
    <2> HIDE DEF old
    <2>3. /\ e \in Entries /\ e.mtime = old.mtime /\ e.at = old.at
          /\ e.digest = old.digest /\ e.lines = req[c].read
      BY <1>2, <2>1 DEF Entries
    <2> HIDE DEF e
    <2>4. EntrySound(e, f)
      BY <1>4, <2>1, <2>2, <2>3 DEF EntrySound, Answers, Trusted
    <2> HIDE DEF f
    <2>5. entries' = [entries EXCEPT ![c] = [entries[c] EXCEPT ![f] = e]]
      BY <1>4, OwnState DEF Remember
    <2>6. dirty' \in [Calls -> BOOLEAN]
      BY <1>4, OwnState DEF Remember
    <2>7. /\ [entries[c] EXCEPT ![f] = e] \in Maps
          /\ MapSound([entries[c] EXCEPT ![f] = e])
      BY <1>2, <2>3, <2>4, OwnState, MapUpdate DEF CallSound
    <2> QED
      BY <1>1, <2>5, <2>6, <2>7, AnswerStep
  <1> QED
    BY <1>3, <1>4 DEF StatLines

\* A call that returns has its entries in the cache file, some of them, or nowhere.
LEMMA CloseStep ==
    ASSUME CacheInv, UNCHANGED <<clock, file, writes, req>>, NEW c \in Calls, Close(c),
           disk' \in Maps, MapSound(disk')
    PROVE  CacheInv'
  <1>1. /\ pc' = [pc EXCEPT ![c] = "idle"] /\ entries' = [entries EXCEPT ![c] = Empty]
        /\ req' = [req EXCEPT ![c] = req[c]]
        /\ seen' \in [Calls -> SUBSET Paths] /\ dirty' \in [Calls -> BOOLEAN]
    BY OwnState DEF Close, GoTo
  <1>2. CallSound("idle", req[c], Empty) /\ "idle" \in Steps /\ Empty \in Maps
    BY OwnState, NoRequestSound DEF CallSound, RequestWellFormed, RequestSound, Steps
  <1> QED
    BY <1>1, <1>2, OwnState, OwnStep

\* Save replaces the file by entries that are sound, whoever wrote it since.
LEMMA SaveInv ==
    ASSUME CacheInv, NEW c \in Calls, Save(c)
    PROVE  CacheInv'
  <1>1. Kept(c) \in Maps /\ MapSound(Kept(c))
    BY OwnState DEF Kept, Maps, MapSound, CallSound, EntrySound, Answers, Trusted
  <1>2. disk' \in Maps /\ MapSound(disk')
    BY <1>1, OwnState DEF Save
  <1>3. Close(c) /\ UNCHANGED <<clock, file, writes, req>>
    BY DEF Save, world
  <1> QED
    BY <1>2, <1>3, CloseStep

\* A call that does not save leaves the file as it is.
LEMMA DiscardInv ==
    ASSUME CacheInv, NEW c \in Calls, Discard(c)
    PROVE  CacheInv'
  <1>1. Close(c) /\ UNCHANGED <<clock, file, writes, req, disk>>
    BY DEF Discard, world
  <1> QED
    BY <1>1, OwnState, CloseStep

-----------------------------------------------------------------------------
(* Time and the developers.                                                *)

\* Time passes, and stamps stay in the past.
LEMMA TickInv ==
    ASSUME CacheInv, Tick
    PROVE  CacheInv'
  <1>1. TypeOK'
    BY DEF CacheInv, TypeOK, Tick, copy, Requests, Maps, Entries
  <1>2. UNCHANGED <<file, disk, pc, entries, req>>
    BY DEF Tick, copy
  <1> QED
    BY <1>1, <1>2 DEF CacheInv, CallSound, MapSound, RequestWellFormed, RequestSound, EntrySound,
                      Answers, Trusted, Cold

\* The heart of the matter: bytes that appear now have a modification time at most
\* Lag old, and whatever is trusted was hashed, at the latest now, more than Window
\* after the time it is for.  So it is for another time, and answers no longer.
LEMMA WriteOutdates ==
    ASSUME clock \in Nat, NEW mtime \in Nat, NEW at \in 0..clock, NEW age \in 0..Lag,
           mtime + Window < at
    PROVE  clock - age # mtime
  BY CacheConstants DEF CacheConstants

\* A developer's write outdates every trusted entry and every request that would
\* become one.
LEMMA WriteInv ==
    ASSUME CacheInv, NEW f \in Paths, Write(f)
    PROVE  CacheInv'
  <1>1. PICK age \in 0..Lag :
            /\ age <= clock
            /\ file' = [file EXCEPT ![f] = [v |-> @.v + 1, mtime |-> clock - age]]
    BY DEF Write
  <1>2. UNCHANGED <<clock, disk, pc, entries, seen, dirty, req>> /\ writes' = writes + 1
    BY DEF Write, copy
  <1>3. clock \in Nat /\ file \in [Paths -> [v : Nat, mtime : Nat]]
    BY DEF CacheInv, TypeOK
  <1>4. file'[f].mtime = clock - age /\ \A g \in Paths \ {f} : file'[g] = file[g]
    BY <1>1, <1>3
  <1>5. file' \in [Paths -> [v : Nat, mtime : Nat]]
    <2>1. clock - age \in Nat
      BY <1>1, <1>3, CacheConstants DEF CacheConstants
    <2> QED
      BY <1>1, <1>3, <2>1
  <1>6. TypeOK'
    BY <1>2, <1>5 DEF CacheInv, TypeOK, Requests, Maps, Entries
  <1>7. ASSUME NEW m \in Maps, MapSound(m)
        PROVE  MapSound(m)'
    <2> SUFFICES ASSUME NEW g \in Paths PROVE EntrySound(m[g], g)'
      BY DEF MapSound
    <2>1. CASE g # f
      BY <1>4, <1>7, <2>1 DEF MapSound, EntrySound, Answers, Trusted, Cold
    <2>2. CASE g = f /\ Trusted(m[g])
      <3>1. m[g] \in Entries /\ m[g].mtime + Window < m[g].at
        BY <2>2 DEF Maps, Trusted
      <3>2. file'[f].mtime # m[g].mtime
        BY <1>3, <1>4, <3>1, WriteOutdates DEF Entries
      <3> QED
        BY <2>2, <3>2 DEF EntrySound, Answers
    <2>3. CASE ~Trusted(m[g])
      BY <2>3 DEF EntrySound, Answers, Trusted
    <2> QED
      BY <2>1, <2>2, <2>3
  <1>8. ASSUME NEW c \in Calls
        PROVE  CallSound(pc[c], req[c], entries[c])'
    <2>1. CallSound(pc[c], req[c], entries[c]) /\ entries[c] \in Maps /\ req[c] \in Requests
      BY OwnState
    <2>2. MapSound(entries[c])'
      BY <1>2, <1>7, <2>1 DEF CallSound
    <2>3. RequestWellFormed(pc[c], req[c])'
      BY <1>2, <2>1 DEF CallSound, RequestWellFormed
    <2>4. RequestSound(pc[c], req[c], entries[c])'
      <3> SUFFICES ASSUME pc[c] \in {"second", "stat"}
                   PROVE  RequestSound(pc[c], req[c], entries[c])'
        BY <1>2 DEF RequestSound
      <3>1. req[c].path \in Paths
        BY <2>1 DEF CallSound, RequestWellFormed
      <3>2. CASE req[c].path # f
        BY <1>2, <1>4, <2>1, <3>1, <3>2 DEF CallSound, RequestSound, Answers, Trusted, Cold
      <3>3. CASE req[c].path = f
        <4>1. ~(req[c].mtime + Window < req[c].at /\ file'[f].mtime = req[c].mtime)
          BY <1>3, <1>4, <2>1, WriteOutdates DEF Requests
        <4>2. ~Answers(entries[c][f], f)'
          <5>1. entries[c][f] # None => entries[c][f] \in Entries
            BY <2>1 DEF Maps
          <5> QED
            BY <1>2, <1>3, <1>4, <5>1, WriteOutdates DEF Answers, Trusted, Entries
        <4> QED
          BY <1>2, <3>3, <4>1, <4>2 DEF RequestSound
      <3> QED
        BY <3>2, <3>3
    <2> QED
      BY <2>2, <2>3, <2>4 DEF CallSound
  <1>9. MapSound(disk)'
    <2>1. disk \in Maps /\ MapSound(disk)
      BY DEF CacheInv, TypeOK
    <2> QED
      BY <1>2, <1>7, <2>1 DEF MapSound, EntrySound
  <1> QED
    BY <1>6, <1>8, <1>9 DEF CacheInv

-----------------------------------------------------------------------------
(* The theorems.                                                           *)

\* No step of any call, of time or of a developer breaks the invariant.
LEMMA StepInv == CacheInv /\ [Next]_vars => CacheInv'
  <1> SUFFICES ASSUME CacheInv, [Next]_vars PROVE CacheInv'
    OBVIOUS
  <1>1. CASE UNCHANGED vars
    <2>1. UNCHANGED <<clock, file, writes, disk, pc, entries, seen, dirty, req>>
      BY <1>1 DEF vars, world, copy
    <2>2. TypeOK'
      BY <2>1 DEF CacheInv, TypeOK, Requests, Maps, Entries
    <2> QED
      BY <2>1, <2>2 DEF CacheInv, CallSound, MapSound, RequestWellFormed, RequestSound,
                        EntrySound, Answers, Trusted, Cold
  <1>2. ASSUME NEW c \in Calls, OpenFingerprintCache(c) PROVE CacheInv'
    BY <1>2, OpenInv
  <1>3. ASSUME NEW c \in Calls, NEW f \in Paths, StatBefore(c, f) \/ FileLines(c, f)
        PROVE  CacheInv'
    BY <1>3, StatBeforeInv, FileLinesInv
  <1>4. ASSUME NEW c \in Calls, Request(c) PROVE CacheInv'
    BY <1>4, StampInv, ReadFirstInv, ReadSecondInv, StatAfterInv, StatLinesInv DEF Request
  <1>5. ASSUME NEW c \in Calls, ReadFails(c) \/ Save(c) \/ Discard(c) PROVE CacheInv'
    BY <1>5, ReadFailsInv, SaveInv, DiscardInv
  <1>6. CASE Tick
    BY <1>6, TickInv
  <1>7. ASSUME NEW f \in Paths, Write(f) PROVE CacheInv'
    BY <1>7, WriteInv
  <1> QED
    BY <1>1, <1>2, <1>3, <1>4, <1>5, <1>6, <1>7 DEF Next

\* CacheInv holds in every reachable state of the cache.
THEOREM CacheInvHolds == Spec => []CacheInv
  BY InitInv, StepInv, PTL DEF Spec

\* Every reachable state is well typed; in particular no entry and no request is
\* stamped with a time that is still to come (hashedAt, fingerprint_cache.go:136).
THEOREM CacheTypeCorrect == Spec => []TypeOK
  <1>1. CacheInv => TypeOK
    BY DEF CacheInv
  <1> QED
    BY <1>1, CacheInvHolds, PTL

\* HashFile returns what hashing the file would (fingerprint_cache.go:114-117), for
\* any number of calls that read and replace the cache file without a lock.
THEOREM HitIsColdHashHolds == Spec => []HitIsColdHash
  <1>1. CacheInv => HitIsColdHash
    BY DEF CacheInv, CallSound, MapSound, EntrySound, HitIsColdHash, Held
  <1> QED
    BY <1>1, CacheInvHolds, PTL

\* FileLines and KnownLines return what counting the lines would.
THEOREM LinesAreColdHolds == Spec => []LinesAreCold
  <1>1. CacheInv => LinesAreCold
    BY DEF CacheInv, CallSound, MapSound, EntrySound, LinesAreCold, Held, KnownLines
  <1> QED
    BY <1>1, CacheInvHolds, PTL
=============================================================================
