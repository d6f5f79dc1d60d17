-------------------------- MODULE FingerprintCache --------------------------
(***************************************************************************)
(* The stat cache of internal/baseline: .aoci/fingerprints.json remembers, *)
(* per path, the digest (and the line count) a file had together with its  *)
(* modification time and the moment of hashing.  A later call answers from *)
(* the entry if the file's mtime still matches and the entry was hashed    *)
(* more than Window after it.  Calls open the cache, ask for files, and    *)
(* write the whole of it back; several do so at once without a lock, while *)
(* developers edit the files.                                              *)
(*                                                                         *)
(* All versions of a file have the same size, the case in which the size   *)
(* tells nothing.  A file is read in two parts; a digest or a line count   *)
(* stands for the version it was taken of.  Time stamps and the clock of   *)
(* the hashing process are the same clock.                                 *)
(***************************************************************************)
EXTENDS Integers

CONSTANTS
    Walks,        \* calls that walk the whole tree, one after the other in each
    Batches,      \* calls that profile files, and count their lines
    Paths,        \* the files
    Window,       \* fingerprintCacheRacyWindow
    Lag,          \* by how much bytes may appear later than their mtime says: time
                  \* stamps are coarse, and a file may be renamed into place
    None,
    MaxClock,     \* bound: time
    MaxWrites     \* bound: edits

\* What the window is made for (fingerprint_cache.go:17-23).
ASSUME CacheConstants ==
    /\ Window \in Nat /\ Lag \in Nat /\ Lag <= Window
    /\ {MaxClock, MaxWrites} \subseteq Nat
    /\ Walks \cap Batches = {}

Calls == Walks \cup Batches

VARIABLES
    clock,
    file,      \* file[f]: the version of its bytes, and its modification time
    writes,    \* edits so far
    disk,      \* the entries of fingerprints.json, None for a path it lacks
    pc,        \* where each governance call is
    entries,   \* its copy of the entries,
    seen,      \* the paths it asked for,
    dirty,     \* whether it changed anything,
    req        \* and the request it is serving

world == <<clock, file, writes>>
copy == <<entries, seen, dirty>>
vars == <<world, disk, pc, copy, req>>

\* The digest of bytes that were never in the file together.
Mixed == -1

Empty == [f \in Paths |-> None]
NoRequest == [op |-> "hash", path |-> None, mtime |-> 0, at |-> 0, read |-> None]

Init ==
    /\ clock = 0 /\ writes = 0
    /\ file = [f \in Paths |-> [v |-> 0, mtime |-> 0]]
    /\ disk = Empty
    /\ pc = [c \in Calls |-> "idle"]
    /\ entries = [c \in Calls |-> Empty]
    /\ seen = [c \in Calls |-> {}]
    /\ dirty = [c \in Calls |-> FALSE]
    /\ req = [c \in Calls |-> NoRequest]

GoTo(c, from, to) == pc[c] = from /\ pc' = [pc EXCEPT ![c] = to]

\* The call returns, and its copy of the cache is gone.
Close(c) ==
    /\ GoTo(c, "open", "idle")
    /\ entries' = [entries EXCEPT ![c] = Empty]
    /\ seen' = [seen EXCEPT ![c] = {}]
    /\ dirty' = [dirty EXCEPT ![c] = FALSE]

\* Mutant: an entry exactly as old as the window is trusted.
Trusted_OffByOne(e) == e # None /\ e.mtime + Window <= e.at

\* Hashed long enough after the file's modification time.
Trusted(e) == e # None /\ e.mtime + Window < e.at

\* The entry answers for the file as a stat finds it now.
Answers(e, f) == Trusted(e) /\ e.mtime = file[f].mtime

\* The digest, or the line count, of the file as it is now.
Cold(f) == file[f].v

-----------------------------------------------------------------------------
(* A call opens its own copy of the cache.                                 *)

\* An absent, unreadable or foreign file means an empty cache.
OpenFingerprintCache(c) ==
    /\ GoTo(c, "idle", "open")
    /\ \E m \in {disk, Empty} : entries' = [entries EXCEPT ![c] = m]
    /\ UNCHANGED <<world, disk, seen, dirty, req>>

-----------------------------------------------------------------------------
(* HashFile.                                                               *)

\* The path is seen.  A hit answers at once, a miss goes on to read the file.
StatBefore(c, f) ==
    /\ pc[c] = "open"
    /\ seen' = [seen EXCEPT ![c] = @ \cup {f}]
    /\ \/ Answers(entries[c][f], f) /\ UNCHANGED <<pc, req>>
       \/ /\ ~Answers(entries[c][f], f)
          /\ GoTo(c, "open", "stamp")
          /\ req' = [req EXCEPT ![c] = [op |-> "hash", path |-> f, mtime |-> file[f].mtime,
                                        at |-> 0, read |-> None]]
    /\ UNCHANGED <<world, disk, entries, dirty>>

\* hashedAt is taken before the first byte is read.
Stamp(c) ==
    /\ GoTo(c, "stamp", "first")
    /\ req' = [req EXCEPT ![c].at = clock]
    /\ UNCHANGED <<world, disk, copy>>

\* hashFile and CountFileLines read the bytes one part after the other.
ReadFirst(c) ==
    /\ GoTo(c, "first", "second")
    /\ req' = [req EXCEPT ![c].read = file[req[c].path].v]
    /\ UNCHANGED <<world, disk, copy>>

ReadSecond(c) ==
    /\ GoTo(c, "second", "stat")
    /\ req' = [req EXCEPT ![c].read = IF @ = file[req[c].path].v THEN @ ELSE Mixed]
    /\ UNCHANGED <<world, disk, copy>>

\* The request is answered, and its locals are gone.
Answer(c, from) ==
    /\ GoTo(c, from, "open")
    /\ req' = [req EXCEPT ![c] = NoRequest]

\* An error ends the request, and nothing is remembered.
ReadFails(c) ==
    /\ \E step \in {"first", "second"} : Answer(c, step)
    /\ UNCHANGED <<world, disk, copy>>

\* Mutant: a new digest is put beside the line count of the old one.
NewEntry_KeepsLines(q, e) ==
    [mtime |-> q.mtime, at |-> q.at, digest |-> q.read,
     lines |-> IF e = None THEN None ELSE e.lines]

\* The entry for what was read in place of e; its lines are not counted yet.
NewEntry(q, e) == [mtime |-> q.mtime, at |-> q.at, digest |-> q.read, lines |-> None]

\* The entry for a path is replaced.
Remember(c, f, e) ==
    /\ entries' = [entries EXCEPT ![c] = [@ EXCEPT ![f] = e]]
    /\ dirty' = [dirty EXCEPT ![c] = TRUE]

\* The digest is remembered unless the file changed while it was read.
StatAfter(c) ==
    /\ req[c].op = "hash" /\ Answer(c, "stat")
    /\ LET f == req[c].path
       IN  \/ file[f].mtime = req[c].mtime /\ Remember(c, f, NewEntry(req[c], entries[c][f]))
           \/ file[f].mtime # req[c].mtime /\ UNCHANGED <<entries, dirty>>
    /\ UNCHANGED <<world, disk, seen>>

-----------------------------------------------------------------------------
(* FileLines and KnownLines.                                               *)

\* The count the cache has for the file as it stands, None if it has none.
KnownLines(e, f) == IF Answers(e, f) THEN e.lines ELSE None

\* A count that is known is the answer, or else the lines are counted.
FileLines(c, f) ==
    /\ c \in Batches /\ KnownLines(entries[c][f], f) = None
    /\ GoTo(c, "open", "first")
    /\ req' = [req EXCEPT ![c] = [op |-> "lines", path |-> f, mtime |-> 0, at |-> 0,
                                  read |-> None]]
    /\ UNCHANGED <<world, disk, copy>>

\* The count joins the entry, trusted or not, if that is for this mtime.
StatLines(c) ==
    /\ req[c].op = "lines" /\ Answer(c, "stat")
    /\ LET f == req[c].path
           e == entries[c][f]
           same == e # None /\ e.mtime = file[f].mtime
       IN  \/ same /\ Remember(c, f, [e EXCEPT !.lines = req[c].read])
           \/ ~same /\ UNCHANGED <<entries, dirty>>
    /\ UNCHANGED <<world, disk, seen>>

-----------------------------------------------------------------------------
(* The end of a call.                                                      *)

\* A walk of the tree drops what it did not ask for, also when it was cut short; a
\* batch keeps it.
Kept(c) == [f \in Paths |-> IF c \in Walks /\ f \notin seen[c] THEN None ELSE entries[c][f]]

\* The whole file is replaced, whoever wrote it since.
Save(c) ==
    /\ Close(c)
    /\ disk' = IF dirty[c] \/ Kept(c) # entries[c] THEN Kept(c) ELSE disk
    /\ UNCHANGED <<world, req>>

\* A call that only reads, or whose write fails, leaves the file as it is.
Discard(c) ==
    /\ Close(c)
    /\ UNCHANGED <<world, disk, req>>

-----------------------------------------------------------------------------
(* Time and the developers.                                                *)

Tick ==
    /\ clock < MaxClock
    /\ clock' = clock + 1
    /\ UNCHANGED <<file, writes, disk, pc, copy, req>>

\* New bytes appear at a path.
Write(f) ==
    /\ writes < MaxWrites
    /\ \E age \in 0..Lag :
           /\ age <= clock
           /\ file' = [file EXCEPT ![f] = [v |-> @.v + 1, mtime |-> clock - age]]
    /\ writes' = writes + 1
    /\ UNCHANGED <<clock, disk, pc, copy, req>>

-----------------------------------------------------------------------------
\* The steps of a request once it has begun.
Request(c) == Stamp(c) \/ ReadFirst(c) \/ ReadSecond(c) \/ StatAfter(c) \/ StatLines(c)

Next ==
    \/ \E c \in Calls :
          \/ OpenFingerprintCache(c)
          \/ \E f \in Paths : StatBefore(c, f) \/ FileLines(c, f)
          \/ Request(c) \/ ReadFails(c) \/ Save(c) \/ Discard(c)
    \/ Tick
    \/ \E f \in Paths : Write(f)

Spec == Init /\ [][Next]_vars

-----------------------------------------------------------------------------
(* Properties.                                                             *)

Reads == Nat \cup {Mixed}
Entries == [mtime : Nat, at : 0..clock, digest : Reads, lines : Reads \cup {None}]
Maps == [Paths -> Entries \cup {None}]
Requests == [op : {"hash", "lines"}, path : Paths \cup {None}, mtime : Nat, at : 0..clock,
             read : Reads \cup {None}]

TypeOK ==
    /\ clock \in Nat /\ writes \in Nat
    /\ file \in [Paths -> [v : Nat, mtime : Nat]]
    /\ disk \in Maps
    /\ pc \in [Calls -> {"idle", "open", "stamp", "first", "second", "stat"}]
    /\ entries \in [Calls -> Maps]
    /\ seen \in [Calls -> SUBSET Paths]
    /\ dirty \in [Calls -> BOOLEAN]
    /\ req \in [Calls -> Requests]

\* Every entry that may answer now, in the file and in the copy of any call.
Held(f) == {disk[f]} \cup {entries[c][f] : c \in Calls}

\* HashFile "returns exactly what HashFileReusing(path, prior) returns"
\* (fingerprint_cache.go:114-117): whatever was edited while it was read, saved
\* over by another call or brought back by it, an entry that answers has the
\* digest of the bytes that are in the file at that moment.
HitIsColdHash == \A f \in Paths : \A e \in Held(f) : Answers(e, f) => e.digest = Cold(f)

\* The same of the line counts, which are put beside a digest that was taken at
\* another time.
LinesAreCold ==
    \A f \in Paths : \A e \in Held(f) : KnownLines(e, f) \in {None, Cold(f)}
=============================================================================
