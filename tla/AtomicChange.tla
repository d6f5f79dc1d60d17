---------------------------- MODULE AtomicChange ----------------------------
(***************************************************************************)
(* What a layout transaction promises to a reader that respects the gate   *)
(* of cognitiontxn.Pending: while a change is pending the formal files are *)
(* not delivered, and when they are shown again they are either all as the *)
(* change wants them or all as they were, which the recorded result says.  *)
(* Only files that somebody else wrote in between are excepted, and for    *)
(* those nothing is promised.                                              *)
(***************************************************************************)
CONSTANTS
    Images,   \* the formal files
    Txs,      \* the changes
    Changes,  \* Changes[t]: the files that t writes
    None

VARIABLES
    pending,  \* the change in progress, or None
    shown,    \* the files as a reader sees them, None while a change is pending
    before,   \* the files as they were when the pending change was captured
    foreign,  \* the files that somebody else wrote
    result    \* result[t]: "open", "applied" or "rolled_back"

vars == <<pending, shown, before, foreign, result>>

After(t) == [i \in Images |-> IF i \in Changes[t] THEN t ELSE before[i]]

Init ==
    /\ pending = None /\ before = None /\ foreign = {}
    /\ DOMAIN shown = Images
    /\ result = [t \in Txs |-> "open"]

\* What somebody else wrote after the capture is theirs.
Begin(t) ==
    /\ pending = None /\ result[t] = "open"
    /\ pending' = t /\ shown' = None
    /\ DOMAIN before' = Images
    /\ foreign' = foreign \cup {i \in Images : before'[i] # shown[i]}
    /\ UNCHANGED result

\* The change is over: its files are shown again, as f but for the foreign ones.
End(t, f, how) ==
    /\ pending = t /\ pending' = None /\ before' = None
    /\ DOMAIN shown' = Images
    /\ \A i \in Images \ foreign : shown'[i] = f[i]
    /\ foreign' \subseteq foreign
    /\ result' = [result EXCEPT ![t] = how]

Commit(t) == End(t, After(t), "applied")
Abort(t) == End(t, before, "rolled_back")

Outside(i) ==
    /\ UNCHANGED <<pending, before, result>>
    /\ \/ /\ pending # None
          /\ foreign' = foreign \cup {i}
          /\ UNCHANGED shown
       \/ /\ pending = None
          /\ foreign' \in {foreign, foreign \cup {i}}
          /\ DOMAIN shown' = Images
          /\ \A j \in Images \ {i} : shown'[j] = shown[j]

Next ==
    \/ \E t \in Txs : Begin(t) \/ Commit(t) \/ Abort(t)
    \/ \E i \in Images : Outside(i)

Spec == Init /\ [][Next]_vars
=============================================================================
