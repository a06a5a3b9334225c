---------------------------- MODULE VectorStore ----------------------------
(***************************************************************************)
(* What a vector index that is added to, deleted from, saved and loaded    *)
(* again promises to its callers: a set of live vectors and one saved copy *)
(* of it.  A vector takes the place of one with the same metadata, and of  *)
(* no other unless some metadata were lost.                                *)
(***************************************************************************)
VARIABLES
    live,    \* the vectors that searches may return
    copies,  \* what was live at the last save, or nothing: no copy can be loaded
    lost     \* some metadata were lost

Init == live = {} /\ copies = {} /\ lost = FALSE

Put ==
    /\ \A v \in live \ live' : lost \/ \E w \in live' \ live : w.meta = v.meta
    /\ lost => lost'
    /\ UNCHANGED copies

Remove == \E v \in live : live' = live \ {v} /\ UNCHANGED <<copies, lost>>

\* A save destroys the last copy before it makes the new one.
BeginSave == copies' = {} /\ UNCHANGED <<live, lost>>
Save == copies = {} /\ copies' = {live} /\ UNCHANGED <<live, lost>>

\* The process ends and the next one loads the copy.
Load == live' \in copies /\ UNCHANGED copies

Next == Put \/ Remove \/ BeginSave \/ Save \/ Load

Spec == Init /\ [][Next]_<<live, copies, lost>>
=============================================================================
