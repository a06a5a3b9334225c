----------------------------- MODULE TagStore -----------------------------
(***************************************************************************)
(* What the callers of the dynamic Vamana index rely on: a bounded set of  *)
(* tags that insert_point and the two deletes change, one tag at a time,   *)
(* and that nothing else changes.                                          *)
(***************************************************************************)
EXTENDS Naturals, FiniteSets

CONSTANTS Tags, MaxPoints

VARIABLE live

Init == live \in {s \in SUBSET Tags : Cardinality(s) <= MaxPoints}

Insert(t) ==
    /\ t \notin live
    /\ Cardinality(live) < MaxPoints
    /\ live' = live \cup {t}

Delete(t) ==
    /\ t \in live
    /\ live' = live \ {t}

Next == \E t \in Tags : Insert(t) \/ Delete(t)

Spec == Init /\ [][Next]_live
=============================================================================
