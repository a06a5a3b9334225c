---------------------------- MODULE VisitedSets ----------------------------
(***************************************************************************)
(* What a search of the graph expects of its visited list: a set of its    *)
(* own, empty when the search begins, to which it adds each node once.     *)
(***************************************************************************)
CONSTANTS Threads, Elements

VARIABLES searching, visited

vars == <<searching, visited>>

Init ==
    /\ searching = {}
    /\ visited = [t \in Threads |-> {}]

Begin(t) ==
    /\ t \notin searching
    /\ searching' = searching \cup {t}
    /\ UNCHANGED visited

Visit(t, e) ==
    /\ t \in searching
    /\ e \notin visited[t]
    /\ visited' = [visited EXCEPT ![t] = @ \cup {e}]
    /\ UNCHANGED searching

End(t) ==
    /\ t \in searching
    /\ searching' = searching \ {t}
    /\ visited' = [visited EXCEPT ![t] = {}]

Next == \E t \in Threads : Begin(t) \/ End(t) \/ \E e \in Elements : Visit(t, e)

Spec == Init /\ [][Next]_vars
=============================================================================
