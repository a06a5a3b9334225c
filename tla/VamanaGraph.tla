---------------------------- MODULE VamanaGraph ----------------------------
(***************************************************************************)
(* The graph of the dynamic Vamana index: how link builds it and how the   *)
(* calls of VamanaDynamic change it.  _final_graph has the list of each    *)
(* slot; _in_graph, with which eager_delete finds the lists to take a      *)
(* point out of, is kept beside it (_support_eager_delete).                *)
(*                                                                         *)
(* Distances are left out: a search may expand any nodes that the lists    *)
(* lead to, and occlude_list may keep any of its candidates.  A list of    *)
(* _final_graph never holds an id twice and is a set; one of _in_graph may *)
(* hold an id several times, since inter_insert adds it unseen.            *)
(***************************************************************************)
EXTENDS VamanaDynamic

CONSTANTS
    R,              \* the parameter R
    NumSyncs        \* NUM_SYNCS

ASSUME GraphAssumption == R \in Nat \ {0} /\ NumSyncs \in Nat \ {0}

VARIABLES
    lists,          \* _final_graph
    inGraph,        \* how often each id stands in each list of _in_graph
    sync            \* batches that link has gone through

graph == <<lists, inGraph>>
graphVars == <<vars, graph, sync>>

Syncs == 2 * NumSyncs                   \* NUM_RNDS = 2
Built == sync = Syncs + 1

GraphInit ==
    /\ Init
    /\ lists = [s \in Slots |-> {}]
    /\ inGraph = [j \in Slots |-> [i \in Slots |-> 0]]
    /\ sync = 0
-----------------------------------------------------------------------------
(***************************************************************************)
(* Searching and pruning.                                                  *)
(***************************************************************************)
\* Sets of nodes a search may have expanded: the start, and what the lists of
\* expanded nodes lead to.
Expanded ==
    {E \in SUBSET Slots :
        /\ ep \in E
        /\ \A S \in SUBSET E : ep \in S /\ S # E => \E s \in S : lists[s] \cap (E \ S) # {}}

\* occlude_list keeps the nearest candidate, if there is one.
OccludeList(pool) ==
    {X \in SUBSET pool : Cardinality(X) <= R /\ (pool # {} => X # {})}

\* prune_neighbors: the point is the nearest to itself, does not occlude the
\* others and is left out.
PruneNeighbors(n, pool) ==
    OccludeList(pool \ {n}) \cup (IF n \in pool /\ R = 1 THEN {{}} ELSE {})

\* A list of this many takes one more before it is pruned (SLACK_FACTOR).
HasSlack(l) == 10 * Cardinality(l) < 13 * R
Overfull(l) == Cardinality(l) > (13 * R) \div 10

\* update_in_graph
InGraphOf(l) == [j \in Slots |-> [i \in Slots |-> IF j \in l[i] THEN 1 ELSE 0]]

AtLeastOne(c) == IF c = 0 THEN 1 ELSE c
-----------------------------------------------------------------------------
(***************************************************************************)
(* link.  The loops of a batch run one after the other; in the one over    *)
(* the reverse links threads meet, but only add to sets, under locks.      *)
(***************************************************************************)
\* visit_order: the points, then the frozen one.
RoundSize == (InitialPoints + NumSyncs - 1) \div NumSyncs
Batch ==
    LET first == (sync % NumSyncs) * RoundSize
    IN {IF p = InitialPoints THEN ep ELSE p :
           p \in {q \in 0 .. InitialPoints : first <= q /\ q < first + RoundSize}}

\* The lists of the batch are chosen and batch_inter_insert has been called.
Linked(P) ==
    [x \in Slots |-> (IF x \in DOMAIN P THEN P[x] ELSE lists[x]) \cup {n \in DOMAIN P : x \in P[n]}]

LinkBatch ==
    /\ sync < Syncs
    /\ \E P \in [Batch -> SUBSET Slots] :
          /\ \A n \in Batch : \E E \in Expanded : P[n] \in PruneNeighbors(n, E \cup lists[n])
          /\ LET linked == Linked(P)
                 needToSync == {x \in Slots : Overfull(linked[x])}
             IN \E Q \in [needToSync -> SUBSET Slots] :
                   /\ \A x \in needToSync : Q[x] \in PruneNeighbors(x, linked[x])
                   /\ lists' = [x \in Slots |-> IF x \in needToSync THEN Q[x] ELSE linked[x]]
    /\ sync' = sync + 1
    /\ UNCHANGED <<vars, inGraph>>

\* The final cleanup, and update_in_graph.
FinishBuild ==
    /\ sync = Syncs
    /\ LET long == {x \in Slots : Cardinality(lists[x]) > R}
       IN \E Q \in [long -> SUBSET Slots] :
             /\ \A x \in long : Q[x] \in PruneNeighbors(x, lists[x])
             /\ lists' = [x \in Slots |-> IF x \in long THEN Q[x] ELSE lists[x]]
    /\ inGraph' = InGraphOf(lists')
    /\ sync' = sync + 1
    /\ UNCHANGED vars
-----------------------------------------------------------------------------
(***************************************************************************)
(* insert_point and inter_insert.                                          *)
(***************************************************************************)
\* _in_graph once the list of n is P, with the occurrences of n found by its old
\* list taken out.
InGraphOfPoint(n, P) ==
    [j \in Slots |->
        LET c == IF j \in lists[n] THEN 0 ELSE inGraph[j][n]
        IN IF j \in P THEN AtLeastOne(c) ELSE c]

\* Variant: a neighbour that keeps n in its pruned list is not added to
\* _in_graph[n].
InterInsertedUnrecorded(n, P, Q) ==
    [j \in Slots |-> [i \in Slots |->
        CASE i = n -> InGraphOfPoint(n, P)[j]
          [] i \in P \ (DOMAIN Q \cup {n}) /\ j = n -> AtLeastOne(inGraph[j][i])
          [] OTHER -> inGraph[j][i]]]

\* _in_graph after inter_insert(n, P), which prunes the lists of DOMAIN Q to Q:
\* a neighbour that is kept there stands in _in_graph once more, one that is
\* dropped stays in it.
InterInserted(n, P, Q) ==
    [j \in Slots |-> [i \in Slots |->
        CASE i = n -> InGraphOfPoint(n, P)[j]
          [] i \in DOMAIN Q \ {n} -> inGraph[j][i] + (IF j \in Q[i] THEN 1 ELSE 0)
          [] i \in P \ (DOMAIN Q \cup {n}) /\ j = n /\ n \notin lists[i] ->
                AtLeastOne(inGraph[j][i])
          [] OTHER -> inGraph[j][i]]]

GraphInsert(t) ==
    LET n == nd IN
    /\ Built
    /\ InsertPoint(t)
    /\ \E E \in Expanded : \E P \in OccludeList(E \ {n}) :
          LET full == {des \in P : n \notin lists[des] /\ ~HasSlack(lists[des])}
          IN \E Q \in [full -> SUBSET Slots] :
                /\ \A des \in full : Q[des] \in OccludeList((lists[des] \cup {n}) \ {des})
                /\ lists' = [x \in Slots |->
                      CASE x = n -> P
                        [] x \in full \ {n} -> Q[x]
                        [] x \in P \ (full \cup {n}) -> lists[x] \cup {n}
                        [] OTHER -> lists[x]]
                /\ inGraph' = InterInserted(n, P, Q)
    /\ UNCHANGED sync
-----------------------------------------------------------------------------
(***************************************************************************)
(* Deletions.                                                              *)
(***************************************************************************)
\* eager_delete.  The in-neighbours of the point forget it, and those the
\* search has visited choose their neighbours anew, its own among them.  The
\* loop that takes such a node out of the lists of _in_graph skips the entry
\* after one it erases: of c occurrences up to half remain.
GraphEagerDelete(t) ==
    LET id == tagToLocation[t]
        without == [j \in Slots |-> [i \in Slots |->
                      IF i = id /\ j \in lists[id] /\ inGraph[j][i] > 0
                      THEN inGraph[j][i] - 1 ELSE inGraph[j][i]]]
        inNbr == {i \in Slots : without[id][i] > 0}
        forgotten == [x \in Slots |-> IF x \in inNbr THEN lists[x] \ {id} ELSE lists[x]]
        candidates(ngh) == ((forgotten[id] \cup forgotten[ngh]) \ {id, ngh}) \ (deleteSet \cup {id})
    IN
    /\ Built
    /\ EagerDelete(t)
    /\ \E E \in Expanded :
          LET anew == E \cap inNbr
              erased == {jn \in Slots \X anew : jn[1] \in forgotten[jn[2]]}
              more == {jn \in erased : without[jn[1]][jn[2]] > 1}
          IN \E Q \in [anew -> SUBSET Slots], rest \in [more -> 0 .. MaxPoints] :
                /\ \A ngh \in anew : Q[ngh] \in OccludeList(candidates(ngh))
                /\ \A jn \in more : rest[jn] <= without[jn[1]][jn[2]] \div 2
                /\ lists' = [x \in Slots |->
                      IF x = id THEN {} ELSE IF x \in anew THEN Q[x] ELSE forgotten[x]]
                /\ inGraph' = [j \in Slots |-> [i \in Slots |->
                      LET c == IF <<j, i>> \in more THEN rest[<<j, i>>]
                               ELSE IF <<j, i>> \in erased THEN 0 ELSE without[j][i]
                      IN IF i \in anew /\ j \in Q[i] THEN AtLeastOne(c) ELSE c]]
    /\ UNCHANGED sync

GraphDeletePoint(t) == Built /\ DeletePoint(t) /\ UNCHANGED <<graph, sync>>

GraphEnableDelete == Built /\ EnableDelete /\ UNCHANGED <<graph, sync>>

\* What consolidate_deletes lets a point choose from.  The list of a deleted
\* neighbour in a lower slot has been cleared before.
Candidates(i) ==
    (lists[i] \cap Kept)
        \cup UNION {lists[g] \ deleteSet : g \in {h \in lists[i] \ Kept : h > i}}

\* Renumbered edges; the slots left over are cleared.
Renumbered(l) ==
    [s \in Slots |-> UNION {{NewLocation[x] : x \in l[old]} : old \in {k \in Kept : NewLocation[k] = s}}]

\* update_in_graph comes before compact_data, which renumbers it too.
GraphDisableDelete ==
    /\ Built
    /\ DisableDelete
    /\ IF eagerDone
       THEN UNCHANGED graph
       ELSE LET losing == {i \in Kept : ~(lists[i] \subseteq Kept)}
            IN \E Q \in [losing -> SUBSET Slots] :
                  /\ \A i \in losing : Q[i] \in PruneNeighbors(i, Candidates(i))
                  /\ lists' = Renumbered([i \in Slots |-> IF i \in losing THEN Q[i] ELSE lists[i]])
                  /\ inGraph' = InGraphOf(lists')
    /\ UNCHANGED sync

GraphSave ==
    /\ Built
    /\ Save
    /\ IF SaveDue /\ nd < MaxPoints
       THEN lists' = Renumbered(lists) /\ inGraph' = InGraphOf(lists')
       ELSE UNCHANGED graph
    /\ UNCHANGED sync

\* readjust_data asks whether the list of the frozen slot is empty; callers: only
\* after a compaction has moved the frozen point.
GraphReadjustData ==
    /\ Built
    /\ lists[ep] = {}
    /\ ReadjustData
    /\ lists' = [s \in Slots |->
          CASE s = ep -> lists[nd]
            [] s = nd /\ s # ep -> {}
            [] s < nd -> {IF x >= nd THEN MaxPoints + (x - nd) ELSE x : x \in lists[s]}
            [] OTHER -> lists[s]]
    /\ inGraph' = InGraphOf(lists')
    /\ UNCHANGED sync

GraphNext ==
    \/ LinkBatch \/ FinishBuild
    \/ \E t \in Tags : GraphInsert(t) \/ GraphEagerDelete(t) \/ GraphDeletePoint(t)
    \/ GraphEnableDelete \/ GraphDisableDelete
    \/ GraphSave \/ GraphReadjustData

GraphSpec == GraphInit /\ [][GraphNext]_graphVars
-----------------------------------------------------------------------------
(***************************************************************************)
(* Properties.                                                             *)
(***************************************************************************)
\* The variables have their types.
GraphTypeOK ==
    /\ TypeOK
    /\ lists \in [Slots -> SUBSET Slots]
    /\ inGraph \in [Slots -> [Slots -> Nat]]
    /\ sync \in 0 .. Syncs + 1

\* An edge joins two different slots that hold points, through deletions,
\* renumberings and slots that are used again, and once the index is built
\* _in_graph knows it: the entries left over and those taken out there never
\* hide an edge from eager_delete.
EdgesKnown ==
    \A i \in Slots : \A j \in lists[i] :
        /\ j # i
        /\ point[i] # None /\ point[j] # None
        /\ Built => inGraph[j][i] > 0
=============================================================================
