------------------------- MODULE VamanaGraphProofs -------------------------
(***************************************************************************)
(* For any numbers of tags and slots, any R and any number of batches: the *)
(* graph only has edges between points, and eager_delete finds all that    *)
(* lead to a point.  The slots it is made on behave as VamanaDynamic says. *)
(***************************************************************************)
EXTENDS VamanaGraph, VamanaDynamicProofs

\* The slots a point was deleted from hold nothing, and link works on the slots
\* that build filled.
GraphIInv ==
    /\ IInv
    /\ GraphTypeOK
    /\ EdgesKnown
    /\ \A s \in emptySlots : point[s] = None
    /\ ~Built => \A p \in InitialSlots \cup {ep} : point[p] # None

LEMMA SyncFacts == Syncs \in Nat /\ (sync \in 0 .. Syncs + 1 => (sync < Syncs => ~Built))
  BY GraphAssumption DEF Syncs, Built

\* A search only meets points: the start, and what the edges lead to.
LEMMA ExpandedPoints ==
    ASSUME EdgesKnown, point[ep] # None, NEW E \in Expanded
    PROVE  E \subseteq Slots /\ \A x \in E : point[x] # None
<1>1. /\ E \subseteq Slots /\ ep \in E
      /\ \A S \in SUBSET E : ep \in S /\ S # E => \E s \in S : lists[s] \cap (E \ S) # {}
  BY DEF Expanded
<1>2. ASSUME NEW x \in E, x # ep
      PROVE  point[x] # None
  <2>1. PICK s \in E \ {x} : lists[s] \cap (E \ (E \ {x})) # {}
    BY <1>1, <1>2
  <2>2. x \in lists[s]
    BY <2>1
  <2> QED BY <1>1, <2>2 DEF EdgesKnown
<1> QED BY <1>1, <1>2

LEMMA PruneSubset ==
    ASSUME NEW n, NEW pool
    PROVE  /\ \A X \in OccludeList(pool) : X \subseteq pool
           /\ \A X \in PruneNeighbors(n, pool) : X \subseteq pool \ {n}
  BY DEF PruneNeighbors, OccludeList

\* update_in_graph counts every edge.
LEMMA InGraphOfFacts ==
    ASSUME NEW l \in [Slots -> SUBSET Slots]
    PROVE  /\ InGraphOf(l) \in [Slots -> [Slots -> Nat]]
           /\ \A i \in Slots : \A j \in l[i] : InGraphOf(l)[j][i] > 0
  BY DEF InGraphOf
-----------------------------------------------------------------------------
(***************************************************************************)
(* link.                                                                   *)
(***************************************************************************)
LEMMA GraphInitHolds == GraphInit => GraphIInv
<1> SUFFICES ASSUME GraphInit PROVE GraphIInv
  OBVIOUS
<1>1. IInv /\ Init
  BY InitIInv DEF GraphInit
<1>2. lists \in [Slots -> SUBSET Slots] /\ inGraph \in [Slots -> [Slots -> Nat]]
  BY DEF GraphInit
<1>3. sync \in 0 .. Syncs + 1
  BY SyncFacts DEF GraphInit
<1>4. EdgesKnown
  BY DEF GraphInit, EdgesKnown
<1>5. \A s \in emptySlots : point[s] = None
  BY <1>1 DEF Init
<1>6. \A p \in InitialSlots \cup {ep} : point[p] # None
  <2>1. PICK tag \in [InitialSlots -> Tags] :
           point = [s \in Slots |->
             IF s \in InitialSlots THEN tag[s] ELSE IF s = ep THEN Start ELSE None]
    BY <1>1 DEF Init
  <2>2. InitialSlots \cup {ep} \subseteq Slots /\ Start # None
    BY SizeAssumption DEF InitialSlots, Slots, ep, Start, None
  <2> QED BY <2>1, <2>2, NamesAssumption
<1> QED BY <1>1, <1>2, <1>3, <1>4, <1>5, <1>6 DEF GraphIInv, GraphTypeOK, IInv

LEMMA LinkStep ==
    ASSUME GraphIInv, LinkBatch
    PROVE  GraphTypeOK' /\ EdgesKnown' /\ ~Built /\ ~Built'
<1>1. sync \in Nat /\ sync < Syncs /\ sync' = sync + 1 /\ Syncs \in Nat
  BY SyncFacts DEF LinkBatch, GraphIInv, GraphTypeOK
<1>2. ~Built /\ ~Built' /\ sync' \in 0 .. Syncs + 1
  BY <1>1 DEF Built, Syncs
<1>3. vars' = vars /\ inGraph' = inGraph /\ TypeOK' /\ point' = point
  BY DEF LinkBatch, vars, maps, slots, orders, GraphIInv, GraphTypeOK, TypeOK
<1>4. /\ Batch \subseteq Slots
      /\ \A n \in Batch \cup {ep} : point[n] # None
  <2>1. \A p \in 0 .. InitialPoints : p = InitialPoints \/ p \in InitialSlots
    BY SizeAssumption DEF InitialSlots
  <2>2. InitialSlots \subseteq Slots /\ ep \in Slots
    BY SizeAssumption DEF InitialSlots, Slots, ep
  <2> QED BY <1>2, <2>1, <2>2 DEF Batch, GraphIInv
<1>5. PICK P \in [Batch -> SUBSET Slots] :
         /\ \A n \in Batch : \E E \in Expanded : P[n] \in PruneNeighbors(n, E \cup lists[n])
         /\ LET linked == Linked(P)
                needToSync == {x \in Slots : Overfull(linked[x])}
            IN \E Q \in [needToSync -> SUBSET Slots] :
                  /\ \A x \in needToSync : Q[x] \in PruneNeighbors(x, linked[x])
                  /\ lists' = [x \in Slots |-> IF x \in needToSync THEN Q[x] ELSE linked[x]]
  BY DEF LinkBatch
<1>6. \A n \in Batch : \A x \in P[n] : x \in Slots /\ x # n /\ point[x] # None
  <2> SUFFICES ASSUME NEW n \in Batch, NEW x \in P[n]
               PROVE  x \in Slots /\ x # n /\ point[x] # None
    OBVIOUS
  <2>1. PICK E \in Expanded : P[n] \in PruneNeighbors(n, E \cup lists[n])
    BY <1>5
  <2>2. x \in E \cup lists[n] /\ x # n /\ x \in Slots
    BY <2>1, PruneSubset
  <2>3. x \in E => point[x] # None
    BY <1>4, ExpandedPoints DEF GraphIInv
  <2> QED BY <1>4, <2>2, <2>3 DEF GraphIInv, EdgesKnown
<1> DEFINE linked == Linked(P)
<1>7. /\ linked \in [Slots -> SUBSET Slots]
      /\ \A i \in Slots : \A j \in linked[i] : j # i /\ point[i] # None /\ point[j] # None
  <2>1. linked \in [Slots -> SUBSET Slots]
    BY <1>4 DEF Linked, GraphIInv, GraphTypeOK
  <2>2. ASSUME NEW i \in Slots, NEW j \in linked[i]
        PROVE  j # i /\ point[i] # None /\ point[j] # None
    <3>1. j \in (IF i \in Batch THEN P[i] ELSE lists[i]) \/ (j \in Batch /\ i \in P[j])
      BY <2>2 DEF Linked
    <3>2. CASE j \in Batch /\ i \in P[j]
      BY <1>4, <1>6, <3>2
    <3>3. CASE i \in Batch /\ j \in P[i]
      BY <1>4, <1>6, <3>3
    <3>4. CASE i \notin Batch /\ j \in lists[i]
      BY <3>4 DEF GraphIInv, EdgesKnown
    <3> QED BY <3>1, <3>2, <3>3, <3>4
  <2> QED BY <2>1, <2>2
<1> HIDE DEF linked
<1>8. lists' \in [Slots -> SUBSET Slots] /\ \A i \in Slots : lists'[i] \subseteq linked[i]
  <2> DEFINE needToSync == {x \in Slots : Overfull(linked[x])}
  <2>1. PICK Q \in [needToSync -> SUBSET Slots] :
           /\ \A x \in needToSync : Q[x] \in PruneNeighbors(x, linked[x])
           /\ lists' = [x \in Slots |-> IF x \in needToSync THEN Q[x] ELSE linked[x]]
    BY <1>5 DEF linked
  <2> HIDE DEF needToSync
  <2>2. \A x \in needToSync : Q[x] \subseteq linked[x]
    BY <2>1, PruneSubset
  <2> QED BY <1>7, <2>1, <2>2
<1>9. EdgesKnown'
  BY <1>2, <1>3, <1>7, <1>8 DEF EdgesKnown
<1>10. GraphTypeOK'
  BY <1>1, <1>2, <1>3, <1>8 DEF GraphTypeOK, GraphIInv, Syncs
<1> QED BY <1>2, <1>9, <1>10

LEMMA FinishStep ==
    ASSUME GraphIInv, FinishBuild
    PROVE  GraphTypeOK' /\ EdgesKnown' /\ Built'
<1>1. Built' /\ sync' \in 0 .. Syncs + 1
  BY SyncFacts DEF FinishBuild, Built, Syncs
<1>2. point' = point /\ TypeOK'
  BY DEF FinishBuild, vars, maps, slots, orders, GraphIInv, GraphTypeOK, TypeOK
<1>3. lists' \in [Slots -> SUBSET Slots] /\ \A i \in Slots : lists'[i] \subseteq lists[i]
  <2> DEFINE long == {x \in Slots : Cardinality(lists[x]) > R}
  <2>1. PICK Q \in [long -> SUBSET Slots] :
           /\ \A x \in long : Q[x] \in PruneNeighbors(x, lists[x])
           /\ lists' = [x \in Slots |-> IF x \in long THEN Q[x] ELSE lists[x]]
    BY DEF FinishBuild
  <2> HIDE DEF long
  <2>2. \A x \in long : Q[x] \subseteq lists[x]
    BY <2>1, PruneSubset
  <2> QED BY <2>1, <2>2 DEF GraphIInv, GraphTypeOK
<1>4. /\ inGraph' \in [Slots -> [Slots -> Nat]]
      /\ \A i \in Slots : \A j \in lists'[i] : inGraph'[j][i] > 0
  <2>1. inGraph' = InGraphOf(lists')
    BY DEF FinishBuild
  <2> QED BY <1>3, <2>1, InGraphOfFacts
<1>5. EdgesKnown'
  BY <1>2, <1>3, <1>4 DEF EdgesKnown, GraphIInv
<1> QED BY <1>1, <1>2, <1>3, <1>4, <1>5 DEF GraphTypeOK, Syncs
-----------------------------------------------------------------------------
(***************************************************************************)
(* insert_point.                                                           *)
(***************************************************************************)
LEMMA InsertEdges ==
    ASSUME GraphIInv, NEW t \in Tags, GraphInsert(t)
    PROVE  GraphTypeOK' /\ EdgesKnown' /\ Built /\ Built'
<1> DEFINE n == nd
<1>1. Built /\ sync' = sync /\ Built'
  BY DEF GraphInsert, Built
<1>2. TypeOK'
  BY InsertStep DEF GraphInsert, GraphIInv, IInv
<1>3. n \in Slots /\ n # ep /\ point[ep] = Start
  BY SizeAssumption DEF GraphInsert, InsertPoint, Settled, GraphIInv, GraphTypeOK, TypeOK,
     Slots, ep
<1>4. /\ point' = [point EXCEPT ![n] = t]
      /\ \A x \in Slots : point[x] # None => point'[x] # None
      /\ point'[n] # None
  BY <1>3, NamesAssumption DEF GraphInsert, InsertPoint, GraphIInv, GraphTypeOK, TypeOK
<1>5. PICK E \in Expanded : \E P \in OccludeList(E \ {n}) :
         LET full == {des \in P : n \notin lists[des] /\ ~HasSlack(lists[des])}
         IN \E Q \in [full -> SUBSET Slots] :
               /\ \A des \in full : Q[des] \in OccludeList((lists[des] \cup {n}) \ {des})
               /\ lists' = [x \in Slots |->
                     CASE x = n -> P
                       [] x \in full \ {n} -> Q[x]
                       [] x \in P \ (full \cup {n}) -> lists[x] \cup {n}
                       [] OTHER -> lists[x]]
               /\ inGraph' = InterInserted(n, P, Q)
  BY DEF GraphInsert
<1>6. PICK P \in OccludeList(E \ {n}) :
         LET full == {des \in P : n \notin lists[des] /\ ~HasSlack(lists[des])}
         IN \E Q \in [full -> SUBSET Slots] :
               /\ \A des \in full : Q[des] \in OccludeList((lists[des] \cup {n}) \ {des})
               /\ lists' = [x \in Slots |->
                     CASE x = n -> P
                       [] x \in full \ {n} -> Q[x]
                       [] x \in P \ (full \cup {n}) -> lists[x] \cup {n}
                       [] OTHER -> lists[x]]
               /\ inGraph' = InterInserted(n, P, Q)
  BY <1>5
<1> DEFINE full == {des \in P : n \notin lists[des] /\ ~HasSlack(lists[des])}
<1>7. PICK Q \in [full -> SUBSET Slots] :
         /\ \A des \in full : Q[des] \in OccludeList((lists[des] \cup {n}) \ {des})
         /\ lists' = [x \in Slots |->
               CASE x = n -> P
                 [] x \in full \ {n} -> Q[x]
                 [] x \in P \ (full \cup {n}) -> lists[x] \cup {n}
                 [] OTHER -> lists[x]]
         /\ inGraph' = InterInserted(n, P, Q)
  BY <1>6
<1>8. P \subseteq Slots \ {n} /\ \A x \in P : point[x] # None
  <2>1. E \subseteq Slots /\ \A x \in E : point[x] # None
    BY <1>3, ExpandedPoints DEF GraphIInv, Start, None
  <2>2. P \subseteq E \ {n}
    BY DEF OccludeList
  <2> QED BY <2>1, <2>2
<1>9. full \subseteq P /\ \A x \in full : Q[x] \subseteq (lists[x] \cup {n}) \ {x}
  BY <1>7 DEF OccludeList
<1> HIDE DEF full, n
<1>10. lists \in [Slots -> SUBSET Slots] /\ inGraph \in [Slots -> [Slots -> Nat]] /\ EdgesKnown
  BY DEF GraphIInv, GraphTypeOK
<1>11. lists' \in [Slots -> SUBSET Slots]
  BY <1>3, <1>7, <1>8, <1>10
<1>12. InGraphOfPoint(n, P) \in [Slots -> Nat] /\ \A j \in P : InGraphOfPoint(n, P)[j] > 0
  BY <1>3, <1>8, <1>10 DEF InGraphOfPoint, AtLeastOne
<1>13. /\ inGraph' \in [Slots -> [Slots -> Nat]]
       /\ \A i \in Slots \ {n} : \A j \in Slots :
             /\ inGraph[j][i] > 0 => inGraph'[j][i] > 0
             /\ i \in full /\ j \in Q[i] => inGraph'[j][i] > 0
             /\ i \in P \ full /\ n \notin lists[i] => inGraph'[n][i] > 0
       /\ \A j \in P : inGraph'[j][n] > 0
  <2> DEFINE g(i, j) ==
        CASE i = n -> InGraphOfPoint(n, P)[j]
          [] i \in DOMAIN Q \ {n} -> inGraph[j][i] + (IF j \in Q[i] THEN 1 ELSE 0)
          [] i \in P \ (DOMAIN Q \cup {n}) /\ j = n /\ n \notin lists[i] ->
                AtLeastOne(inGraph[j][i])
          [] OTHER -> inGraph[j][i]
  <2>1. inGraph' = [j \in Slots |-> [i \in Slots |-> g(i, j)]] /\ DOMAIN Q = full
    BY <1>7 DEF InterInserted
  <2>2. \A i, j \in Slots : g(i, j) \in Nat
    BY <1>10, <1>12 DEF AtLeastOne
  <2>3. \A i \in Slots \ {n} : \A j \in Slots :
           /\ inGraph[j][i] > 0 => g(i, j) > 0
           /\ i \in full /\ j \in Q[i] => g(i, j) > 0
           /\ i \in P \ full /\ j = n /\ n \notin lists[i] => g(i, j) > 0
    BY <1>10, <2>1 DEF AtLeastOne
  <2>4. \A j \in P : g(n, j) > 0
    BY <1>12
  <2> HIDE DEF g
  <2>5. \A i, j \in Slots : inGraph'[j][i] = g(i, j)
    BY <2>1
  <2> QED BY <1>3, <1>8, <2>1, <2>2, <2>3, <2>4, <2>5
<1>14. ASSUME NEW i \in Slots, NEW j \in lists'[i]
       PROVE  j # i /\ point'[i] # None /\ point'[j] # None /\ inGraph'[j][i] > 0
  <2>1. j \in Slots
    BY <1>11
  <2>2. CASE i = n
    <3>1. j \in P
      BY <1>7, <2>2
    <3> QED BY <1>4, <1>8, <1>13, <2>1, <2>2, <3>1
  <2>3. CASE i \in full
    <3>1. j \in Q[i] /\ j \in (lists[i] \cup {n}) \ {i} /\ i # n /\ i \in P
      BY <1>7, <1>8, <1>9, <2>3
    <3>2. point'[j] # None
      BY <1>4, <1>10, <2>1, <3>1 DEF EdgesKnown
    <3> QED BY <1>4, <1>8, <1>13, <2>1, <2>3, <3>1, <3>2
  <2>4. CASE i \in P \ full
    <3>1. i # n /\ j \in lists[i] \cup {n}
      BY <1>7, <1>8, <2>4
    <3>2. point'[i] # None /\ point'[j] # None
      BY <1>4, <1>8, <1>10, <2>1, <2>4, <3>1 DEF EdgesKnown
    <3>3. CASE j \in lists[i]
      BY <1>1, <1>10, <1>13, <2>1, <3>1, <3>2, <3>3 DEF EdgesKnown
    <3>4. CASE j = n /\ n \notin lists[i]
      BY <1>13, <2>4, <3>1, <3>2, <3>4
    <3> QED BY <3>1, <3>3, <3>4
  <2>5. CASE i # n /\ i \notin P
    <3>1. j \in lists[i]
      BY <1>7, <1>9, <2>5
    <3> QED BY <1>1, <1>4, <1>10, <1>13, <2>1, <2>5, <3>1 DEF EdgesKnown
  <2> QED BY <1>9, <2>2, <2>3, <2>4, <2>5
<1>15. EdgesKnown'
  BY <1>14 DEF EdgesKnown
<1>16. GraphTypeOK'
  BY <1>1, <1>2, <1>11, <1>13 DEF GraphTypeOK, GraphIInv, Syncs
<1> QED BY <1>1, <1>15, <1>16
-----------------------------------------------------------------------------
(***************************************************************************)
(* Deletions.                                                              *)
(***************************************************************************)
\* eager_delete finds every list that holds the point by _in_graph.
LEMMA EagerEdges ==
    ASSUME Protocol, GraphIInv, NEW t \in Tags, GraphEagerDelete(t)
    PROVE  GraphTypeOK' /\ EdgesKnown' /\ Built /\ Built'
<1> DEFINE id == tagToLocation[t]
           without == [j \in Slots |-> [i \in Slots |->
                         IF i = id /\ j \in lists[id] /\ inGraph[j][i] > 0
                         THEN inGraph[j][i] - 1 ELSE inGraph[j][i]]]
           inNbr == {i \in Slots : without[id][i] > 0}
           forgotten == [x \in Slots |-> IF x \in inNbr THEN lists[x] \ {id} ELSE lists[x]]
           candidates(ngh) ==
               ((forgotten[id] \cup forgotten[ngh]) \ {id, ngh}) \ (deleteSet \cup {id})
<1>1. Built /\ sync' = sync /\ Built'
  BY DEF GraphEagerDelete, Built
<1>2. TypeOK'
  BY EagerStep DEF GraphEagerDelete, GraphIInv, IInv
<1>3. id \in Slots /\ point' = [point EXCEPT ![id] = None]
  BY SlotFacts DEF GraphEagerDelete, EagerDelete, GraphIInv, GraphTypeOK, TypeOK, Mapped
<1>4. PICK E \in Expanded :
         LET anew == E \cap inNbr
             erased == {jn \in Slots \X anew : jn[1] \in forgotten[jn[2]]}
             more == {jn \in erased : without[jn[1]][jn[2]] > 1}
         IN \E Q \in [anew -> SUBSET Slots], rest \in [more -> 0 .. MaxPoints] :
               /\ \A ngh \in anew : Q[ngh] \in OccludeList(candidates(ngh))
               /\ \A jn \in more : rest[jn] <= without[jn[1]][jn[2]] \div 2
               /\ lists' = [x \in Slots |->
                     IF x = id THEN {} ELSE IF x \in anew THEN Q[x] ELSE forgotten[x]]
               /\ inGraph' = [j \in Slots |-> [i \in Slots |->
                     LET c == IF <<j, i>> \in more THEN rest[<<j, i>>]
                              ELSE IF <<j, i>> \in erased THEN 0 ELSE without[j][i]
                     IN IF i \in anew /\ j \in Q[i] THEN AtLeastOne(c) ELSE c]]
  BY DEF GraphEagerDelete
<1> DEFINE anew == E \cap inNbr
           erased == {jn \in Slots \X anew : jn[1] \in forgotten[jn[2]]}
           more == {jn \in erased : without[jn[1]][jn[2]] > 1}
<1>5. PICK Q \in [anew -> SUBSET Slots], rest \in [more -> 0 .. MaxPoints] :
         /\ \A ngh \in anew : Q[ngh] \in OccludeList(candidates(ngh))
         /\ \A jn \in more : rest[jn] <= without[jn[1]][jn[2]] \div 2
         /\ lists' = [x \in Slots |->
               IF x = id THEN {} ELSE IF x \in anew THEN Q[x] ELSE forgotten[x]]
         /\ inGraph' = [j \in Slots |-> [i \in Slots |->
               LET c == IF <<j, i>> \in more THEN rest[<<j, i>>]
                        ELSE IF <<j, i>> \in erased THEN 0 ELSE without[j][i]
               IN IF i \in anew /\ j \in Q[i] THEN AtLeastOne(c) ELSE c]]
  BY <1>4
<1>6. lists \in [Slots -> SUBSET Slots] /\ inGraph \in [Slots -> [Slots -> Nat]] /\ EdgesKnown
  BY DEF GraphIInv, GraphTypeOK
<1> HIDE DEF id, anew, erased, more
<1>7. /\ without \in [Slots -> [Slots -> Nat]]
      /\ \A i \in Slots \ {id} : \A j \in Slots : without[j][i] = inGraph[j][i]
  BY <1>3, <1>6
<1>8. inNbr \subseteq Slots /\ \A i \in Slots \ inNbr : i # id => id \notin lists[i]
  BY <1>1, <1>3, <1>6, <1>7 DEF EdgesKnown
<1>9. /\ forgotten \in [Slots -> SUBSET Slots]
      /\ \A i \in Slots : /\ forgotten[i] \subseteq lists[i]
                           /\ i # id => id \notin forgotten[i]
  BY <1>6, <1>8
<1>10. \A ngh \in anew : Q[ngh] \subseteq candidates(ngh)
  BY <1>5 DEF OccludeList
<1> HIDE DEF without, inNbr
<1>11. anew \subseteq Slots /\ erased \subseteq Slots \X anew /\ more \subseteq erased
  BY <1>8 DEF anew, erased, more
<1>12. lists' \in [Slots -> SUBSET Slots]
  BY <1>5, <1>9
<1>13. /\ inGraph' \in [Slots -> [Slots -> Nat]]
       /\ \A i \in anew : \A j \in Slots : j \in Q[i] => inGraph'[j][i] > 0
       /\ \A i \in Slots \ anew : \A j \in Slots : inGraph'[j][i] = without[j][i]
  <2> DEFINE c(i, j) == IF <<j, i>> \in more THEN rest[<<j, i>>]
                        ELSE IF <<j, i>> \in erased THEN 0 ELSE without[j][i]
             g(i, j) == IF i \in anew /\ j \in Q[i] THEN AtLeastOne(c(i, j)) ELSE c(i, j)
  <2>1. inGraph' = [j \in Slots |-> [i \in Slots |-> g(i, j)]]
    BY <1>5
  <2>2. \A i, j \in Slots : c(i, j) \in Nat
    <3>1. \A m \in more : rest[m] \in Nat
      BY <1>5, SizeAssumption
    <3> QED BY <1>7, <3>1
  <2>3. \A i \in Slots \ anew : \A j \in Slots : c(i, j) = without[j][i]
    <3>1. \A i \in Slots \ anew : \A j \in Slots : <<j, i>> \notin erased /\ <<j, i>> \notin more
      BY <1>11
    <3> QED BY <3>1
  <2> HIDE DEF c
  <2>4. \A i, j \in Slots : g(i, j) \in Nat
    BY <2>2 DEF AtLeastOne
  <2>5. \A i \in anew : \A j \in Slots : j \in Q[i] => g(i, j) > 0
    BY <1>11, <2>2 DEF AtLeastOne
  <2>6. \A i \in Slots \ anew : \A j \in Slots : g(i, j) = without[j][i]
    BY <2>3
  <2> HIDE DEF g
  <2>7. \A i, j \in Slots : inGraph'[j][i] = g(i, j)
    BY <2>1
  <2> QED BY <1>11, <2>1, <2>4, <2>5, <2>6, <2>7
<1>14. ASSUME NEW i \in Slots, NEW j \in lists'[i]
       PROVE  j # i /\ point'[i] # None /\ point'[j] # None /\ inGraph'[j][i] > 0
  <2>1. j \in Slots /\ i # id
    BY <1>5, <1>12
  <2>2. \A x \in Slots : x # id => point'[x] = point[x]
    BY <1>3 DEF GraphIInv, GraphTypeOK, TypeOK
  <2>3. CASE i \in anew
    <3>1. j \in Q[i] /\ j # id /\ j # i /\ j \in lists[id] \cup lists[i]
      BY <1>3, <1>5, <1>9, <1>10, <2>1, <2>3
    <3>2. point[j] # None
      BY <1>3, <1>6, <3>1 DEF EdgesKnown
    <3>3. point[i] # None
      <4>1. point[ep] # None
        BY DEF GraphEagerDelete, EagerDelete, GraphIInv, IInv, InRound, RoundInv, Start, None
      <4>2. i \in E
        BY <2>3 DEF anew
      <4> QED BY <1>6, <4>1, <4>2, ExpandedPoints
    <3> QED BY <1>13, <2>1, <2>2, <2>3, <3>1, <3>2, <3>3
  <2>4. CASE i \notin anew
    <3>1. j \in lists[i] /\ j # id
      BY <1>5, <1>9, <2>1, <2>4
    <3>2. inGraph'[j][i] = inGraph[j][i]
      BY <1>7, <1>13, <2>1, <2>4
    <3> QED BY <1>1, <1>6, <2>1, <2>2, <3>1, <3>2 DEF EdgesKnown
  <2> QED BY <2>3, <2>4
<1>15. EdgesKnown'
  BY <1>14 DEF EdgesKnown
<1>16. GraphTypeOK'
  BY <1>1, <1>2, <1>12, <1>13 DEF GraphTypeOK, GraphIInv, Syncs
<1> QED BY <1>1, <1>15, <1>16
-----------------------------------------------------------------------------
(***************************************************************************)
(* Compaction.                                                             *)
(***************************************************************************)
\* Edges between kept points stay edges between the same points.
LEMMA RenumberedEdges ==
    ASSUME NEW l \in [Slots -> SUBSET Slots], CompactData,
           \A k \in Kept : point[k] # None,
           \A i \in Kept : \A j \in l[i] : j \in Kept /\ j # i
    PROVE  /\ Renumbered(l) \in [Slots -> SUBSET Slots]
           /\ \A s \in Slots : \A y \in Renumbered(l)[s] :
                 y # s /\ point'[s] # None /\ point'[y] # None
<1>1. /\ Kept \in SUBSET Slots
      /\ \A x \in Kept : NewLocation[x] = Rank(Kept, x)
  BY DEF Kept, NewLocation, Rank
<1>2. /\ \A x \in Kept : NewLocation[x] \in 0 .. Cardinality(Kept) - 1
      /\ \A x, y \in Kept : NewLocation[x] = NewLocation[y] => x = y
  BY <1>1, Ranks
<1>3. \A x \in Kept : NewLocation[x] \in Slots
  <2>1. IsFiniteSet(Slots) /\ Cardinality(Slots) = MaxPoints + 1
    BY SizeAssumption, FS_Interval DEF Slots
  <2>2. Cardinality(Kept) \in Nat /\ Cardinality(Kept) <= MaxPoints + 1
    BY <1>1, <2>1, FS_Subset, FS_CardinalityType
  <2> QED BY <1>2, <2>2, SizeAssumption DEF Slots
<1>4. \A x \in Kept : point'[NewLocation[x]] = point[x]
  <2> SUFFICES ASSUME NEW x \in Kept PROVE point'[NewLocation[x]] = point[x]
    OBVIOUS
  <2>1. point' = [s \in Slots |->
          IF \E old \in Kept : NewLocation[old] = s
          THEN point[CHOOSE old \in Kept : NewLocation[old] = s]
          ELSE None]
    BY DEF CompactData
  <2>2. (CHOOSE old \in Kept : NewLocation[old] = NewLocation[x]) = x
    BY <1>2
  <2> QED BY <1>3, <2>1, <2>2
<1>5. ASSUME NEW s \in Slots, NEW y \in Renumbered(l)[s]
      PROVE  \E old, x \in Kept : x # old /\ s = NewLocation[old] /\ y = NewLocation[x]
  <2>1. PICK old \in Kept : NewLocation[old] = s /\ \E x \in l[old] : y = NewLocation[x]
    BY <1>5 DEF Renumbered
  <2> QED BY <2>1
<1>6. Renumbered(l) \in [Slots -> SUBSET Slots]
  <2> SUFFICES ASSUME NEW s \in Slots, NEW y \in Renumbered(l)[s] PROVE y \in Slots
    BY DEF Renumbered
  <2> QED BY <1>3, <1>5
<1>7. ASSUME NEW s \in Slots, NEW y \in Renumbered(l)[s]
      PROVE  y # s /\ point'[s] # None /\ point'[y] # None
  BY <1>2, <1>4, <1>5
<1> QED BY <1>6, <1>7

\* In a round of deletes the kept slots hold points, and other slots that hold
\* one are those of points deleted lazily.
LEMMA RoundPoints ==
    ASSUME GraphIInv, InRound
    PROVE  /\ \A k \in Kept : point[k] # None
           /\ \A s \in Slots \ Kept : point[s] # None => s \in deleteSet /\ ~eagerDone
<1>1. IInv /\ RoundInv /\ TagsLead /\ MapsOK /\ \A s \in emptySlots : point[s] = None
  BY TypeParts DEF GraphIInv, IInv
<1>2. ASSUME NEW k \in Kept
      PROVE  point[k] # None
  <2>1. CASE k = ep
    BY <1>1, <2>1 DEF RoundInv, Start, None
  <2>2. CASE k # ep
    <3>1. k \in Tagged
      BY <1>1, <2>2, SlotFacts DEF Kept, RoundInv
    <3>2. locationToTag[k] \in Mapped /\ tagToLocation[locationToTag[k]] = k
      BY <1>1, <3>1, MapFacts
    <3>3. point[k] = locationToTag[k] /\ locationToTag[k] \in Tags
      BY <1>1, <3>2 DEF TagsLead, Mapped
    <3> QED BY <3>3, NamesAssumption
  <2> QED BY <2>1, <2>2
<1>3. ASSUME NEW s \in Slots \ Kept, point[s] # None
      PROVE  s \in deleteSet /\ ~eagerDone
  BY <1>1, <1>3 DEF Kept, RoundInv
<1> QED BY <1>2, <1>3

LEMMA DisableEdges ==
    ASSUME GraphIInv, GraphDisableDelete
    PROVE  GraphTypeOK' /\ EdgesKnown' /\ Built /\ Built'
<1>1. Built /\ sync' = sync /\ Built' /\ canDelete
  BY DEF GraphDisableDelete, DisableDelete, Built
<1>2. TypeOK'
  BY DisableStep DEF GraphDisableDelete, GraphIInv, IInv
<1>3. lists \in [Slots -> SUBSET Slots] /\ inGraph \in [Slots -> [Slots -> Nat]] /\ EdgesKnown
  BY DEF GraphIInv, GraphTypeOK
<1>4. CASE eagerDone
  <2>1. lists' = lists /\ inGraph' = inGraph /\ point' = point
    BY <1>4 DEF GraphDisableDelete, DisableDelete, graph, maps
  <2> QED BY <1>1, <1>2, <1>3, <2>1 DEF GraphTypeOK, EdgesKnown, GraphIInv, Syncs
<1>5. CASE ~eagerDone
  <2> DEFINE losing == {i \in Kept : ~(lists[i] \subseteq Kept)}
  <2>1. PICK Q \in [losing -> SUBSET Slots] :
           /\ \A i \in losing : Q[i] \in PruneNeighbors(i, Candidates(i))
           /\ lists' = Renumbered([i \in Slots |-> IF i \in losing THEN Q[i] ELSE lists[i]])
           /\ inGraph' = InGraphOf(lists')
    BY <1>5 DEF GraphDisableDelete
  <2>2. /\ \A k \in Kept : point[k] # None
        /\ \A s \in Slots \ Kept : point[s] # None => s \in deleteSet
    BY <1>1, RoundPoints DEF InRound
  <2>3. CompactData
    BY <1>5 DEF GraphDisableDelete, DisableDelete
  <2>4. \A i \in Slots : Candidates(i) \subseteq Kept
    <3> SUFFICES ASSUME NEW i \in Slots, NEW x \in Candidates(i) PROVE x \in Kept
      OBVIOUS
    <3>1. x \in Kept \/ \E g \in Slots : x \in lists[g] \ deleteSet
      BY <1>3 DEF Candidates
    <3> QED BY <1>3, <2>2, <3>1 DEF EdgesKnown
  <2> DEFINE l == [i \in Slots |-> IF i \in losing THEN Q[i] ELSE lists[i]]
  <2>5. l \in [Slots -> SUBSET Slots]
    BY <1>3, <2>1
  <2>6. \A i \in Kept : \A j \in l[i] : j \in Kept /\ j # i
    <3> SUFFICES ASSUME NEW i \in Kept, NEW j \in l[i] PROVE j \in Kept /\ j # i
      OBVIOUS
    <3>1. i \in Slots
      BY DEF Kept
    <3>2. CASE i \in losing
      BY <2>1, <2>4, <3>1, <3>2, PruneSubset
    <3>3. CASE i \notin losing
      BY <1>3, <3>1, <3>3 DEF EdgesKnown
    <3> QED BY <3>2, <3>3
  <2> HIDE DEF losing
  <2>7. lists' = Renumbered(l)
    BY <2>1
  <2> HIDE DEF l
  <2>8. /\ lists' \in [Slots -> SUBSET Slots]
        /\ \A s \in Slots : \A y \in lists'[s] :
              y # s /\ point'[s] # None /\ point'[y] # None
    BY <2>2, <2>3, <2>5, <2>6, <2>7, RenumberedEdges
  <2>9. /\ inGraph' \in [Slots -> [Slots -> Nat]]
        /\ \A i \in Slots : \A j \in lists'[i] : inGraph'[j][i] > 0
    BY <2>1, <2>8, InGraphOfFacts
  <2> QED BY <1>1, <1>2, <2>8, <2>9 DEF GraphTypeOK, EdgesKnown, GraphIInv, Syncs
<1> QED BY <1>1, <1>4, <1>5

LEMMA SaveEdges ==
    ASSUME GraphIInv, GraphSave
    PROVE  GraphTypeOK' /\ EdgesKnown' /\ Built /\ Built'
<1>1. Built /\ sync' = sync /\ Built'
  BY DEF GraphSave, Built
<1>2. TypeOK'
  BY SaveStep DEF GraphSave, GraphIInv, IInv
<1>3. lists \in [Slots -> SUBSET Slots] /\ inGraph \in [Slots -> [Slots -> Nat]] /\ EdgesKnown
  BY DEF GraphIInv, GraphTypeOK
<1>4. CASE ~(SaveDue /\ nd < MaxPoints)
  <2>1. lists' = lists /\ inGraph' = inGraph /\ point' = point
    BY <1>4 DEF GraphSave, Save, graph, maps
  <2> QED BY <1>1, <1>2, <1>3, <2>1 DEF GraphTypeOK, EdgesKnown, GraphIInv, Syncs
<1>5. CASE SaveDue /\ nd < MaxPoints
  <2>1. CompactData /\ lists' = Renumbered(lists) /\ inGraph' = InGraphOf(lists')
    BY <1>5 DEF GraphSave, Save
  <2>2. /\ \A k \in Kept : point[k] # None
        /\ \A s \in Slots \ Kept : point[s] = None
    BY <1>5, RoundPoints DEF InRound, SaveDue
  <2>3. \A i \in Kept : \A j \in lists[i] : j \in Kept /\ j # i
    <3>1. Kept \subseteq Slots
      BY DEF Kept
    <3> QED BY <1>3, <2>2, <3>1 DEF EdgesKnown
  <2>4. /\ lists' \in [Slots -> SUBSET Slots]
        /\ \A s \in Slots : \A y \in lists'[s] :
              y # s /\ point'[s] # None /\ point'[y] # None
    BY <1>3, <2>1, <2>2, <2>3, RenumberedEdges
  <2>5. /\ inGraph' \in [Slots -> [Slots -> Nat]]
        /\ \A i \in Slots : \A j \in lists'[i] : inGraph'[j][i] > 0
    BY <2>1, <2>4, InGraphOfFacts
  <2> QED BY <1>1, <1>2, <2>4, <2>5 DEF GraphTypeOK, EdgesKnown, GraphIInv, Syncs
<1> QED BY <1>1, <1>4, <1>5

\* readjust_data takes the links to the frozen point along.
LEMMA ReadjustEdges ==
    ASSUME GraphIInv, GraphReadjustData
    PROVE  GraphTypeOK' /\ EdgesKnown' /\ Built /\ Built'
<1>1. Built /\ sync' = sync /\ Built'
  BY DEF GraphReadjustData, Built
<1>2. TypeOK' /\ TypeOK
  BY ReadjustStep DEF GraphReadjustData, GraphIInv, IInv
<1>3. lists \in [Slots -> SUBSET Slots] /\ EdgesKnown
  BY DEF GraphIInv, GraphTypeOK
<1>4. OrderInv /\ point[ep] = None
  BY DEF GraphReadjustData, ReadjustData, GraphIInv, IInv, InRound
<1>5. /\ nd \in Locations /\ nd \in Slots /\ ep \in Slots /\ nd # ep
      /\ point[nd] # None
      /\ \A s \in Slots : point[s] # None => s \in Nat /\ s <= nd
      /\ nd \in Nat /\ ep = MaxPoints /\ ~(ep < nd) /\ ~(nd < nd)
  <2>1. nd \in 0 .. MaxPoints /\ nd # MaxPoints /\ {point[ep], point[nd]} = {Start, None}
    BY <1>2, <1>4 DEF OrderInv, TypeOK, Start, None
  <2>2. point[nd] # None
    BY <1>4, <2>1 DEF Start, None
  <2>3. ASSUME NEW s \in Slots, point[s] # None
        PROVE  s \in Nat /\ s <= nd
    <3>1. s \in 0 .. MaxPoints - 1
      BY <1>4, <2>3, SizeAssumption DEF Slots, ep
    <3>2. s \notin nd + 1 .. MaxPoints - 1
      BY <1>4, <2>3 DEF OrderInv
    <3> QED BY <2>1, <3>1, <3>2, SizeAssumption
  <2> QED BY <2>1, <2>2, <2>3, SizeAssumption DEF Slots, Locations, ep
<1>6. point' = [point EXCEPT ![ep] = point[nd], ![nd] = None]
  BY DEF GraphReadjustData, ReadjustData
<1>7. /\ point'[ep] # None
      /\ \A s \in Slots : s # nd /\ point[s] # None => point'[s] # None
  BY <1>2, <1>5, <1>6 DEF TypeOK
<1> DEFINE moved(s) == {IF x >= nd THEN MaxPoints + (x - nd) ELSE x : x \in lists[s]}
<1>8. lists' = [s \in Slots |->
         CASE s = ep -> lists[nd]
           [] s = nd /\ s # ep -> {}
           [] s < nd -> moved(s)
           [] OTHER -> lists[s]]
  BY DEF GraphReadjustData
<1> HIDE DEF moved
<1>9. ASSUME NEW i \in Slots, NEW j \in lists'[i]
      PROVE  j \in Slots /\ j # i /\ point'[i] # None /\ point'[j] # None
  <2>1. CASE i = ep
    <3>1. j \in lists[nd]
      BY <1>5, <1>8, <2>1
    <3>2. j \in Slots /\ j # nd /\ point[j] # None
      BY <1>3, <1>5, <3>1 DEF EdgesKnown
    <3>3. j # ep
      BY <1>4, <3>2
    <3> QED BY <1>7, <2>1, <3>2, <3>3
  <2>2. CASE i # ep
    <3>1. i # nd
      BY <1>5, <1>8, <2>2
    <3>2. CASE ~(i < nd)
      <4>1. j \in lists[i]
        BY <1>8, <2>2, <3>1, <3>2
      <4>2. i \in Nat /\ i <= nd
        BY <1>3, <1>5, <4>1 DEF EdgesKnown
      <4> QED BY <1>5, <3>1, <3>2, <4>2
    <3>3. CASE i < nd
      <4>1. j \in moved(i)
        BY <1>8, <2>2, <3>1, <3>3
      <4>2. PICK y \in lists[i] : j = IF y >= nd THEN MaxPoints + (y - nd) ELSE y
        BY <4>1 DEF moved
      <4>3. y \in Slots /\ y # i /\ point[i] # None /\ point[y] # None /\ y \in Nat /\ y <= nd
        BY <1>3, <1>5, <4>2 DEF EdgesKnown
      <4>4. CASE y = nd
        <5>1. j = ep
          BY <1>5, <4>2, <4>4, SizeAssumption DEF ep
        <5> QED BY <1>5, <1>7, <2>2, <3>1, <4>3, <5>1
      <4>5. CASE y # nd
        <5>1. j = y
          BY <1>5, <4>2, <4>3, <4>5
        <5> QED BY <1>7, <3>1, <4>3, <4>5, <5>1
      <4> QED BY <4>4, <4>5
    <3> QED BY <3>2, <3>3
  <2> QED BY <2>1, <2>2
<1>10. lists' \in [Slots -> SUBSET Slots]
  <2>1. \A i \in Slots : lists'[i] \subseteq Slots
    BY <1>9
  <2> QED BY <1>8, <2>1
<1>11. /\ inGraph' \in [Slots -> [Slots -> Nat]]
       /\ \A i \in Slots : \A j \in lists'[i] : inGraph'[j][i] > 0
  <2>1. inGraph' = InGraphOf(lists')
    BY DEF GraphReadjustData
  <2> QED BY <1>10, <2>1, InGraphOfFacts
<1> QED BY <1>1, <1>2, <1>9, <1>10, <1>11 DEF GraphTypeOK, EdgesKnown, GraphIInv, Syncs

\* delete_point and enable_delete leave the graph as it is.
LEMMA MarkEdges ==
    ASSUME Protocol, GraphIInv,
           GraphEnableDelete \/ \E t \in Tags : GraphDeletePoint(t)
    PROVE  GraphTypeOK' /\ EdgesKnown' /\ Built /\ Built'
<1>1. Built /\ lists' = lists /\ inGraph' = inGraph /\ sync' = sync /\ Built'
  BY DEF GraphEnableDelete, GraphDeletePoint, graph, Built
<1>2. point' = point
  BY DEF GraphEnableDelete, GraphDeletePoint, EnableDelete, DeletePoint, maps
<1>3. TypeOK'
  BY EnableStep, DeleteStep DEF GraphEnableDelete, GraphDeletePoint, GraphIInv, IInv
<1> QED BY <1>1, <1>2, <1>3 DEF GraphTypeOK, EdgesKnown, GraphIInv, Syncs
-----------------------------------------------------------------------------
(***************************************************************************)
(* The theorems.                                                           *)
(***************************************************************************)
LEMMA GraphStep == [GraphNext]_graphVars => [Next]_vars
  BY DEF GraphNext, LinkBatch, FinishBuild, GraphInsert, GraphEagerDelete, GraphDeletePoint,
         GraphEnableDelete, GraphDisableDelete, GraphSave, GraphReadjustData, Next, graphVars

\* The slots of the index with its graph behave as VamanaDynamic says: what is
\* proved of them there holds here.
THEOREM GraphRefinement == GraphSpec => Spec
<1>1. GraphInit => Init
  BY DEF GraphInit
<1> QED BY <1>1, GraphStep, PTL DEF GraphSpec, Spec

\* Only enable_delete and eager_delete make slots empty, and these hold nothing.
LEMMA EmptyStep ==
    ASSUME Protocol, GraphIInv, GraphNext
    PROVE  \A s \in emptySlots' : point'[s] = None
<1>1. IInv /\ IInv' /\ TypeOK /\ \A s \in emptySlots : point[s] = None
  BY GraphStep, NextIInv DEF GraphIInv, IInv
<1>2. ASSUME NEW t \in Tags, InsertPoint(t)
      PROVE  emptySlots' = {}
  BY <1>1, <1>2 DEF InsertPoint, Settled, IInv, InRound, OrderInv
<1>3. ASSUME NEW t \in Tags, EagerDelete(t)
      PROVE  \A s \in emptySlots' : point'[s] = None
  BY <1>1, <1>3, SlotFacts DEF EagerDelete, TypeOK, Mapped
<1>4. CASE EnableDelete
  <2>1. OrderInv /\ point[ep] = Start /\ point' = point
    BY <1>1, <1>4 DEF EnableDelete, Settled, IInv, InRound, maps
  <2>2. \A s \in nd .. MaxPoints - 1 : point[s] = None
    <3> SUFFICES ASSUME NEW s \in nd .. MaxPoints - 1 PROVE point[s] = None
      OBVIOUS
    <3>1. nd \in 0 .. MaxPoints /\ nd # MaxPoints
      BY <1>1, SizeAssumption DEF TypeOK
    <3>2. CASE s = nd
      BY <2>1, <3>1, <3>2 DEF OrderInv, Start, None
    <3>3. CASE s # nd
      <4>1. s \in nd + 1 .. MaxPoints - 1
        BY <3>1, <3>3, SizeAssumption
      <4> QED BY <2>1, <4>1 DEF OrderInv
    <3> QED BY <3>2, <3>3
  <2>3. emptySlots' \subseteq emptySlots \cup (nd .. MaxPoints - 1)
    BY <1>4 DEF EnableDelete
  <2> QED BY <1>1, <2>1, <2>2, <2>3
<1>5. ASSUME CompactData
      PROVE  emptySlots' = {}
  BY <1>5 DEF CompactData
<1>6. CASE DisableDelete
  BY <1>1, <1>5, <1>6 DEF DisableDelete, maps, slots
<1>7. CASE Save
  BY <1>1, <1>5, <1>7 DEF Save, maps
<1>8. CASE ReadjustData
  BY <1>1, <1>8 DEF ReadjustData, IInv, InRound, OrderInv, slots
<1>9. ASSUME NEW t \in Tags, DeletePoint(t)
      PROVE  emptySlots' = emptySlots /\ point' = point
  BY <1>9 DEF DeletePoint
<1>10. CASE UNCHANGED vars
  BY <1>1, <1>10 DEF vars, maps, slots
<1>11. [Next]_vars
  BY GraphStep
<1> QED BY <1>1, <1>2, <1>3, <1>4, <1>6, <1>7, <1>8, <1>9, <1>10, <1>11 DEF Next

LEMMA GraphNextIInv == Protocol /\ GraphIInv /\ [GraphNext]_graphVars => GraphIInv'
<1> SUFFICES ASSUME Protocol, GraphIInv, [GraphNext]_graphVars PROVE GraphIInv'
  OBVIOUS
<1>1. IInv'
  BY GraphStep, NextIInv DEF GraphIInv
<1>2. CASE GraphNext
  <2>1. GraphTypeOK' /\ EdgesKnown' /\ (Built' \/ (LinkBatch /\ ~Built))
    <3>1. CASE LinkBatch
      BY <3>1, LinkStep
    <3>2. CASE FinishBuild
      BY <3>2, FinishStep
    <3>3. ASSUME NEW t \in Tags, GraphInsert(t)
          PROVE  GraphTypeOK' /\ EdgesKnown' /\ Built'
      BY <3>3, InsertEdges
    <3>4. ASSUME NEW t \in Tags, GraphEagerDelete(t)
          PROVE  GraphTypeOK' /\ EdgesKnown' /\ Built'
      BY <3>4, EagerEdges
    <3>5. CASE GraphEnableDelete \/ \E t \in Tags : GraphDeletePoint(t)
      BY <3>5, MarkEdges
    <3>6. CASE GraphDisableDelete
      BY <3>6, DisableEdges
    <3>7. CASE GraphSave
      BY <3>7, SaveEdges
    <3>8. CASE GraphReadjustData
      BY <3>8, ReadjustEdges
    <3> QED BY <1>2, <3>1, <3>2, <3>3, <3>4, <3>5, <3>6, <3>7, <3>8 DEF GraphNext
  <2>2. LinkBatch => point' = point
    BY DEF LinkBatch, vars, maps
  <2>3. \A s \in emptySlots' : point'[s] = None
    BY <1>2, EmptyStep
  <2>4. ~Built' => \A p \in InitialSlots \cup {ep} : point'[p] # None
    BY <2>1, <2>2 DEF GraphIInv
  <2> QED BY <1>1, <2>1, <2>3, <2>4 DEF GraphIInv, InitialSlots, ep
<1>3. CASE UNCHANGED graphVars
  <2>1. UNCHANGED <<tagToLocation, locationToTag, point, deleteSet, emptySlots, nd, canDelete,
                    eagerDone, lazyDone, compactedOrder, consolidatedOrder, changeLock,
                    lists, inGraph, sync>>
    BY <1>3 DEF graphVars, vars, maps, slots, orders, graph
  <2> QED BY <1>1, <2>1 DEF GraphIInv, GraphTypeOK, TypeOK, EdgesKnown, Built, Syncs,
                            InitialSlots, ep
<1> QED BY <1>2, <1>3 DEF GraphNext

\* Whatever the searches and the pruning choose: edges between points only, all
\* known to _in_graph once the index is built, and empty slots without a point.
THEOREM GraphInductive == Protocol => (GraphSpec => []GraphIInv)
<1> SUFFICES ASSUME Protocol PROVE GraphSpec => []GraphIInv
  OBVIOUS
<1>1. GraphIInv /\ [GraphNext]_graphVars => GraphIInv'
  BY GraphNextIInv
<1> QED BY GraphInitHolds, <1>1, PTL DEF GraphSpec

\* The lists and _in_graph only hold slots, in particular after renumbering.
THEOREM GraphTypesHold == Protocol => (GraphSpec => []GraphTypeOK)
<1> SUFFICES ASSUME Protocol PROVE GraphSpec => []GraphTypeOK
  OBVIOUS
<1>1. GraphSpec => []GraphIInv
  BY GraphInductive
<1>2. GraphIInv => GraphTypeOK
  BY DEF GraphIInv
<1> QED BY <1>1, <1>2, PTL

\* No edge leads to an empty slot or from one, and eager_delete finds every list
\* a point has to be taken out of.
THEOREM EdgesKnownHolds == Protocol => (GraphSpec => []EdgesKnown)
<1> SUFFICES ASSUME Protocol PROVE GraphSpec => []EdgesKnown
  OBVIOUS
<1>1. GraphSpec => []GraphIInv
  BY GraphInductive
<1>2. GraphIInv => EdgesKnown
  BY DEF GraphIInv
<1> QED BY <1>1, <1>2, PTL
=============================================================================
