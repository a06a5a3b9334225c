-------------------------- MODULE HNSWInsertProofs --------------------------
(***************************************************************************)
(* Every reachable state of HNSWInsert satisfies IInv, for every number of *)
(* elements, threads, levels and update locks and every M; what the        *)
(* construction promises follows from it.                                  *)
(***************************************************************************)
EXTENDS HNSWInsertProps, FiniteSetTheorems, WellFoundedInduction, TLAPS

-----------------------------------------------------------------------------
(* Constants, and the operators that stand for distance comparisons. *)

LEMMA ConstantFacts ==
    /\ 0 \in Ids /\ Ids \subseteq Nat
    /\ MaxLevel \in Nat /\ Levels \subseteq -1 .. Top /\ Levels \subseteq Nat
    /\ -1 \in -1 .. Top /\ Top \in Int /\ None = -1
BY HNSWAssumption DEF Ids, Levels, Top, None

LEMMA HeuristicSubset ==
    ASSUME NEW C, NEW m, NEW S \in Heuristic(C, m)
    PROVE  S \subseteq C
BY DEF Heuristic

LEMMA HeuristicKeeps ==
    ASSUME NEW C, C # {}, NEW m, NEW S \in Heuristic(C, m)
    PROVE  S # {}
BY DEF Heuristic

LEMMA NearestSubset ==
    ASSUME NEW C, NEW m, NEW S \in Nearest(C, m)
    PROVE  S \subseteq C
BY DEF Nearest

-----------------------------------------------------------------------------
(* Types. *)

LEMMA TypeInit == Init => TypeOK
BY HNSWAssumption DEF Init, TypeOK, Ids, Levels, None, Top

\* Where a call that uses a list is, and at which level.
LEMMA PlaceFacts ==
    ASSUME TypeOK, ControlInv, SearchInv, NEW i \in Ids
    PROVE  /\ pc[i] \in AtListLock => node[i] \in Ids
           /\ pc[i] \in AtListLock \cup {"select"} => level[i] \in Levels
           /\ pc[i] \in AtListLock => linkList[node[i]][level[i]] \subseteq Ids
<1>1. pc[i] \in AtListLock => node[i] \in Ids
  BY ConstantFacts DEF TypeOK, SearchInv, DescendOf, SearchOf, ConnectOf, AtListLock
<1>2. ASSUME pc[i] = "descend" PROVE level[i] \in Levels
  <2>1. level[i] \in Int /\ element_levels_[i] \in 0 .. MaxLevel
        /\ maxlevelcopy[i] \in -1 .. MaxLevel
    BY ConstantFacts DEF TypeOK, Levels
  <2>2. element_levels_[i] < level[i] /\ level[i] <= maxlevelcopy[i]
    BY <1>2 DEF ControlInv, ControlOf
  <2> QED BY <2>1, <2>2, ConstantFacts DEF Levels
<1>3. pc[i] \in {"search", "select", "connect"} => level[i] \in Levels
  BY ConstantFacts DEF TypeOK, ControlInv, ControlOf, Levels
<1>4. \A n \in Ids, l \in Levels : linkList[n][l] \subseteq Ids
  BY DEF TypeOK
<1> QED BY <1>1, <1>2, <1>3, <1>4 DEF AtListLock

LEMMA TypeStep ==
    ASSUME TypeOK, ControlInv, SearchInv, NEW i \in Ids, Reserve(i) \/ Step(i)
    PROVE  TypeOK'
<1> USE ConstantFacts DEF TypeOK
<1>1. CASE Reserve(i)
  <2> USE <1>1 DEF Reserve
  <2>1. (cur_element_count \in 0 .. MaxElements)'
    BY HNSWAssumption DEF Ids
  <2> QED BY <2>1 DEF Working, locks, searchVars
<1>2. CASE LockElement(i)
  BY <1>2 DEF LockElement, Working, searchVars
<1>3. CASE LockGlobal(i)
  BY <1>3 DEF LockGlobal, Working, index, searchVars
<1>4. CASE ReadEntry(i)
  BY <1>4 DEF ReadEntry, Working, index, locks, searchVars
<1>5. CASE InitElement(i)
  <2> USE <1>5 DEF InitElement, BeginSearch
  <2>1. (linkList \in [Ids -> [Levels -> SUBSET Ids]])'
    BY Zenon
  <2>2. (pc \in [Ids -> Working \cup {"idle", "done"}])'
    BY DEF Working
  <2>3. (level \in [Ids -> -1 .. Top])'
    <3>1. level' = level \/ level' = [level EXCEPT ![i] = maxlevelcopy[i]]
      OBVIOUS
    <3>2. maxlevelcopy[i] \in -1 .. Top
      OBVIOUS
    <3> HIDE <1>5 DEF InitElement
    <3> QED BY <3>1, <3>2
  <2>4. (node \in [Ids -> Ids \cup {None}])'
    OBVIOUS
  <2>5. (visited \in [Ids -> SUBSET Ids])'
    BY DEF searchVars
  <2>6. (candidateSet \in [Ids -> SUBSET Ids])'
    BY DEF searchVars
  <2>7. (top_candidates \in [Ids -> SUBSET Ids])'
    BY DEF searchVars
  <2> QED BY <2>1, <2>2, <2>3, <2>4, <2>5, <2>6, <2>7 DEF locks
<1>6. CASE First(i)
  BY <1>6 DEF First, Working, locks, searchVars
<1>7. CASE Descend(i)
  <2> USE <1>7 DEF Descend, BeginSearch
  <2>0. node[i] \in Ids /\ level[i] \in Levels
    BY PlaceFacts DEF AtListLock
  <2>1. (pc \in [Ids -> Working \cup {"idle", "done"}])'
    BY DEF Working
  <2>2. (level \in [Ids -> -1 .. Top])'
    <3>1. level' = level \/ level' = [level EXCEPT ![i] = @ - 1]
      OBVIOUS
    <3>2. level[i] - 1 \in -1 .. Top
      BY <2>0
    <3> QED BY <3>1, <3>2
  <2>3. PICK v \in Ids :
          /\ node' = node \/ node' = [node EXCEPT ![i] = v]
          /\ \/ visited' = visited
             \/ visited' = [visited EXCEPT ![i] = @ \cup {v}]
             \/ visited' = [visited EXCEPT ![i] = {v}]
    <3>1. linkList[node[i]][level[i]] \subseteq Ids
      BY PlaceFacts DEF AtListLock
    <3> QED BY <2>0, <3>1 DEF searchVars
  <2>4. (node \in [Ids -> Ids \cup {None}])' /\ (visited \in [Ids -> SUBSET Ids])'
    <3> HIDE <1>7 DEF Descend
    <3> QED BY <2>3
  <2>5. (candidateSet \in [Ids -> SUBSET Ids])'
    BY DEF searchVars
  <2>6. (top_candidates \in [Ids -> SUBSET Ids])'
    BY <2>0 DEF searchVars
  <2> QED BY <2>1, <2>2, <2>4, <2>5, <2>6 DEF locks, index
<1>8. CASE Expand(i)
  <2> USE <1>8 DEF Expand
  <2>0. node[i] \in Ids /\ level[i] \in Levels
    BY PlaceFacts DEF AtListLock
  <2>1. (pc \in [Ids -> Working \cup {"idle", "done"}])'
    BY DEF Working
  <2>2. (visited \in [Ids -> SUBSET Ids])'
    <3>1. visited' = [visited EXCEPT ![i] = @ \cup (linkList[node[i]][level[i]] \ visited[i])]
      BY Zenon
    <3>2. linkList[node[i]][level[i]] \subseteq Ids
      BY PlaceFacts DEF AtListLock
    <3> HIDE <1>8 DEF Expand
    <3> QED BY <3>1, <3>2
  <2>3. PICK acc, res :
          /\ acc \in Accepted(i, linkList[node[i]][level[i]] \ visited[i])
          /\ res \in Nearest(top_candidates[i] \cup acc, ef_construction)
          /\ top_candidates' = [top_candidates EXCEPT ![i] = res]
          /\ \/ \E c \in candidateSet[i] \cup acc :
                  /\ node' = [node EXCEPT ![i] = c]
                  /\ candidateSet' = [candidateSet EXCEPT
                                        ![i] = (candidateSet[i] \cup acc) \ {c}]
             \/ /\ candidateSet' = [candidateSet EXCEPT ![i] = {}]
                /\ UNCHANGED node
    BY Zenon
  <2>4. acc \in SUBSET Ids /\ res \in SUBSET Ids
    <3>1. linkList[node[i]][level[i]] \subseteq Ids
      BY PlaceFacts DEF AtListLock
    <3>2. acc \subseteq linkList[node[i]][level[i]]
      BY <2>3 DEF Accepted
    <3>3. res \subseteq top_candidates[i] \cup acc
      BY <2>3, NearestSubset
    <3> QED BY <3>1, <3>2, <3>3
  <2> HIDE <1>8 DEF Expand
  <2>5. (node \in [Ids -> Ids \cup {None}])'
    <3>1. candidateSet[i] \cup acc \subseteq Ids
      BY <2>4
    <3> QED BY <2>3, <3>1
  <2>6. (candidateSet \in [Ids -> SUBSET Ids])'
    <3>1. \A c : (candidateSet[i] \cup acc) \ {c} \in SUBSET Ids
      BY <2>4
    <3>2. \E Q \in SUBSET Ids : candidateSet' = [candidateSet EXCEPT ![i] = Q]
      BY <2>3, <3>1
    <3> QED BY <3>2
  <2>7. (top_candidates \in [Ids -> SUBSET Ids])'
    BY <2>3, <2>4
  <2> QED BY <1>8, <2>1, <2>2, <2>5, <2>6, <2>7 DEF Expand, locks, index
<1>9. CASE SelectNeighbors(i)
  <2> USE <1>9 DEF SelectNeighbors
  <2>0. level[i] \in Levels
    BY PlaceFacts
  <2>1. PICK S, n :
          /\ S \in Heuristic(top_candidates[i], M) /\ n \in S
          /\ linkList' = [linkList EXCEPT ![i][level[i]] = S]
          /\ node' = [node EXCEPT ![i] = n]
          /\ selectedNeighbors' = [selectedNeighbors EXCEPT ![i] = S \ {n}]
    BY Zenon
  <2>2. S \in SUBSET Ids
    BY <2>1, HeuristicSubset
  <2>3. (linkList \in [Ids -> [Levels -> SUBSET Ids]])'
    BY <2>0, <2>1, <2>2
  <2>4. (node \in [Ids -> Ids \cup {None}])' /\ (selectedNeighbors \in [Ids -> SUBSET Ids])'
    BY <2>1, <2>2
  <2>5. (visited \in [Ids -> SUBSET Ids])' /\ (top_candidates \in [Ids -> SUBSET Ids])'
    OBVIOUS
  <2>6. (pc \in [Ids -> Working \cup {"idle", "done"}])'
    BY DEF Working
  <2> QED BY <2>3, <2>4, <2>5, <2>6 DEF locks
<1>10. CASE Connect(i)
  <2> USE <1>10 DEF Connect, BeginSearch
  <2>0. node[i] \in Ids /\ level[i] \in Levels
    BY PlaceFacts DEF AtListLock
  <2>1. PICK new : /\ linkList' = [linkList EXCEPT ![node[i]][level[i]] = new]
                   /\ new \subseteq linkList[node[i]][level[i]] \cup {i}
    <3>1. PICK new :
            /\ new \in IF Cardinality(linkList[node[i]][level[i]]) < maxM(level[i])
                       THEN {linkList[node[i]][level[i]] \cup {i}}
                       ELSE Heuristic(linkList[node[i]][level[i]] \cup {i}, maxM(level[i]))
            /\ linkList' = [linkList EXCEPT ![node[i]][level[i]] = new]
      BY Zenon DEF HasRoom
    <3>2. new \subseteq linkList[node[i]][level[i]] \cup {i}
      BY <3>1, HeuristicSubset
    <3> QED BY <3>1, <3>2
  <2>2. (linkList \in [Ids -> [Levels -> SUBSET Ids]])'
    <3>1. linkList[node[i]][level[i]] \subseteq Ids
      BY PlaceFacts DEF AtListLock
    <3>2. new \in SUBSET Ids
      BY <2>1, <3>1
    <3> HIDE <1>10 DEF Connect
    <3> QED BY <2>0, <2>1, <3>2
  <2>3. (pc \in [Ids -> Working \cup {"idle", "done"}])'
    BY DEF Working
  <2>4. (level \in [Ids -> -1 .. Top])'
    <3>1. \/ level' = level
          \/ level' = [level EXCEPT ![i] = level[i] - 1]
          \/ level' = [level EXCEPT ![i] = -1]
      OBVIOUS
    <3>2. level[i] - 1 \in -1 .. Top
      BY <2>0
    <3> HIDE <1>10 DEF Connect
    <3> QED BY <3>1, <3>2
  <2>5. (node \in [Ids -> Ids \cup {None}])'
    BY <2>0
  <2>6. (visited \in [Ids -> SUBSET Ids])'
    BY <2>0 DEF searchVars
  <2>7. (candidateSet \in [Ids -> SUBSET Ids])'
    BY DEF searchVars
  <2>8. (top_candidates \in [Ids -> SUBSET Ids])'
    BY <2>0 DEF searchVars
  <2>9. (selectedNeighbors \in [Ids -> SUBSET Ids])'
    OBVIOUS
  <2> QED BY <2>2, <2>3, <2>4, <2>5, <2>6, <2>7, <2>8, <2>9 DEF locks
<1>11. CASE Publish(i)
  <2> USE <1>11 DEF Publish
  <2>1. (enterpoint_node_ \in Ids \cup {None})' /\ (maxlevel_ \in Levels \cup {None})'
    OBVIOUS
  <2>2. (pc \in [Ids -> Working \cup {"idle", "done"}])'
    BY DEF Working
  <2> QED BY <2>1, <2>2 DEF locks, searchVars
<1>12. CASE Return(i)
  BY <1>12 DEF Return, Working, index, searchVars
<1> QED
  BY <1>1, <1>2, <1>3, <1>4, <1>5, <1>6, <1>7, <1>8, <1>9, <1>10, <1>11, <1>12 DEF Step

-----------------------------------------------------------------------------
(* Program counters, locks and levels. *)

LEMMA ControlInit == Init => ControlInv
BY ConstantFacts DEF Init, ControlInv, ControlOf, Held, Working, Pre, Ended

LEMMA LevelTypes ==
    ASSUME TypeOK, NEW i \in Ids
    PROVE  /\ element_levels_[i] \in 0 .. MaxLevel
           /\ maxlevelcopy[i] \in -1 .. MaxLevel
           /\ level[i] \in -1 .. MaxLevel + 1
           /\ maxlevel_ \in -1 .. MaxLevel
           /\ MaxLevel \in Nat /\ Top = MaxLevel + 1
BY ConstantFacts DEF TypeOK, Levels, Top

LEMMA ControlStep ==
    ASSUME TypeOK, ControlInv, EntryInv, NEW i \in Ids, Reserve(i) \/ Step(i)
    PROVE  ControlInv'
<1> USE ConstantFacts DEF TypeOK, ControlInv, ControlOf, Held, Working, Pre, Ended
<1>1. CASE Reserve(i)
  BY <1>1 DEF Reserve, locks
<1>2. CASE LockElement(i)
  BY <1>2 DEF LockElement
<1>3. CASE LockGlobal(i)
  BY <1>3 DEF LockGlobal, index
<1>4. CASE ReadEntry(i)
  BY <1>4 DEF ReadEntry, index, locks
<1>5. CASE InitElement(i)
  <2>1. /\ pc[i] = "init"
        /\ dataReady' = dataReady \cup {i}
        /\ UNCHANGED <<cur_element_count, element_levels_, listLock, maxlevelcopy>>
    BY <1>5 DEF InitElement, locks
  <2>2. \/ /\ pc' = [pc EXCEPT ![i] = "first"]
           /\ level' = level
        \/ /\ pc' = [pc EXCEPT ![i] = "descend"]
           /\ level' = [level EXCEPT ![i] = maxlevelcopy[i]]
           /\ element_levels_[i] < maxlevelcopy[i]
        \/ /\ pc' = [pc EXCEPT ![i] = "search"]
           /\ level' = [level EXCEPT ![i] = maxlevelcopy[i]]
           /\ node[i] # None /\ element_levels_[i] >= maxlevelcopy[i]
    BY <1>5 DEF InitElement, BeginSearch
  <2>3. node[i] # None => 0 <= maxlevelcopy[i]
    <3>1. node[i] # None => i # 0
      BY <2>1 DEF EntryInv, FirstElementInv
    <3>2. i # 0 => maxlevelcopy[i] # None
      BY <2>1 DEF EntryInv, EntryOf
    <3>3. maxlevelcopy[i] # None => 0 <= maxlevelcopy[i]
      <4> HIDE DEF TypeOK, ControlInv
      <4> QED BY LevelTypes
    <3> QED BY <3>1, <3>2, <3>3
  <2>8. ASSUME NEW j \in Ids, j # i PROVE ControlOf(j)'
    BY <2>1, <2>2, <2>3, <2>8
  <2>9. ControlOf(i)'
    BY <2>1, <2>2, <2>3, LevelTypes
  <2> QED BY <2>8, <2>9
<1>6. CASE First(i)
  BY <1>6 DEF First, locks
<1>7. CASE Descend(i)
  <2>1. /\ pc[i] = "descend"
        /\ UNCHANGED <<cur_element_count, element_levels_, dataReady, listLock, maxlevelcopy>>
    BY <1>7 DEF Descend, index, locks
  <2>2. \/ UNCHANGED <<pc, level>>
        \/ /\ level[i] - 1 > element_levels_[i]
           /\ level' = [level EXCEPT ![i] = @ - 1]
           /\ UNCHANGED pc
        \/ /\ level[i] - 1 = element_levels_[i]
           /\ pc' = [pc EXCEPT ![i] = "search"]
           /\ level' = [level EXCEPT ![i] = @ - 1]
    BY <1>7 DEF Descend, BeginSearch
  <2>8. ASSUME NEW j \in Ids, j # i PROVE ControlOf(j)'
    BY <2>1, <2>2, <2>8
  <2>9. ControlOf(i)'
    BY <2>1, <2>2, LevelTypes
  <2> QED BY <2>8, <2>9
<1>8. CASE Expand(i)
  BY <1>8 DEF Expand, index, locks
<1>9. CASE SelectNeighbors(i)
  BY <1>9 DEF SelectNeighbors, locks
<1>10. CASE Connect(i)
  <2>1. /\ pc[i] = "connect"
        /\ UNCHANGED <<cur_element_count, element_levels_, dataReady, listLock, maxlevelcopy>>
    BY <1>10 DEF Connect, locks
  <2>2. \/ UNCHANGED <<pc, level>>
        \/ /\ level[i] > 0
           /\ pc' = [pc EXCEPT ![i] = "search"]
           /\ level' = [level EXCEPT ![i] = @ - 1]
        \/ /\ pc' = [pc EXCEPT ![i] = "publish"]
           /\ level' = [level EXCEPT ![i] = -1]
    BY <1>10 DEF Connect, BeginSearch
  <2>8. ASSUME NEW j \in Ids, j # i PROVE ControlOf(j)'
    BY <2>1, <2>2, <2>8
  <2>9. ControlOf(i)'
    BY <2>1, <2>2, LevelTypes
  <2> QED BY <2>8, <2>9
<1>11. CASE Publish(i)
  BY <1>11 DEF Publish, locks
<1>12. CASE Return(i)
  BY <1>12 DEF Return, index
<1> QED
  BY <1>1, <1>2, <1>3, <1>4, <1>5, <1>6, <1>7, <1>8, <1>9, <1>10, <1>11, <1>12 DEF Step

-----------------------------------------------------------------------------
(* What a step of one call leaves alone. *)

LEMMA Frame ==
    ASSUME TypeOK, NEW j \in Ids,
           NEW i \in Ids, Reserve(i) \/ Step(i)
    PROVE  /\ j # i => /\ pc'[j] = pc[j] /\ level'[j] = level[j] /\ node'[j] = node[j]
                    /\ maxlevelcopy'[j] = maxlevelcopy[j]
                    /\ element_levels_'[j] = element_levels_[j]
           /\ pc[i] # "lock" => element_levels_' = element_levels_
<1> USE DEF TypeOK
<1>1. CASE Reserve(i)
  BY <1>1 DEF Reserve, index, locks
<1>2. CASE LockElement(i)
  BY <1>2 DEF LockElement, index, locks
<1>3. CASE LockGlobal(i)
  BY <1>3 DEF LockGlobal, index, locks
<1>4. CASE ReadEntry(i)
  BY <1>4 DEF ReadEntry, index, locks
<1>5. CASE InitElement(i)
  BY <1>5 DEF InitElement, BeginSearch, index, locks
<1>6. CASE First(i)
  BY <1>6 DEF First, index, locks
<1>7. CASE Descend(i)
  BY <1>7 DEF Descend, BeginSearch, index, locks
<1>8. CASE Expand(i)
  BY <1>8 DEF Expand, index, locks
<1>9. CASE SelectNeighbors(i)
  BY <1>9 DEF SelectNeighbors, index, locks
<1>10. CASE Connect(i)
  BY <1>10 DEF Connect, BeginSearch, index, locks
<1>11. CASE Publish(i)
  BY <1>11 DEF Publish, index, locks
<1>12. CASE Return(i)
  BY <1>12 DEF Return, index, locks
<1> QED
  BY <1>1, <1>2, <1>3, <1>4, <1>5, <1>6, <1>7, <1>8, <1>9, <1>10, <1>11, <1>12 DEF Step

LEMMA FrameSearch ==
    ASSUME TypeOK, NEW j \in Ids,
           NEW i \in Ids, Reserve(i) \/ Step(i)
    PROVE  j # i => /\ visited'[j] = visited[j] /\ candidateSet'[j] = candidateSet[j]
                    /\ top_candidates'[j] = top_candidates[j]
                    /\ selectedNeighbors'[j] = selectedNeighbors[j]
<1> USE DEF TypeOK
<1>1. CASE Reserve(i)
  BY <1>1 DEF Reserve, searchVars
<1>2. CASE LockElement(i)
  BY <1>2 DEF LockElement, searchVars
<1>3. CASE LockGlobal(i)
  BY <1>3 DEF LockGlobal, searchVars
<1>4. CASE ReadEntry(i)
  BY <1>4 DEF ReadEntry, searchVars
<1>5. CASE InitElement(i)
  BY <1>5 DEF InitElement, BeginSearch, searchVars
<1>6. CASE First(i)
  BY <1>6 DEF First, searchVars
<1>7. CASE Descend(i)
  BY <1>7 DEF Descend, BeginSearch, searchVars
<1>8. CASE Expand(i)
  BY <1>8 DEF Expand, searchVars
<1>9. CASE SelectNeighbors(i)
  BY <1>9 DEF SelectNeighbors, searchVars
<1>10. CASE Connect(i)
  BY <1>10 DEF Connect, BeginSearch, searchVars
<1>11. CASE Publish(i)
  BY <1>11 DEF Publish, searchVars
<1>12. CASE Return(i)
  BY <1>12 DEF Return, searchVars
<1> QED
  BY <1>1, <1>2, <1>3, <1>4, <1>5, <1>6, <1>7, <1>8, <1>9, <1>10, <1>11, <1>12 DEF Step

-----------------------------------------------------------------------------
(* The entry point. *)

LEMMA EntryInit == Init => EntryInv
BY ConstantFacts DEF Init, EntryInv, EntryPointInv, FirstElementInv, EntryOf, Held, Working, Pre, Ended

LEMMA FirstElementStep ==
    ASSUME TypeOK, ControlInv, EntryInv,
           NEW i \in Ids, Reserve(i) \/ Step(i)
    PROVE  FirstElementInv'
<1> USE ConstantFacts DEF TypeOK, EntryInv, EntryPointInv, FirstElementInv, Pre, Ended
<1>1. CASE Reserve(i)
  BY <1>1 DEF Reserve, index, locks
<1>2. CASE LockElement(i)
  BY <1>2 DEF LockElement, index, locks
<1>3. CASE LockGlobal(i)
  BY <1>3 DEF LockGlobal, index, locks
<1>4. CASE ReadEntry(i)
  BY <1>4 DEF ReadEntry, index, locks
<1>5. CASE InitElement(i)
  <2>2. i = 0 => pc' = [pc EXCEPT ![i] = "first"]
    BY <1>5 DEF InitElement
  <2>3. i # 0 => pc'[i] \in {"descend", "search"}
    BY <1>5 DEF InitElement, BeginSearch, EntryOf
  <2>4. i # 0 => pc'[0] = pc[0]
    BY <1>5 DEF InitElement, BeginSearch
  <2>5. enterpoint_node_' = enterpoint_node_ /\ pc[i] = "init"
    BY <1>5 DEF InitElement
  <2>6. \A j \in Ids : j # i => pc'[j] = pc[j]
    BY Frame
  <2> QED BY <2>2, <2>3, <2>4, <2>5, <2>6
<1>6. CASE First(i)
  BY <1>6 DEF First, index, locks
<1>7. CASE Descend(i)
  BY <1>7 DEF Descend, BeginSearch, index, locks
<1>8. CASE Expand(i)
  BY <1>8 DEF Expand, index, locks
<1>9. CASE SelectNeighbors(i)
  BY <1>9 DEF SelectNeighbors, index, locks
<1>10. CASE Connect(i)
  BY <1>10 DEF Connect, BeginSearch, index, locks
<1>11. CASE Publish(i)
  BY <1>11 DEF Publish, index, locks
<1>12. CASE Return(i)
  BY <1>12 DEF Return, index, locks
<1> QED
  BY <1>1, <1>2, <1>3, <1>4, <1>5, <1>6, <1>7, <1>8, <1>9, <1>10, <1>11, <1>12 DEF Step

LEMMA EntryPointStep ==
    ASSUME TypeOK, ControlInv, EntryInv,
           NEW i \in Ids, Reserve(i) \/ Step(i)
    PROVE  EntryPointInv'
<1> USE ConstantFacts DEF TypeOK, ControlInv, ControlOf, EntryInv, EntryPointInv, FirstElementInv, Pre, Ended
<1>1. CASE Reserve(i)
  BY <1>1 DEF Reserve, index, locks
<1>2. CASE LockElement(i)
  BY <1>2 DEF LockElement, index, locks
<1>3. CASE LockGlobal(i)
  BY <1>3 DEF LockGlobal, index, locks
<1>4. CASE ReadEntry(i)
  BY <1>4 DEF ReadEntry, index, locks
<1>5. CASE InitElement(i)
  BY <1>5 DEF InitElement, BeginSearch, index, locks
<1>6. CASE First(i)
  BY <1>6 DEF First, index, locks
<1>7. CASE Descend(i)
  BY <1>7 DEF Descend, BeginSearch, index, locks
<1>8. CASE Expand(i)
  BY <1>8 DEF Expand, index, locks
<1>9. CASE SelectNeighbors(i)
  BY <1>9 DEF SelectNeighbors, index, locks
<1>10. CASE Connect(i)
  BY <1>10 DEF Connect, BeginSearch, index, locks
<1>11. CASE Publish(i)
  BY <1>11 DEF Publish, index, locks
<1>12. CASE Return(i)
  BY <1>12 DEF Return, index, locks
<1> QED
  BY <1>1, <1>2, <1>3, <1>4, <1>5, <1>6, <1>7, <1>8, <1>9, <1>10, <1>11, <1>12 DEF Step

LEMMA GlobalStep ==
    ASSUME TypeOK, EntryInv,
           NEW i \in Ids, Reserve(i) \/ Step(i)
    PROVE  global' # None => pc'[global'] \in Held \ {"global"}
<1> USE ConstantFacts DEF TypeOK, EntryInv, Held, Working
<1>1. CASE Reserve(i)
  BY <1>1 DEF Reserve, locks
<1>2. CASE LockElement(i)
  BY <1>2 DEF LockElement, locks
<1>3. CASE LockGlobal(i)
  BY <1>3 DEF LockGlobal, locks
<1>4. CASE ReadEntry(i)
  BY <1>4 DEF ReadEntry, locks
<1>5. CASE InitElement(i)
  BY <1>5 DEF InitElement, BeginSearch, locks
<1>6. CASE First(i)
  BY <1>6 DEF First, locks
<1>7. CASE Descend(i)
  BY <1>7 DEF Descend, BeginSearch, locks
<1>8. CASE Expand(i)
  BY <1>8 DEF Expand, locks
<1>9. CASE SelectNeighbors(i)
  BY <1>9 DEF SelectNeighbors, locks
<1>10. CASE Connect(i)
  BY <1>10 DEF Connect, BeginSearch, locks
<1>11. CASE Publish(i)
  BY <1>11 DEF Publish, locks
<1>12. CASE Return(i)
  BY <1>12 DEF Return, locks
<1> QED
  BY <1>1, <1>2, <1>3, <1>4, <1>5, <1>6, <1>7, <1>8, <1>9, <1>10, <1>11, <1>12 DEF Step

LEMMA EntryOfStep ==
    ASSUME TypeOK, ControlInv, EntryInv, NEW j \in Ids \ {0},
           NEW i \in Ids, Reserve(i) \/ Step(i)
    PROVE  EntryOf(j)'
<1> USE ConstantFacts
<1>1. pc[j] # "idle" =>
        /\ maxlevel_ # None /\ enterpoint_node_ \in Ids
        /\ level[enterpoint_node_] = -1
        /\ element_levels_[enterpoint_node_] = maxlevel_
  BY DEF TypeOK, EntryInv, EntryPointInv, FirstElementInv, Pre
<1>2. \A m \in Ids : level[m] = -1 =>
        level'[m] = -1 /\ element_levels_'[m] = element_levels_[m]
  <2>1. ASSUME NEW m \in Ids, level[m] = -1, m = i
        PROVE  pc[i] \in Ended
    BY <2>1, LevelTypes DEF TypeOK, ControlInv, ControlOf, Pre, Ended, Working
  <2>2. pc[i] \in Ended => level' = level /\ element_levels_' = element_levels_
    BY DEF Step, Reserve, LockElement, LockGlobal, ReadEntry, InitElement, First,
           Descend, Expand, SelectNeighbors, Connect, Publish, Return, index, Ended
  <2> QED BY <2>1, <2>2, Frame
<1>3. /\ maxlevel_ \in -1 .. MaxLevel /\ maxlevelcopy[j] \in -1 .. MaxLevel
      /\ maxlevelcopy[i] \in -1 .. MaxLevel /\ element_levels_[i] \in 0 .. MaxLevel
      /\ element_levels_[j] \in 0 .. MaxLevel /\ MaxLevel \in Nat
  BY LevelTypes
<1>4. EntryOf(j) /\ (i # 0 => EntryOf(i))
  BY DEF EntryInv
<1>5. CASE i = j
  <2>1. CASE Reserve(i) \/ LockElement(i)
    BY <1>5, <2>1 DEF Reserve, LockElement, EntryOf, Held, TypeOK
  <2>2. CASE LockGlobal(i)
    <3>1. /\ pc[i] = "global" /\ pc'[i] = "entry" /\ maxlevelcopy'[i] = maxlevel_
          /\ maxlevel_' = maxlevel_ /\ element_levels_' = element_levels_
          /\ global' = IF element_levels_[i] <= maxlevel_ THEN None ELSE i
      BY <2>2 DEF LockGlobal, index, TypeOK
    <3> QED BY <1>1, <1>3, <1>5, <3>1 DEF EntryOf
  <2>3. CASE ReadEntry(i)
    <3>1. /\ pc[i] = "entry" /\ pc'[i] = "init" /\ node'[i] = enterpoint_node_
          /\ UNCHANGED <<maxlevelcopy, maxlevel_, element_levels_, global, level>>
      BY <2>3 DEF ReadEntry, index, locks, TypeOK
    <3> QED BY <1>1, <1>3, <1>4, <1>5, <3>1 DEF EntryOf, Held, Working
  <2>4. CASE First(i)
    BY <1>5, <2>4 DEF First, EntryInv, FirstElementInv
  <2>5. CASE InitElement(i) \/ Descend(i) \/ Expand(i) \/ SelectNeighbors(i) \/ Connect(i)
    <3>1. /\ pc[i] \in Held \ {"global", "return"} /\ pc'[i] # "init"
          /\ UNCHANGED <<maxlevelcopy, maxlevel_, element_levels_, global>>
      <4>1. pc[i] \in {"init", "descend", "search", "select", "connect"}
        BY <2>5 DEF InitElement, Descend, Expand, SelectNeighbors, Connect
      <4>2. pc'[i] # "init"
        BY <2>5 DEF InitElement, Descend, Expand, SelectNeighbors, Connect, BeginSearch, TypeOK
      <4>3. UNCHANGED <<maxlevelcopy, maxlevel_, element_levels_, global>>
        BY <2>5 DEF InitElement, Descend, Expand, SelectNeighbors, Connect, index, locks
      <4> QED BY <4>1, <4>2, <4>3 DEF Held, Working
    <3> QED BY <1>4, <1>5, <3>1 DEF EntryOf
  <2>6. CASE Publish(i)
    <3>1. /\ pc[i] = "publish" /\ pc'[i] = "return"
          /\ UNCHANGED <<maxlevelcopy, element_levels_>>
          /\ \/ maxlevel_' = maxlevel_
             \/ element_levels_[i] > maxlevelcopy[i] /\ maxlevel_' = element_levels_[i]
      BY <2>6 DEF Publish, TypeOK
    <3> QED BY <1>3, <1>4, <1>5, <3>1 DEF EntryOf, Held, Working
  <2>7. CASE Return(i)
    BY <1>5, <2>7 DEF Return, EntryOf, Held, Working, TypeOK
  <2> QED BY <2>1, <2>2, <2>3, <2>4, <2>5, <2>6, <2>7 DEF Step
<1>6. CASE i # j
  <2>1. /\ pc'[j] = pc[j] /\ node'[j] = node[j] /\ maxlevelcopy'[j] = maxlevelcopy[j]
        /\ element_levels_'[j] = element_levels_[j]
    BY <1>6, Frame
  <2>2. pc[j] = "init" => /\ node[j] \in Ids
                          /\ level'[node[j]] = -1
                          /\ element_levels_'[node[j]] = element_levels_[node[j]]
    BY <1>2, <1>4 DEF EntryOf, TypeOK
  <2>3. CASE UNCHANGED <<maxlevel_, global>>
    BY <1>4, <2>1, <2>2, <2>3 DEF EntryOf
  <2>4. CASE LockGlobal(i)
    <3>1. maxlevel_' = maxlevel_ /\ global = None
      BY <2>4 DEF LockGlobal, index
    <3> QED BY <1>4, <2>1, <2>2, <3>1 DEF EntryOf
  <2>5. CASE First(i)
    <3>1. pc[j] = "idle"
      BY <2>5 DEF First, EntryInv, FirstElementInv
    <3> QED BY <2>1, <3>1 DEF EntryOf, Held, Working
  <2>6. CASE Publish(i)
    <3>1. pc[i] = "publish" /\ global' = global
      BY <2>6 DEF Publish, locks
    <3>2. CASE pc[j] = "idle"
      BY <2>1, <3>2 DEF EntryOf, Held, Working
    <3>3. CASE pc[j] # "idle"
      <4>1. i # 0
        BY <3>1, <3>3 DEF EntryInv, FirstElementInv
      <4>2. CASE element_levels_[i] > maxlevelcopy[i]
        <5>1. global = i /\ maxlevel_ = maxlevelcopy[i] /\ maxlevel_' = element_levels_[i]
          BY <1>4, <2>6, <3>1, <4>1, <4>2 DEF Publish, EntryOf, Held, Working
        <5> QED BY <1>3, <1>4, <1>6, <2>1, <2>2, <3>1, <4>2, <5>1 DEF EntryOf
      <4>3. CASE ~(element_levels_[i] > maxlevelcopy[i])
        BY <2>3, <2>6, <3>1, <4>3 DEF Publish
      <4> QED BY <4>2, <4>3
    <3> QED BY <3>2, <3>3
  <2>7. CASE Return(i)
    <3>1. maxlevel_' = maxlevel_ /\ (global = j => global' = j)
      BY <1>6, <2>7 DEF Return, index
    <3> QED BY <1>4, <2>1, <2>2, <3>1 DEF EntryOf
  <2>8. CASE ~LockGlobal(i) /\ ~First(i) /\ ~Publish(i) /\ ~Return(i)
    <3>1. UNCHANGED <<maxlevel_, global>>
      BY <2>8 DEF Step, Reserve, LockElement, ReadEntry, InitElement,
             Descend, Expand, SelectNeighbors, Connect, index, locks
    <3> QED BY <2>3, <3>1
  <2> QED BY <2>4, <2>5, <2>6, <2>7, <2>8
<1> QED BY <1>5, <1>6

-----------------------------------------------------------------------------
(* Links. *)

\* Once a call has written the neighbours of a level, it has for good.
LEMMA LinkedStable ==
    ASSUME TypeOK, ControlInv, NEW m \in Ids, NEW l \in Levels, Linked(m, l),
           NEW i \in Ids, Reserve(i) \/ Step(i)
    PROVE  Linked(m, l)'
<1>1. /\ l \in 0 .. MaxLevel /\ MaxLevel \in Nat /\ Top = MaxLevel + 1
      /\ level[m] \in -1 .. MaxLevel + 1 /\ element_levels_[m] \in 0 .. MaxLevel
  BY LevelTypes DEF Levels
<1>2. level[m] # Top /\ pc[m] \notin Pre
  BY <1>1, ConstantFacts DEF Linked, ControlInv, ControlOf
<1>3. CASE m # i
  BY <1>3, Frame DEF Linked
<1>4. CASE m = i
  <2>1. element_levels_' = element_levels_
    BY <1>2, <1>4, Frame DEF Pre
  <2>2. CASE Descend(i)
    <3>1. pc[m] = "descend"
      BY <1>4, <2>2 DEF Descend
    <3>2. element_levels_[m] < level[m]
      BY <3>1 DEF ControlInv, ControlOf
    <3> QED BY <1>1, <3>1, <3>2 DEF Linked
  <2>3. CASE Connect(i)
    <3>1. \/ pc'[m] = "connect" /\ level'[m] = level[m]
          \/ level'[m] = level[m] - 1
          \/ level'[m] = -1
      BY <1>4, <2>3 DEF Connect, BeginSearch, TypeOK
    <3> QED BY <1>1, <2>1, <3>1 DEF Linked
  <2>4. CASE ~Descend(i) /\ ~Connect(i)
    <3>1. pc[i] # "connect" /\ level' = level
      BY <1>2, <1>4, <2>4 DEF Pre, Step, Reserve, LockElement, LockGlobal, ReadEntry,
         InitElement, First, Expand, SelectNeighbors, Publish, Return
    <3> QED BY <1>4, <2>1, <3>1 DEF Linked
  <2> QED BY <2>2, <2>3, <2>4
<1> QED BY <1>3, <1>4

LEMMA DoneStable ==
    ASSUME TypeOK, NEW m \in Ids, pc[m] = "done",
           NEW i \in Ids, Reserve(i) \/ Step(i)
    PROVE  pc'[m] = "done" /\ m # i
<1>1. pc[i] # "done"
  BY DEF Step, Reserve, LockElement, LockGlobal, ReadEntry, InitElement, First,
         Descend, Expand, SelectNeighbors, Connect, Publish, Return
<1> QED BY <1>1, Frame

\* A call that has returned has linked its element at all its levels, and so
\* has a call that no longer holds its lock but can be come across.
LEMMA LinkedFacts ==
    ASSUME TypeOK, ControlInv, NEW m \in Ids, NEW l \in Levels
    PROVE  /\ pc[m] = "done" /\ l <= element_levels_[m] => Linked(m, l)
           /\ Linked(m, l) /\ m \notin listLock => pc[m] = "done"
           /\ Linked(m, l) => m \in dataReady /\ l <= element_levels_[m]
<1>1. /\ l \in 0 .. MaxLevel /\ MaxLevel \in Nat /\ Top = MaxLevel + 1
      /\ level[m] \in -1 .. MaxLevel + 1
  BY LevelTypes DEF Levels
<1>2. ControlOf(m)
  BY DEF ControlInv
<1>3. pc[m] = "done" => level[m] = -1
  BY <1>2 DEF ControlOf, Ended
<1>4. Linked(m, l) => pc[m] \notin Pre
  BY <1>1, <1>2, ConstantFacts DEF ControlOf, Linked
<1>5. pc[m] \notin Pre /\ m \notin listLock => pc[m] = "done"
  BY <1>2 DEF ControlOf, Held, Working, Pre, TypeOK
<1>6. pc[m] \notin Pre => m \in dataReady
  BY <1>2 DEF ControlOf
<1> QED BY <1>1, <1>3, <1>4, <1>5, <1>6 DEF Linked

LEMMA ListsFinite ==
    ASSUME NEW S \in SUBSET Ids
    PROVE  IsFiniteSet(S) /\ Cardinality(S) \in Nat
<1>1. IsFiniteSet(Ids)
  BY FS_Interval, HNSWAssumption DEF Ids
<1>2. IsFiniteSet(S)
  BY <1>1, FS_Subset
<1> QED BY <1>2, FS_CardinalityType

LEMMA HeuristicBound ==
    ASSUME NEW C \in SUBSET Ids, NEW m \in Nat, NEW S \in Heuristic(C, m)
    PROVE  Cardinality(S) <= m
BY ListsFinite DEF Heuristic

\* What a step does to the lists: it empties those of a new element, writes
\* its neighbours, or adds it to one list, which may lose other members.
LEMMA ListChanges ==
    ASSUME TypeOK, ControlInv, SearchInv, NEW i \in Ids, Reserve(i) \/ Step(i)
    PROVE  \/ linkList' = linkList
           \/ /\ pc[i] = "init"
              /\ linkList' = [linkList EXCEPT ![i] = [l \in Levels |-> {}]]
           \/ /\ pc[i] = "select" /\ level[i] \in Levels
              /\ pc'[i] = "connect" /\ level'[i] = level[i]
              /\ \E S \in SUBSET top_candidates[i] :
                    /\ S # {} /\ Cardinality(S) <= M
                    /\ linkList' = [linkList EXCEPT ![i][level[i]] = S]
           \/ /\ pc[i] = "connect" /\ node[i] \in Ids /\ level[i] \in Levels
              /\ \E new \in SUBSET (linkList[node[i]][level[i]] \cup {i}) :
                    /\ new # {} /\ Cardinality(new) <= maxM(level[i])
                    /\ linkList' = [linkList EXCEPT ![node[i]][level[i]] = new]
<1>1. CASE InitElement(i)
  BY <1>1 DEF InitElement
<1>2. CASE SelectNeighbors(i)
  <2>1. PICK S : /\ S \in Heuristic(top_candidates[i], M) /\ S # {}
                 /\ linkList' = [linkList EXCEPT ![i][level[i]] = S]
    BY <1>2, Zenon DEF SelectNeighbors
  <2>2. S \subseteq top_candidates[i] /\ Cardinality(S) <= M
    BY <2>1, HeuristicSubset, HeuristicBound, HNSWAssumption DEF TypeOK
  <2>3. pc[i] = "select" /\ pc'[i] = "connect" /\ level'[i] = level[i]
    BY <1>2 DEF SelectNeighbors, TypeOK
  <2> QED BY <2>1, <2>2, <2>3, PlaceFacts
<1>3. CASE Connect(i)
  <2> DEFINE old == linkList[node[i]][level[i]]
  <2>1. PICK new : /\ new \in IF Cardinality(old) < maxM(level[i])
                              THEN {old \cup {i}}
                              ELSE Heuristic(old \cup {i}, maxM(level[i]))
                   /\ linkList' = [linkList EXCEPT ![node[i]][level[i]] = new]
    BY <1>3, Zenon DEF Connect, HasRoom
  <2>2. /\ pc[i] = "connect" /\ node[i] \in Ids /\ level[i] \in Levels
        /\ old \in SUBSET Ids
    BY <1>3, PlaceFacts DEF Connect, AtListLock
  <2>3. maxM(level[i]) \in Nat
    BY HNSWAssumption DEF maxM
  <2> HIDE DEF old
  <2>4. new \subseteq old \cup {i} /\ new # {}
    BY <2>1, HeuristicSubset, HeuristicKeeps
  <2>5. Cardinality(new) <= maxM(level[i])
    <3>1. CASE Cardinality(old) < maxM(level[i])
      <4>1. new = old \cup {i}
        BY <2>1, <3>1
      <4>2. Cardinality(new) <= Cardinality(old) + 1 /\ Cardinality(old) \in Nat
            /\ Cardinality(new) \in Nat
        BY <2>2, <4>1, ListsFinite, FS_AddElement
      <4> QED BY <2>3, <3>1, <4>2
    <3>2. CASE ~(Cardinality(old) < maxM(level[i]))
      <4>1. old \cup {i} \in SUBSET Ids
        BY <2>2
      <4> QED BY <2>1, <2>3, <3>2, <4>1, HeuristicBound
    <3> QED BY <3>1, <3>2
  <2> QED BY <2>1, <2>2, <2>4, <2>5 DEF old
<1>4. CASE ~InitElement(i) /\ ~SelectNeighbors(i) /\ ~Connect(i)
  BY <1>4 DEF Step, Reserve, LockElement, LockGlobal, ReadEntry, First, Descend,
              Expand, Publish, Return, index
<1> QED BY <1>1, <1>2, <1>3, <1>4

LEMMA LinkMembers ==
    ASSUME TypeOK, LinkInv, NEW n \in Ids, NEW l \in Levels, NEW m \in linkList[n][l]
    PROVE  m \in Ids /\ m # n /\ Linked(m, l) /\ Linked(n, l)
BY DEF LinkInv, TypeOK

LEMMA LinkInit == Init => LinkInv
<1> SUFFICES ASSUME Init PROVE LinkInv
  OBVIOUS
<1>1. \A n \in Ids : \A l \in Levels : linkList[n][l] = {}
  BY DEF Init
<1>2. \A l : 0 <= maxM(l)
  BY HNSWAssumption DEF maxM
<1> QED BY <1>1, <1>2, FS_EmptySet DEF LinkInv, DegreeBound

LEMMA LinkStep ==
    ASSUME TypeOK, ControlInv, SearchInv, LinkInv,
           NEW i \in Ids, Reserve(i) \/ Step(i)
    PROVE  LinkInv'
<1> USE ConstantFacts
<1>1. ASSUME NEW n \in Ids, NEW l \in Levels, NEW m \in linkList[n][l]
      PROVE  m \in Ids /\ m # n /\ Linked(m, l)' /\ Linked(n, l)'
  <2>1. m \in Ids /\ m # n /\ Linked(m, l) /\ Linked(n, l)
    BY <1>1 DEF LinkInv, TypeOK
  <2> QED BY <2>1, LinkedStable
<1>2. \A n \in Ids : \A l \in Levels : Cardinality(linkList[n][l]) <= maxM(l)
  BY DEF LinkInv, DegreeBound
<1> SUFFICES ASSUME NEW n \in Ids, NEW l \in Levels
             PROVE  /\ \A m \in linkList'[n][l] : m # n /\ Linked(m, l)' /\ Linked(n, l)'
                    /\ Cardinality(linkList'[n][l]) <= maxM(l)
  BY DEF LinkInv, DegreeBound
<1>3. CASE linkList' = linkList
  BY <1>1, <1>2, <1>3
<1>4. CASE linkList' = [linkList EXCEPT ![i] = [k \in Levels |-> {}]]
  <2>1. linkList'[n][l] = linkList[n][l] \/ linkList'[n][l] = {}
    BY <1>4 DEF TypeOK
  <2>2. 0 <= maxM(l)
    BY HNSWAssumption DEF maxM
  <2> QED BY <1>1, <1>2, <2>1, <2>2, FS_EmptySet
<1>5. ASSUME pc[i] = "select", level[i] \in Levels,
             pc'[i] = "connect", level'[i] = level[i],
             NEW S \in SUBSET top_candidates[i], Cardinality(S) <= M,
             linkList' = [linkList EXCEPT ![i][level[i]] = S]
      PROVE  /\ \A m \in linkList'[n][l] : m # n /\ Linked(m, l)' /\ Linked(n, l)'
             /\ Cardinality(linkList'[n][l]) <= maxM(l)
  <2>1. CASE n = i /\ l = level[i]
    <3>1. linkList'[n][l] = S
      BY <1>5, <2>1 DEF TypeOK
    <3>2. Cardinality(S) <= maxM(l)
      <4>1. S \in SUBSET Ids
        BY <1>5 DEF TypeOK
      <4> QED BY <1>5, <4>1, ListsFinite, HNSWAssumption DEF maxM
    <3>3. ASSUME NEW m \in S PROVE m # i /\ Linked(m, l)'
      <4>1. m \in Ids /\ m # i /\ pc[m] = "done" /\ l <= element_levels_[m]
        BY <1>5, <2>1, <3>3 DEF SearchInv, SelectOf, TypeOK
      <4> QED BY <4>1, LinkedFacts, LinkedStable
    <3>4. Linked(i, l)'
      <4>1. level[i] <= element_levels_[i]
        BY <1>5 DEF ControlInv, ControlOf
      <4>2. element_levels_' = element_levels_
        BY <1>5, Frame
      <4> QED BY <1>5, <2>1, <4>1, <4>2 DEF Linked
    <3> QED BY <2>1, <3>1, <3>2, <3>3, <3>4
  <2>2. CASE ~(n = i /\ l = level[i])
    <3>1. linkList'[n][l] = linkList[n][l]
      BY <1>5, <2>2 DEF TypeOK
    <3> QED BY <1>1, <1>2, <3>1
  <2> QED BY <2>1, <2>2
<1>6. ASSUME pc[i] = "connect", node[i] \in Ids, level[i] \in Levels,
             NEW new \in SUBSET (linkList[node[i]][level[i]] \cup {i}),
             Cardinality(new) <= maxM(level[i]),
             linkList' = [linkList EXCEPT ![node[i]][level[i]] = new]
      PROVE  /\ \A m \in linkList'[n][l] : m # n /\ Linked(m, l)' /\ Linked(n, l)'
             /\ Cardinality(linkList'[n][l]) <= maxM(l)
  <2>1. CASE n = node[i] /\ l = level[i]
    <3>1. linkList'[n][l] = new
      BY <1>6, <2>1 DEF TypeOK
    <3>2. n # i /\ pc[n] = "done" /\ l <= element_levels_[n]
      BY <1>6, <2>1 DEF SearchInv, ConnectOf
    <3>3. Linked(n, l)'
      BY <3>2, LinkedFacts, LinkedStable
    <3>4. Linked(i, l)'
      <4>1. level[i] <= element_levels_[i]
        BY <1>6 DEF ControlInv, ControlOf
      <4>2. Linked(i, l)
        BY <1>6, <2>1, <4>1 DEF Linked
      <4> QED BY <4>2, LinkedStable
    <3>5. \A m \in new : m = i \/ m \in linkList[n][l]
      BY <1>6, <2>1
    <3> QED BY <1>1, <1>6, <2>1, <3>1, <3>2, <3>3, <3>4, <3>5
  <2>2. CASE ~(n = node[i] /\ l = level[i])
    <3>1. linkList'[n][l] = linkList[n][l]
      BY <1>6, <2>2 DEF TypeOK
    <3> QED BY <1>1, <1>2, <3>1
  <2> QED BY <2>1, <2>2
<1> QED BY <1>3, <1>4, <1>5, <1>6, ListChanges

-----------------------------------------------------------------------------
(* The nodes a call comes across. *)

LEMMA SearchInit == Init => SearchInv
BY DEF Init, SearchInv, DescendOf, SearchOf, SelectOf, ConnectOf

\* A step of one call keeps what another call knows.
LEMMA SearchOther ==
    ASSUME TypeOK, ControlInv, SearchInv, NEW j \in Ids,
           NEW i \in Ids, Reserve(i) \/ Step(i), i # j
    PROVE  (DescendOf(j) /\ SearchOf(j) /\ SelectOf(j) /\ ConnectOf(j))'
<1> USE ConstantFacts
<1>1. /\ pc'[j] = pc[j] /\ level'[j] = level[j] /\ node'[j] = node[j]
      /\ element_levels_'[j] = element_levels_[j]
  BY Frame
<1>2. /\ visited'[j] = visited[j] /\ candidateSet'[j] = candidateSet[j]
      /\ top_candidates'[j] = top_candidates[j]
      /\ selectedNeighbors'[j] = selectedNeighbors[j]
  BY FrameSearch
<1>3. DescendOf(j) /\ SearchOf(j) /\ SelectOf(j) /\ ConnectOf(j)
  BY DEF SearchInv
<1>4. ASSUME NEW m \in Ids, pc[m] = "done"
      PROVE  pc'[m] = "done" /\ element_levels_'[m] = element_levels_[m]
  BY <1>4, DoneStable, Frame
<1>5. DescendOf(j)'
  <2>1. pc[j] = "descend" => node[j] \in Ids /\ level[j] \in Levels
    BY PlaceFacts DEF AtListLock
  <2> QED BY <1>1, <1>3, <2>1, LinkedStable DEF DescendOf
<1>6. SearchOf(j)'
  <2>1. pc[j] = "search" => level[j] \in Levels
    BY PlaceFacts DEF AtListLock
  <2>2. visited[j] \subseteq Ids /\ top_candidates[j] \subseteq Ids
    BY DEF TypeOK
  <2> QED BY <1>1, <1>2, <1>3, <1>4, <2>1, <2>2, LinkedStable DEF SearchOf
<1>7. SelectOf(j)'
  <2>1. top_candidates[j] \subseteq Ids
    BY DEF TypeOK
  <2> QED BY <1>1, <1>2, <1>3, <1>4, <2>1 DEF SelectOf
<1>8. ConnectOf(j)'
  <2> SUFFICES ASSUME pc[j] = "connect" PROVE ConnectOf(j)'
    BY <1>1 DEF ConnectOf
  <2>1. node[j] \in Ids /\ level[j] \in Levels /\ selectedNeighbors[j] \subseteq Ids
    BY PlaceFacts DEF AtListLock, TypeOK
  <2>2. ASSUME NEW m \in Ids, j \notin linkList[m][level[j]]
        PROVE  j \notin linkList'[m][level[j]]
    <3>1. CASE linkList' = [linkList EXCEPT ![i] = [k \in Levels |-> {}]]
      BY <2>1, <2>2, <3>1 DEF TypeOK
    <3>2. ASSUME pc[i] = "select", level[i] \in Levels, NEW S \in SUBSET top_candidates[i],
                 linkList' = [linkList EXCEPT ![i][level[i]] = S]
          PROVE  j \notin linkList'[m][level[j]]
      <4>1. j \notin S
        BY <3>2 DEF SearchInv, SelectOf
      <4> QED BY <2>1, <2>2, <3>2, <4>1 DEF TypeOK
    <3>3. ASSUME node[i] \in Ids, level[i] \in Levels,
                 NEW new \in SUBSET (linkList[node[i]][level[i]] \cup {i}),
                 linkList' = [linkList EXCEPT ![node[i]][level[i]] = new]
          PROVE  j \notin linkList'[m][level[j]]
      <4>1. j \in new => j \in linkList[node[i]][level[i]]
        OBVIOUS
      <4> QED BY <2>1, <2>2, <3>3, <4>1 DEF TypeOK
    <3> QED BY <2>2, <3>1, <3>2, <3>3, ListChanges
  <2> QED BY <1>1, <1>2, <1>3, <1>4, <2>1, <2>2 DEF ConnectOf
<1> QED BY <1>5, <1>6, <1>7, <1>8

\* Linked(m, l) after the step, for an m and an l of the state before it.
LinkedAfter(m, l) ==
    /\ l <= element_levels_'[m]
    /\ level'[m] < l \/ (level'[m] = l /\ pc'[m] = "connect")

LEMMA LinkedLater ==
    ASSUME TypeOK, ControlInv, NEW m \in Ids, NEW l \in Levels, Linked(m, l),
           NEW i \in Ids, Reserve(i) \/ Step(i)
    PROVE  LinkedAfter(m, l)
BY LinkedStable DEF Linked, LinkedAfter

\* A search that begins at a linked element other than the new one.
LEMMA BeginSearchOf ==
    ASSUME TypeOK, NEW i \in Ids, NEW l, NEW ep, ep # i, LinkedAfter(ep, l),
           BeginSearch(i, l, ep)
    PROVE  (DescendOf(i) /\ SearchOf(i) /\ SelectOf(i) /\ ConnectOf(i))'
BY DEF LinkedAfter, Linked, BeginSearch, TypeOK, DescendOf, SearchOf, SelectOf, ConnectOf

\* What a call knows when it has left the searches.
LEMMA NoSearch ==
    ASSUME NEW i \in Ids, pc'[i] \notin {"descend", "search", "select", "connect"}
    PROVE  (DescendOf(i) /\ SearchOf(i) /\ SelectOf(i) /\ ConnectOf(i))'
BY DEF DescendOf, SearchOf, SelectOf, ConnectOf

LEMMA InitElementSelf ==
    ASSUME TypeOK, ControlInv, EntryInv, NEW i \in Ids, InitElement(i)
    PROVE  (DescendOf(i) /\ SearchOf(i) /\ SelectOf(i) /\ ConnectOf(i))'
<1> USE ConstantFacts
<1>1. CASE node[i] = None
  <2>1. pc'[i] = "first"
    BY <1>1 DEF InitElement, TypeOK
  <2> QED BY <2>1, NoSearch
<1>2. CASE node[i] # None
  <2>1. pc[i] = "init" /\ i # 0
    BY <1>2 DEF InitElement, EntryInv, FirstElementInv
  <2>2. /\ node[i] \in Ids /\ level[node[i]] = -1
        /\ maxlevelcopy[i] <= element_levels_[node[i]]
        /\ maxlevelcopy[i] # None
    BY <1>2, <2>1 DEF EntryInv, EntryOf, TypeOK, Held, Working
  <2>3. level[i] = Top /\ maxlevelcopy[i] \in Levels
    BY <2>1, <2>2 DEF ControlInv, ControlOf, Pre, TypeOK
  <2>4. node[i] # i /\ Linked(node[i], maxlevelcopy[i])
    BY <2>2, <2>3, LevelTypes DEF Linked
  <2>5. LinkedAfter(node[i], maxlevelcopy[i])
    BY <2>2, <2>3, <2>4, LinkedLater DEF Step
  <2>6. CASE element_levels_[i] < maxlevelcopy[i]
    <3>1. pc'[i] = "descend" /\ level'[i] = maxlevelcopy[i] /\ node' = node
      BY <1>2, <2>6, LevelTypes DEF InitElement, TypeOK
    <3> QED BY <1>2, <2>5, <3>1
            DEF DescendOf, SearchOf, SelectOf, ConnectOf, Linked, LinkedAfter
  <2>7. CASE ~(element_levels_[i] < maxlevelcopy[i])
    <3>1. BeginSearch(i, maxlevelcopy[i], node[i])
      BY <1>2, <2>7 DEF InitElement
    <3> QED BY <2>4, <2>5, <3>1, BeginSearchOf
  <2> QED BY <2>6, <2>7
<1> QED BY <1>1, <1>2

LEMMA DescendSelf ==
    ASSUME TypeOK, ControlInv, LinkInv, SearchInv, NEW i \in Ids, Descend(i)
    PROVE  (DescendOf(i) /\ SearchOf(i) /\ SelectOf(i) /\ ConnectOf(i))'
<1> USE ConstantFacts
<1>1. /\ pc[i] = "descend" /\ node[i] \in Ids /\ level[i] \in Levels
      /\ node[i] \notin listLock
  BY PlaceFacts DEF Descend, Locked, AtListLock
<1>2. element_levels_[i] \in Levels /\ element_levels_[i] < level[i]
  BY <1>1 DEF ControlInv, ControlOf, TypeOK
<1>3. Linked(node[i], level[i])
  BY <1>1 DEF SearchInv, DescendOf
<1>4. pc[node[i]] = "done"
  BY <1>1, <1>3, LinkedFacts
<1>5. node[i] # i
  BY <1>1, <1>4
<1>6. ASSUME NEW cand \in linkList[node[i]][level[i]],
             node' = [node EXCEPT ![i] = cand], UNCHANGED <<pc, level>>
      PROVE  (DescendOf(i) /\ SearchOf(i) /\ SelectOf(i) /\ ConnectOf(i))'
  <2>1. cand \in Ids /\ Linked(cand, level[i])
    BY <1>1, <1>6, LinkMembers
  <2>2. LinkedAfter(cand, level[i])
    BY <1>1, <2>1, LinkedLater DEF Step
  <2>3. node'[i] = cand /\ cand # None
    BY <1>6, <2>1 DEF TypeOK
  <2> QED BY <1>1, <1>6, <2>2, <2>3
          DEF DescendOf, SearchOf, SelectOf, ConnectOf, LinkedAfter, Linked
<1>7. Linked(node[i], level[i] - 1) /\ level[i] - 1 \in Levels
  <2>1. level[node[i]] = -1 /\ level[i] <= element_levels_[node[i]]
    BY <1>1, <1>3, <1>4 DEF ControlInv, ControlOf, Ended, Linked
  <2>2. level[i] \in 0 .. MaxLevel
    BY <1>1 DEF Levels
  <2>3. element_levels_[i] \in 0 .. MaxLevel /\ element_levels_[node[i]] \in 0 .. MaxLevel
    BY <1>1, LevelTypes
  <2> QED BY <1>2, <2>1, <2>2, <2>3, HNSWAssumption DEF Linked, Levels
<1>8. LinkedAfter(node[i], level[i] - 1)
  BY <1>1, <1>7, LinkedLater DEF Step
<1>9. ASSUME level' = [level EXCEPT ![i] = @ - 1], UNCHANGED <<pc, node>>
      PROVE  (DescendOf(i) /\ SearchOf(i) /\ SelectOf(i) /\ ConnectOf(i))'
  <2>1. level'[i] = level[i] - 1 /\ node'[i] = node[i] /\ pc'[i] = "descend"
    BY <1>1, <1>9 DEF TypeOK
  <2> QED BY <1>1, <1>8, <2>1
          DEF DescendOf, SearchOf, SelectOf, ConnectOf, LinkedAfter, Linked
<1>10. CASE BeginSearch(i, level[i] - 1, node[i])
  BY <1>5, <1>8, <1>10, BeginSearchOf
<1> QED BY <1>6, <1>9, <1>10 DEF Descend, searchVars

LEMMA ExpandSelf ==
    ASSUME TypeOK, ControlInv, LinkInv, SearchInv, NEW i \in Ids, Expand(i)
    PROVE  (DescendOf(i) /\ SearchOf(i) /\ SelectOf(i) /\ ConnectOf(i))'
<1> USE ConstantFacts
<1> DEFINE l == level[i]
           new == linkList[node[i]][l] \ visited[i]
<1>1. pc[i] = "search" /\ node[i] \in Ids /\ l \in Levels /\ node[i] \notin listLock
  BY PlaceFacts DEF Expand, Locked, AtListLock
<1>2. /\ {node[i]} \cup candidateSet[i] \cup top_candidates[i] \subseteq visited[i]
      /\ \A m \in visited[i] : m # i /\ Linked(m, l)
      /\ \A m \in top_candidates[i] \ ({node[i]} \cup candidateSet[i]) : pc[m] = "done"
      /\ visited[i] \subseteq Ids
  BY <1>1 DEF SearchInv, SearchOf, TypeOK
<1>3. pc[node[i]] = "done"
  BY <1>1, <1>2, LinkedFacts
<1>4. ~Linked(i, l)
  BY <1>1, LevelTypes DEF Linked
<1>5. \A m \in new : m \in Ids /\ m # i /\ Linked(m, l)
  BY <1>1, <1>4, LinkMembers
<1>6. PICK acc, res :
        /\ acc \subseteq new /\ res \subseteq top_candidates[i] \cup acc
        /\ top_candidates' = [top_candidates EXCEPT ![i] = res]
        /\ \/ \E c \in candidateSet[i] \cup acc :
                /\ node' = [node EXCEPT ![i] = c]
                /\ candidateSet' = [candidateSet EXCEPT ![i] =
                                        (candidateSet[i] \cup acc) \ {c}]
                /\ UNCHANGED pc
           \/ /\ res \cap (candidateSet[i] \cup acc) = {}
              /\ pc' = [pc EXCEPT ![i] = "select"]
  <2>1. PICK acc \in Accepted(i, new) :
        \E res \in Nearest(top_candidates[i] \cup acc, ef_construction) :
          /\ top_candidates' = [top_candidates EXCEPT ![i] = res]
          /\ \/ \E c \in candidateSet[i] \cup acc :
                  /\ node' = [node EXCEPT ![i] = c]
                  /\ candidateSet' = [candidateSet EXCEPT ![i] =
                                          (candidateSet[i] \cup acc) \ {c}]
                  /\ UNCHANGED pc
             \/ /\ res \cap (candidateSet[i] \cup acc) = {}
                /\ pc' = [pc EXCEPT ![i] = "select"]
    BY Zenon DEF Expand, Scanned
  <2>2. acc \subseteq new
    BY <2>1 DEF Accepted
  <2> QED BY <2>1, <2>2, NearestSubset, Zenon
<1>7. /\ visited'[i] = visited[i] \cup new /\ level' = level
      /\ top_candidates'[i] = res
  BY <1>6 DEF Expand, TypeOK
<1> DEFINE queue == candidateSet[i] \cup acc
<1>8. \A m \in visited'[i] : m \in Ids /\ m # i /\ LinkedAfter(m, l)
  BY <1>1, <1>2, <1>5, <1>7, LinkedLater DEF Step
<1>9. \A m \in res \ queue : pc[m] = "done" /\ m \in visited[i]
  BY <1>2, <1>3, <1>6
<1>10. \A m \in Ids : pc[m] = "done" => pc'[m] = "done"
  BY DoneStable DEF Step
<1>11. ASSUME NEW c \in queue,
              node' = [node EXCEPT ![i] = c],
              candidateSet' = [candidateSet EXCEPT ![i] = queue \ {c}],
              UNCHANGED pc
       PROVE  (DescendOf(i) /\ SearchOf(i) /\ SelectOf(i) /\ ConnectOf(i))'
  <2>1. node'[i] = c /\ candidateSet'[i] = queue \ {c} /\ pc'[i] = "search"
    BY <1>1, <1>11 DEF TypeOK
  <2>2. {c} \cup (queue \ {c}) \cup res \subseteq visited'[i]
    BY <1>2, <1>6, <1>7, <1>11
  <2>3. \A m \in res \ ({c} \cup (queue \ {c})) : pc'[m] = "done"
    BY <1>2, <1>9, <1>10
  <2>4. \A m \in visited'[i] : m # i /\ LinkedAfter(m, l)
    BY <1>8
  <2> HIDE DEF queue, new
  <2> QED BY <1>7, <2>1, <2>2, <2>3, <2>4
          DEF DescendOf, SearchOf, SelectOf, ConnectOf, LinkedAfter, Linked
<1>12. ASSUME res \cap queue = {}, pc' = [pc EXCEPT ![i] = "select"]
       PROVE  (DescendOf(i) /\ SearchOf(i) /\ SelectOf(i) /\ ConnectOf(i))'
  <2>1. pc'[i] = "select"
    BY <1>12 DEF TypeOK
  <2>2. \A m \in res : m \in visited[i] /\ pc[m] = "done"
    BY <1>9, <1>12
  <2>3. \A m \in res : m # i /\ pc'[m] = "done" /\ l <= element_levels_'[m]
    BY <1>2, <1>7, <1>8, <1>10, <2>2 DEF LinkedAfter
  <2> HIDE DEF queue, new
  <2> QED BY <1>7, <2>1, <2>3 DEF DescendOf, SearchOf, SelectOf, ConnectOf
<1> QED BY <1>6, <1>11, <1>12

LEMMA SelectSelf ==
    ASSUME TypeOK, ControlInv, LinkInv, SearchInv, NEW i \in Ids, SelectNeighbors(i)
    PROVE  (DescendOf(i) /\ SearchOf(i) /\ SelectOf(i) /\ ConnectOf(i))'
<1> USE ConstantFacts
<1>1. pc[i] = "select" /\ level[i] \in Levels
  BY PlaceFacts DEF SelectNeighbors
<1>2. PICK S, n :
        /\ S \subseteq top_candidates[i] /\ n \in S
        /\ linkList' = [linkList EXCEPT ![i][level[i]] = S]
        /\ node' = [node EXCEPT ![i] = n]
        /\ selectedNeighbors' = [selectedNeighbors EXCEPT ![i] = S \ {n}]
  <2>1. PICK S \in Heuristic(top_candidates[i], M) : \E n \in S :
          /\ linkList' = [linkList EXCEPT ![i][level[i]] = S]
          /\ node' = [node EXCEPT ![i] = n]
          /\ selectedNeighbors' = [selectedNeighbors EXCEPT ![i] = S \ {n}]
    BY Zenon DEF SelectNeighbors
  <2> QED BY <2>1, HeuristicSubset, Zenon
<1>3. /\ pc'[i] = "connect" /\ node'[i] = n /\ selectedNeighbors'[i] = S \ {n}
      /\ level' = level /\ element_levels_' = element_levels_
  BY <1>2 DEF SelectNeighbors, TypeOK
<1>4. ASSUME NEW m \in S
      PROVE  /\ m \in Ids /\ m # i /\ pc'[m] = "done"
             /\ level[i] <= element_levels_[m]
  <2>1. m \in Ids /\ m # i /\ pc[m] = "done" /\ level[i] <= element_levels_[m]
    BY <1>1, <1>2, <1>4 DEF SearchInv, SelectOf, TypeOK
  <2> QED BY <2>1, DoneStable DEF Step
<1>5. ASSUME NEW m \in S PROVE i \notin linkList'[m][level[i]]
  <2>1. ~Linked(i, level[i])
    BY <1>1, LevelTypes DEF Linked
  <2>2. i \notin linkList[m][level[i]]
    BY <1>1, <1>4, <1>5, <2>1 DEF LinkInv
  <2>3. linkList'[m] = linkList[m]
    BY <1>2, <1>4, <1>5 DEF TypeOK
  <2> QED BY <2>2, <2>3
<1> QED BY <1>2, <1>3, <1>4, <1>5 DEF DescendOf, SearchOf, SelectOf, ConnectOf

LEMMA ConnectSelf ==
    ASSUME TypeOK, ControlInv, LinkInv, SearchInv, NEW i \in Ids, Connect(i)
    PROVE  (DescendOf(i) /\ SearchOf(i) /\ SelectOf(i) /\ ConnectOf(i))'
<1> USE ConstantFacts
<1>1. pc[i] = "connect" /\ node[i] \in Ids /\ level[i] \in Levels
  BY PlaceFacts DEF Connect, AtListLock
<1>2. /\ node[i] \notin selectedNeighbors[i] /\ selectedNeighbors[i] \subseteq Ids
      /\ \A m \in selectedNeighbors[i] \cup {node[i]} :
            /\ m # i /\ pc[m] = "done" /\ level[i] <= element_levels_[m]
            /\ i \notin linkList[m][level[i]]
  BY <1>1 DEF SearchInv, ConnectOf, TypeOK
<1>3. ASSUME NEW next \in selectedNeighbors[i],
             node' = [node EXCEPT ![i] = next],
             selectedNeighbors' = [selectedNeighbors EXCEPT ![i] = @ \ {next}],
             UNCHANGED <<pc, level>>
      PROVE  (DescendOf(i) /\ SearchOf(i) /\ SelectOf(i) /\ ConnectOf(i))'
  <2>1. /\ pc'[i] = "connect" /\ node'[i] = next /\ next \in Ids
        /\ selectedNeighbors'[i] = selectedNeighbors[i] \ {next}
        /\ element_levels_' = element_levels_
    BY <1>1, <1>2, <1>3 DEF Connect, TypeOK
  <2>2. PICK new : linkList' = [linkList EXCEPT ![node[i]][level[i]] = new]
    BY Zenon DEF Connect
  <2>3. \A m \in selectedNeighbors[i] : linkList'[m] = linkList[m]
    BY <1>1, <1>2, <2>2 DEF TypeOK
  <2>4. \A m \in selectedNeighbors[i] : pc'[m] = "done"
    BY <1>2, <1>3
  <2> QED BY <1>2, <1>3, <2>1, <2>3, <2>4
          DEF DescendOf, SearchOf, SelectOf, ConnectOf
<1>4. ASSUME level[i] > 0, BeginSearch(i, level[i] - 1, node[i])
      PROVE  (DescendOf(i) /\ SearchOf(i) /\ SelectOf(i) /\ ConnectOf(i))'
  <2>1. level[i] - 1 \in Levels /\ level[i] - 1 <= element_levels_[node[i]]
    <3>1. level[i] \in 0 .. MaxLevel /\ element_levels_[node[i]] \in 0 .. MaxLevel
      BY <1>1, LevelTypes DEF Levels
    <3>2. level[i] <= element_levels_[node[i]]
      BY <1>2
    <3> QED BY <1>4, <3>1, <3>2, HNSWAssumption DEF Levels
  <2>2. LinkedAfter(node[i], level[i] - 1)
    BY <1>1, <1>2, <2>1, LinkedFacts, LinkedLater DEF Step
  <2> QED BY <1>2, <1>4, <2>2, BeginSearchOf
<1>5. ASSUME pc' = [pc EXCEPT ![i] = "publish"]
      PROVE  (DescendOf(i) /\ SearchOf(i) /\ SelectOf(i) /\ ConnectOf(i))'
  BY <1>5, NoSearch DEF TypeOK
<1> QED BY <1>3, <1>4, <1>5 DEF Connect

\* A step of a call keeps what the call itself knows.
LEMMA SearchSelf ==
    ASSUME TypeOK, ControlInv, EntryInv, LinkInv, SearchInv,
           NEW i \in Ids, Reserve(i) \/ Step(i)
    PROVE  (DescendOf(i) /\ SearchOf(i) /\ SelectOf(i) /\ ConnectOf(i))'
<1>1. CASE InitElement(i)
  BY <1>1, InitElementSelf
<1>2. CASE Descend(i)
  BY <1>2, DescendSelf
<1>3. CASE Expand(i)
  BY <1>3, ExpandSelf
<1>4. CASE SelectNeighbors(i)
  BY <1>4, SelectSelf
<1>5. CASE Connect(i)
  BY <1>5, ConnectSelf
<1>6. CASE ~(InitElement(i) \/ Descend(i) \/ Expand(i) \/ SelectNeighbors(i) \/ Connect(i))
  <2>1. pc'[i] \notin {"descend", "search", "select", "connect"}
    BY <1>6 DEF Step, Reserve, LockElement, LockGlobal, ReadEntry, First, Publish,
                Return, TypeOK
  <2> QED BY <2>1, NoSearch
<1> QED BY <1>1, <1>2, <1>3, <1>4, <1>5, <1>6

-----------------------------------------------------------------------------
(* The invariant, and what it implies. *)

LEMMA InitIInv == Init => IInv
BY TypeInit, ControlInit, EntryInit, LinkInit, SearchInit DEF IInv

LEMMA StepIInv ==
    ASSUME IInv, NEW i \in Ids, Reserve(i) \/ Step(i)
    PROVE  IInv'
<1> USE DEF IInv
<1>1. TypeOK'
  BY TypeStep
<1>2. ControlInv'
  BY ControlStep
<1>3. EntryInv'
  <2>1. EntryPointInv'
    BY EntryPointStep
  <2>2. FirstElementInv'
    BY FirstElementStep
  <2>3. (global # None => pc[global] \in Held \ {"global"})'
    BY GlobalStep
  <2>4. \A j \in Ids \ {0} : EntryOf(j)'
    BY EntryOfStep
  <2> QED BY <2>1, <2>2, <2>3, <2>4 DEF EntryInv
<1>4. LinkInv'
  BY LinkStep
<1>5. SearchInv'
  <2>1. \A j \in Ids : (DescendOf(j) /\ SearchOf(j) /\ SelectOf(j) /\ ConnectOf(j))'
    BY SearchSelf, SearchOther
  <2> QED BY <2>1 DEF SearchInv
<1> QED BY <1>1, <1>2, <1>3, <1>4, <1>5

LEMMA StutterIInv == IInv /\ UNCHANGED vars => IInv'
BY DEF IInv, TypeOK, ControlInv, ControlOf, EntryInv, EntryPointInv,
   FirstElementInv, EntryOf, LinkInv, Linked, DegreeBound, SearchInv, DescendOf,
   SearchOf, SelectOf, ConnectOf, vars, index, locks, searchVars

LEMMA NextIInv == IInv /\ [Next]_vars => IInv'
BY StepIInv, StutterIInv DEF Next, LoopEnds

\* Every state the construction reaches satisfies the inductive invariant.
THEOREM Inductive == Spec => []IInv
<1>1. Init => IInv
  BY InitIInv
<1>2. IInv /\ [Next]_vars => IInv'
  BY NextIInv
<1> QED BY <1>1, <1>2, PTL DEF Spec

\* The variables of the index and of the calls keep their types.
THEOREM TypesHold == Spec => []TypeOK
<1>1. IInv => TypeOK
  BY DEF IInv
<1> QED BY <1>1, Inductive, PTL

LEMMA LinksFollow == IInv => LinksWellFormed
<1> SUFFICES ASSUME IInv, NEW n \in Ids, NEW l \in Levels, NEW m \in linkList[n][l]
             PROVE  /\ m # n
                    /\ {m, n} \subseteq dataReady
                    /\ l <= element_levels_[m] /\ l <= element_levels_[n]
  BY DEF LinksWellFormed
<1>1. m \in Ids /\ m # n /\ Linked(m, l) /\ Linked(n, l)
  BY LinkMembers DEF IInv
<1> QED BY <1>1, LinkedFacts DEF IInv

\* Links never lead to an element that lacks the level, is not initialised, or
\* is the one they start from.
THEOREM LinksHold == Spec => []LinksWellFormed
BY LinksFollow, Inductive, PTL

\* No list outgrows its memory block.
THEOREM DegreeBoundHolds == Spec => []DegreeBound
<1>1. IInv => DegreeBound
  BY DEF IInv, LinkInv
<1> QED BY <1>1, Inductive, PTL

\* An element's list is still blank when its call writes the chosen neighbours.
THEOREM BlankOwnListHolds == Spec => []BlankOwnList
<1>1. IInv => BlankOwnList
  <2> SUFFICES ASSUME IInv, NEW i \in Ids, pc[i] = "select"
               PROVE  linkList[i][level[i]] = {}
    BY DEF BlankOwnList
  <2>1. level[i] \in Levels
    BY PlaceFacts DEF IInv
  <2>2. ~Linked(i, level[i])
    BY <2>1, LevelTypes DEF Linked, IInv
  <2> QED BY <2>1, <2>2, LinkMembers DEF IInv
<1> QED BY <1>1, Inductive, PTL

\* Connecting only writes to the lists of elements whose calls have returned.
THEOREM SettledNeighboursHolds == Spec => []SettledNeighbours
<1>1. IInv => SettledNeighbours
  BY DEF IInv, SearchInv, ConnectOf, SettledNeighbours
<1> QED BY <1>1, Inductive, PTL

\* No element is appended to a list that already has it.
THEOREM LinkedOnceHolds == Spec => []LinkedOnce
<1>1. IInv => LinkedOnce
  BY DEF IInv, SearchInv, ConnectOf, LinkedOnce
<1> QED BY <1>1, Inductive, PTL

LEMMA ReadsFollow == IInv => ReadsAllocated
<1> SUFFICES ASSUME IInv, NEW i \in Ids, pc[i] \in AtListLock
             PROVE  node[i] \in dataReady /\ level[i] <= element_levels_[node[i]]
  BY DEF ReadsAllocated
<1>1. node[i] \in Ids /\ level[i] \in Levels
  BY PlaceFacts DEF IInv
<1>2. DescendOf(i) /\ SearchOf(i) /\ ConnectOf(i)
  BY DEF IInv, SearchInv
<1>3. CASE pc[i] = "descend"
  BY <1>1, <1>2, <1>3, LinkedFacts DEF DescendOf, IInv
<1>4. CASE pc[i] = "search"
  BY <1>1, <1>2, <1>4, LinkedFacts DEF SearchOf, IInv
<1>5. CASE pc[i] = "connect"
  BY <1>1, <1>2, <1>5, LinkedFacts DEF ConnectOf, IInv
<1> QED BY <1>3, <1>4, <1>5 DEF AtListLock

\* Every list a call is about to lock exists.
THEOREM ReadsAllocatedHolds == Spec => []ReadsAllocated
BY ReadsFollow, Inductive, PTL

-----------------------------------------------------------------------------
(* Waiting. *)

LEMMA RankRange ==
    ASSUME IInv, NEW p \in Ids
    PROVE  /\ Rank(p) \in Int /\ Rank(p) >= -2
           /\ pc[p] \in Held => Rank(p) <= 2 * Top + 2
           /\ pc[p] \in Held \ {"global"} => Rank(p) <= 2 * Top + 1
<1>1. level[p] \in -1 .. MaxLevel + 1 /\ Top = MaxLevel + 1 /\ MaxLevel \in Nat
  BY LevelTypes DEF IInv
<1>2. \/ pc[p] = "lock" /\ Rank(p) = 2 * Top + 3
      \/ pc[p] = "global" /\ Rank(p) = 2 * Top + 2
      \/ pc[p] \notin {"lock", "global"}
            /\ (Rank(p) = 2 * level[p] \/ Rank(p) = 2 * level[p] + 1)
  BY DEF Rank
<1> QED BY <1>1, <1>2 DEF Held

LEMMA WaitingDescends == IInv => WaitsDescend
<1> SUFFICES ASSUME IInv, NEW p \in Ids, NEW q \in Ids, WaitsFor(p, q)
             PROVE  Rank(q) < Rank(p)
  BY DEF WaitsDescend
<1>1. \A r \in Ids : (r \in listLock) <=> (pc[r] \in Held)
  BY DEF IInv, ControlInv, ControlOf
<1>2. CASE pc[p] = "lock" /\ q \in listLock
  <2>1. Rank(p) = 2 * Top + 3
    BY <1>2 DEF Rank
  <2> QED BY <1>1, <1>2, <2>1, RankRange, ConstantFacts
<1>3. CASE pc[p] = "global" /\ global = q
  <2>1. Rank(p) = 2 * Top + 2
    BY <1>3 DEF Rank
  <2>2. pc[q] \in Held \ {"global"}
    BY <1>3, ConstantFacts DEF IInv, EntryInv, Ids
  <2> QED BY <2>1, <2>2, RankRange, ConstantFacts
<1>4. CASE pc[p] \in AtListLock /\ node[p] = q /\ q \in listLock
  <2>1. level[p] \in Levels
    BY <1>4, PlaceFacts DEF IInv
  <2>2. pc[p] # "connect"
    BY <1>1, <1>4 DEF IInv, SearchInv, ConnectOf, Held, Working
  <2>3. Linked(q, level[p])
    BY <1>4, <2>2 DEF IInv, SearchInv, DescendOf, SearchOf, AtListLock
  <2>4. Rank(p) = 2 * level[p] + 1
    BY <1>4, <2>2 DEF Rank, AtListLock
  <2>5. pc[q] \notin Pre
    BY <1>4, <2>3, LevelTypes DEF Linked, IInv, ControlInv, ControlOf
  <2>6. level[q] \in Int /\ level[p] \in Int
    BY <2>1, LevelTypes DEF IInv, Levels
  <2>7. CASE pc[q] = "connect"
    BY <2>3, <2>4, <2>6, <2>7 DEF Linked, Rank
  <2>8. CASE pc[q] # "connect"
    <3>1. level[q] < level[p] /\ Rank(q) = 2 * level[q] + 1
      BY <2>3, <2>5, <2>8 DEF Linked, Rank, Pre
    <3> QED BY <2>4, <2>6, <3>1
  <2> QED BY <2>7, <2>8
<1> QED BY <1>2, <1>3, <1>4 DEF WaitsFor

LEMMA NoCircleFollows == IInv => NoCircularWait
<1> SUFFICES ASSUME IInv, NEW S \in SUBSET Ids, S # {}
             PROVE  \E p \in S : \A q \in S : ~WaitsFor(p, q)
  BY DEF NoCircularWait
<1> DEFINE ranks == {Rank(p) + 2 : p \in S}
<1>1. ranks \subseteq Nat /\ ranks # {}
  BY RankRange
<1>2. PICK x \in ranks : \A y \in ranks : ~(<<y, x>> \in OpToRel(<, Nat))
  <2> HIDE DEF ranks
  <2> QED BY <1>1, NatLessThanWellFounded, WFMin
<1>3. \A y \in ranks : ~(y < x)
  <2> HIDE DEF ranks
  <2> QED BY <1>1, <1>2 DEF OpToRel
<1>4. PICK p \in S : x = Rank(p) + 2
  BY <1>2
<1>5. ASSUME NEW q \in S, WaitsFor(p, q) PROVE FALSE
  <2>1. Rank(q) < Rank(p)
    BY <1>4, <1>5, WaitingDescends DEF WaitsDescend
  <2>2. Rank(q) + 2 \in ranks /\ Rank(q) \in Int /\ Rank(p) \in Int
    BY <1>4, <1>5, RankRange
  <2> QED BY <1>3, <1>4, <2>1, <2>2
<1> QED BY <1>4, <1>5

\* No set of calls can wait for one another: a call of the set whose rank is
\* least waits for none of them.
THEOREM NoCircularWaitHolds == Spec => []NoCircularWait
BY NoCircleFollows, Inductive, PTL

-----------------------------------------------------------------------------
(* The entry point. *)

\* The entry point moves only to higher elements, linked at all their levels.
THEOREM EntryRisesHolds == Spec => EntryRises
<1> DEFINE Rises == enterpoint_node_' # enterpoint_node_ =>
                       /\ maxlevel_' > maxlevel_
                       /\ element_levels_[enterpoint_node_'] = maxlevel_'
                       /\ level'[enterpoint_node_'] = -1
<1>1. ASSUME IInv, NEW i \in Ids, Reserve(i) \/ Step(i) PROVE Rises
  <2> USE <1>1, ConstantFacts DEF IInv
  <2>1. CASE First(i)
    <3>1. i = 0 /\ enterpoint_node_ = None
      BY <2>1 DEF First, EntryInv, FirstElementInv, Pre
    <3>2. maxlevel_ = -1 /\ element_levels_[i] \in 0 .. MaxLevel
      BY <3>1, LevelTypes DEF EntryInv, EntryPointInv
    <3>3. /\ enterpoint_node_' = i /\ maxlevel_' = element_levels_[i]
          /\ level'[i] = -1
      BY <2>1, <3>1 DEF First, TypeOK
    <3> QED BY <3>2, <3>3
  <2>2. CASE Publish(i)
    <3>1. pc[i] = "publish" /\ level' = level
      BY <2>2 DEF Publish
    <3>2. level[i] = -1
      BY <3>1 DEF ControlInv, ControlOf, Ended
    <3>3. CASE element_levels_[i] > maxlevelcopy[i]
      <4>1. enterpoint_node_' = i /\ maxlevel_' = element_levels_[i]
        BY <2>2, <3>3 DEF Publish
      <4>2. CASE i # 0
        <5>1. maxlevel_ = maxlevelcopy[i]
          BY <3>1, <3>3, <4>2 DEF EntryInv, EntryOf, Held, Working
        <5> QED BY <3>1, <3>2, <3>3, <4>1, <5>1
      <4>3. CASE i = 0
        BY <3>1, <4>1, <4>3 DEF EntryInv, FirstElementInv
      <4> QED BY <4>2, <4>3
    <3>4. CASE ~(element_levels_[i] > maxlevelcopy[i])
      BY <2>2, <3>4 DEF Publish
    <3> QED BY <3>3, <3>4
  <2>3. CASE ~First(i) /\ ~Publish(i)
    BY <2>3 DEF Step, Reserve, LockElement, LockGlobal, ReadEntry, InitElement,
       Descend, Expand, SelectNeighbors, Connect, Return, index
  <2> QED BY <2>1, <2>2, <2>3
<1>2. IInv /\ [Next]_vars => [Rises]_vars
  BY <1>1 DEF Next, LoopEnds, vars
<1> QED BY <1>2, Inductive, PTL DEF Spec, EntryRises

-----------------------------------------------------------------------------
(* Neighbours. *)

\* The lists that must not be empty, in the states IInv describes.
Neighboured ==
    \A i \in Ids : \A l \in Levels :
        0 < i /\ Linked(i, l) /\ l <= maxlevelcopy[i] => linkList[i][l] # {}

LEMMA LinkedNotPre ==
    ASSUME TypeOK, ControlInv, NEW m \in Ids, NEW l \in Levels, Linked(m, l)
    PROVE  pc[m] \notin Pre
<1>1. /\ l \in 0 .. MaxLevel /\ MaxLevel \in Nat /\ Top = MaxLevel + 1
      /\ level[m] \in -1 .. MaxLevel + 1
  BY LevelTypes DEF Levels
<1>2. pc[m] \in Pre => level[m] = Top
  BY DEF ControlInv, ControlOf
<1> QED BY <1>1, <1>2 DEF Linked, Pre

\* A list that is not empty stays so once its element is linked.
LEMMA StaysNonEmpty ==
    ASSUME IInv, NEW i \in Ids, NEW l \in Levels, linkList[i][l] # {}, Linked(i, l),
           NEW p \in Ids, Reserve(p) \/ Step(p)
    PROVE  linkList'[i][l] # {}
<1> USE DEF TypeOK
<1>0. TypeOK /\ ControlInv /\ SearchInv
  BY DEF IInv
<1>1. pc[i] # "init"
  BY <1>0, LinkedNotPre DEF Pre
<1>2. CASE pc[p] = "init" /\ linkList' = [linkList EXCEPT ![p] = [k \in Levels |-> {}]]
  BY <1>0, <1>1, <1>2
<1>3. ASSUME level[p] \in Levels, NEW S \in SUBSET top_candidates[p], S # {},
             linkList' = [linkList EXCEPT ![p][level[p]] = S]
      PROVE  linkList'[i][l] # {}
  BY <1>0, <1>3
<1>4. ASSUME node[p] \in Ids, level[p] \in Levels,
             NEW new \in SUBSET (linkList[node[p]][level[p]] \cup {p}), new # {},
             linkList' = [linkList EXCEPT ![node[p]][level[p]] = new]
      PROVE  linkList'[i][l] # {}
  BY <1>0, <1>4
<1> HIDE DEF TypeOK
<1> QED BY <1>0, <1>2, <1>3, <1>4, ListChanges

\* The step that links an element at a level the entry point had when its call
\* started writes neighbours there.
LEMMA LinkedWithNeighbours ==
    ASSUME IInv, NEW i \in Ids, 0 < i, NEW l \in Levels, ~Linked(i, l), Linked(i, l)',
           l <= maxlevelcopy'[i],
           NEW p \in Ids, Reserve(p) \/ Step(p)
    PROVE  linkList'[i][l] # {}
<1>0. /\ TypeOK /\ ControlInv /\ EntryInv
      /\ l \in 0 .. MaxLevel /\ level[i] \in -1 .. MaxLevel + 1
      /\ element_levels_[i] \in 0 .. MaxLevel /\ MaxLevel \in Nat
  BY LevelTypes DEF IInv, Levels
<1>1. p = i
  BY <1>0, Frame DEF Linked
<1>2. CASE SelectNeighbors(i)
  <2>1. /\ level'[i] = level[i] /\ level[i] \in Levels
        /\ element_levels_' = element_levels_
    BY <1>0, <1>2, PlaceFacts DEF SelectNeighbors, IInv
  <2>2. l = level[i]
    BY <1>0, <2>1 DEF Linked
  <2>3. PICK S : S # {} /\ linkList' = [linkList EXCEPT ![i][level[i]] = S]
    BY <1>2, Zenon DEF SelectNeighbors
  <2> QED BY <1>0, <2>1, <2>2, <2>3 DEF TypeOK
<1>3. CASE Connect(i)
  <2>1. pc[i] = "connect" /\ level[i] \in 0 .. MaxLevel
    BY <1>0, <1>3, PlaceFacts DEF Connect, IInv, AtListLock, Levels
  <2>2. /\ element_levels_' = element_levels_
        /\ \/ level'[i] = level[i]
           \/ level'[i] = level[i] - 1 /\ pc'[i] = "search"
           \/ level'[i] = -1 /\ level[i] = 0
    BY <1>0, <1>3, <2>1 DEF Connect, BeginSearch, TypeOK
  <2> QED BY <1>0, <2>1, <2>2 DEF Linked
<1>4. CASE Descend(i)
  <2>1. /\ pc[i] = "descend" /\ element_levels_[i] < level[i]
    BY <1>0, <1>4 DEF Descend, ControlInv, ControlOf
  <2>2. /\ element_levels_' = element_levels_
        /\ \/ level'[i] = level[i]
           \/ level'[i] = level[i] - 1
    BY <1>0, <1>4 DEF Descend, BeginSearch, TypeOK, index
  <2>3. pc'[i] \in {"descend", "search"}
    BY <1>0, <1>4, <2>1 DEF Descend, BeginSearch, TypeOK
  <2> QED BY <1>0, <2>1, <2>2, <2>3 DEF Linked
<1>5. CASE InitElement(i)
  <2>1. /\ pc[i] = "init" /\ maxlevelcopy' = maxlevelcopy
        /\ pc'[i] \in {"first", "descend", "search"}
    BY <1>0, <1>5 DEF InitElement, BeginSearch, TypeOK
  <2>2. node[i] # None
    BY <1>0, <2>1 DEF EntryInv, EntryOf, Ids
  <2>3. level'[i] = maxlevelcopy[i]
    BY <1>0, <1>5, <2>2 DEF InitElement, BeginSearch, TypeOK
  <2>4. maxlevelcopy[i] \in -1 .. MaxLevel
    BY <1>0, LevelTypes
  <2> QED BY <1>0, <2>1, <2>3, <2>4 DEF Linked
<1>6. CASE First(i)
  BY <1>0, <1>6 DEF First, EntryInv, FirstElementInv, Ids
<1>7. CASE ~(SelectNeighbors(i) \/ Connect(i) \/ Descend(i) \/ InitElement(i) \/ First(i))
  <2>1. level' = level /\ pc'[i] # "connect"
    <3> USE <1>0, <1>1 DEF TypeOK
    <3>1. CASE Reserve(i)
      BY <3>1 DEF Reserve
    <3>2. CASE LockElement(i)
      BY <3>2 DEF LockElement
    <3>3. CASE LockGlobal(i)
      BY <3>3 DEF LockGlobal
    <3>4. CASE ReadEntry(i)
      BY <3>4 DEF ReadEntry
    <3>5. CASE Expand(i)
      BY <3>5 DEF Expand
    <3>6. CASE Publish(i)
      BY <3>6 DEF Publish
    <3>7. CASE Return(i)
      BY <3>7 DEF Return
    <3> QED BY <1>7, <3>1, <3>2, <3>3, <3>4, <3>5, <3>6, <3>7 DEF Step
  <2>2. pc[i] # "lock" => element_levels_' = element_levels_
    BY <1>0, <1>1, Frame
  <2>3. pc[i] = "lock" => level[i] = MaxLevel + 1
    BY <1>0, LevelTypes DEF ControlInv, ControlOf, Pre
  <2> QED BY <1>0, <2>1, <2>2, <2>3 DEF Linked
<1> QED BY <1>2, <1>3, <1>4, <1>5, <1>6, <1>7

\* Pruning never takes the last neighbour of an element.
THEOREM KeepsNeighbourHolds == Spec => []KeepsNeighbour
<1>1. Init => Neighboured
  BY ConstantFacts DEF Init, Neighboured, Linked, Levels, Top
<1>2. ASSUME IInv, Neighboured, NEW p \in Ids, Reserve(p) \/ Step(p)
      PROVE  Neighboured'
  <2> SUFFICES ASSUME NEW i \in Ids, NEW l \in Levels,
                      0 < i, Linked(i, l)', l <= maxlevelcopy'[i]
               PROVE  linkList'[i][l] # {}
    BY DEF Neighboured
  <2>1. CASE Linked(i, l)
    <3>1. pc[i] # "global"
      BY <1>2, <2>1, LinkedNotPre DEF IInv, Pre
    <3>2. maxlevelcopy'[i] = maxlevelcopy[i]
      BY <1>2, <3>1 DEF IInv, TypeOK, Step, Reserve, LockElement, LockGlobal, ReadEntry,
         InitElement, First, Descend, Expand, SelectNeighbors, Connect, Publish, Return
    <3> QED BY <1>2, <2>1, <3>2, StaysNonEmpty DEF Neighboured
  <2>2. CASE ~Linked(i, l)
    BY <1>2, <2>2, LinkedWithNeighbours
  <2> QED BY <2>1, <2>2
<1>3. ASSUME Neighboured, UNCHANGED vars
      PROVE  Neighboured'
  BY <1>3 DEF Neighboured, Linked, vars, index
<1>4. IInv /\ Neighboured /\ [Next]_vars => Neighboured'
  BY <1>2, <1>3 DEF Next, LoopEnds
<1>5. Neighboured => KeepsNeighbour
  BY DEF Neighboured, KeepsNeighbour, Linked
<1> QED BY <1>1, <1>4, <1>5, Inductive, PTL DEF Spec

-----------------------------------------------------------------------------
(* Locked lists. *)

\* While a call is in progress nobody else writes to the lists of its element.
THEOREM LockedListsStableHolds == Spec => LockedListsStable
<1> DEFINE Own(n) == \/ pc[n] = "init" /\ pc'[n] # "init"
                     \/ pc[n] = "select" /\ pc'[n] = "connect"
           Stable == \A n \in listLock : linkList'[n] # linkList[n] => Own(n)
<1>1. ASSUME IInv, NEW p \in Ids, Reserve(p) \/ Step(p),
             NEW n \in listLock, linkList'[n] # linkList[n]
      PROVE  Own(n)
  <2>0. TypeOK /\ n \in Ids
    BY <1>1 DEF IInv, TypeOK
  <2>1. CASE InitElement(p)
    <3>1. n = p /\ pc[p] = "init"
      BY <1>1, <2>0, <2>1 DEF InitElement, TypeOK
    <3>2. pc'[p] \in {"first", "descend", "search"}
      BY <2>0, <2>1 DEF InitElement, BeginSearch, TypeOK
    <3> QED BY <3>1, <3>2
  <2>2. CASE SelectNeighbors(p)
    <3>1. PICK S : linkList' = [linkList EXCEPT ![p][level[p]] = S]
      BY <2>2, Zenon DEF SelectNeighbors
    <3>2. n = p
      BY <1>1, <2>0, <3>1 DEF TypeOK
    <3> QED BY <2>0, <2>2, <3>2 DEF SelectNeighbors, TypeOK
  <2>3. CASE Connect(p)
    <3>1. PICK new : linkList' = [linkList EXCEPT ![node[p]][level[p]] = new]
      BY <2>3, Zenon DEF Connect
    <3>2. n = node[p]
      BY <1>1, <2>0, <3>1 DEF TypeOK
    <3> QED BY <1>1, <2>3, <3>2 DEF Connect, Locked
  <2>4. CASE ~InitElement(p) /\ ~SelectNeighbors(p) /\ ~Connect(p)
    BY <1>1, <2>4 DEF Step, Reserve, LockElement, LockGlobal, ReadEntry, First, Descend,
                 Expand, Publish, Return, index
  <2> QED BY <2>1, <2>2, <2>3, <2>4
<1>2. IInv /\ [Next]_vars => [Stable]_vars
  BY <1>1 DEF Next, LoopEnds
<1> QED BY <1>2, Inductive, PTL DEF Spec, LockedListsStable
=============================================================================
