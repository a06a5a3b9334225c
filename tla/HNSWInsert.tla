----------------------------- MODULE HNSWInsert -----------------------------
(***************************************************************************)
(* Concurrent construction of the HNSW graph: HierarchicalNSW::addPoint of *)
(* SeedSelections/include/hnswlib/hnswalg.h, called by the parallel loop   *)
(* add_data of SeedSelections/main.cpp.                                    *)
(*                                                                         *)
(* A call of addPoint is named by the internal id it reserves, so an id i  *)
(* is both a node of the graph and the call that inserts it.  Distances    *)
(* are not modelled: wherever the code compares two, every outcome is      *)
(* allowed, which covers every data set and every distance function.       *)
(*                                                                         *)
(* A critical section under link_list_locks_[n] that takes no further lock *)
(* is one action, enabled when nobody holds that lock; a lock kept while   *)
(* waiting for another one is a variable: listLock and global.             *)
(*                                                                         *)
(* A definition headed "Variant" is not the code: it is the definition     *)
(* after it with a mistake, to see that a property notices it.             *)
(***************************************************************************)
EXTENDS Integers, FiniteSets

CONSTANTS
    MaxElements,     \* max_elements_
    M,               \* M_ (and maxM_)
    EfConstruction,  \* the ef_construction argument of the constructor
    MaxLevel,        \* bound on what getRandomLevel returns
    UpdateLocks,     \* max_update_element_locks
    NumThreads       \* OpenMP threads of the parallel loop

ASSUME HNSWAssumption ==
    /\ MaxElements \in Nat \ {0}
    /\ M \in Nat \ {0}
    /\ EfConstruction \in Nat
    /\ MaxLevel \in Nat
    /\ UpdateLocks \in Nat \ {0}
    /\ NumThreads \in Nat \ {0}

Ids == 0 .. MaxElements - 1
Levels == 0 .. MaxLevel
Top == MaxLevel + 1        \* "no level reached yet"
None == -1                 \* enterpoint_node_ and maxlevel_ before the first element

maxM(l) == IF l = 0 THEN 2 * M ELSE M     \* maxM0_ and maxM_

ef_construction == IF EfConstruction > M THEN EfConstruction ELSE M

VARIABLES
    \* the index
    cur_element_count,
    element_levels_,     \* level of each element, 0 until it is drawn
    linkList,            \* linkList[n][l]: the neighbours of n at level l
    dataReady,           \* ids whose vector, label and lists are initialised
    enterpoint_node_,
    maxlevel_,
    \* the locks
    listLock,            \* ids whose link_list_locks_ mutex their own call holds
    global,              \* the call that holds `global`, or None
    \* the local variables of each call
    pc,
    maxlevelcopy,
    level,               \* the level a call works at; -1 below level 0
    node,                \* currObj / curNodeNum / selectedNeighbors[idx]
    visited,             \* visited_array, and the nodes a descent has been at
    candidateSet,
    top_candidates,
    selectedNeighbors    \* the neighbours that are still to be linked back

index == <<cur_element_count, element_levels_, linkList, dataReady,
           enterpoint_node_, maxlevel_>>
locks == <<listLock, global>>
searchVars == <<visited, candidateSet, top_candidates>>
vars == <<index, locks, pc, maxlevelcopy, level, node, searchVars,
          selectedNeighbors>>

Working == {"lock", "global", "entry", "init", "first", "descend", "search",
            "select", "connect", "publish", "return"}

Init ==
    /\ cur_element_count = 0
    /\ element_levels_ = [i \in Ids |-> 0]
    /\ linkList = [i \in Ids |-> [l \in Levels |-> {}]]
    /\ dataReady = {}
    /\ enterpoint_node_ = None
    /\ maxlevel_ = None
    /\ listLock = {}
    /\ global = None
    /\ pc = [i \in Ids |-> "idle"]
    /\ maxlevelcopy = [i \in Ids |-> None]
    /\ level = [i \in Ids |-> Top]
    /\ node = [i \in Ids |-> None]
    /\ visited = [i \in Ids |-> {}]
    /\ candidateSet = [i \in Ids |-> {}]
    /\ top_candidates = [i \in Ids |-> {}]
    /\ selectedNeighbors = [i \in Ids |-> {}]

-----------------------------------------------------------------------------
(* What the code computes from distances. *)

\* Variant: no candidate need pass the distance test.
HeuristicMayDropAll(C, m) == {S \in SUBSET C : Cardinality(S) <= m}

\* getNeighborsByHeuristic2, getNeighborsByRNGALPHA, getNeighborsByANGLE and
\* getNeighbor: fewer than m candidates are returned as they are; of more, the
\* nearest and at most m - 1 others stay.
Heuristic(C, m) ==
    IF Cardinality(C) < m
    THEN {C}
    ELSE {S \in SUBSET C : S # {} /\ Cardinality(S) <= m}

\* A priority queue of bounded size pops its farthest members.
Nearest(C, m) ==
    IF Cardinality(C) <= m THEN {C} ELSE {S \in SUBSET C : Cardinality(S) = m}

\* The neighbours a search pushes: any nearer than the farthest result, and
\* all of them while there is room.
Accepted(i, new) ==
    {acc \in SUBSET new :
        \/ acc = new
        \/ Cardinality(top_candidates[i] \cup acc) >= ef_construction}

\* Variant: the search stops as soon as the results are full.
AnyResult(res, queue) == TRUE

\* The search is over when the nearest candidate left is farther than every
\* result: no result is still to be scanned.
Scanned(res, queue) == res \cap queue = {}

-----------------------------------------------------------------------------
(* Locks and list sizes. *)

\* Variant: lists are read and written without their locks.
NeverLocked(n) == FALSE

\* link_list_locks_[n] is held by the call that inserts n.
Locked(n) == n \in listLock

\* Variant: an off-by-one in the test of sz_link_list_other.
HasRoomOrFull(n, l) == Cardinality(linkList[n][l]) <= maxM(l)

HasRoom(n, l) == Cardinality(linkList[n][l]) < maxM(l)

-----------------------------------------------------------------------------
(* Reserving an id and reading the entry point. *)

\* add_data inserts element 0 alone, then runs the parallel loop.
Reserve(i) ==
    /\ pc[i] = "idle"
    /\ i = cur_element_count
    /\ i = 0 \/ pc[0] = "done"
    /\ Cardinality({j \in Ids : pc[j] \in Working}) < NumThreads
    /\ cur_element_count' = cur_element_count + 1
    /\ pc' = [pc EXCEPT ![i] = "lock"]
    /\ UNCHANGED <<element_levels_, linkList, dataReady, enterpoint_node_,
                   maxlevel_, locks, maxlevelcopy, level, node, searchVars,
                   selectedNeighbors>>

\* Variant: lock_el is released once the level is drawn.
LockElementBriefly(i) ==
    /\ pc[i] = "lock"
    /\ \E curlevel \in Levels :
          element_levels_' = [element_levels_ EXCEPT ![i] = curlevel]
    /\ pc' = [pc EXCEPT ![i] = "global"]
    /\ UNCHANGED <<cur_element_count, linkList, dataReady, enterpoint_node_,
                   maxlevel_, locks, maxlevelcopy, level, node, searchVars,
                   selectedNeighbors>>

\* The update lock (shared by the ids that are equal modulo its table) and the
\* element's own list lock; both are kept until the call returns.
LockElement(i) ==
    /\ pc[i] = "lock"
    /\ \A j \in listLock : j % UpdateLocks # i % UpdateLocks
    /\ listLock' = listLock \cup {i}
    /\ \E curlevel \in Levels :
          element_levels_' = [element_levels_ EXCEPT ![i] = curlevel]
    /\ pc' = [pc EXCEPT ![i] = "global"]
    /\ UNCHANGED <<cur_element_count, linkList, dataReady, enterpoint_node_,
                   maxlevel_, global, maxlevelcopy, level, node, searchVars,
                   selectedNeighbors>>

\* Variant: `global` is released whatever the level of the new element.
LockGlobalBriefly(i) ==
    /\ pc[i] = "global"
    /\ maxlevelcopy' = [maxlevelcopy EXCEPT ![i] = maxlevel_]
    /\ pc' = [pc EXCEPT ![i] = "entry"]
    /\ UNCHANGED <<index, locks, level, node, searchVars, selectedNeighbors>>

\* `global` is kept by a call that will have to move the entry point.
LockGlobal(i) ==
    /\ pc[i] = "global"
    /\ global = None
    /\ maxlevelcopy' = [maxlevelcopy EXCEPT ![i] = maxlevel_]
    /\ global' = IF element_levels_[i] <= maxlevel_ THEN None ELSE i
    /\ pc' = [pc EXCEPT ![i] = "entry"]
    /\ UNCHANGED <<index, listLock, level, node, searchVars, selectedNeighbors>>

\* Variant: the search starts at any element that has been counted.
ReadEntryAnywhere(i) ==
    /\ pc[i] = "entry"
    /\ \E ep \in 0 .. cur_element_count - 1 :
          node' = [node EXCEPT ![i] = IF i = 0 THEN None ELSE ep]
    /\ pc' = [pc EXCEPT ![i] = "init"]
    /\ UNCHANGED <<index, locks, maxlevelcopy, level, searchVars,
                   selectedNeighbors>>

\* enterpoint_node_ is read after `global` may have been released.
ReadEntry(i) ==
    /\ pc[i] = "entry"
    /\ node' = [node EXCEPT ![i] = enterpoint_node_]
    /\ pc' = [pc EXCEPT ![i] = "init"]
    /\ UNCHANGED <<index, locks, maxlevelcopy, level, searchVars,
                   selectedNeighbors>>

\* searchBaseLayer starts with its entry point as the only candidate, which
\* the first iteration pops.
BeginSearch(i, l, ep) ==
    /\ pc' = [pc EXCEPT ![i] = "search"]
    /\ level' = [level EXCEPT ![i] = l]
    /\ node' = [node EXCEPT ![i] = ep]
    /\ visited' = [visited EXCEPT ![i] = {ep}]
    /\ candidateSet' = [candidateSet EXCEPT ![i] = {}]
    /\ top_candidates' = [top_candidates EXCEPT ![i] = {ep}]

\* Variant: searching starts at maxlevelcopy, not at min(curlevel, maxlevelcopy).
InitElementTooHigh(i) ==
    /\ pc[i] = "init"
    /\ dataReady' = dataReady \cup {i}
    /\ \/ /\ node[i] = None
          /\ pc' = [pc EXCEPT ![i] = "first"]
          /\ UNCHANGED <<level, node, searchVars>>
       \/ /\ node[i] # None
          /\ BeginSearch(i, maxlevelcopy[i], node[i])
    /\ UNCHANGED <<cur_element_count, element_levels_, linkList,
                   enterpoint_node_, maxlevel_, locks, maxlevelcopy,
                   selectedNeighbors>>

\* memset and memcpy of the element, then the way on that the levels decide.
InitElement(i) ==
    /\ pc[i] = "init"
    /\ dataReady' = dataReady \cup {i}
    /\ linkList' = [linkList EXCEPT ![i] = [l \in Levels |-> {}]]
    /\ \/ /\ node[i] = None
          /\ pc' = [pc EXCEPT ![i] = "first"]
          /\ UNCHANGED <<level, node, searchVars>>
       \/ /\ node[i] # None
          /\ element_levels_[i] < maxlevelcopy[i]
          /\ pc' = [pc EXCEPT ![i] = "descend"]
          /\ level' = [level EXCEPT ![i] = maxlevelcopy[i]]
          /\ visited' = [visited EXCEPT ![i] = {node[i]}]
          /\ UNCHANGED <<node, candidateSet, top_candidates>>
       \/ /\ node[i] # None
          /\ element_levels_[i] >= maxlevelcopy[i]
          /\ BeginSearch(i, maxlevelcopy[i], node[i])
    /\ UNCHANGED <<cur_element_count, element_levels_, enterpoint_node_,
                   maxlevel_, locks, maxlevelcopy, selectedNeighbors>>

\* "Do nothing for the first element": it is the entry point.
First(i) ==
    /\ pc[i] = "first"
    /\ enterpoint_node_' = 0
    /\ maxlevel_' = element_levels_[i]
    /\ level' = [level EXCEPT ![i] = -1]
    /\ pc' = [pc EXCEPT ![i] = "publish"]
    /\ UNCHANGED <<cur_element_count, element_levels_, linkList, dataReady,
                   locks, maxlevelcopy, node, searchVars, selectedNeighbors>>

-----------------------------------------------------------------------------
(* Searching. *)

\* Greedy descent: one pass over the list of currObj, under its lock.  The
\* distance of currObj decreases at each move, so no node is come to twice.
Descend(i) ==
    /\ pc[i] = "descend"
    /\ ~Locked(node[i])
    /\ \/ \E cand \in linkList[node[i]][level[i]] \ visited[i] :
             /\ node' = [node EXCEPT ![i] = cand]
             /\ visited' = [visited EXCEPT ![i] = @ \cup {cand}]
             /\ UNCHANGED <<pc, level, candidateSet, top_candidates>>
       \/ /\ level[i] - 1 > element_levels_[i]
          /\ level' = [level EXCEPT ![i] = @ - 1]
          /\ UNCHANGED <<pc, node, searchVars>>
       \/ /\ level[i] - 1 = element_levels_[i]
          /\ BeginSearch(i, level[i] - 1, node[i])
    /\ UNCHANGED <<index, locks, maxlevelcopy, selectedNeighbors>>

\* searchBaseLayer: the list of the popped candidate is scanned under its lock,
\* then the nearest candidate is popped, unless every result has been scanned.
Expand(i) ==
    /\ pc[i] = "search"
    /\ ~Locked(node[i])
    /\ LET new == linkList[node[i]][level[i]] \ visited[i]
       IN  /\ visited' = [visited EXCEPT ![i] = @ \cup new]
           /\ \E acc \in Accepted(i, new) :
              \E res \in Nearest(top_candidates[i] \cup acc, ef_construction) :
              LET queue == candidateSet[i] \cup acc
              IN  /\ top_candidates' = [top_candidates EXCEPT ![i] = res]
                  /\ \/ \E c \in queue :
                          /\ node' = [node EXCEPT ![i] = c]
                          /\ candidateSet' = [candidateSet EXCEPT ![i] = queue \ {c}]
                          /\ UNCHANGED pc
                     \/ /\ Scanned(res, queue)
                        /\ candidateSet' = [candidateSet EXCEPT ![i] = {}]
                        /\ pc' = [pc EXCEPT ![i] = "select"]
                        /\ UNCHANGED node
    /\ UNCHANGED <<index, locks, maxlevelcopy, level, selectedNeighbors>>

-----------------------------------------------------------------------------
(* mutuallyConnectNewElement and the end of the call. *)

\* Variant: the neighbour to begin with is left among those to come.
SelectNeighborsTwice(i) ==
    /\ pc[i] = "select"
    /\ \E S \in Heuristic(top_candidates[i], M) : \E n \in S :
          /\ linkList' = [linkList EXCEPT ![i][level[i]] = S]
          /\ node' = [node EXCEPT ![i] = n]
          /\ selectedNeighbors' = [selectedNeighbors EXCEPT ![i] = S]
    /\ pc' = [pc EXCEPT ![i] = "connect"]
    /\ UNCHANGED <<cur_element_count, element_levels_, dataReady,
                   enterpoint_node_, maxlevel_, locks, maxlevelcopy, level,
                   searchVars>>

\* The neighbours are chosen and written to the element's own list.
SelectNeighbors(i) ==
    /\ pc[i] = "select"
    /\ \E S \in Heuristic(top_candidates[i], M) : \E n \in S :
          /\ linkList' = [linkList EXCEPT ![i][level[i]] = S]
          /\ node' = [node EXCEPT ![i] = n]
          /\ selectedNeighbors' = [selectedNeighbors EXCEPT ![i] = S \ {n}]
    /\ visited' = [visited EXCEPT ![i] = {}]
    /\ top_candidates' = [top_candidates EXCEPT ![i] = {}]
    /\ pc' = [pc EXCEPT ![i] = "connect"]
    /\ UNCHANGED <<cur_element_count, element_levels_, dataReady,
                   enterpoint_node_, maxlevel_, locks, maxlevelcopy, level,
                   candidateSet>>

\* One iteration of the loop over selectedNeighbors: the neighbour's list gets
\* the new element, or is pruned again with it when it is full.  The last
\* neighbour (the nearest one) is where the search of the next level starts.
Connect(i) ==
    LET n == node[i]
        l == level[i]
    IN  /\ pc[i] = "connect"
        /\ ~Locked(n)
        /\ \E new \in IF HasRoom(n, l)
                      THEN {linkList[n][l] \cup {i}}
                      ELSE Heuristic(linkList[n][l] \cup {i}, maxM(l)) :
              linkList' = [linkList EXCEPT ![n][l] = new]
        /\ \/ \E next \in selectedNeighbors[i] :
                /\ node' = [node EXCEPT ![i] = next]
                /\ selectedNeighbors' = [selectedNeighbors EXCEPT ![i] = @ \ {next}]
                /\ UNCHANGED <<pc, level, searchVars>>
           \/ /\ selectedNeighbors[i] = {}
              /\ l > 0
              /\ BeginSearch(i, l - 1, n)
              /\ UNCHANGED selectedNeighbors
           \/ /\ selectedNeighbors[i] = {}
              /\ l = 0
              /\ level' = [level EXCEPT ![i] = -1]
              /\ pc' = [pc EXCEPT ![i] = "publish"]
              /\ UNCHANGED <<node, searchVars, selectedNeighbors>>
        /\ UNCHANGED <<cur_element_count, element_levels_, dataReady,
                       enterpoint_node_, maxlevel_, locks, maxlevelcopy>>

\* Variant: the level of the index grows, its entry point stays.
PublishLevelOnly(i) ==
    /\ pc[i] = "publish"
    /\ maxlevel_' = IF element_levels_[i] > maxlevelcopy[i]
                    THEN element_levels_[i] ELSE maxlevel_
    /\ pc' = [pc EXCEPT ![i] = "return"]
    /\ UNCHANGED <<cur_element_count, element_levels_, linkList, dataReady,
                   enterpoint_node_, locks, maxlevelcopy, level, node,
                   searchVars, selectedNeighbors>>

\* An element higher than the index was becomes its entry point.
Publish(i) ==
    /\ pc[i] = "publish"
    /\ IF element_levels_[i] > maxlevelcopy[i]
       THEN /\ enterpoint_node_' = i
            /\ maxlevel_' = element_levels_[i]
       ELSE UNCHANGED <<enterpoint_node_, maxlevel_>>
    /\ pc' = [pc EXCEPT ![i] = "return"]
    /\ UNCHANGED <<cur_element_count, element_levels_, linkList, dataReady,
                   locks, maxlevelcopy, level, node, searchVars,
                   selectedNeighbors>>

\* Variant: lock_el is not released.
ReturnLocked(i) ==
    /\ pc[i] = "return"
    /\ global' = IF global = i THEN None ELSE global
    /\ node' = [node EXCEPT ![i] = None]
    /\ pc' = [pc EXCEPT ![i] = "done"]
    /\ UNCHANGED <<index, listLock, maxlevelcopy, level, searchVars,
                   selectedNeighbors>>

\* The destructors of templock, lock_el and lock_el_update.
Return(i) ==
    /\ pc[i] = "return"
    /\ listLock' = listLock \ {i}
    /\ global' = IF global = i THEN None ELSE global
    /\ node' = [node EXCEPT ![i] = None]
    /\ pc' = [pc EXCEPT ![i] = "done"]
    /\ UNCHANGED <<index, maxlevelcopy, level, searchVars, selectedNeighbors>>

-----------------------------------------------------------------------------
Step(i) ==
    \/ LockElement(i) \/ LockGlobal(i) \/ ReadEntry(i) \/ InitElement(i)
    \/ First(i) \/ Descend(i) \/ Expand(i) \/ SelectNeighbors(i)
    \/ Connect(i) \/ Publish(i) \/ Return(i)

\* Every element has been inserted: the parallel loop is over.
Finished == \A i \in Ids : pc[i] = "done"
LoopEnds == Finished /\ UNCHANGED vars

Next == (\E i \in Ids : Reserve(i) \/ Step(i)) \/ LoopEnds

Spec == Init /\ [][Next]_vars

\* The operating system runs every thread, and the loop hands out every
\* iteration: a call that can take its next step takes it.
FairSpec == Spec /\ \A i \in Ids : WF_vars(Reserve(i) \/ Step(i))
=============================================================================
