-------------------------- MODULE HNSWInsertProps --------------------------
(***************************************************************************)
(* What the concurrent construction of the HNSW graph promises, and the    *)
(* inductive invariant from which HNSWInsertProofs derives it.             *)
(***************************************************************************)
EXTENDS HNSWInsert

\* The type of every variable of the index, the locks and the calls.
TypeOK ==
    /\ cur_element_count \in 0 .. MaxElements
    /\ element_levels_ \in [Ids -> Levels]
    /\ linkList \in [Ids -> [Levels -> SUBSET Ids]]
    /\ dataReady \in SUBSET Ids
    /\ enterpoint_node_ \in Ids \cup {None}
    /\ maxlevel_ \in Levels \cup {None}
    /\ listLock \in SUBSET Ids
    /\ global \in Ids \cup {None}
    /\ pc \in [Ids -> Working \cup {"idle", "done"}]
    /\ maxlevelcopy \in [Ids -> Levels \cup {None}]
    /\ level \in [Ids -> -1 .. Top]
    /\ node \in [Ids -> Ids \cup {None}]
    /\ visited \in [Ids -> SUBSET Ids]
    /\ candidateSet \in [Ids -> SUBSET Ids]
    /\ top_candidates \in [Ids -> SUBSET Ids]
    /\ selectedNeighbors \in [Ids -> SUBSET Ids]

-----------------------------------------------------------------------------
(* Safety. *)

\* The calls that are about to take link_list_locks_[node].
AtListLock == {"descend", "search", "connect"}

\* Call p cannot go on because call q holds the mutex p needs next.
WaitsFor(p, q) ==
    \/ pc[p] = "lock" /\ q \in listLock /\ q % UpdateLocks = p % UpdateLocks
    \/ pc[p] = "global" /\ global = q
    \/ pc[p] \in AtListLock /\ node[p] = q /\ q \in listLock

\* addPoint keeps its own list lock (and sometimes `global`) while it locks
\* other elements: no set of calls may wait for one another, nor a call for
\* itself.
NoCircularWait ==
    \A S \in SUBSET Ids :
        S # {} => \E p \in S : \A q \in S : ~WaitsFor(p, q)

\* Every link leads from an element that has the level to another one that has
\* it and whose vector is initialised: what the "non-existent level" and
\* "element to itself" exceptions of mutuallyConnectNewElement look for.
LinksWellFormed ==
    \A n \in Ids : \A l \in Levels : \A m \in linkList[n][l] :
        /\ m # n
        /\ {m, n} \subseteq dataReady
        /\ l <= element_levels_[m] /\ l <= element_levels_[n]

\* A list whose lock a call takes next exists: the node is initialised and has
\* the level the call works at, although the entry point was read after
\* `global` was released.
ReadsAllocated ==
    \A i \in Ids : pc[i] \in AtListLock =>
        node[i] \in dataReady /\ level[i] <= element_levels_[node[i]]

\* "Bad value of sz_link_list_other": a list never outgrows its memory,
\* whatever the order in which concurrent calls add to it.
DegreeBound ==
    \A n \in Ids : \A l \in Levels : Cardinality(linkList[n][l]) <= maxM(l)

\* "The newly inserted element should have blank link list": nobody links to an
\* element at a level before its own call has chosen its neighbours there.
BlankOwnList ==
    \A i \in Ids : pc[i] = "select" => linkList[i][level[i]] = {}

\* The neighbours a call links back to belong to calls that have returned, so
\* connecting never waits for a call in progress.
SettledNeighbours ==
    \A i \in Ids : pc[i] = "connect" =>
        \A n \in selectedNeighbors[i] \cup {node[i]} : pc[n] = "done"

\* A call appends its element to a neighbour's list without looking for it
\* there (is_cur_c_present is computed for updates only): it is never there.
LinkedOnce ==
    \A i \in Ids : pc[i] = "connect" =>
        \A n \in selectedNeighbors[i] \cup {node[i]} :
            i \notin linkList[n][level[i]]

\* An element whose call has left a level it searched keeps a neighbour there:
\* pruning a full list never empties it.
KeepsNeighbour ==
    \A i \in Ids : \A l \in Levels :
        /\ 0 < i /\ l <= element_levels_[i] /\ l <= maxlevelcopy[i]
        /\ level[i] < l
        => linkList[i][l] # {}
-----------------------------------------------------------------------------
(* Action properties. *)

\* The entry point only moves to a strictly higher element, and only to one
\* whose call has linked it at every level.
EntryRises ==
    [][enterpoint_node_' # enterpoint_node_ =>
          /\ maxlevel_' > maxlevel_
          /\ element_levels_[enterpoint_node_'] = maxlevel_'
          /\ level'[enterpoint_node_'] = -1]_vars

\* While a call is in progress no other call changes the lists of its element:
\* they only change when it initialises them or writes its own neighbours.
LockedListsStable ==
    [][\A n \in listLock : linkList'[n] # linkList[n] =>
          \/ pc[n] = "init" /\ pc'[n] # "init"
          \/ pc[n] = "select" /\ pc'[n] = "connect"]_vars

-----------------------------------------------------------------------------
(* Liveness. *)

\* Every element of the data set is eventually inserted, whatever locks its
\* call has to wait for.
AllInserted == \A i \in Ids : <>[](pc[i] = "done")

-----------------------------------------------------------------------------
(* The inductive invariant. *)

Pre == {"idle", "lock", "global", "entry", "init", "first"}
Ended == {"publish", "return", "done"}
Held == Working \ {"lock"}

\* Call m has written the neighbours of its element at level l: from then on
\* other calls can come across m at that level.
Linked(m, l) ==
    /\ l <= element_levels_[m]
    /\ level[m] < l \/ (level[m] = l /\ pc[m] = "connect")

\* What the program counter of a call says of its locks and its level.
ControlOf(i) ==
    /\ i \in listLock <=> pc[i] \in Held
    /\ i \in dataReady <=> pc[i] \notin Pre \/ pc[i] = "first"
    /\ pc[i] \in Pre => level[i] = Top
    /\ pc[i] \in Ended => level[i] = -1
    /\ pc[i] = "descend" =>
          element_levels_[i] < level[i] /\ level[i] <= maxlevelcopy[i]
    /\ pc[i] \in {"search", "select", "connect"} =>
          /\ 0 <= level[i]
          /\ level[i] <= element_levels_[i] /\ level[i] <= maxlevelcopy[i]
    /\ (cur_element_count <= i) <=> (pc[i] = "idle")

ControlInv == \A i \in Ids : ControlOf(i)

\* The entry point has the highest level and its call has linked it.
EntryPointInv ==
    /\ (enterpoint_node_ = None) <=> (maxlevel_ = None)
    /\ enterpoint_node_ # None =>
          element_levels_[enterpoint_node_] = maxlevel_ /\ level[enterpoint_node_] = -1

\* The first element is inserted before any other call starts.
FirstElementInv ==
    /\ pc[0] \in Pre \cup Ended
    /\ (enterpoint_node_ = None) <=> (pc[0] \in Pre)
    /\ pc[0] = "init" => node[0] = None
    /\ pc[0] = "publish" => enterpoint_node_ = 0
    /\ \A i \in Ids \ {0} : (pc[i] # "idle" => pc[0] = "done") /\ pc[i] # "first"

\* What a call other than the first knows of the entry point, and that it
\* keeps `global` as long as it may have to replace it.
EntryOf(i) ==
    /\ pc[i] \in Held \ {"global"} =>
          maxlevelcopy[i] # None /\ maxlevelcopy[i] <= maxlevel_
    /\ pc[i] = "init" =>
          /\ node[i] # None
          /\ level[node[i]] = -1
          /\ maxlevelcopy[i] <= element_levels_[node[i]]
    /\ pc[i] \in Held \ {"global", "return"} /\ element_levels_[i] > maxlevelcopy[i] =>
          global = i /\ maxlevel_ = maxlevelcopy[i]

EntryInv ==
    /\ EntryPointInv
    /\ FirstElementInv
    /\ global # None => pc[global] \in Held \ {"global"}
    /\ \A i \in Ids \ {0} : EntryOf(i)

\* Links join two distinct elements that are both linked at the level.
LinkInv ==
    /\ \A n \in Ids : \A l \in Levels : \A m \in linkList[n][l] :
          m # n /\ Linked(m, l) /\ Linked(n, l)
    /\ DegreeBound

\* What a call knows of the nodes it holds in its local variables: those it
\* has read a list of have returned.
DescendOf(i) ==
    pc[i] = "descend" => node[i] # None /\ Linked(node[i], level[i])

SearchOf(i) ==
    pc[i] = "search" =>
        /\ {node[i]} \cup candidateSet[i] \cup top_candidates[i] \subseteq visited[i]
        /\ \A m \in visited[i] : m # i /\ Linked(m, level[i])
        /\ \A m \in top_candidates[i] \ ({node[i]} \cup candidateSet[i]) : pc[m] = "done"

SelectOf(i) ==
    pc[i] = "select" =>
        \A m \in top_candidates[i] :
            m # i /\ pc[m] = "done" /\ level[i] <= element_levels_[m]

ConnectOf(i) ==
    pc[i] = "connect" =>
        /\ node[i] # None /\ node[i] \notin selectedNeighbors[i]
        /\ \A m \in selectedNeighbors[i] \cup {node[i]} :
              /\ m # i /\ pc[m] = "done" /\ level[i] <= element_levels_[m]
              /\ i \notin linkList[m][level[i]]

SearchInv ==
    \A i \in Ids : DescendOf(i) /\ SearchOf(i) /\ SelectOf(i) /\ ConnectOf(i)

IInv == TypeOK /\ ControlInv /\ EntryInv /\ LinkInv /\ SearchInv

\* A call only waits for calls of a lower rank.
Rank(p) ==
    CASE pc[p] = "lock"    -> 2 * Top + 3
      [] pc[p] = "global"  -> 2 * Top + 2
      [] pc[p] = "connect" -> 2 * level[p]
      [] OTHER             -> 2 * level[p] + 1

WaitsDescend == \A p, q \in Ids : WaitsFor(p, q) => Rank(q) < Rank(p)
=============================================================================
