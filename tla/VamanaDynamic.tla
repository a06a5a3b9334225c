--------------------------- MODULE VamanaDynamic ---------------------------
(***************************************************************************)
(* The dynamic part of the Vamana index (index.cpp of code/VAMANA): the    *)
(* slots of _data and _final_graph, the two tag maps, the sets of deleted  *)
(* and of empty slots, and the flags that say in which order the slots are.*)
(* A slot holds a point, its vector and its adjacency list together; which *)
(* edges a list holds is left to VamanaGraph.  There is one frozen point,  *)
(* the start node, as in test_incremental_index.cpp, and _ep is its slot.  *)
(*                                                                         *)
(* Callers keep to the protocol of that test and of the comments of        *)
(* index.h: deletes between enable_delete and disable_delete, of one kind  *)
(* in a round; a save after a round of eager deletes, and readjust_data,   *)
(* before the next insert.  The calls beyond it are the Liberties.         *)
(*                                                                         *)
(* The build is that of the README, for release: assertions are left out.  *)
(* Those about the slots that can fail are stated by SlotsCounted and in   *)
(* the comment of DisableAccepts.                                          *)
(***************************************************************************)
EXTENDS Integers, FiniteSets

CONSTANTS
    Tags,
    MaxPoints,      \* _max_points
    InitialPoints,  \* _nd when the index is built
    Liberties       \* what callers do that the protocol above leaves open

ASSUME SizeAssumption ==
    /\ MaxPoints \in Nat /\ InitialPoints \in Nat
    /\ InitialPoints <= MaxPoints

ASSUME TagsAssumption == IsFiniteSet(Tags)

ASSUME LibertiesAssumption ==
    Liberties \subseteq
        {"save_first",   \* save before deletes were ever enabled
         "eager_twice"}  \* two rounds of eager deletes with no lazy one between

Locations == 0 .. MaxPoints - 1
Slots == 0 .. MaxPoints                 \* with that of the frozen point
ep == MaxPoints
NoLocation == MaxPoints + 1             \* _max_points + _num_frozen_pts
Unmapped == -1                          \* no entry in _tag_to_location

Start == "start"                        \* the frozen point
None == "none"
ASSUME NamesAssumption == Start \notin Tags /\ None \notin Tags

VARIABLES
    tagToLocation,  \* _tag_to_location
    locationToTag,  \* _location_to_tag
    point,          \* the point whose vector and list are in each slot
    deleteSet, emptySlots, nd,
    canDelete, eagerDone, lazyDone, compactedOrder, consolidatedOrder,
    changeLock      \* _change_lock is held although no call is running

maps == <<tagToLocation, locationToTag, point>>
slots == <<deleteSet, emptySlots, nd>>
orders == <<compactedOrder, consolidatedOrder>>
vars == <<maps, slots, canDelete, eagerDone, lazyDone, orders, changeLock>>

Mapped == {t \in Tags : tagToLocation[t] # Unmapped}
Tagged == {l \in Slots \cup {NoLocation} : locationToTag[l] # None}

InitialSlots == 0 .. InitialPoints - 1

Init ==
    \E tag \in [InitialSlots -> Tags] :
       /\ \A i, j \in InitialSlots : tag[i] = tag[j] => i = j
       /\ tagToLocation = [t \in Tags |->
             IF \E i \in InitialSlots : tag[i] = t
             THEN CHOOSE i \in InitialSlots : tag[i] = t
             ELSE Unmapped]
       /\ locationToTag = [l \in Slots \cup {NoLocation} |->
             IF l \in InitialSlots THEN tag[l] ELSE None]
       /\ point = [s \in Slots |->
             IF s \in InitialSlots THEN tag[s] ELSE IF s = ep THEN Start ELSE None]
       /\ deleteSet = {} /\ emptySlots = {} /\ nd = InitialPoints
       /\ canDelete = FALSE /\ eagerDone = TRUE /\ lazyDone = TRUE
       /\ compactedOrder = TRUE /\ consolidatedOrder = TRUE
       /\ changeLock = FALSE
-----------------------------------------------------------------------------
(***************************************************************************)
(* Compaction.                                                             *)
(***************************************************************************)
Kept == Slots \ (emptySlots \cup deleteSet)

\* get_new_location: the slots that are kept are numbered in their order.
NewLocation ==
    [old \in Slots \cup {NoLocation} |->
        IF old \in Kept THEN Cardinality({s \in Kept : s < old}) ELSE NoLocation]

\* Variant: the vectors and lists stay where they are.
CompactTagsOnly ==
    /\ point' = point
    /\ tagToLocation' = [t \in Tags |->
          IF \E l \in Tagged : locationToTag[l] = t
          THEN NewLocation[CHOOSE l \in Tagged : locationToTag[l] = t]
          ELSE Unmapped]
    /\ locationToTag' = [l \in Slots \cup {NoLocation} |->
          IF \E t \in Tags : tagToLocation'[t] = l
          THEN CHOOSE t \in Tags : tagToLocation'[t] = l
          ELSE None]
    /\ deleteSet' = {} /\ emptySlots' = {}

\* compact_data.  Lists and vectors move down in the order of the slots, so
\* that each point arrives as it was; the slots left over are cleared, and
\* _tag_to_location is made again from _location_to_tag, then the reverse.
CompactData ==
    /\ point' = [s \in Slots |->
          IF \E old \in Kept : NewLocation[old] = s
          THEN point[CHOOSE old \in Kept : NewLocation[old] = s]
          ELSE None]
    /\ tagToLocation' = [t \in Tags |->
          IF \E l \in Tagged : locationToTag[l] = t
          THEN NewLocation[CHOOSE l \in Tagged : locationToTag[l] = t]
          ELSE Unmapped]
    /\ locationToTag' = [l \in Slots \cup {NoLocation} |->
          IF \E t \in Tags : tagToLocation'[t] = l
          THEN CHOOSE t \in Tags : tagToLocation'[t] = l
          ELSE None]
    /\ deleteSet' = {} /\ emptySlots' = {}
-----------------------------------------------------------------------------
(***************************************************************************)
(* The calls.                                                              *)
(***************************************************************************)
\* Eager deletes were made and the slots they left are not yet compacted.
SaveDue == ~canDelete /\ eagerDone /\ ~compactedOrder

\* A round of eager deletes lasts until its save.
InRound == canDelete \/ SaveDue

Settled == ~canDelete /\ ~SaveDue /\ point[ep] = Start

\* insert_point outside a round of deletes, when one of the orders holds:
\* reserve_location then gives the slot after the last.
InsertPoint(t) ==
    /\ ~changeLock
    /\ Settled
    /\ compactedOrder \/ consolidatedOrder
    /\ t \notin Mapped
    /\ nd # MaxPoints
    /\ tagToLocation' = [tagToLocation EXCEPT ![t] = nd]
    /\ locationToTag' = [locationToTag EXCEPT ![nd] = t]
    /\ point' = [point EXCEPT ![nd] = t]
    /\ nd' = nd + 1
    /\ UNCHANGED <<deleteSet, emptySlots, canDelete, eagerDone, lazyDone, orders,
                   changeLock>>

\* Callers: a round begins with all points back, as after the round of the test,
\* unless both orders hold and enable_delete itself records the free slots.  (It
\* takes them for points otherwise, and the frozen point is moved above _nd.)
SlotsKnown == nd = MaxPoints \/ (compactedOrder /\ consolidatedOrder)

\* Variant: the slots above _nd are not recorded.
EnableWithoutSlots ==
    /\ ~changeLock
    /\ Settled
    /\ SlotsKnown
    /\ IF consolidatedOrder /\ compactedOrder
       THEN consolidatedOrder' = FALSE /\ compactedOrder' = FALSE
       ELSE UNCHANGED orders
    /\ lazyDone' = FALSE /\ eagerDone' = FALSE /\ canDelete' = TRUE
    /\ UNCHANGED <<maps, slots, changeLock>>

EnableDelete ==
    /\ ~changeLock
    /\ Settled
    /\ SlotsKnown
    /\ IF consolidatedOrder /\ compactedOrder
       THEN /\ emptySlots' = emptySlots \cup (nd .. MaxPoints - 1)
            /\ consolidatedOrder' = FALSE /\ compactedOrder' = FALSE
       ELSE UNCHANGED <<emptySlots, orders>>
    /\ lazyDone' = FALSE /\ eagerDone' = FALSE /\ canDelete' = TRUE
    /\ UNCHANGED <<maps, deleteSet, nd, changeLock>>

\* delete_point: the point is only marked.
DeletePoint(t) ==
    /\ canDelete /\ ~changeLock
    /\ ~(eagerDone /\ ~compactedOrder)
    /\ ~eagerDone                        \* callers: one kind of delete in a round
    /\ t \in Mapped
    /\ deleteSet' = deleteSet \cup {tagToLocation[t]}
    /\ locationToTag' = [locationToTag EXCEPT ![tagToLocation[t]] = None]
    /\ tagToLocation' = [tagToLocation EXCEPT ![t] = Unmapped]
    /\ UNCHANGED <<point, emptySlots, nd, canDelete, eagerDone, lazyDone, orders,
                   changeLock>>

\* Variant: _nd is not reduced.
EagerDeleteUncounted(t) ==
    /\ canDelete /\ ~changeLock
    /\ eagerDone \/ deleteSet = {}
    /\ "eager_twice" \in Liberties \/ ~compactedOrder
    /\ t \in Mapped
    /\ deleteSet' = deleteSet \cup {tagToLocation[t]}
    /\ emptySlots' = emptySlots \cup {tagToLocation[t]}
    /\ locationToTag' = [locationToTag EXCEPT ![tagToLocation[t]] = None]
    /\ tagToLocation' = [tagToLocation EXCEPT ![t] = Unmapped]
    /\ point' = [point EXCEPT ![tagToLocation[t]] = None]
    /\ eagerDone' = TRUE
    /\ UNCHANGED <<nd, canDelete, lazyDone, orders, changeLock>>

\* eager_delete: the point leaves the graph at once, its slot becomes empty.
EagerDelete(t) ==
    /\ canDelete /\ ~changeLock
    /\ ~(lazyDone /\ ~consolidatedOrder)
    /\ eagerDone \/ deleteSet = {}       \* callers: one kind of delete in a round
    /\ "eager_twice" \in Liberties \/ ~compactedOrder
    /\ t \in Mapped
    /\ deleteSet' = deleteSet \cup {tagToLocation[t]}
    /\ emptySlots' = emptySlots \cup {tagToLocation[t]}
    /\ locationToTag' = [locationToTag EXCEPT ![tagToLocation[t]] = None]
    /\ tagToLocation' = [tagToLocation EXCEPT ![t] = Unmapped]
    /\ point' = [point EXCEPT ![tagToLocation[t]] = None]
    /\ nd' = nd - 1
    /\ eagerDone' = TRUE
    /\ UNCHANGED <<canDelete, lazyDone, orders, changeLock>>

\* What consolidate_deletes (line 1512) and, for save, get_new_location (line
\* 1577) assert when they have numbered the slots: that the slots with points
\* and the deleted ones are all there are.
SlotsCounted == Cardinality(Kept) + Cardinality(deleteSet) = MaxPoints + 1

\* The checks of disable_delete before it changes anything.
SizesMatch ==
    LET pending == IF eagerDone THEN 0 ELSE Cardinality(deleteSet)
    IN Cardinality(Mapped) + pending = nd /\ Cardinality(Tagged) + pending = nd

\* Variant: _consolidated_order is set although nothing was moved.
DisableUnmoved ==
    /\ canDelete /\ ~changeLock
    /\ SizesMatch
    /\ IF eagerDone
       THEN UNCHANGED <<maps, slots>>
       ELSE /\ nd' = nd - Cardinality(deleteSet)
            /\ deleteSet' = {} /\ emptySlots' = {}
            /\ UNCHANGED maps
    /\ consolidatedOrder' = TRUE
    /\ canDelete' = FALSE
    /\ UNCHANGED <<eagerDone, lazyDone, compactedOrder, changeLock>>

\* disable_delete with consolidate = true; consolidate_deletes compacts the
\* slots unless the deletes were eager.
DisableDelete ==
    /\ canDelete /\ ~changeLock
    /\ SizesMatch
    /\ IF eagerDone
       THEN UNCHANGED <<maps, slots, consolidatedOrder>>
       ELSE /\ CompactData
            /\ nd' = nd - Cardinality(deleteSet)
            /\ consolidatedOrder' = TRUE
    /\ canDelete' = FALSE
    /\ UNCHANGED <<eagerDone, lazyDone, compactedOrder, changeLock>>

\* save compacts the slots that eager deletes left.  Where it takes
\* _change_lock it never releases it.
Save ==
    LET compacts == SaveDue /\ nd < MaxPoints
        locks == lazyDone \/ (SaveDue /\ nd = MaxPoints)
    IN /\ ~canDelete
       /\ lazyDone => "save_first" \in Liberties
       /\ locks => ~changeLock
       /\ changeLock' = (changeLock \/ locks)
       /\ IF compacts
          THEN CompactData /\ compactedOrder' = TRUE
          ELSE UNCHANGED <<maps, deleteSet, emptySlots, compactedOrder>>
       /\ UNCHANGED <<nd, canDelete, eagerDone, lazyDone, consolidatedOrder>>

\* The points whose lists save writes: those of the first _nd + 1 slots.
Written == {point[s] : s \in 0 .. nd}

\* readjust_data moves the frozen point back to its slot if that is empty.
ReadjustData ==
    /\ ~canDelete /\ ~SaveDue
    /\ point[ep] = None
    /\ point' = [point EXCEPT ![ep] = point[nd], ![nd] = None]
    /\ UNCHANGED <<tagToLocation, locationToTag, slots, canDelete, eagerDone, lazyDone,
                   orders, changeLock>>

Next ==
    \/ \E t \in Tags : InsertPoint(t) \/ DeletePoint(t) \/ EagerDelete(t)
    \/ EnableDelete
    \/ DisableDelete
    \/ Save
    \/ ReadjustData

Spec == Init /\ [][Next]_vars
-----------------------------------------------------------------------------
(***************************************************************************)
(* Properties.                                                             *)
(***************************************************************************)
\* The variables have their types: no tag is given the location that stands
\* for "none", and no empty or deleted slot is that of the frozen point.
TypeOK ==
    /\ tagToLocation \in [Tags -> Locations \cup {Unmapped}]
    /\ locationToTag \in [Slots \cup {NoLocation} -> Tags \cup {None}]
    /\ point \in [Slots -> Tags \cup {Start, None}]
    /\ deleteSet \subseteq Locations
    /\ emptySlots \subseteq Locations
    /\ nd \in 0 .. MaxPoints
    /\ {canDelete, eagerDone, lazyDone, compactedOrder, consolidatedOrder, changeLock}
          \subseteq BOOLEAN

\* The two maps are each other's inverse through every renumbering, and a tag
\* leads to the slot with its own vector, which is neither deleted nor empty.
TagsLead ==
    /\ \A t \in Mapped :
          /\ locationToTag[tagToLocation[t]] = t
          /\ point[tagToLocation[t]] = t
          /\ tagToLocation[t] \notin deleteSet \cup emptySlots
    /\ \A l \in Tagged : tagToLocation[locationToTag[l]] = l

\* The index was full when the round began.
BeganFull == nd + (IF eagerDone THEN Cardinality(deleteSet) ELSE 0) = MaxPoints

\* disable_delete returns no error: the sizes it compares match in every round.
\* Of what it asserts then, where a build has assertions, the counts of lines
\* 1497 and 1498 hold too; the count of the slots, there and in the save after
\* eager deletes, holds exactly if the round began with a full index, since
\* free slots that enable_delete records are neither kept nor deleted.  Lines
\* 1494 and 1586, that _consolidated_order is not set, are not claimed: they
\* fail in a lazy round that follows a lazy round.
DisableAccepts ==
    /\ canDelete => SizesMatch
    /\ canDelete /\ ~eagerDone =>
          /\ Cardinality(deleteSet) <= nd
          /\ Cardinality(emptySlots) + nd = MaxPoints
    /\ InRound => (SlotsCounted <=> BeganFull)

\* Where reserve_location gives the slot after the last, that slot is free: an
\* insert overwrites neither a point nor the frozen one.
NextSlotFree ==
    Settled /\ nd < MaxPoints =>
       /\ compactedOrder \/ consolidatedOrder
       /\ point[nd] = None /\ locationToTag[nd] = None

\* A file saved outside a round of deletes has the list of every point.
SaveComplete == ~canDelete /\ ~SaveDue => Mapped \subseteq Written

\* The start node of every search is not lost when slots are renumbered: it is
\* in its own slot or in the one readjust_data takes it from.
StartKept == ~canDelete => point[ep] = Start \/ (point[ep] = None /\ point[nd] = Start)

\* save, which leaves _change_lock held, does not stop the calls that follow it.
LockReleased == ~changeLock

\* The index is a set of tags: the tags that lead to their own points change by
\* an insert or a delete only, never by compaction, saving or readjusting.
Live == {t \in Mapped : point[tagToLocation[t]] = t}
Store == INSTANCE TagStore WITH live <- Live
StoreSpec == Store!Spec
-----------------------------------------------------------------------------
(***************************************************************************)
(* The inductive invariant.  In a round of deletes a slot has a tag, is    *)
(* deleted or is empty; outside, the tags fill the slots from the first.   *)
(***************************************************************************)
RoundInv ==
    /\ Tagged = Locations \ (deleteSet \cup emptySlots)
    /\ point[ep] = Start
    /\ eagerDone =>
          /\ ~compactedOrder
          /\ deleteSet \subseteq emptySlots
          /\ nd = Cardinality(Tagged)
    /\ ~eagerDone =>
          /\ deleteSet \cap emptySlots = {}
          /\ nd = Cardinality(Tagged) + Cardinality(deleteSet)

OrderInv ==
    /\ compactedOrder \/ consolidatedOrder
    /\ deleteSet = {} /\ emptySlots = {}
    /\ Tagged = 0 .. nd - 1
    /\ \A s \in nd + 1 .. MaxPoints - 1 : point[s] = None
    /\ IF nd = MaxPoints
       THEN point[ep] = Start
       ELSE {point[ep], point[nd]} = {Start, None}

IInv ==
    /\ TypeOK
    /\ TagsLead
    /\ IF InRound THEN RoundInv ELSE OrderInv
=============================================================================
