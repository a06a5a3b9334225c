-------------------------- MODULE VisitedListPool --------------------------
(***************************************************************************)
(* VisitedListPool and VisitedList of visited_list_pool.h, as the searches *)
(* of hnswalg.h use them.  A list marks a node as visited by writing its   *)
(* tag curV, and is cleared by moving to the next tag; only when the       *)
(* 16-bit tag wraps is the memory set to zero.  The memory of a new list   *)
(* is not initialised.  poolguard covers the deque and nothing else: a     *)
(* list is reset by the thread that took it, after the mutex is released.  *)
(***************************************************************************)
EXTENDS Integers, FiniteSets

CONSTANTS
    Threads,
    Elements,      \* the ids below numelements
    Lists,         \* addresses operator new may return for a VisitedList
    InitialLists,  \* those of the initmaxpools lists made by the constructor
    Tags           \* number of values of vl_type, 2^16

ASSUME PoolAssumption ==
    /\ InitialLists \subseteq Lists
    /\ Tags \in Nat /\ Tags >= 2

None == "none"
ASSUME NoneAssumption == None \notin Lists

VARIABLES
    lists,   \* the lists that exist
    pool,    \* the deque: the lists nobody uses
    curV,
    mass,
    pc,
    vl       \* the list each thread has taken

vars == <<lists, pool, curV, mass, pc, vl>>

Init ==
    /\ lists = InitialLists
    /\ pool = InitialLists
    /\ curV = [l \in Lists |-> Tags - 1]       \* curV = -1
    /\ mass \in [Lists -> [Elements -> 0 .. Tags - 1]]
    /\ pc = [t \in Threads |-> "idle"]
    /\ vl = [t \in Threads |-> None]

\* Variant: the list is not taken out of the deque.
TakeFrontOnly(t) ==
    /\ pc[t] = "idle"
    /\ pool # {}
    /\ \E l \in pool : vl' = [vl EXCEPT ![t] = l]
    /\ pc' = [pc EXCEPT ![t] = "reset"]
    /\ UNCHANGED <<lists, pool, curV, mass>>

\* getFreeVisitedList, up to the end of its critical section: a free list is
\* taken, or a new one made.
TakeFree(t) ==
    /\ pc[t] = "idle"
    /\ pool # {}
    /\ \E l \in pool :
          /\ vl' = [vl EXCEPT ![t] = l]
          /\ pool' = pool \ {l}
    /\ pc' = [pc EXCEPT ![t] = "reset"]
    /\ UNCHANGED <<lists, curV, mass>>

MakeNew(t) ==
    /\ pc[t] = "idle"
    /\ pool = {}
    /\ \E l \in Lists \ lists :
          /\ lists' = lists \cup {l}
          /\ vl' = [vl EXCEPT ![t] = l]
    /\ pc' = [pc EXCEPT ![t] = "reset"]
    /\ UNCHANGED <<pool, curV, mass>>

\* Variant: the tag wraps without clearing the memory.
ResetTagOnly(t) ==
    /\ pc[t] = "reset"
    /\ curV' = [curV EXCEPT ![vl[t]] = (@ + 1) % Tags]
    /\ pc' = [pc EXCEPT ![t] = "search"]
    /\ UNCHANGED <<lists, pool, mass, vl>>

\* VisitedList::reset, then the search begins.
Reset(t) ==
    LET l == vl[t]
        next == (curV[l] + 1) % Tags
    IN  /\ pc[t] = "reset"
        /\ IF next = 0
           THEN /\ mass' = [mass EXCEPT ![l] = [e \in Elements |-> 0]]
                /\ curV' = [curV EXCEPT ![l] = 1]
           ELSE /\ curV' = [curV EXCEPT ![l] = next]
                /\ UNCHANGED mass
        /\ pc' = [pc EXCEPT ![t] = "search"]
        /\ UNCHANGED <<lists, pool, vl>>

\* "if (visited_array[candidate_id] == visited_array_tag) continue": a node
\* that is not marked is marked.
Visit(t, e) ==
    /\ pc[t] = "search"
    /\ mass[vl[t]][e] # curV[vl[t]]
    /\ mass' = [mass EXCEPT ![vl[t]][e] = curV[vl[t]]]
    /\ UNCHANGED <<lists, pool, curV, pc, vl>>

\* Variant: the search forgets to give its list back.
ReleaseNothing(t) ==
    /\ pc[t] = "search"
    /\ vl' = [vl EXCEPT ![t] = None]
    /\ pc' = [pc EXCEPT ![t] = "idle"]
    /\ UNCHANGED <<lists, pool, curV, mass>>

\* releaseVisitedList
Release(t) ==
    /\ pc[t] = "search"
    /\ pool' = pool \cup {vl[t]}
    /\ vl' = [vl EXCEPT ![t] = None]
    /\ pc' = [pc EXCEPT ![t] = "idle"]
    /\ UNCHANGED <<lists, curV, mass>>

Next ==
    \E t \in Threads :
        \/ TakeFree(t) \/ MakeNew(t) \/ Reset(t) \/ Release(t)
        \/ \E e \in Elements : Visit(t, e)

Spec == Init /\ [][Next]_vars

-----------------------------------------------------------------------------
(* Properties. *)

\* The types: a tag is a 16-bit value, and a thread holds a list exactly from
\* getFreeVisitedList to releaseVisitedList.
TypeOK ==
    /\ lists \in SUBSET Lists
    /\ pool \in SUBSET lists
    /\ curV \in [Lists -> 0 .. Tags - 1]
    /\ mass \in [Lists -> [Elements -> 0 .. Tags - 1]]
    /\ pc \in [Threads -> {"idle", "reset", "search"}]
    /\ vl \in [Threads -> Lists \cup {None}]
    /\ \A t \in Threads : vl[t] = None <=> pc[t] = "idle"

\* A list is in the pool or with one thread, never with two: reset and the
\* marks of a search need no lock.
Exclusive ==
    \A t \in Threads : pc[t] # "idle" =>
        /\ vl[t] \in lists \ pool
        /\ \A u \in Threads \ {t} : vl[u] # vl[t]

\* The pool makes a list only when every other one is in use: there are never
\* more than the threads need, or than it started with.
PoolBound ==
    \/ lists = InitialLists
    \/ Cardinality(lists) <= Cardinality(Threads)

\* The nodes that a list with the tag curV counts as visited.
Marked(l) == {e \in Elements : mass[l][e] = curV[l]}

Visited == INSTANCE VisitedSets WITH
    searching <- {t \in Threads : pc[t] = "search"},
    visited <- [t \in Threads |-> IF pc[t] = "search" THEN Marked(vl[t]) ELSE {}]

\* Whatever the memory of the lists held and however often the tags wrapped,
\* every search starts with nothing visited and sees only its own marks.
VisitedSpec == Visited!Spec

-----------------------------------------------------------------------------
(* The inductive invariant. *)

\* No mark is newer than the tag; a list whose tag is the last one is cleared
\* before it is used again, so nothing is known of its memory when it is new.
TagsBehind ==
    \A l \in Lists : \A e \in Elements :
        \/ mass[l][e] <= curV[l]
        \/ curV[l] = Tags - 1

IInv == TypeOK /\ Exclusive /\ TagsBehind
=============================================================================
