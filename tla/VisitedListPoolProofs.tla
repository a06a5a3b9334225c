----------------------- MODULE VisitedListPoolProofs -----------------------
(***************************************************************************)
(* For every number of threads, lists and ids and every width of the tag,  *)
(* the pool gives each search a list of its own, and what the search sees  *)
(* in it is the set of nodes it has visited.                               *)
(***************************************************************************)
EXTENDS VisitedListPool, FiniteSetTheorems, TLAPS

LEMMA InitIInv == Init => IInv
<1> SUFFICES ASSUME Init PROVE IInv
  OBVIOUS
<1> USE PoolAssumption, NoneAssumption DEF Init
<1>1. TypeOK
  BY DEF TypeOK
<1>2. Exclusive
  BY DEF Exclusive
<1>3. TagsBehind
  BY DEF TagsBehind
<1> QED BY <1>1, <1>2, <1>3 DEF IInv

\* The tag a reset gives is newer than every mark, or the marks are erased.
LEMMA ResetTag ==
    ASSUME TypeOK, Exclusive, TagsBehind, NEW t \in Threads, Reset(t)
    PROVE  /\ vl[t] \in Lists
           /\ curV' \in [Lists -> 0 .. Tags - 1]
           /\ mass' \in [Lists -> [Elements -> 0 .. Tags - 1]]
           /\ \A l \in Lists \ {vl[t]} : curV'[l] = curV[l] /\ mass'[l] = mass[l]
           /\ \A e \in Elements : mass'[vl[t]][e] < curV'[vl[t]]
<1> DEFINE l == vl[t]
           next == (curV[l] + 1) % Tags
<1>1. l \in Lists
  BY NoneAssumption DEF TypeOK, Reset
<1>2. curV[l] \in 0 .. Tags - 1 /\ mass[l] \in [Elements -> 0 .. Tags - 1]
  BY <1>1 DEF TypeOK
<1>3. CASE curV[l] = Tags - 1
  <2>1. next = 0
    BY <1>3, PoolAssumption
  <2>2. /\ mass' = [mass EXCEPT ![l] = [e \in Elements |-> 0]]
        /\ curV' = [curV EXCEPT ![l] = 1]
    BY <2>1 DEF Reset
  <2> HIDE DEF l, next
  <2>3. l = vl[t]
    BY DEF l
  <2> QED BY <1>1, <2>2, <2>3, PoolAssumption DEF TypeOK
<1>4. CASE curV[l] # Tags - 1
  <2>1. next = curV[l] + 1 /\ next # 0 /\ next \in 0 .. Tags - 1
    BY <1>2, <1>4, PoolAssumption
  <2>2. mass' = mass /\ curV' = [curV EXCEPT ![l] = next]
    BY <2>1 DEF Reset
  <2>3. \A e \in Elements : mass[l][e] < next
    <3>1. \A e \in Elements : mass[l][e] <= curV[l] /\ mass[l][e] \in 0 .. Tags - 1
      BY <1>1, <1>2, <1>4 DEF TagsBehind
    <3> QED BY <1>2, <2>1, <3>1
  <2> HIDE DEF l, next
  <2>4. l = vl[t]
    BY DEF l
  <2> QED BY <1>1, <2>1, <2>2, <2>3, <2>4, PoolAssumption DEF TypeOK
<1> QED BY <1>3, <1>4

LEMMA NextIInv == IInv /\ [Next]_vars => IInv'
<1> SUFFICES ASSUME IInv, [Next]_vars PROVE IInv'
  OBVIOUS
<1> USE PoolAssumption, NoneAssumption DEF IInv, TypeOK, Exclusive, TagsBehind
<1>1. ASSUME NEW t \in Threads, TakeFree(t) PROVE IInv'
  BY <1>1 DEF TakeFree
<1>2. ASSUME NEW t \in Threads, MakeNew(t) PROVE IInv'
  BY <1>2 DEF MakeNew
<1>3. ASSUME NEW t \in Threads, Reset(t) PROVE IInv'
  <2>1. /\ vl[t] \in Lists
        /\ curV' \in [Lists -> 0 .. Tags - 1]
        /\ mass' \in [Lists -> [Elements -> 0 .. Tags - 1]]
        /\ \A l \in Lists \ {vl[t]} : curV'[l] = curV[l] /\ mass'[l] = mass[l]
        /\ \A e \in Elements : mass'[vl[t]][e] < curV'[vl[t]]
    BY <1>3, ResetTag
  <2>2. /\ pc[t] = "reset" /\ pc' = [pc EXCEPT ![t] = "search"]
        /\ UNCHANGED <<lists, pool, vl>>
    BY <1>3 DEF Reset
  <2>3. TypeOK' /\ Exclusive'
    BY <2>1, <2>2
  <2>4. TagsBehind'
    BY <2>1
  <2> QED BY <2>3, <2>4
<1>4. ASSUME NEW t \in Threads, NEW e \in Elements, Visit(t, e) PROVE IInv'
  <2>1. /\ vl[t] \in Lists /\ curV[vl[t]] \in 0 .. Tags - 1
        /\ mass' = [mass EXCEPT ![vl[t]][e] = curV[vl[t]]]
        /\ UNCHANGED <<lists, pool, curV, pc, vl>>
    BY <1>4 DEF Visit
  <2>2. TypeOK' /\ Exclusive'
    BY <2>1
  <2>3. TagsBehind'
    BY <2>1
  <2> QED BY <2>2, <2>3
<1>5. ASSUME NEW t \in Threads, Release(t) PROVE IInv'
  BY <1>5 DEF Release
<1>6. CASE UNCHANGED vars
  BY <1>6 DEF vars
<1> QED BY <1>1, <1>2, <1>3, <1>4, <1>5, <1>6 DEF Next

\* The types, the ownership of lists and the order of tags hold for good.
THEOREM Inductive == Spec => []IInv
BY InitIInv, NextIInv, PTL DEF Spec

\* Tags stay below Tags, and a thread has a list exactly while it searches.
THEOREM TypesHold == Spec => []TypeOK
<1>1. IInv => TypeOK
  BY DEF IInv
<1> QED BY <1>1, Inductive, PTL

\* Every list is in the pool or with one thread.
THEOREM ExclusiveHolds == Spec => []Exclusive
<1>1. IInv => Exclusive
  BY DEF IInv
<1> QED BY <1>1, Inductive, PTL

-----------------------------------------------------------------------------
(* The number of lists. *)

\* Every list that exists is in the pool or with some thread.
Accounted == lists = pool \cup {vl[t] : t \in {u \in Threads : pc[u] # "idle"}}

\* The pool never makes more lists than there are threads.
THEOREM PoolBoundHolds ==
    ASSUME IsFiniteSet(Threads)
    PROVE  Spec => []PoolBound
<1>0. IsFiniteSet(Threads)
  OBVIOUS
<1>1. Init => Accounted /\ PoolBound
  BY DEF Init, Accounted, PoolBound
<1>2. ASSUME IInv, Accounted, PoolBound, [Next]_vars
      PROVE  Accounted' /\ PoolBound'
  <2> USE <1>2, NoneAssumption DEF IInv, TypeOK, Exclusive, Accounted
  <2>1. ASSUME NEW t \in Threads, TakeFree(t) PROVE Accounted' /\ PoolBound'
    BY <2>1 DEF TakeFree, PoolBound
  <2>2. ASSUME NEW t \in Threads, MakeNew(t) PROVE Accounted' /\ PoolBound'
    <3>1. Accounted'
      BY <2>2 DEF MakeNew
    <3>2. lists' \subseteq {vl'[u] : u \in Threads}
      BY <2>2, <3>1 DEF MakeNew
    <3>3. /\ IsFiniteSet({vl'[u] : u \in Threads})
          /\ Cardinality({vl'[u] : u \in Threads}) <= Cardinality(Threads)
      <4> DEFINE f == [u \in Threads |-> vl'[u]]
      <4>1. f \in Surjection(Threads, {vl'[u] : u \in Threads})
        BY DEF Surjection
      <4> QED BY <1>0, <4>1, FS_Surjection
    <3>4. Cardinality(lists') <= Cardinality(Threads)
      BY <3>2, <3>3, FS_Subset, FS_CardinalityType
    <3> QED BY <3>1, <3>4 DEF PoolBound
  <2>3. ASSUME NEW t \in Threads, Reset(t) PROVE Accounted' /\ PoolBound'
    BY <2>3 DEF Reset, PoolBound
  <2>4. ASSUME NEW t \in Threads, NEW e \in Elements, Visit(t, e)
        PROVE  Accounted' /\ PoolBound'
    BY <2>4 DEF Visit, PoolBound
  <2>5. ASSUME NEW t \in Threads, Release(t) PROVE Accounted' /\ PoolBound'
    BY <2>5 DEF Release, PoolBound
  <2>6. CASE UNCHANGED vars
    BY <2>6 DEF vars, PoolBound
  <2> QED BY <2>1, <2>2, <2>3, <2>4, <2>5, <2>6 DEF Next
<1> QED BY <1>1, <1>2, Inductive, PTL DEF Spec

-----------------------------------------------------------------------------
(* Refinement. *)

LEMMA StepRefines == IInv /\ IInv' /\ [Next]_vars => [Visited!Next]_Visited!vars
<1> SUFFICES ASSUME IInv, IInv', [Next]_vars PROVE [Visited!Next]_Visited!vars
  OBVIOUS
<1> DEFINE S == {t \in Threads : pc[t] = "search"}
           V == [t \in Threads |-> IF pc[t] = "search" THEN Marked(vl[t]) ELSE {}]
<1> USE NoneAssumption DEF IInv, TypeOK, Exclusive
<1>1. ASSUME NEW t \in Threads, TakeFree(t) \/ MakeNew(t)
      PROVE  UNCHANGED Visited!vars
  <2>1. \A u \in Threads : /\ pc'[u] = "search" <=> pc[u] = "search"
                           /\ pc[u] = "search" => vl'[u] = vl[u]
    BY <1>1 DEF TakeFree, MakeNew
  <2>2. UNCHANGED <<curV, mass>>
    BY <1>1 DEF TakeFree, MakeNew
  <2>3. \A u \in Threads : pc[u] = "search" => Marked(vl[u])' = Marked(vl[u])
    BY <2>1, <2>2 DEF Marked
  <2>4. S' = S /\ V' = V
    BY <2>1, <2>3
  <2> QED BY <2>4 DEF Visited!vars
<1>2. ASSUME NEW t \in Threads, Reset(t) PROVE Visited!Begin(t)
  <2>1. /\ vl[t] \in Lists
        /\ \A l \in Lists \ {vl[t]} : curV'[l] = curV[l] /\ mass'[l] = mass[l]
        /\ \A e \in Elements : mass'[vl[t]][e] < curV'[vl[t]]
        /\ curV'[vl[t]] \in Int /\ \A e \in Elements : mass'[vl[t]][e] \in Int
    BY <1>2, ResetTag
  <2>2. pc[t] = "reset" /\ pc' = [pc EXCEPT ![t] = "search"] /\ vl' = vl
    BY <1>2 DEF Reset
  <2>3. S' = S \cup {t} /\ t \notin S
    BY <2>2
  <2>4. Marked(vl[t])' = {}
    <3>1. \A e \in Elements : mass'[vl[t]][e] # curV'[vl[t]]
      BY <2>1
    <3> QED BY <2>2, <3>1 DEF Marked
  <2>5. \A u \in S : Marked(vl[u])' = Marked(vl[u])
    <3> SUFFICES ASSUME NEW u \in S PROVE Marked(vl[u])' = Marked(vl[u])
      OBVIOUS
    <3>1. vl[u] \in Lists \ {vl[t]}
      BY <2>1, <2>2
    <3>2. curV'[vl[u]] = curV[vl[u]] /\ mass'[vl[u]] = mass[vl[u]]
      BY <2>1, <3>1
    <3> QED BY <2>2, <3>2 DEF Marked
  <2>6. V' = V
    BY <2>2, <2>4, <2>5
  <2> QED BY <2>3, <2>6 DEF Visited!Begin
<1>3. ASSUME NEW t \in Threads, NEW e \in Elements, Visit(t, e)
      PROVE  Visited!Visit(t, e)
  <2>1. /\ pc[t] = "search" /\ vl[t] \in Lists
        /\ mass[vl[t]][e] # curV[vl[t]]
        /\ mass' = [mass EXCEPT ![vl[t]][e] = curV[vl[t]]]
        /\ UNCHANGED <<curV, pc, vl>>
    BY <1>3 DEF Visit
  <2>2. S' = S /\ t \in S
    BY <2>1
  <2>3. e \notin Marked(vl[t]) /\ Marked(vl[t])' = Marked(vl[t]) \cup {e}
    BY <2>1 DEF Marked
  <2>4. \A u \in S \ {t} : Marked(vl[u])' = Marked(vl[u])
    BY <2>1 DEF Marked
  <2>5. e \notin V[t]
    BY <2>2, <2>3
  <2>6. \A u \in Threads : V'[u] = IF u = t THEN V[t] \cup {e} ELSE V[u]
    BY <2>1, <2>2, <2>3, <2>4
  <2>7. V' = [V EXCEPT ![t] = @ \cup {e}]
    <3>1. V' = [u \in Threads |-> V'[u]] /\ V = [u \in Threads |-> V[u]]
      OBVIOUS
    <3> HIDE DEF V
    <3> QED BY <2>6, <3>1
  <2> QED BY <2>2, <2>5, <2>7 DEF Visited!Visit
<1>4. ASSUME NEW t \in Threads, Release(t) PROVE Visited!End(t)
  <2>1. /\ pc[t] = "search" /\ pc' = [pc EXCEPT ![t] = "idle"]
        /\ vl' = [vl EXCEPT ![t] = None]
        /\ UNCHANGED <<curV, mass>>
    BY <1>4 DEF Release
  <2>2. S' = S \ {t} /\ t \in S
    BY <2>1
  <2>3. \A u \in Threads : V'[u] = IF u = t THEN {} ELSE V[u]
    <3>1. \A u \in Threads \ {t} : vl'[u] = vl[u] /\ pc'[u] = pc[u]
      BY <2>1
    <3>2. pc'[t] # "search"
      BY <2>1
    <3> QED BY <2>1, <3>1, <3>2 DEF Marked
  <2>4. V' = [V EXCEPT ![t] = {}]
    <3>1. V' = [u \in Threads |-> V'[u]] /\ V = [u \in Threads |-> V[u]]
      OBVIOUS
    <3> HIDE DEF V
    <3> QED BY <2>3, <3>1
  <2> QED BY <2>2, <2>4 DEF Visited!End
<1>5. CASE UNCHANGED vars
  BY <1>5 DEF vars, Visited!vars, Marked
<1> QED BY <1>1, <1>2, <1>3, <1>4, <1>5 DEF Next, Visited!Next

\* The lists of the pool behave as the sets of visited nodes the searches take
\* them for.
THEOREM Refinement == Spec => VisitedSpec
<1>1. Init => Visited!Init
  BY DEF Init, Visited!Init
<1> QED BY <1>1, StepRefines, Inductive, PTL DEF Spec, VisitedSpec, Visited!Spec
=============================================================================
