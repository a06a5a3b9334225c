----------------------- MODULE HNSWInsertKSRepProofs -----------------------
(***************************************************************************)
(* The k-sampling construction by a single thread: the margin of the       *)
(* sample then leaves out the only element whose call is in progress, and  *)
(* the invariant of HNSWInsert carries over.  With more threads a sample   *)
(* can hold an element in progress, whatever the margin: the run ksrep     *)
(* shows what comes of it.                                                 *)
(***************************************************************************)
EXTENDS HNSWInsertKSRep, HNSWInsertProofs

\* One thread inserts the elements, and the newest id is never sampled.
OneThread == NumThreads = 1 /\ SampleMargin > 0

\* The call in progress is the one that reserved the newest id.
Sequential == \A i \in Ids : pc[i] \in Working => cur_element_count = i + 1

SeqInv == IInv /\ Sequential

LEMMA SequentialInit == Init => Sequential
BY DEF Init, Sequential, Working

-----------------------------------------------------------------------------
(* The start of a search. *)

\* The sampled elements have been inserted.
LEMMA SampledDone ==
    ASSUME OneThread, IInv, Sequential, NEW i \in Ids, pc[i] \in Working,
           NEW m \in Sampled
    PROVE  m \in Ids /\ m # i /\ pc[m] = "done"
<1>1. i \in Nat /\ MaxElements \in Nat /\ i < MaxElements /\ SampleMargin \in Nat
  BY HNSWAssumption, KSRepAssumption DEF Ids
<1>2. cur_element_count = i + 1
  BY DEF Sequential
<1>3. m \in 0 .. cur_element_count - SampleMargin - 1
  BY DEF Sampled
<1>4. m \in Ids /\ m < i
  BY <1>1, <1>2, <1>3 DEF OneThread, Ids
<1>5. pc[m] # "idle"
  BY <1>1, <1>2, <1>4 DEF IInv, ControlInv, ControlOf, Ids
<1>6. pc[m] \notin Working
  BY <1>1, <1>2, <1>4 DEF Sequential, Ids
<1> QED BY <1>1, <1>4, <1>5, <1>6 DEF IInv, TypeOK, Ids

\* A search that InitElementKSRep begins: at level 0, from elements that are
\* linked there and other than the new one.
LEMMA SearchBegins ==
    ASSUME OneThread, IInv, Sequential,
           NEW i \in Ids, InitElementKSRep(i), node[i] # None
    PROVE  /\ pc[i] = "init" /\ i # 0 /\ 0 \in Levels
           /\ maxlevelcopy[i] = 0 /\ element_levels_[i] = 0
           /\ pc' = [pc EXCEPT ![i] = "search"]
           /\ level' = [level EXCEPT ![i] = 0]
           /\ dataReady' = dataReady \cup {i}
           /\ linkList' = [linkList EXCEPT ![i] = [l \in Levels |-> {}]]
           /\ UNCHANGED <<cur_element_count, element_levels_, enterpoint_node_,
                          maxlevel_, listLock, global, maxlevelcopy, selectedNeighbors>>
           /\ \E start \in SUBSET Ids : \E curr \in start :
                 /\ \A m \in start : m # i /\ Linked(m, 0)
                 /\ node' = [node EXCEPT ![i] = curr]
                 /\ visited' = [visited EXCEPT ![i] = start]
                 /\ candidateSet' = [candidateSet EXCEPT ![i] = start \ {curr}]
                 /\ top_candidates' = [top_candidates EXCEPT ![i] = start]
<1> USE ConstantFacts
<1>1. pc[i] = "init" /\ i # 0 /\ BeginSearchKSRep(i, node[i])
  BY DEF InitElementKSRep, IInv, EntryInv, FirstElementInv
<1>2. /\ node[i] \in Ids /\ level[node[i]] = -1 /\ maxlevelcopy[i] # None
      /\ level[i] = Top
  BY <1>1 DEF IInv, EntryInv, EntryOf, ControlInv, ControlOf, TypeOK, Held, Working, Pre
<1>3. /\ 0 \in Levels /\ Levels = {0} /\ Top = 1
  BY KSRepAssumption DEF Levels, Top
<1>4. maxlevelcopy[i] = 0 /\ element_levels_[i] = 0 /\ 0 <= element_levels_[node[i]]
  <2>1. element_levels_[i] \in 0 .. 0 /\ maxlevelcopy[i] \in -1 .. 0
    BY LevelTypes, KSRepAssumption DEF IInv
  <2>2. element_levels_[node[i]] \in 0 .. 0
    BY <1>2, LevelTypes, KSRepAssumption DEF IInv
  <2>3. None = -1 /\ maxlevelcopy[i] # None
    BY <1>2
  <2> HIDE ConstantFacts
  <2> QED BY <2>1, <2>2, <2>3
<1>5. node[i] # i /\ Linked(node[i], 0)
  BY <1>2, <1>3, <1>4 DEF Linked
<1>6. \A m \in Sampled : m \in Ids /\ m # i /\ Linked(m, 0)
  <2> SUFFICES ASSUME NEW m \in Sampled PROVE m \in Ids /\ m # i /\ Linked(m, 0)
    OBVIOUS
  <2>1. m \in Ids /\ m # i /\ pc[m] = "done"
    BY <1>1, SampledDone DEF Working
  <2>2. 0 <= element_levels_[m]
    BY <1>3, <2>1 DEF IInv, TypeOK
  <2> QED BY <1>3, <2>1, <2>2, LinkedFacts DEF IInv
<1>7. \E start \in SUBSET Ids : \E curr \in start :
         /\ \A m \in start : m # i /\ Linked(m, 0)
         /\ node' = [node EXCEPT ![i] = curr]
         /\ visited' = [visited EXCEPT ![i] = start]
         /\ candidateSet' = [candidateSet EXCEPT ![i] = start \ {curr}]
         /\ top_candidates' = [top_candidates EXCEPT ![i] = start]
  <2>1. PICK sample \in SUBSET Sampled :
          \E curr \in sample \cup {node[i]} :
             /\ node' = [node EXCEPT ![i] = curr]
             /\ visited' = [visited EXCEPT ![i] = sample \cup {node[i]}]
             /\ candidateSet' = [candidateSet EXCEPT ![i] = (sample \cup {node[i]}) \ {curr}]
             /\ top_candidates' = [top_candidates EXCEPT ![i] = sample \cup {node[i]}]
    BY <1>1, Zenon DEF BeginSearchKSRep
  <2> DEFINE start == sample \cup {node[i]}
  <2>2. start \in SUBSET Ids /\ \A m \in start : m # i /\ Linked(m, 0)
    BY <1>2, <1>5, <1>6
  <2>3. \E curr \in start :
           /\ node' = [node EXCEPT ![i] = curr]
           /\ visited' = [visited EXCEPT ![i] = start]
           /\ candidateSet' = [candidateSet EXCEPT ![i] = start \ {curr}]
           /\ top_candidates' = [top_candidates EXCEPT ![i] = start]
    BY <2>1
  <2> HIDE DEF start
  <2> QED BY <2>2, <2>3
<1>8. /\ pc' = [pc EXCEPT ![i] = "search"]
      /\ level' = [level EXCEPT ![i] = 0]
  BY <1>1 DEF BeginSearchKSRep
<1> QED BY <1>1, <1>3, <1>4, <1>7, <1>8 DEF InitElementKSRep, locks

-----------------------------------------------------------------------------
(* The start of a search keeps the invariant. *)

\* What is left to prove when the search begins; the first element, which finds
\* no entry point, takes a step of HNSWInsert.
LEMMA BeginTypes ==
    ASSUME OneThread, SeqInv, NEW i \in Ids, InitElementKSRep(i), node[i] # None
    PROVE  TypeOK'
<1> USE SearchBegins, ConstantFacts DEF SeqInv, IInv, TypeOK
<1>1. PICK start \in SUBSET Ids : \E curr \in start :
         /\ node' = [node EXCEPT ![i] = curr]
         /\ visited' = [visited EXCEPT ![i] = start]
         /\ candidateSet' = [candidateSet EXCEPT ![i] = start \ {curr}]
         /\ top_candidates' = [top_candidates EXCEPT ![i] = start]
  OBVIOUS
<1>2. /\ (node \in [Ids -> Ids \cup {None}])'
      /\ (visited \in [Ids -> SUBSET Ids])'
      /\ (candidateSet \in [Ids -> SUBSET Ids])'
      /\ (top_candidates \in [Ids -> SUBSET Ids])'
  BY <1>1
<1>3. (linkList \in [Ids -> [Levels -> SUBSET Ids]])'
  OBVIOUS
<1>4. (pc \in [Ids -> Working \cup {"idle", "done"}])'
  BY DEF Working
<1>5. (level \in [Ids -> -1 .. Top])'
  <2>1. 0 \in -1 .. Top
    BY HNSWAssumption DEF Top
  <2> QED BY <2>1
<1>6. UNCHANGED <<cur_element_count, element_levels_, enterpoint_node_, maxlevel_,
                  listLock, global, maxlevelcopy, selectedNeighbors>>
      /\ dataReady' = dataReady \cup {i}
  OBVIOUS
<1> HIDE SearchBegins
<1> QED BY <1>2, <1>3, <1>4, <1>5, <1>6

LEMMA BeginControl ==
    ASSUME OneThread, SeqInv, NEW i \in Ids, InitElementKSRep(i), node[i] # None
    PROVE  ControlInv'
<1> USE SearchBegins, ConstantFacts
    DEF SeqInv, IInv, TypeOK, ControlInv, ControlOf, Held, Working, Pre, Ended
<1>1. ASSUME NEW j \in Ids, j # i PROVE ControlOf(j)'
  BY <1>1
<1>2. ControlOf(i)'
  OBVIOUS
<1> QED BY <1>1, <1>2

LEMMA BeginEntry ==
    ASSUME OneThread, SeqInv, NEW i \in Ids, InitElementKSRep(i), node[i] # None
    PROVE  EntryInv'
<1> USE ConstantFacts DEF SeqInv, IInv
<1>1. /\ pc[i] = "init" /\ i # 0
      /\ pc' = [pc EXCEPT ![i] = "search"]
      /\ level' = [level EXCEPT ![i] = 0]
      /\ level[i] = Top /\ level[i] # -1
      /\ UNCHANGED <<element_levels_, enterpoint_node_, maxlevel_, global, maxlevelcopy>>
  BY SearchBegins, LevelTypes DEF ControlInv, ControlOf, Pre, Top
<1>2. \A j \in Ids : j # i =>
         pc'[j] = pc[j] /\ node'[j] = node[j] /\ level'[j] = level[j]
  BY SearchBegins DEF TypeOK
<1>3. EntryPointInv'
  BY <1>1, <1>2 DEF EntryInv, EntryPointInv, TypeOK
<1>4. FirstElementInv'
  <2>1. pc'[0] = pc[0] /\ node'[0] = node[0] /\ pc[0] = "done"
    BY <1>1, <1>2 DEF EntryInv, FirstElementInv
  <2>2. \A j \in Ids : pc'[j] = pc[j] \/ (j = i /\ pc'[j] = "search")
    BY <1>1, <1>2 DEF TypeOK
  <2> QED BY <1>1, <2>1, <2>2 DEF EntryInv, FirstElementInv
<1>5. (global # None => pc[global] \in Held \ {"global"})'
  BY <1>1 DEF EntryInv, TypeOK, Held, Working
<1>6. ASSUME NEW j \in Ids \ {0} PROVE EntryOf(j)'
  <2>1. CASE j = i
    BY <1>1, <2>1 DEF EntryInv, EntryOf, TypeOK, Held, Working
  <2>2. CASE j # i
    BY <1>1, <1>2, <2>2 DEF EntryInv, EntryOf, TypeOK
  <2> QED BY <2>1, <2>2
<1> QED BY <1>3, <1>4, <1>5, <1>6 DEF EntryInv

\* Linked elements stay linked, and stay where they are.
LEMMA BeginLinked ==
    ASSUME OneThread, SeqInv, NEW i \in Ids, InitElementKSRep(i), node[i] # None,
           NEW m \in Ids, NEW l \in Levels, Linked(m, l)
    PROVE  m # i /\ Linked(m, l)' /\ LinkedAfter(m, l)
<1>1. level[i] = Top /\ l < Top /\ pc[i] = "init"
  BY SearchBegins, HNSWAssumption DEF SeqInv, IInv, ControlInv, ControlOf, Pre, Levels, Top
<1>2. m # i
  BY <1>1, LevelTypes DEF SeqInv, IInv, Linked, Levels
<1>3. level'[m] = level[m] /\ pc'[m] = pc[m] /\ element_levels_' = element_levels_
  BY <1>2, SearchBegins DEF SeqInv, IInv, TypeOK
<1> QED BY <1>2, <1>3 DEF Linked, LinkedAfter

LEMMA BeginLinks ==
    ASSUME OneThread, SeqInv, NEW i \in Ids, InitElementKSRep(i), node[i] # None
    PROVE  LinkInv'
<1> USE DEF SeqInv, IInv
<1> SUFFICES ASSUME NEW n \in Ids, NEW l \in Levels
             PROVE  /\ \A m \in linkList'[n][l] : m # n /\ Linked(m, l)' /\ Linked(n, l)'
                    /\ Cardinality(linkList'[n][l]) <= maxM(l)
  BY DEF LinkInv, DegreeBound
<1>1. linkList'[n][l] = linkList[n][l] \/ linkList'[n][l] = {}
  <2>1. linkList' = [linkList EXCEPT ![i] = [k \in Levels |-> {}]]
    BY SearchBegins
  <2> QED BY <2>1 DEF TypeOK
<1>2. CASE linkList'[n][l] = linkList[n][l]
  BY <1>2, LinkMembers, BeginLinked DEF LinkInv, DegreeBound
<1>3. CASE linkList'[n][l] = {}
  <2>1. 0 <= maxM(l)
    BY HNSWAssumption DEF maxM
  <2> QED BY <1>3, <2>1, FS_EmptySet
<1> QED BY <1>1, <1>2, <1>3

LEMMA BeginSelf ==
    ASSUME OneThread, SeqInv, NEW i \in Ids, InitElementKSRep(i), node[i] # None
    PROVE  (DescendOf(i) /\ SearchOf(i) /\ SelectOf(i) /\ ConnectOf(i))'
<1>1. PICK start \in SUBSET Ids : \E curr \in start :
         /\ \A m \in start : m # i /\ Linked(m, 0)
         /\ node' = [node EXCEPT ![i] = curr]
         /\ visited' = [visited EXCEPT ![i] = start]
         /\ candidateSet' = [candidateSet EXCEPT ![i] = start \ {curr}]
         /\ top_candidates' = [top_candidates EXCEPT ![i] = start]
  BY SearchBegins DEF SeqInv
<1>2. PICK curr \in start :
         /\ node'[i] = curr /\ visited'[i] = start
         /\ candidateSet'[i] = start \ {curr} /\ top_candidates'[i] = start
         /\ \A m \in start : m # i /\ Linked(m, 0)
  BY <1>1 DEF SeqInv, IInv, TypeOK
<1>3. pc'[i] = "search" /\ level'[i] = 0 /\ 0 \in Levels
  BY SearchBegins DEF SeqInv, IInv, TypeOK
<1>4. \A m \in start : LinkedAfter(m, 0)
  BY <1>2, <1>3, BeginLinked
<1> QED BY <1>2, <1>3, <1>4
        DEF DescendOf, SearchOf, SelectOf, ConnectOf, Linked, LinkedAfter

LEMMA BeginOther ==
    ASSUME OneThread, SeqInv, NEW i \in Ids, InitElementKSRep(i), node[i] # None,
           NEW j \in Ids, j # i
    PROVE  (DescendOf(j) /\ SearchOf(j) /\ SelectOf(j) /\ ConnectOf(j))'
<1> USE DEF SeqInv, IInv
<1>1. pc[i] \in Working /\ pc[j] \notin Working
  BY SearchBegins, ConstantFacts DEF Sequential, Working
<1>2. pc'[j] = pc[j]
  BY SearchBegins DEF TypeOK
<1> QED BY <1>1, <1>2, NoSearch DEF Working

-----------------------------------------------------------------------------
(* The steps. *)

LEMMA InitElementSeq ==
    ASSUME OneThread, SeqInv, NEW i \in Ids, InitElementKSRep(i)
    PROVE  IInv'
<1>1. CASE node[i] = None
  <2>1. InitElement(i)
    BY <1>1 DEF InitElementKSRep, BeginSearchKSRep, InitElement
  <2> QED BY <2>1, StepIInv DEF SeqInv, Step
<1>2. CASE node[i] # None
  <2>1. SearchInv'
    <3>1. \A j \in Ids : (DescendOf(j) /\ SearchOf(j) /\ SelectOf(j) /\ ConnectOf(j))'
      BY <1>2, BeginSelf, BeginOther
    <3> QED BY <3>1 DEF SearchInv
  <2> QED BY <1>2, <2>1, BeginTypes, BeginControl, BeginEntry, BeginLinks DEF IInv
<1> QED BY <1>1, <1>2

\* A step starts no call, so the one in progress keeps the newest id.
LEMMA StepSequential ==
    ASSUME SeqInv, NEW i \in Ids, StepKSRep(i)
    PROVE  Sequential'
<1>1. pc[i] \in Working /\ cur_element_count' = cur_element_count
  BY DEF StepKSRep, LockElement, LockGlobal, ReadEntry, InitElementKSRep, First, Expand,
         SelectNeighbors, Connect, Publish, Return, index, Working
<1>2. \A j \in Ids : j # i => pc'[j] = pc[j]
  BY DEF StepKSRep, LockElement, LockGlobal, ReadEntry, InitElementKSRep,
         BeginSearchKSRep, BeginSearch, First, Expand, SelectNeighbors, Connect,
         Publish, Return, SeqInv, IInv, TypeOK
<1> QED BY <1>1, <1>2 DEF SeqInv, Sequential

\* A call starts when no other is in progress.
LEMMA ReserveSequential ==
    ASSUME OneThread, SeqInv, NEW i \in Ids, Reserve(i)
    PROVE  Sequential'
<1> DEFINE busy == {j \in Ids : pc[j] \in Working}
<1>1. Cardinality(busy) < 1
  BY DEF Reserve, OneThread
<1>2. busy = {}
  <2>1. busy \in SUBSET Ids
    OBVIOUS
  <2> HIDE DEF busy
  <2>2. IsFiniteSet(busy) /\ Cardinality(busy) \in Nat
    BY <2>1, ListsFinite
  <2>3. Cardinality(busy) = 0
    BY <1>1, <2>2
  <2> QED BY <2>2, <2>3, FS_EmptySet
<1>3. /\ cur_element_count' = i + 1
      /\ \A j \in Ids : j # i => pc'[j] = pc[j]
  BY DEF Reserve, SeqInv, IInv, TypeOK
<1> QED BY <1>2, <1>3 DEF Sequential

LEMMA NextSeqInv == OneThread /\ SeqInv /\ [NextKSRep]_vars => SeqInv'
<1> SUFFICES ASSUME OneThread, SeqInv, [NextKSRep]_vars PROVE SeqInv'
  OBVIOUS
<1>1. ASSUME NEW i \in Ids, Reserve(i) PROVE SeqInv'
  BY <1>1, StepIInv, ReserveSequential DEF SeqInv
<1>2. ASSUME NEW i \in Ids, StepKSRep(i) PROVE SeqInv'
  <2>1. CASE InitElementKSRep(i)
    BY <1>2, <2>1, InitElementSeq, StepSequential DEF SeqInv
  <2>2. CASE ~InitElementKSRep(i)
    <3>1. Step(i)
      BY <1>2, <2>2 DEF StepKSRep, Step
    <3> QED BY <1>2, <3>1, StepIInv, StepSequential DEF SeqInv
  <2> QED BY <2>1, <2>2
<1>3. CASE UNCHANGED vars
  <2>1. Sequential'
    BY <1>3 DEF SeqInv, Sequential, vars, index
  <2> QED BY <1>3, <2>1, StutterIInv DEF SeqInv
<1> QED BY <1>1, <1>2, <1>3 DEF NextKSRep, LoopEnds

\* A single thread keeps the invariant of HNSWInsert, whatever it samples.
THEOREM KSRepInductive ==
    ASSUME OneThread
    PROVE  SpecKSRep => []SeqInv
<1>1. Init => SeqInv
  BY InitIInv, SequentialInit DEF SeqInv
<1>2. SeqInv /\ [NextKSRep]_vars => SeqInv'
  BY NextSeqInv
<1> QED BY <1>1, <1>2, PTL DEF SpecKSRep

\* addPoint_ksrep of a single thread never waits for a list lock that its own
\* call holds: it samples no element in progress, least of all its own.
THEOREM KSRepNoCircularWait ==
    ASSUME OneThread
    PROVE  SpecKSRep => []NoCircularWait
<1>1. SeqInv => NoCircularWait
  BY NoCircleFollows DEF SeqInv
<1> QED BY <1>1, KSRepInductive, PTL

\* Its searches and connections only read lists of initialised elements, and
\* its links join such elements.
THEOREM KSRepLinksHold ==
    ASSUME OneThread
    PROVE  SpecKSRep => [](LinksWellFormed /\ ReadsAllocated /\ DegreeBound)
<1>1. SeqInv => LinksWellFormed /\ ReadsAllocated /\ DegreeBound
  BY LinksFollow, ReadsFollow DEF SeqInv, IInv, LinkInv
<1> QED BY <1>1, KSRepInductive, PTL
=============================================================================
