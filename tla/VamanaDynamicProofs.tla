------------------------ MODULE VamanaDynamicProofs ------------------------
(***************************************************************************)
(* For any numbers of tags and slots, and rounds of deletes as the         *)
(* protocol allows them, the dynamic index keeps its tags, slots and start *)
(* node together, and implements a set of tags.                            *)
(***************************************************************************)
EXTENDS VamanaDynamic, FiniteSetTheorems, TLAPS

Rank(K, x) == Cardinality({s \in K : s < x})

\* Numbering the members of a set of slots in their order gives each a number
\* of its own, and the first numbers.
LEMMA Ranks ==
    ASSUME NEW K \in SUBSET Slots
    PROVE  /\ \A x \in K : Rank(K, x) \in 0 .. Cardinality(K) - 1
           /\ \A x, y \in K : Rank(K, x) = Rank(K, y) => x = y
           /\ \A i \in 0 .. Cardinality(K) - 1 : \E x \in K : Rank(K, x) = i
<1> DEFINE Below(x) == {s \in K : s < x}
           R == [x \in K |-> Cardinality(Below(x))]
           n == Cardinality(K)
<1>1. Slots \subseteq Int /\ IsFiniteSet(Slots)
  BY SizeAssumption, FS_Interval DEF Slots
<1>2. IsFiniteSet(K) /\ n \in Nat
  BY <1>1, FS_Subset, FS_CardinalityType
<1>3. \A x \in K : IsFiniteSet(Below(x)) /\ Cardinality(Below(x)) \in Nat
  BY <1>2, FS_Subset, FS_CardinalityType
<1>4. \A x \in K : R[x] \in 0 .. n - 1
  <2> TAKE x \in K
  <2>1. Below(x) \in SUBSET (K \ {x})
    BY <1>1
  <2>2. IsFiniteSet(K \ {x}) /\ Cardinality(K \ {x}) = n - 1
    BY <1>2, FS_RemoveElement
  <2>3. Cardinality(Below(x)) <= n - 1
    BY <2>1, <2>2, FS_Subset
  <2> QED BY <1>2, <1>3, <2>3
<1>5. \A x, y \in K : x < y => R[x] < R[y]
  <2> SUFFICES ASSUME NEW x \in K, NEW y \in K, x < y
               PROVE  R[x] < R[y]
    OBVIOUS
  <2> x \in Int /\ y \in Int /\ \A s \in K : s \in Int
    BY <1>1
  <2>0. \A s \in Below(x) : s \in K /\ s < y /\ s # x
    OBVIOUS
  <2>1. Below(x) \in SUBSET (Below(y) \ {x}) /\ x \in Below(y)
    BY <2>0
  <2>2. IsFiniteSet(Below(y) \ {x}) /\ Cardinality(Below(y) \ {x}) = Cardinality(Below(y)) - 1
    BY <1>3, <2>1, FS_RemoveElement
  <2>3. Cardinality(Below(x)) <= Cardinality(Below(y)) - 1
    BY <2>1, <2>2, FS_Subset
  <2>4. R[x] = Cardinality(Below(x)) /\ R[y] = Cardinality(Below(y))
    OBVIOUS
  <2> HIDE DEF Below, R
  <2> QED BY <1>3, <2>3, <2>4
<1>6. \A x, y \in K : R[x] = R[y] => x = y
  <2> SUFFICES ASSUME NEW x \in K, NEW y \in K, x # y
               PROVE  R[x] # R[y]
    OBVIOUS
  <2>1. R[x] \in Int /\ R[y] \in Int
    BY <1>4
  <2>2. x < y \/ y < x
    BY <1>1
  <2> QED BY <1>5, <2>1, <2>2
<1>7. \A i \in 0 .. n - 1 : \E x \in K : R[x] = i
  <2>1. R \in Injection(K, 0 .. n - 1)
    <3>1. R \in [K -> 0 .. n - 1]
      BY <1>4
    <3> HIDE DEF R
    <3> QED BY <1>6, <3>1 DEF Injection, IsInjective
  <2>2. IsFiniteSet(0 .. n - 1) /\ Cardinality(0 .. n - 1) = n
    BY <1>2, FS_Interval
  <2>3. R \in Surjection(K, 0 .. n - 1)
    BY <2>1, <2>2, FS_Injection
  <2> HIDE DEF R, n
  <2> QED BY <2>3 DEF Surjection
<1>8. \A x \in K : Rank(K, x) = R[x]
  BY DEF Rank
<1> HIDE DEF R
<1> QED BY <1>4, <1>6, <1>7, <1>8

LEMMA SlotFacts ==
    /\ Slots \subseteq Int /\ IsFiniteSet(Slots) /\ Locations \subseteq Int
    /\ Slots = Locations \cup {ep} /\ ep \notin Locations /\ ep \in Slots
    /\ IsFiniteSet(Locations) /\ Cardinality(Locations) = MaxPoints
    /\ Unmapped \notin Slots \cup {NoLocation} /\ NoLocation \notin Slots
    /\ \A l \in Locations : l < ep
<1>1. IsFiniteSet(Slots) /\ IsFiniteSet(Locations) /\ Cardinality(Locations) = MaxPoints
  BY SizeAssumption, FS_Interval DEF Slots, Locations
<1> QED BY <1>1, SizeAssumption DEF Slots, Locations, ep, Unmapped, NoLocation

\* What holds of the tag maps and the slots whatever the order of the slots.
MapsOK ==
    /\ tagToLocation \in [Tags -> Locations \cup {Unmapped}]
    /\ locationToTag \in [Slots \cup {NoLocation} -> Tags \cup {None}]
    /\ point \in [Slots -> Tags \cup {Start, None}]

\* A tag and its location are each found from the other.
LEMMA MapFacts ==
    ASSUME MapsOK, TagsLead
    PROVE  /\ \A t \in Mapped : /\ tagToLocation[t] \in Tagged
                               /\ tagToLocation[t] \in Locations
                               /\ locationToTag[tagToLocation[t]] = t
           /\ \A l \in Tagged : /\ locationToTag[l] \in Mapped
                               /\ tagToLocation[locationToTag[l]] = l
                               /\ l \in Locations
           /\ Mapped \subseteq Tags
<1>1. \A t \in Mapped : /\ tagToLocation[t] \in Tagged
                       /\ tagToLocation[t] \in Locations
                       /\ locationToTag[tagToLocation[t]] = t
  BY NamesAssumption, SlotFacts DEF MapsOK, TagsLead, Mapped, Tagged
<1>2. \A l \in Tagged : /\ locationToTag[l] \in Tags
                       /\ tagToLocation[locationToTag[l]] = l
  BY DEF MapsOK, TagsLead, Tagged
<1>3. \A l \in Tagged : locationToTag[l] \in Mapped
  BY <1>2, SlotFacts DEF Mapped, Tagged
<1> QED BY <1>1, <1>2, <1>3 DEF Mapped

\* As many tags as tagged slots.
LEMMA SameNumber ==
    ASSUME MapsOK, TagsLead
    PROVE  /\ IsFiniteSet(Mapped) /\ IsFiniteSet(Tagged)
           /\ Cardinality(Mapped) = Cardinality(Tagged)
           /\ Cardinality(Tagged) \in Nat /\ Cardinality(Tagged) <= MaxPoints
<1> DEFINE f == [t \in Mapped |-> tagToLocation[t]]
<1>1. IsFiniteSet(Mapped)
  BY TagsAssumption, FS_Subset DEF Mapped
<1>2. Tagged \subseteq Locations
  BY MapFacts
<1>3. /\ IsFiniteSet(Tagged) /\ Cardinality(Tagged) \in Nat
      /\ Cardinality(Tagged) <= MaxPoints
  BY <1>2, SlotFacts, FS_Subset, FS_CardinalityType
<1>4. f \in [Mapped -> Tagged]
  BY MapFacts
<1>5. \A l \in Tagged : \E t \in Mapped : f[t] = l
  BY MapFacts
<1>6. \A t, u \in Mapped : f[t] = f[u] => t = u
  BY MapFacts
<1> HIDE DEF f
<1>7. f \in Surjection(Mapped, Tagged) /\ f \in Injection(Mapped, Tagged)
  BY <1>4, <1>5, <1>6 DEF Surjection, Injection, IsInjective
<1> QED BY <1>1, <1>3, <1>7, FS_Surjection

\* Compaction brings the kept points, with their tags, to the first slots in
\* their order, and the frozen point behind them.
LEMMA Compacted ==
    ASSUME MapsOK, TagsLead, point[ep] = Start,
           deleteSet \subseteq Locations, emptySlots \subseteq Locations,
           Tagged = Locations \ (deleteSet \cup emptySlots),
           CompactData
    PROVE  LET n == Cardinality(Tagged)
           IN /\ n \in 0 .. MaxPoints
              /\ MapsOK' /\ TagsLead'
              /\ Mapped' = Mapped
              /\ Tagged' = 0 .. n - 1
              /\ deleteSet' = {} /\ emptySlots' = {}
              /\ point'[n] = Start
              /\ \A s \in n + 1 .. MaxPoints : point'[s] = None
<1> DEFINE n == Cardinality(Tagged)
<1>0. /\ \A x \in Kept : Rank(Kept, x) \in 0 .. Cardinality(Kept) - 1
      /\ \A x, y \in Kept : Rank(Kept, x) = Rank(Kept, y) => x = y
      /\ \A i \in 0 .. Cardinality(Kept) - 1 : \E x \in Kept : Rank(Kept, x) = i
  <2>1. Kept \in SUBSET Slots
    BY DEF Kept
  <2> HIDE DEF n
  <2> QED BY <2>1, Ranks
<1> USE SlotFacts, MapFacts
<1>1. /\ Kept = Tagged \cup {ep} /\ ep \notin Tagged /\ Kept \subseteq Slots
      /\ Tagged \subseteq Locations
  BY DEF Kept
<1>2. n \in Nat /\ n <= MaxPoints /\ IsFiniteSet(Tagged) /\ Cardinality(Kept) = n + 1
  BY <1>1, SameNumber, FS_AddElement
<1>3. /\ \A x \in Kept : NewLocation[x] \in 0 .. n
      /\ \A x, y \in Kept : NewLocation[x] = NewLocation[y] => x = y
      /\ \A i \in 0 .. n : \E x \in Kept : NewLocation[x] = i
  <2>1. \A x \in Kept : NewLocation[x] = Rank(Kept, x)
    BY <1>1 DEF NewLocation, Rank
  <2>2. Cardinality(Kept) - 1 = n
    BY <1>2
  <2> HIDE DEF n
  <2>3. \A x \in Kept : NewLocation[x] \in 0 .. n
    BY <1>0, <2>1, <2>2
  <2>4. \A x, y \in Kept : NewLocation[x] = NewLocation[y] => x = y
    BY <1>0, <2>1
  <2>5. \A i \in 0 .. n : \E x \in Kept : NewLocation[x] = i
    BY <1>0, <2>1, <2>2
  <2> QED BY <2>3, <2>4, <2>5
<1>4. NewLocation[ep] = n
  <2>1. /\ \A s \in Tagged : s < ep
        /\ ~(ep < ep)
    BY <1>1, SizeAssumption DEF ep
  <2>2. {s \in Kept : s < ep} = Tagged
    <3>1. \A s \in Kept : s < ep <=> s \in Tagged
      BY <1>1, <2>1
    <3>2. Tagged \subseteq Kept
      BY <1>1
    <3> QED BY <3>1, <3>2
  <2> QED BY <1>1, <2>2 DEF NewLocation
<1> HIDE DEF n
<1>5. \A x \in Tagged : NewLocation[x] \in 0 .. n - 1
  <2> SUFFICES ASSUME NEW x \in Tagged
               PROVE  NewLocation[x] \in 0 .. n - 1
    OBVIOUS
  <2>1. NewLocation[x] \in 0 .. n /\ NewLocation[x] # n
    BY <1>1, <1>3, <1>4
  <2> QED BY <1>2, <2>1
<1>6. \A i \in 0 .. n - 1 : \E x \in Tagged : NewLocation[x] = i
  <2> SUFFICES ASSUME NEW i \in 0 .. n - 1
               PROVE  \E x \in Tagged : NewLocation[x] = i
    OBVIOUS
  <2>0. i \in 0 .. n /\ i # n
    BY <1>2
  <2>1. PICK x \in Kept : NewLocation[x] = i
    BY <1>3, <2>0
  <2>2. x # ep
    BY <1>4, <2>0, <2>1
  <2> QED BY <1>1, <2>1, <2>2
<1>7. /\ tagToLocation' \in [Tags -> Locations \cup {Unmapped}]
      /\ \A t \in Mapped : /\ tagToLocation'[t] = NewLocation[tagToLocation[t]]
                         /\ tagToLocation'[t] \in Locations
      /\ \A t \in Tags \ Mapped : tagToLocation'[t] = Unmapped
  <2>1. tagToLocation' = [t \in Tags |->
           IF \E l \in Tagged : locationToTag[l] = t
           THEN NewLocation[CHOOSE l \in Tagged : locationToTag[l] = t]
           ELSE Unmapped]
    BY DEF CompactData
  <2>2. ASSUME NEW t \in Mapped
        PROVE  tagToLocation'[t] = NewLocation[tagToLocation[t]]
    <3>1. \E l \in Tagged : locationToTag[l] = t
      OBVIOUS
    <3>2. (CHOOSE l \in Tagged : locationToTag[l] = t) = tagToLocation[t]
      BY <3>1
    <3> QED BY <2>1, <3>1, <3>2
  <2>3. \A t \in Tags \ Mapped : tagToLocation'[t] = Unmapped
    BY <2>1
  <2>4. \A t \in Mapped : NewLocation[tagToLocation[t]] \in Locations
    BY <1>2, <1>5, SizeAssumption DEF Locations
  <2> QED BY <2>1, <2>2, <2>3, <2>4
<1>8. /\ point' \in [Slots -> Tags \cup {Start, None}]
      /\ \A x \in Kept : point'[NewLocation[x]] = point[x]
      /\ \A s \in n + 1 .. MaxPoints : point'[s] = None
  <2>1. point' = [s \in Slots |->
          IF \E old \in Kept : NewLocation[old] = s
          THEN point[CHOOSE old \in Kept : NewLocation[old] = s]
          ELSE None]
    BY DEF CompactData
  <2>2. ASSUME NEW x \in Kept
        PROVE  point'[NewLocation[x]] = point[x]
    <3>1. NewLocation[x] \in Slots
      BY <1>2, <1>3, SizeAssumption DEF Slots
    <3>2. (CHOOSE old \in Kept : NewLocation[old] = NewLocation[x]) = x
      BY <1>3
    <3> QED BY <2>1, <3>1, <3>2
  <2>3. ASSUME NEW s \in n + 1 .. MaxPoints
        PROVE  point'[s] = None
    <3>1. s \in Slots /\ s \notin 0 .. n
      BY <1>2, SizeAssumption DEF Slots
    <3> QED BY <1>3, <2>1, <3>1
  <2>4. point' \in [Slots -> Tags \cup {Start, None}]
    <3> SUFFICES ASSUME NEW s \in Slots
                 PROVE  point'[s] \in Tags \cup {Start, None}
      BY <2>1
    <3>1. CASE \E old \in Kept : NewLocation[old] = s
      BY <1>1, <2>2, <3>1 DEF MapsOK
    <3>2. CASE ~\E old \in Kept : NewLocation[old] = s
      BY <2>1, <3>2
    <3> QED BY <3>1, <3>2
  <2> QED BY <2>2, <2>3, <2>4
<1>9. Mapped' = Mapped
  BY <1>7 DEF Mapped
<1>10. /\ locationToTag' \in [Slots \cup {NoLocation} -> Tags \cup {None}]
       /\ \A x \in Tagged : locationToTag'[NewLocation[x]] = locationToTag[x]
       /\ \A l \in (Slots \cup {NoLocation}) \ (0 .. n - 1) : locationToTag'[l] = None
  <2>1. locationToTag' = [l \in Slots \cup {NoLocation} |->
          IF \E t \in Tags : tagToLocation'[t] = l
          THEN CHOOSE t \in Tags : tagToLocation'[t] = l
          ELSE None]
    BY DEF CompactData
  <2>2. ASSUME NEW t \in Tags, NEW l \in Slots \cup {NoLocation}, tagToLocation'[t] = l
        PROVE  /\ t \in Mapped /\ tagToLocation[t] \in Tagged
               /\ l = NewLocation[tagToLocation[t]] /\ l \in 0 .. n - 1
    BY <1>5, <1>7, <2>2
  <2>3. ASSUME NEW x \in Tagged
        PROVE  locationToTag'[NewLocation[x]] = locationToTag[x]
    <3> DEFINE l == NewLocation[x]
               u == locationToTag[x]
    <3>1. l \in Slots
      BY <1>2, <1>5, SizeAssumption DEF Slots
    <3>2. u \in Tags /\ tagToLocation'[u] = l
      BY <1>7
    <3>3. ASSUME NEW t \in Tags, tagToLocation'[t] = l
          PROVE  t = u
      <4>1. t \in Mapped /\ tagToLocation[t] \in Tagged /\ l = NewLocation[tagToLocation[t]]
        BY <2>2, <3>1, <3>3
      <4>2. tagToLocation[t] = x
        BY <1>1, <1>3, <4>1
      <4> QED BY <4>1, <4>2
    <3>4. (CHOOSE t \in Tags : tagToLocation'[t] = l) = u
      BY <3>2, <3>3
    <3> QED BY <2>1, <3>1, <3>2, <3>4
  <2>4. \A l \in (Slots \cup {NoLocation}) \ (0 .. n - 1) : locationToTag'[l] = None
    BY <2>1, <2>2
  <2>5. locationToTag' \in [Slots \cup {NoLocation} -> Tags \cup {None}]
    BY <2>1
  <2> QED BY <2>3, <2>4, <2>5
<1>11. MapsOK'
  BY <1>7, <1>8, <1>10 DEF MapsOK
<1>12. Tagged' = 0 .. n - 1
  <2>1. \A i \in 0 .. n - 1 : locationToTag'[i] \in Tags
    BY <1>6, <1>10 DEF MapsOK
  <2>2. 0 .. n - 1 \subseteq Slots
    BY <1>2, SizeAssumption DEF Slots
  <2>3. \A l \in Slots \cup {NoLocation} :
           locationToTag'[l] # None <=> l \in 0 .. n - 1
    BY <1>10, <2>1, NamesAssumption
  <2>4. Tagged' = {l \in Slots \cup {NoLocation} : locationToTag'[l] # None}
    BY DEF Tagged
  <2> QED BY <2>2, <2>3, <2>4
<1>13. TagsLead'
  <2>1. ASSUME NEW t \in Mapped'
        PROVE  /\ locationToTag'[tagToLocation'[t]] = t
               /\ point'[tagToLocation'[t]] = t
               /\ tagToLocation'[t] \notin (deleteSet \cup emptySlots)'
    <3>1. t \in Mapped /\ tagToLocation[t] \in Tagged
          /\ tagToLocation'[t] = NewLocation[tagToLocation[t]]
      BY <1>7, <1>9, <2>1
    <3>2. point[tagToLocation[t]] = t
      BY <3>1 DEF TagsLead
    <3>3. locationToTag'[NewLocation[tagToLocation[t]]] = t
      BY <1>10, <3>1
    <3>4. point'[NewLocation[tagToLocation[t]]] = t
      BY <1>1, <1>8, <3>1, <3>2
    <3>5. (deleteSet \cup emptySlots)' = {}
      BY DEF CompactData
    <3> QED BY <3>1, <3>3, <3>4, <3>5
  <2>2. ASSUME NEW l \in Tagged'
        PROVE  tagToLocation'[locationToTag'[l]] = l
    <3>1. PICK x \in Tagged : NewLocation[x] = l
      BY <1>6, <1>12, <2>2
    <3> QED BY <1>7, <1>10, <3>1
  <2> QED BY <2>1, <2>2 DEF TagsLead
<1>14. n \in 0 .. MaxPoints /\ point'[n] = Start
  BY <1>1, <1>2, <1>4, <1>8, SizeAssumption
<1> QED BY <1>8, <1>9, <1>11, <1>12, <1>13, <1>14 DEF CompactData, n
-----------------------------------------------------------------------------
(***************************************************************************)
(* The inductive invariant.                                                *)
(***************************************************************************)
\* The rounds of deletes the theorems are about; a save before the first round
\* is allowed.
Protocol == "eager_twice" \notin Liberties

Flags == {canDelete, eagerDone, lazyDone, compactedOrder, consolidatedOrder, changeLock}

SlotsOK ==
    /\ deleteSet \subseteq Locations /\ emptySlots \subseteq Locations
    /\ nd \in 0 .. MaxPoints

LEMMA TypeParts ==
    /\ TypeOK <=> MapsOK /\ SlotsOK /\ Flags \subseteq BOOLEAN
    /\ TypeOK' <=> (MapsOK /\ SlotsOK /\ Flags \subseteq BOOLEAN)'
  BY DEF TypeOK, MapsOK, SlotsOK, Flags

LEMMA InitIInv == Init => IInv
<1> SUFFICES ASSUME Init PROVE IInv
  OBVIOUS
<1> USE SizeAssumption, NamesAssumption, SlotFacts
<1>1. PICK tag \in [InitialSlots -> Tags] :
         /\ \A i, j \in InitialSlots : tag[i] = tag[j] => i = j
         /\ tagToLocation = [t \in Tags |->
               IF \E i \in InitialSlots : tag[i] = t
               THEN CHOOSE i \in InitialSlots : tag[i] = t
               ELSE Unmapped]
         /\ locationToTag = [l \in Slots \cup {NoLocation} |->
               IF l \in InitialSlots THEN tag[l] ELSE None]
         /\ point = [s \in Slots |->
               IF s \in InitialSlots THEN tag[s] ELSE IF s = ep THEN Start ELSE None]
  BY DEF Init
<1>2. /\ deleteSet = {} /\ emptySlots = {} /\ nd = InitialPoints
      /\ canDelete = FALSE /\ eagerDone = TRUE /\ lazyDone = TRUE
      /\ compactedOrder = TRUE /\ consolidatedOrder = TRUE
      /\ changeLock = FALSE
  BY DEF Init
<1>3. /\ InitialSlots \subseteq Locations /\ InitialSlots \subseteq Slots
      /\ NoLocation \notin InitialSlots /\ ep \notin InitialSlots
      /\ \A i \in InitialSlots : tag[i] \in Tags
  BY DEF InitialSlots, Locations, Slots, NoLocation, ep
<1>4. \A i \in InitialSlots : tagToLocation[tag[i]] = i
  <2> SUFFICES ASSUME NEW i \in InitialSlots PROVE tagToLocation[tag[i]] = i
    OBVIOUS
  <2>1. (CHOOSE j \in InitialSlots : tag[j] = tag[i]) = i
    BY <1>1
  <2> QED BY <1>1, <1>3, <2>1
<1>5. \A t \in Tags : \/ \E i \in InitialSlots : t = tag[i] /\ tagToLocation[t] = i
                      \/ tagToLocation[t] = Unmapped
  BY <1>1, <1>4
<1>6. \A i \in InitialSlots : locationToTag[i] = tag[i] /\ point[i] = tag[i]
  BY <1>1, <1>3
<1>7. Tagged = InitialSlots
  <2>1. \A l \in Slots \cup {NoLocation} : locationToTag[l] # None <=> l \in InitialSlots
    BY <1>1, <1>3
  <2> QED BY <1>3, <2>1 DEF Tagged
<1>8. TypeOK
  <2>1. tagToLocation \in [Tags -> Locations \cup {Unmapped}]
    BY <1>1, <1>3, <1>5
  <2>2. locationToTag \in [Slots \cup {NoLocation} -> Tags \cup {None}]
    BY <1>1, <1>3
  <2>3. point \in [Slots -> Tags \cup {Start, None}]
    BY <1>1, <1>3
  <2>4. nd \in 0 .. MaxPoints
    BY <1>2
  <2>5. Flags \subseteq BOOLEAN
    BY <1>2, Zenon DEF Flags
  <2> QED BY <1>2, <2>1, <2>2, <2>3, <2>4, <2>5, TypeParts DEF MapsOK, SlotsOK
<1>9. TagsLead
  <2>1. \A t \in Mapped : \E i \in InitialSlots : t = tag[i] /\ tagToLocation[t] = i
    BY <1>5 DEF Mapped
  <2> QED BY <1>2, <1>4, <1>6, <1>7, <2>1 DEF TagsLead
<1>10. ~InRound
  BY <1>2, Zenon DEF InRound, SaveDue
<1>11. OrderInv
  <2>1. \A s \in InitialPoints .. MaxPoints - 1 : point[s] = None
    <3> SUFFICES ASSUME NEW s \in InitialPoints .. MaxPoints - 1 PROVE point[s] = None
      OBVIOUS
    <3>1. s \in Slots /\ s \notin InitialSlots /\ s # ep
      BY DEF Slots, InitialSlots, ep
    <3> QED BY <1>1, <3>1
  <2>2. point[ep] = Start
    BY <1>1, <1>3
  <2>3. nd # MaxPoints => point[nd] = None
    BY <1>2, <2>1
  <2>4. \A s \in nd + 1 .. MaxPoints - 1 : point[s] = None
    BY <1>2, <2>1
  <2>5. Tagged = 0 .. nd - 1
    BY <1>2, <1>7 DEF InitialSlots
  <2>6. IF nd = MaxPoints THEN point[ep] = Start ELSE {point[ep], point[nd]} = {Start, None}
    BY <2>2, <2>3
  <2>7. compactedOrder \/ consolidatedOrder
    BY <1>2, Zenon
  <2> QED BY <1>2, <2>4, <2>5, <2>6, <2>7 DEF OrderInv
<1> QED BY <1>8, <1>9, <1>10, <1>11 DEF IInv

\* A compaction whose count agrees with the tagged slots ends a round.
LEMMA CompactionOrders ==
    ASSUME TypeOK, TagsLead, RoundInv, CompactData,
           nd' = Cardinality(Tagged), compactedOrder' \/ consolidatedOrder'
    PROVE  /\ MapsOK' /\ TagsLead' /\ OrderInv'
           /\ SlotsOK' /\ Mapped' = Mapped
<1>1. /\ nd' \in 0 .. MaxPoints
      /\ MapsOK' /\ TagsLead' /\ Mapped' = Mapped
      /\ Tagged' = 0 .. nd' - 1
      /\ deleteSet' = {} /\ emptySlots' = {}
      /\ point'[nd'] = Start
      /\ \A s \in nd' + 1 .. MaxPoints : point'[s] = None
  BY Compacted, TypeParts DEF RoundInv, SlotsOK
<1>2. IF nd' = MaxPoints THEN point'[ep] = Start
      ELSE {point'[ep], point'[nd']} = {Start, None}
  <2>1. CASE nd' = MaxPoints
    BY <1>1, <2>1 DEF ep
  <2>2. CASE nd' # MaxPoints
    <3>1. MaxPoints \in nd' + 1 .. MaxPoints
      BY <1>1, <2>2, SizeAssumption
    <3>2. point'[ep] = None
      BY <1>1, <3>1 DEF ep
    <3> QED BY <1>1, <2>2, <3>2
  <2> QED BY <2>1, <2>2
<1>3. \A s \in nd' + 1 .. MaxPoints - 1 : point'[s] = None
  BY <1>1, SizeAssumption
<1> QED BY <1>1, <1>2, <1>3 DEF OrderInv, SlotsOK

LEMMA InsertStep ==
    ASSUME IInv, NEW t \in Tags, InsertPoint(t)
    PROVE  /\ IInv' /\ ~InRound /\ Mapped' = Mapped \cup {t}
           /\ t \notin Mapped /\ nd # MaxPoints
<1> USE SizeAssumption, NamesAssumption, SlotFacts
<1>1. /\ TypeOK /\ TagsLead /\ MapsOK /\ nd \in 0 .. MaxPoints
      /\ Flags \subseteq BOOLEAN
  BY TypeParts DEF IInv, SlotsOK
<1>2. /\ t \notin Mapped /\ nd # MaxPoints /\ point[ep] = Start /\ ~canDelete /\ ~SaveDue
      /\ compactedOrder \/ consolidatedOrder
  BY DEF InsertPoint, Settled
<1>3. ~InRound /\ OrderInv
  BY <1>2, Zenon DEF InRound, IInv
<1>4. /\ tagToLocation' = [tagToLocation EXCEPT ![t] = nd]
      /\ locationToTag' = [locationToTag EXCEPT ![nd] = t]
      /\ point' = [point EXCEPT ![nd] = t]
      /\ nd' = nd + 1
      /\ deleteSet' = deleteSet /\ emptySlots' = emptySlots
  BY DEF InsertPoint
<1>5. /\ canDelete' = canDelete /\ eagerDone' = eagerDone /\ lazyDone' = lazyDone
      /\ compactedOrder' = compactedOrder /\ consolidatedOrder' = consolidatedOrder
      /\ changeLock' = changeLock
  BY DEF InsertPoint, orders
<1>6. /\ nd \in Locations /\ nd \in Slots /\ nd # ep /\ nd \notin Tagged
      /\ nd' \in 0 .. MaxPoints
  BY <1>1, <1>2, <1>3, <1>4 DEF OrderInv, Locations, Slots, ep
<1>7. Flags' = Flags /\ ~InRound'
  BY <1>3, <1>5, Zenon DEF Flags, InRound, SaveDue
<1>8. MapsOK'
  BY <1>1, <1>4, <1>6 DEF MapsOK
<1>9. TypeOK'
  BY <1>1, <1>3, <1>4, <1>6, <1>7, <1>8, TypeParts DEF OrderInv, SlotsOK
<1>10. Mapped' = Mapped \cup {t}
  BY <1>1, <1>4, <1>6 DEF Mapped, MapsOK
<1>11. Tagged' = Tagged \cup {nd}
  BY <1>1, <1>4, <1>6 DEF Tagged, MapsOK
<1>12. TagsLead'
  <2>1. ASSUME NEW u \in Mapped'
        PROVE  /\ locationToTag'[tagToLocation'[u]] = u
               /\ point'[tagToLocation'[u]] = u
               /\ tagToLocation'[u] \notin (deleteSet \cup emptySlots)'
    <3>1. CASE u = t
      BY <1>1, <1>3, <1>4, <1>6, <3>1 DEF MapsOK, OrderInv
    <3>2. CASE u # t
      <4>1. u \in Mapped
        BY <1>10, <2>1, <3>2
      <4>2. tagToLocation[u] \in Tagged /\ tagToLocation[u] # nd
        BY <1>1, <1>6, <4>1, MapFacts
      <4> QED BY <1>1, <1>3, <1>4, <3>2, <4>1, <4>2 DEF MapsOK, OrderInv, TagsLead, Tagged, Mapped
    <3> QED BY <3>1, <3>2
  <2>2. ASSUME NEW l \in Tagged'
        PROVE  tagToLocation'[locationToTag'[l]] = l
    <3>1. CASE l = nd
      BY <1>1, <1>4, <1>6, <3>1 DEF MapsOK
    <3>2. CASE l # nd
      <4>1. l \in Tagged /\ locationToTag'[l] = locationToTag[l]
        BY <1>1, <1>4, <1>11, <2>2, <3>2 DEF MapsOK, Tagged
      <4>2. locationToTag[l] \in Mapped /\ tagToLocation[locationToTag[l]] = l
        BY <1>1, <4>1, MapFacts
      <4> QED BY <1>1, <1>2, <1>4, <4>1, <4>2 DEF MapsOK, Mapped
    <3> QED BY <3>1, <3>2
  <2> QED BY <2>1, <2>2 DEF TagsLead
<1>13. OrderInv'
  <2>1. Tagged' = 0 .. nd' - 1
    BY <1>1, <1>3, <1>4, <1>11 DEF OrderInv
  <2>2. \A s \in nd + 1 .. MaxPoints - 1 : point'[s] = None
    BY <1>1, <1>3, <1>4, <1>6 DEF OrderInv, MapsOK, Slots
  <2>3. point'[ep] = Start
    BY <1>1, <1>2, <1>4, <1>6 DEF MapsOK
  <2>4. nd' # MaxPoints => point'[nd'] = None
    BY <1>1, <1>4, <1>6, <2>2
  <2>5. IF nd' = MaxPoints THEN point'[ep] = Start ELSE {point'[ep], point'[nd']} = {Start, None}
    BY <2>3, <2>4
  <2>6. \A s \in nd' + 1 .. MaxPoints - 1 : point'[s] = None
    BY <1>1, <1>4, <2>2
  <2>7. compactedOrder' \/ consolidatedOrder'
    BY <1>2, <1>5, Zenon
  <2> QED BY <1>3, <1>4, <2>1, <2>5, <2>6, <2>7 DEF OrderInv
<1> QED BY <1>2, <1>3, <1>7, <1>9, <1>10, <1>12, <1>13 DEF IInv

LEMMA EnableStep ==
    ASSUME Protocol, IInv, EnableDelete
    PROVE  IInv' /\ Mapped' = Mapped
<1> USE SizeAssumption, SlotFacts
<1>1. TypeOK /\ TagsLead /\ nd \in 0 .. MaxPoints
  BY DEF IInv, TypeOK
<1>2. point[ep] = Start /\ ~canDelete /\ ~SaveDue
  BY DEF EnableDelete, Settled
<1>3. OrderInv
  BY <1>2, Zenon DEF InRound, IInv
<1>4. /\ UNCHANGED <<tagToLocation, locationToTag, point, deleteSet, nd, changeLock>>
      /\ lazyDone' = FALSE /\ eagerDone' = FALSE /\ canDelete' = TRUE
  BY DEF EnableDelete, maps
<1>5. emptySlots' = nd .. MaxPoints - 1
  <2>1. CASE consolidatedOrder /\ compactedOrder
    BY <1>3, <2>1 DEF EnableDelete, OrderInv
  <2>2. CASE ~(consolidatedOrder /\ compactedOrder)
    <3>1. nd = MaxPoints
      BY <2>2, Zenon DEF EnableDelete, SlotsKnown, Protocol
    <3>2. emptySlots' = emptySlots
      BY <2>2, Zenon DEF EnableDelete
    <3> QED BY <1>3, <3>1, <3>2 DEF OrderInv
  <2> QED BY <2>1, <2>2
<1>6. compactedOrder' \in BOOLEAN /\ consolidatedOrder' \in BOOLEAN
  <2>1. compactedOrder \in BOOLEAN /\ consolidatedOrder \in BOOLEAN
    BY <1>1, Zenon DEF TypeOK
  <2>2. CASE consolidatedOrder /\ compactedOrder
    BY <2>2, Zenon DEF EnableDelete
  <2>3. CASE ~(consolidatedOrder /\ compactedOrder)
    <3>1. UNCHANGED orders
      BY <2>3, Zenon DEF EnableDelete
    <3> QED BY <2>1, <3>1 DEF orders
  <2> QED BY <2>2, <2>3
<1>7. Tagged' = Tagged /\ Mapped' = Mapped /\ MapsOK'
  BY <1>1, <1>4, TypeParts DEF Tagged, Mapped, MapsOK
<1>8. TypeOK'
  <2>1. emptySlots' \subseteq Locations
    BY <1>1, <1>5 DEF Locations
  <2>2. deleteSet' \subseteq Locations /\ nd' \in 0 .. MaxPoints
    BY <1>1, <1>4 DEF TypeOK
  <2>3. Flags' \subseteq BOOLEAN
    <3>1. changeLock \in BOOLEAN
      BY <1>1, Zenon DEF TypeOK
    <3>2. changeLock' = changeLock
      BY <1>4
    <3> QED BY <1>4, <1>6, <3>1, <3>2, Zenon DEF Flags
  <2> QED BY <1>7, <2>1, <2>2, <2>3, TypeParts DEF SlotsOK
<1>9. TagsLead'
  <2>1. \A u \in Mapped : tagToLocation[u] \notin nd .. MaxPoints - 1
    <3>1. \A u \in Mapped : tagToLocation[u] \in Tagged
      BY <1>1, MapFacts, TypeParts
    <3> QED BY <1>1, <1>3, <3>1 DEF OrderInv
  <2> QED BY <1>1, <1>3, <1>4, <1>5, <1>7, <2>1 DEF TagsLead, OrderInv
<1>10. RoundInv'
  <2>1. Tagged' = Locations \ (deleteSet' \cup emptySlots')
    BY <1>1, <1>3, <1>4, <1>5, <1>7 DEF OrderInv, Locations
  <2>2. nd' = Cardinality(Tagged') + Cardinality(deleteSet')
    <3>1. Cardinality(Tagged) = nd
      BY <1>1, <1>3, FS_Interval DEF OrderInv
    <3>2. Cardinality(deleteSet') = 0
      BY <1>3, <1>4, FS_EmptySet DEF OrderInv
    <3> QED BY <1>1, <1>4, <1>7, <3>1, <3>2
  <2>3. deleteSet' \cap emptySlots' = {}
    BY <1>3, <1>4 DEF OrderInv
  <2>4. point'[ep] = Start
    BY <1>2, <1>4
  <2> QED BY <1>4, <2>1, <2>2, <2>3, <2>4 DEF RoundInv
<1>11. InRound'
  BY <1>4 DEF InRound
<1> QED BY <1>7, <1>8, <1>9, <1>10, <1>11 DEF IInv

\* What both deletes do to the maps: the tag and its location are forgotten.
LEMMA Forgotten ==
    ASSUME MapsOK, TagsLead, NEW t \in Mapped,
           tagToLocation' = [tagToLocation EXCEPT ![t] = Unmapped],
           locationToTag' = [locationToTag EXCEPT ![tagToLocation[t]] = None],
           deleteSet' = deleteSet \cup {tagToLocation[t]},
           emptySlots' \subseteq emptySlots \cup {tagToLocation[t]},
           point' \in [Slots -> Tags \cup {Start, None}],
           \A s \in Slots \ {tagToLocation[t]} : point'[s] = point[s]
    PROVE  /\ MapsOK' /\ TagsLead'
           /\ Mapped' = Mapped \ {t}
           /\ Tagged' = Tagged \ {tagToLocation[t]}
           /\ tagToLocation[t] \in Tagged /\ tagToLocation[t] \in Locations
           /\ tagToLocation[t] \notin deleteSet \cup emptySlots
<1> USE SlotFacts
<1> DEFINE l == tagToLocation[t]
<1>1. t \in Tags /\ l \in Tagged /\ l \in Locations /\ l \notin deleteSet \cup emptySlots
  BY MapFacts DEF TagsLead
<1>2. MapsOK'
  BY <1>1 DEF MapsOK
<1>3. Mapped' = Mapped \ {t} /\ \A u \in Mapped' : tagToLocation'[u] = tagToLocation[u]
  BY <1>1 DEF Mapped, MapsOK
<1>4. Tagged' = Tagged \ {l} /\ \A k \in Tagged' : locationToTag'[k] = locationToTag[k]
  BY <1>1 DEF Tagged, MapsOK
<1>5. ASSUME NEW u \in Mapped'
      PROVE  /\ locationToTag'[tagToLocation'[u]] = u
             /\ point'[tagToLocation'[u]] = u
             /\ tagToLocation'[u] \notin (deleteSet \cup emptySlots)'
  <2>1. u \in Mapped /\ u # t /\ tagToLocation'[u] = tagToLocation[u]
    BY <1>3
  <2>2. tagToLocation[u] \in Tagged /\ tagToLocation[u] \in Slots /\ tagToLocation[u] # l
    BY <1>1, <2>1, MapFacts
  <2>3. tagToLocation[u] \in Tagged'
    BY <1>4, <2>2
  <2>4. locationToTag[tagToLocation[u]] = u /\ point[tagToLocation[u]] = u
        /\ tagToLocation[u] \notin deleteSet \cup emptySlots
    BY <2>1 DEF TagsLead
  <2>5. locationToTag'[tagToLocation[u]] = u
    BY <1>4, <2>3, <2>4
  <2>6. point'[tagToLocation[u]] = u
    BY <2>2, <2>4
  <2>7. tagToLocation[u] \notin (deleteSet \cup emptySlots)'
    BY <2>2, <2>4
  <2> QED BY <2>1, <2>5, <2>6, <2>7
<1>6. ASSUME NEW k \in Tagged'
      PROVE  tagToLocation'[locationToTag'[k]] = k
  <2>1. k \in Tagged /\ k # l /\ locationToTag'[k] = locationToTag[k]
    BY <1>4
  <2>2. locationToTag[k] \in Mapped /\ tagToLocation[locationToTag[k]] = k
    BY <2>1, MapFacts
  <2>3. locationToTag[k] \in Mapped'
    BY <1>3, <2>1, <2>2
  <2> QED BY <1>3, <2>1, <2>2, <2>3
<1>7. TagsLead'
  BY <1>5, <1>6 DEF TagsLead
<1> QED BY <1>1, <1>2, <1>3, <1>4, <1>7

LEMMA DeleteStep ==
    ASSUME IInv, NEW t \in Tags, DeletePoint(t)
    PROVE  IInv' /\ t \in Mapped /\ Mapped' = Mapped \ {t}
<1> DEFINE l == tagToLocation[t]
<1>1. /\ TypeOK /\ TagsLead /\ MapsOK /\ SlotsOK /\ Flags \subseteq BOOLEAN
  BY TypeParts DEF IInv
<1>2. /\ canDelete /\ ~eagerDone /\ t \in Mapped
      /\ deleteSet' = deleteSet \cup {l}
      /\ locationToTag' = [locationToTag EXCEPT ![l] = None]
      /\ tagToLocation' = [tagToLocation EXCEPT ![t] = Unmapped]
      /\ point' = point /\ emptySlots' = emptySlots /\ nd' = nd
      /\ canDelete' = canDelete /\ eagerDone' = eagerDone /\ lazyDone' = lazyDone
      /\ compactedOrder' = compactedOrder /\ consolidatedOrder' = consolidatedOrder
      /\ changeLock' = changeLock
  BY DEF DeletePoint, orders
<1>3. RoundInv
  BY <1>2, Zenon DEF InRound, IInv
<1>4. /\ MapsOK' /\ TagsLead' /\ Mapped' = Mapped \ {t} /\ Tagged' = Tagged \ {l}
      /\ l \in Tagged /\ l \in Locations /\ l \notin deleteSet \cup emptySlots
  BY <1>1, <1>2, Forgotten DEF MapsOK
<1>5. TypeOK'
  <2>1. SlotsOK'
    BY <1>1, <1>2, <1>4 DEF SlotsOK
  <2>2. Flags' = Flags
    BY <1>2 DEF Flags
  <2> QED BY <1>1, <1>4, <2>1, <2>2, TypeParts
<1>6. RoundInv'
  <2>1. Tagged' = Locations \ (deleteSet' \cup emptySlots')
    BY <1>2, <1>3, <1>4 DEF RoundInv
  <2>2. nd = Cardinality(Tagged) + Cardinality(deleteSet)
        /\ deleteSet \cap emptySlots = {} /\ point[ep] = Start
    BY <1>2, <1>3 DEF RoundInv
  <2>3. IsFiniteSet(Tagged) /\ Cardinality(Tagged) \in Nat
    BY <1>1, SameNumber
  <2>4. IsFiniteSet(deleteSet) /\ Cardinality(deleteSet) \in Nat
    BY <1>1, SlotFacts, FS_Subset, FS_CardinalityType DEF SlotsOK
  <2>5. Cardinality(Tagged') = Cardinality(Tagged) - 1
    BY <1>4, <2>3, FS_RemoveElement
  <2>6. Cardinality(deleteSet') = Cardinality(deleteSet) + 1
    BY <1>2, <1>4, <2>4, FS_AddElement
  <2>7. nd' = Cardinality(Tagged') + Cardinality(deleteSet')
    BY <1>2, <2>2, <2>3, <2>4, <2>5, <2>6
  <2>8. deleteSet' \cap emptySlots' = {} /\ point'[ep] = Start
    BY <1>2, <1>4, <2>2
  <2>9. ~eagerDone'
    BY <1>2
  <2> QED BY <2>1, <2>7, <2>8, <2>9 DEF RoundInv
<1>7. InRound'
  BY <1>2 DEF InRound
<1> QED BY <1>2, <1>4, <1>5, <1>6, <1>7 DEF IInv

LEMMA EagerStep ==
    ASSUME Protocol, IInv, NEW t \in Tags, EagerDelete(t)
    PROVE  IInv' /\ t \in Mapped /\ Mapped' = Mapped \ {t}
<1> DEFINE l == tagToLocation[t]
<1>1. /\ TypeOK /\ TagsLead /\ MapsOK /\ SlotsOK /\ Flags \subseteq BOOLEAN
  BY TypeParts DEF IInv
<1>2. /\ canDelete /\ t \in Mapped
      /\ deleteSet' = deleteSet \cup {l} /\ emptySlots' = emptySlots \cup {l}
      /\ locationToTag' = [locationToTag EXCEPT ![l] = None]
      /\ tagToLocation' = [tagToLocation EXCEPT ![t] = Unmapped]
      /\ point' = [point EXCEPT ![l] = None] /\ nd' = nd - 1
      /\ canDelete' = canDelete /\ eagerDone' = TRUE /\ lazyDone' = lazyDone
      /\ compactedOrder' = compactedOrder /\ consolidatedOrder' = consolidatedOrder
      /\ changeLock' = changeLock
  BY DEF EagerDelete, orders
<1>3. ~compactedOrder /\ (eagerDone \/ deleteSet = {})
  BY Zenon DEF EagerDelete, Protocol
<1>4. RoundInv
  BY <1>2, Zenon DEF InRound, IInv
<1>5. /\ MapsOK' /\ TagsLead' /\ Mapped' = Mapped \ {t} /\ Tagged' = Tagged \ {l}
      /\ l \in Tagged /\ l \in Locations /\ l \notin deleteSet \cup emptySlots
  <2>1. /\ point' \in [Slots -> Tags \cup {Start, None}]
        /\ \A s \in Slots \ {l} : point'[s] = point[s]
    BY <1>1, <1>2 DEF MapsOK
  <2> QED BY <1>1, <1>2, <2>1, Forgotten
<1>6. nd = Cardinality(Tagged)
  <2>1. CASE eagerDone
    BY <1>4, <2>1 DEF RoundInv
  <2>2. CASE ~eagerDone
    <3>1. nd = Cardinality(Tagged) + Cardinality(deleteSet) /\ deleteSet = {}
      BY <1>3, <1>4, <2>2 DEF RoundInv
    <3>2. Cardinality(deleteSet) = 0 /\ Cardinality(Tagged) \in Nat
      BY <1>1, <3>1, FS_EmptySet, SameNumber
    <3> QED BY <3>1, <3>2
  <2> QED BY <2>1, <2>2
<1>7. /\ Cardinality(Tagged') = nd' /\ nd' \in Nat
  <2>1. IsFiniteSet(Tagged) /\ Cardinality(Tagged') \in Nat
    BY <1>1, <1>5, SameNumber, FS_RemoveElement, FS_CardinalityType
  <2>2. Cardinality(Tagged') = Cardinality(Tagged) - 1
    BY <1>5, <2>1, FS_RemoveElement
  <2> QED BY <1>2, <1>6, <2>1, <2>2
<1>8. TypeOK'
  <2>1. SlotsOK'
    BY <1>1, <1>2, <1>5, <1>7, SizeAssumption DEF SlotsOK
  <2>2. canDelete' \in BOOLEAN /\ eagerDone' \in BOOLEAN /\ lazyDone' \in BOOLEAN
        /\ compactedOrder' \in BOOLEAN /\ consolidatedOrder' \in BOOLEAN
        /\ changeLock' \in BOOLEAN
    BY <1>1, <1>2, Zenon DEF Flags
  <2>3. Flags' \subseteq BOOLEAN
    BY <2>2, Zenon DEF Flags
  <2> QED BY <1>5, <2>1, <2>3, TypeParts
<1>9. RoundInv'
  <2>1. Tagged' = Locations \ (deleteSet' \cup emptySlots')
    BY <1>2, <1>4, <1>5 DEF RoundInv
  <2>2. deleteSet \subseteq emptySlots
    BY <1>3, <1>4 DEF RoundInv
  <2>3. deleteSet' \subseteq emptySlots'
    BY <1>2, <2>2
  <2>4. point'[ep] = Start
    BY <1>1, <1>2, <1>4, <1>5, SlotFacts DEF RoundInv, MapsOK
  <2>5. eagerDone' /\ ~compactedOrder'
    BY <1>2, <1>3
  <2> QED BY <1>7, <2>1, <2>3, <2>4, <2>5 DEF RoundInv
<1>10. InRound'
  BY <1>2 DEF InRound
<1> QED BY <1>2, <1>5, <1>8, <1>9, <1>10 DEF IInv

LEMMA DisableStep ==
    ASSUME IInv, DisableDelete
    PROVE  IInv' /\ Mapped' = Mapped
<1>1. /\ TypeOK /\ TagsLead /\ MapsOK /\ SlotsOK /\ Flags \subseteq BOOLEAN
  BY TypeParts DEF IInv
<1>2. /\ canDelete /\ canDelete' = FALSE
      /\ eagerDone' = eagerDone /\ lazyDone' = lazyDone
      /\ compactedOrder' = compactedOrder /\ changeLock' = changeLock
  BY DEF DisableDelete
<1>3. RoundInv
  BY <1>2, Zenon DEF InRound, IInv
<1>4. consolidatedOrder' \in BOOLEAN => Flags' \subseteq BOOLEAN
  BY <1>1, <1>2, Zenon DEF Flags
<1>5. CASE eagerDone
  <2>1. /\ UNCHANGED <<maps, slots>> /\ consolidatedOrder' = consolidatedOrder
    BY <1>5, Zenon DEF DisableDelete
  <2>2. /\ tagToLocation' = tagToLocation /\ locationToTag' = locationToTag
        /\ point' = point /\ deleteSet' = deleteSet /\ emptySlots' = emptySlots /\ nd' = nd
    BY <2>1 DEF maps, slots
  <2>3. Mapped' = Mapped /\ Tagged' = Tagged /\ MapsOK' /\ SlotsOK' /\ TagsLead'
    BY <1>1, <2>2 DEF Mapped, Tagged, MapsOK, SlotsOK, TagsLead
  <2>4. consolidatedOrder' \in BOOLEAN
    BY <1>1, <2>1, Zenon DEF Flags
  <2>5. RoundInv'
    BY <1>2, <1>3, <2>2, <2>3 DEF RoundInv
  <2>6. InRound'
    <3>1. ~compactedOrder
      BY <1>3, <1>5 DEF RoundInv
    <3> QED BY <1>2, <1>5, <3>1, Zenon DEF InRound, SaveDue
  <2> QED BY <1>4, <2>3, <2>4, <2>5, <2>6, TypeParts DEF IInv
<1>6. CASE ~eagerDone
  <2>1. CompactData /\ nd' = nd - Cardinality(deleteSet) /\ consolidatedOrder' = TRUE
    BY <1>6, Zenon DEF DisableDelete
  <2>2. nd' = Cardinality(Tagged)
    <3>1. nd = Cardinality(Tagged) + Cardinality(deleteSet)
      BY <1>3, <1>6 DEF RoundInv
    <3>2. Cardinality(Tagged) \in Nat /\ Cardinality(deleteSet) \in Nat
      BY <1>1, SameNumber, SlotFacts, FS_Subset, FS_CardinalityType DEF SlotsOK
    <3> QED BY <2>1, <3>1, <3>2
  <2>3. MapsOK' /\ TagsLead' /\ OrderInv' /\ SlotsOK' /\ Mapped' = Mapped
    BY <1>1, <1>3, <2>1, <2>2, CompactionOrders
  <2>4. ~InRound'
    BY <1>2, <1>6, Zenon DEF InRound, SaveDue
  <2>5. Flags' \subseteq BOOLEAN
    BY <1>4, <2>1
  <2> QED BY <2>3, <2>4, <2>5, TypeParts DEF IInv
<1> QED BY <1>5, <1>6

LEMMA SaveStep ==
    ASSUME IInv, Save
    PROVE  IInv' /\ Mapped' = Mapped
<1>1. /\ TypeOK /\ TagsLead /\ MapsOK /\ SlotsOK /\ Flags \subseteq BOOLEAN
  BY TypeParts DEF IInv
<1>2. /\ canDelete' = canDelete /\ eagerDone' = eagerDone /\ lazyDone' = lazyDone
      /\ consolidatedOrder' = consolidatedOrder /\ nd' = nd /\ ~canDelete
  BY DEF Save
<1>3. changeLock' \in BOOLEAN
  BY <1>1, Zenon DEF Save, Flags
<1>4. compactedOrder' \in BOOLEAN => Flags' \subseteq BOOLEAN
  BY <1>1, <1>2, <1>3, Zenon DEF Flags
<1>5. CASE SaveDue /\ nd < MaxPoints
  <2>1. CompactData /\ compactedOrder' = TRUE
    BY <1>5, Zenon DEF Save
  <2>2. RoundInv /\ eagerDone
    BY <1>5, Zenon DEF IInv, InRound, SaveDue
  <2>3. nd' = Cardinality(Tagged)
    BY <1>2, <2>2 DEF RoundInv
  <2>4. MapsOK' /\ TagsLead' /\ OrderInv' /\ SlotsOK' /\ Mapped' = Mapped
    BY <1>1, <2>1, <2>2, <2>3, CompactionOrders
  <2>5. ~InRound'
    BY <1>2, <2>1, Zenon DEF InRound, SaveDue
  <2>6. Flags' \subseteq BOOLEAN
    BY <1>4, <2>1
  <2> QED BY <2>4, <2>5, <2>6, TypeParts DEF IInv
<1>6. CASE ~(SaveDue /\ nd < MaxPoints)
  <2>1. UNCHANGED <<maps, deleteSet, emptySlots, compactedOrder>>
    BY <1>6, Zenon DEF Save
  <2>2. /\ tagToLocation' = tagToLocation /\ locationToTag' = locationToTag
        /\ point' = point /\ deleteSet' = deleteSet /\ emptySlots' = emptySlots
        /\ compactedOrder' = compactedOrder
    BY <2>1 DEF maps
  <2>3. Mapped' = Mapped /\ Tagged' = Tagged /\ MapsOK' /\ SlotsOK' /\ TagsLead'
    BY <1>1, <1>2, <2>2 DEF Mapped, Tagged, MapsOK, SlotsOK, TagsLead
  <2>4. Flags' \subseteq BOOLEAN
    BY <1>1, <1>4, <2>2, Zenon DEF Flags
  <2>5. RoundInv => RoundInv'
    BY <1>2, <2>2, <2>3 DEF RoundInv
  <2>6. OrderInv => OrderInv'
    BY <1>2, <2>2, <2>3 DEF OrderInv
  <2>7. InRound' <=> InRound
    BY <1>2, <2>2, Zenon DEF InRound, SaveDue
  <2> QED BY <2>3, <2>4, <2>5, <2>6, <2>7, TypeParts DEF IInv
<1> QED BY <1>5, <1>6

LEMMA ReadjustStep ==
    ASSUME IInv, ReadjustData
    PROVE  IInv' /\ Mapped' = Mapped
<1> USE SizeAssumption, NamesAssumption, SlotFacts
<1>1. /\ TypeOK /\ TagsLead /\ MapsOK /\ SlotsOK /\ Flags \subseteq BOOLEAN
  BY TypeParts DEF IInv
<1>2. /\ ~canDelete /\ ~SaveDue /\ point[ep] = None
      /\ point' = [point EXCEPT ![ep] = point[nd], ![nd] = None]
      /\ tagToLocation' = tagToLocation /\ locationToTag' = locationToTag
      /\ deleteSet' = deleteSet /\ emptySlots' = emptySlots /\ nd' = nd
      /\ canDelete' = canDelete /\ eagerDone' = eagerDone /\ lazyDone' = lazyDone
      /\ compactedOrder' = compactedOrder /\ consolidatedOrder' = consolidatedOrder
      /\ changeLock' = changeLock
  BY DEF ReadjustData, slots, orders
<1>3. ~InRound /\ OrderInv
  BY <1>2, Zenon DEF InRound, IInv
<1>4. Start # None
  BY DEF Start, None
<1>5. nd # MaxPoints /\ point[nd] = Start
  BY <1>2, <1>3, <1>4 DEF OrderInv
<1>6. nd \in Locations /\ nd \in Slots /\ nd # ep /\ nd \notin Tagged /\ ep \notin Tagged
  BY <1>1, <1>3, <1>5 DEF OrderInv, SlotsOK, Locations, Slots, ep
<1>7. /\ point' \in [Slots -> Tags \cup {Start, None}]
      /\ point'[ep] = Start /\ point'[nd] = None
      /\ \A s \in Slots \ {ep, nd} : point'[s] = point[s]
  BY <1>1, <1>2, <1>5, <1>6 DEF MapsOK
<1>8. Mapped' = Mapped /\ Tagged' = Tagged /\ MapsOK' /\ SlotsOK'
  BY <1>1, <1>2, <1>7 DEF Mapped, Tagged, MapsOK, SlotsOK
<1>9. TagsLead'
  <2>1. \A u \in Mapped : point'[tagToLocation[u]] = u
    <3> SUFFICES ASSUME NEW u \in Mapped PROVE point'[tagToLocation[u]] = u
      OBVIOUS
    <3>1. tagToLocation[u] \in Tagged /\ tagToLocation[u] \in Slots
      BY <1>1, MapFacts
    <3> QED BY <1>1, <1>6, <1>7, <3>1 DEF TagsLead
  <2> QED BY <1>1, <1>2, <1>8, <2>1 DEF TagsLead
<1>10. OrderInv'
  <2>1. \A s \in nd + 1 .. MaxPoints - 1 : point'[s] = None
    <3> SUFFICES ASSUME NEW s \in nd + 1 .. MaxPoints - 1 PROVE point'[s] = None
      OBVIOUS
    <3>1. s \in Slots \ {ep, nd}
      BY <1>1 DEF SlotsOK, Slots, ep
    <3> QED BY <1>3, <1>7, <3>1 DEF OrderInv
  <2> QED BY <1>2, <1>3, <1>5, <1>7, <1>8, <2>1 DEF OrderInv
<1>11. ~InRound' /\ Flags' = Flags
  BY <1>2, <1>3, Zenon DEF InRound, SaveDue, Flags
<1> QED BY <1>1, <1>8, <1>9, <1>10, <1>11, TypeParts DEF IInv

LEMMA NextIInv == Protocol /\ IInv /\ [Next]_vars => IInv'
<1> SUFFICES ASSUME Protocol, IInv, [Next]_vars PROVE IInv'
  OBVIOUS
<1>1. ASSUME NEW t \in Tags, InsertPoint(t) PROVE IInv'
  BY <1>1, InsertStep
<1>2. ASSUME NEW t \in Tags, DeletePoint(t) PROVE IInv'
  BY <1>2, DeleteStep
<1>3. ASSUME NEW t \in Tags, EagerDelete(t) PROVE IInv'
  BY <1>3, EagerStep
<1>4. CASE EnableDelete
  BY <1>4, EnableStep
<1>5. CASE DisableDelete
  BY <1>5, DisableStep
<1>6. CASE Save
  BY <1>6, SaveStep
<1>7. CASE ReadjustData
  BY <1>7, ReadjustStep
<1>8. CASE UNCHANGED vars
  BY <1>8 DEF vars, maps, slots, orders, IInv, TypeOK, TagsLead, InRound, SaveDue, RoundInv,
              OrderInv, Mapped, Tagged
<1> QED BY <1>1, <1>2, <1>3, <1>4, <1>5, <1>6, <1>7, <1>8 DEF Next

\* In every round of deletes a slot has a tag, is deleted or is empty and is
\* counted once; outside, the tags fill the first slots and lead to their points.
THEOREM Inductive == Protocol => (Spec => []IInv)
<1> SUFFICES ASSUME Protocol PROVE Spec => []IInv
  OBVIOUS
<1>1. IInv /\ [Next]_vars => IInv'
  BY NextIInv
<1> QED BY InitIInv, <1>1, PTL DEF Spec
-----------------------------------------------------------------------------
(***************************************************************************)
(* The properties.                                                         *)
(***************************************************************************)
\* Every location a tag is given is one of the slots of the points.
THEOREM TypesHold == Protocol => (Spec => []TypeOK)
<1> SUFFICES ASSUME Protocol PROVE Spec => []TypeOK
  OBVIOUS
<1>1. Spec => []IInv
  BY Inductive
<1>2. IInv => TypeOK
  BY DEF IInv
<1> QED BY <1>1, <1>2, PTL

\* However often the slots are renumbered, the maps stay inverse and a tag leads
\* to its own vector.
THEOREM TagsLeadHolds == Protocol => (Spec => []TagsLead)
<1> SUFFICES ASSUME Protocol PROVE Spec => []TagsLead
  OBVIOUS
<1>1. Spec => []IInv
  BY Inductive
<1>2. IInv => TagsLead
  BY DEF IInv
<1> QED BY <1>1, <1>2, PTL

LEMMA Disjoint ==
    ASSUME NEW S, IsFiniteSet(S), NEW T, IsFiniteSet(T), S \cap T = {}
    PROVE  IsFiniteSet(S \cup T) /\ Cardinality(S \cup T) = Cardinality(S) + Cardinality(T)
<1>1. /\ IsFiniteSet(S \cup T)
      /\ Cardinality(S \cup T) = Cardinality(S) + Cardinality(T) - Cardinality({})
  BY FS_Union
<1>2. Cardinality({}) = 0 /\ Cardinality(S) \in Nat /\ Cardinality(T) \in Nat
  BY FS_EmptySet, FS_CardinalityType
<1> QED BY <1>1, <1>2

\* In a round the slots without a tag are those of deleted points and the empty
\* ones; beside the tagged slots only that of the frozen point is kept.
LEMMA RoundCounts ==
    ASSUME IInv, InRound
    PROVE  /\ Cardinality(Tagged) \in Nat /\ Cardinality(deleteSet) \in Nat
           /\ Cardinality(Kept) = Cardinality(Tagged) + 1
           /\ ~eagerDone =>
                 Cardinality(Tagged) + Cardinality(deleteSet) + Cardinality(emptySlots) = MaxPoints
<1>1. RoundInv /\ TagsLead /\ MapsOK /\ deleteSet \subseteq Locations /\ emptySlots \subseteq Locations
  BY TypeParts DEF IInv, TypeOK
<1>2. IsFiniteSet(Tagged) /\ Cardinality(Tagged) \in Nat
  BY <1>1, SameNumber
<1>3. /\ IsFiniteSet(deleteSet) /\ Cardinality(deleteSet) \in Nat
      /\ IsFiniteSet(emptySlots) /\ Cardinality(emptySlots) \in Nat
  BY <1>1, SlotFacts, FS_Subset, FS_CardinalityType
<1>4. Kept = Tagged \cup {ep} /\ ep \notin Tagged
  BY <1>1, SlotFacts DEF RoundInv, Kept
<1>5. Cardinality(Kept) = Cardinality(Tagged) + 1
  BY <1>2, <1>4, FS_AddElement
<1>6. ASSUME ~eagerDone
      PROVE  Cardinality(Tagged) + Cardinality(deleteSet) + Cardinality(emptySlots) = MaxPoints
  <2> DEFINE gone == deleteSet \cup emptySlots
  <2>1. deleteSet \cap emptySlots = {} /\ Locations = Tagged \cup gone /\ Tagged \cap gone = {}
    BY <1>1, <1>6, SlotFacts, MapFacts DEF RoundInv
  <2>2. IsFiniteSet(gone) /\ Cardinality(gone) = Cardinality(deleteSet) + Cardinality(emptySlots)
    BY <1>3, <2>1, Disjoint
  <2> HIDE DEF gone
  <2>3. Cardinality(Locations) = Cardinality(Tagged) + Cardinality(gone)
    BY <1>2, <2>1, <2>2, Disjoint
  <2> QED BY <1>2, <1>3, <2>2, <2>3, SlotFacts
<1> QED BY <1>2, <1>3, <1>5, <1>6

\* disable_delete returns no error in any round, and it and the save after it
\* find the slots as they assert exactly in the rounds of a full index.
THEOREM DisableAcceptsHolds == Protocol => (Spec => []DisableAccepts)
<1> SUFFICES ASSUME Protocol PROVE Spec => []DisableAccepts
  OBVIOUS
<1>1. Spec => []IInv
  BY Inductive
<1>2. IInv => DisableAccepts
  <2> SUFFICES ASSUME IInv, InRound
               PROVE  /\ canDelete => SizesMatch
                      /\ canDelete /\ ~eagerDone =>
                            /\ Cardinality(deleteSet) <= nd
                            /\ Cardinality(emptySlots) + nd = MaxPoints
                      /\ SlotsCounted <=> BeganFull
    BY DEF DisableAccepts, InRound
  <2>1. TagsLead /\ MapsOK /\ RoundInv /\ nd \in Nat /\ MaxPoints \in Nat
    BY TypeParts, SizeAssumption DEF IInv, TypeOK
  <2>2. Cardinality(Mapped) = Cardinality(Tagged)
    BY <2>1, SameNumber
  <2>3. nd = Cardinality(Tagged) + (IF eagerDone THEN 0 ELSE Cardinality(deleteSet))
    BY <2>1, RoundCounts DEF RoundInv
  <2>4. SizesMatch
    BY <2>2, <2>3 DEF SizesMatch
  <2>5. ~eagerDone => Cardinality(deleteSet) <= nd /\ Cardinality(emptySlots) + nd = MaxPoints
    <3>1. emptySlots \subseteq Locations
      BY DEF IInv, TypeOK
    <3>2. Cardinality(emptySlots) \in Nat
      BY <3>1, SlotFacts, FS_Subset, FS_CardinalityType
    <3> QED BY <2>1, <2>3, <3>2, RoundCounts
  <2>6. SlotsCounted <=> BeganFull
    BY <2>1, <2>3, RoundCounts DEF SlotsCounted, BeganFull
  <2> QED BY <2>4, <2>5, <2>6
<1> QED BY <1>1, <1>2, PTL

\* An insert overwrites nothing.
THEOREM NextSlotFreeHolds == Protocol => (Spec => []NextSlotFree)
<1> SUFFICES ASSUME Protocol PROVE Spec => []NextSlotFree
  OBVIOUS
<1>1. Spec => []IInv
  BY Inductive
<1>2. IInv => NextSlotFree
  <2> SUFFICES ASSUME IInv, Settled, nd < MaxPoints
               PROVE  /\ compactedOrder \/ consolidatedOrder
                      /\ point[nd] = None /\ locationToTag[nd] = None
    BY DEF NextSlotFree
  <2>1. OrderInv /\ point[ep] = Start
    BY Zenon DEF IInv, Settled, InRound
  <2>2. nd \in Slots /\ nd \notin Tagged
    BY <2>1, SizeAssumption DEF IInv, TypeOK, OrderInv, Slots
  <2>3. point[nd] = None
    <3>1. nd # MaxPoints /\ nd \in Nat
      BY SizeAssumption DEF IInv, TypeOK
    <3> QED BY <2>1, <3>1 DEF OrderInv, Start, None
  <2>4. compactedOrder \/ consolidatedOrder
    BY <2>1, Zenon DEF OrderInv
  <2> QED BY <2>2, <2>3, <2>4 DEF Tagged
<1> QED BY <1>1, <1>2, PTL

\* A file saved outside of a round has the list of every point.
THEOREM SaveCompleteHolds == Protocol => (Spec => []SaveComplete)
<1> SUFFICES ASSUME Protocol PROVE Spec => []SaveComplete
  OBVIOUS
<1>1. Spec => []IInv
  BY Inductive
<1>2. IInv => SaveComplete
  <2> SUFFICES ASSUME IInv, ~canDelete, ~SaveDue, NEW t \in Mapped
               PROVE  t \in Written
    BY DEF SaveComplete
  <2>1. OrderInv /\ TagsLead /\ MapsOK
    BY TypeParts, Zenon DEF IInv, InRound
  <2>2. tagToLocation[t] \in 0 .. nd - 1
    BY <2>1, MapFacts DEF OrderInv
  <2>3. tagToLocation[t] \in 0 .. nd /\ point[tagToLocation[t]] = t
    BY <2>1, <2>2 DEF IInv, TypeOK, TagsLead
  <2> QED BY <2>3 DEF Written
<1> QED BY <1>1, <1>2, PTL

\* The start node of every search is never lost.
THEOREM StartKeptHolds == Protocol => (Spec => []StartKept)
<1> SUFFICES ASSUME Protocol PROVE Spec => []StartKept
  OBVIOUS
<1>1. Spec => []IInv
  BY Inductive
<1>2. IInv => StartKept
  <2> SUFFICES ASSUME IInv
               PROVE  point[ep] = Start \/ (point[ep] = None /\ point[nd] = Start)
    BY DEF StartKept
  <2>1. CASE InRound
    BY <2>1 DEF IInv, RoundInv
  <2>2. CASE ~InRound
    BY <2>2 DEF IInv, OrderInv, Start, None
  <2> QED BY <2>1, <2>2
<1> QED BY <1>1, <1>2, PTL

\* save leaves _change_lock held where deletes were never enabled, or where the
\* eager deletes that it compacts left every slot in use.  The second never
\* happens: an eager delete leaves a slot, and nothing takes it before the save.
LockInv == ~changeLock /\ (eagerDone /\ ~compactedOrder => nd < MaxPoints)

\* Only the save before the first round of deletes stops the calls after it.
THEOREM LockReleasedHolds ==
    Protocol /\ "save_first" \notin Liberties => (Spec => []LockReleased)
<1> SUFFICES ASSUME Protocol, "save_first" \notin Liberties PROVE Spec => []LockReleased
  OBVIOUS
<1>1. Init => LockInv
  BY DEF Init, LockInv
<1>2. ASSUME IInv, LockInv, [Next]_vars
      PROVE  LockInv'
  <2>1. nd \in Nat /\ nd <= MaxPoints /\ MaxPoints \in Nat
    BY <1>2, SizeAssumption DEF IInv, TypeOK
  <2>2. ASSUME NEW t \in Tags, InsertPoint(t) PROVE LockInv'
    BY <1>2, <2>2 DEF LockInv, InsertPoint, Settled, SaveDue, orders
  <2>3. ASSUME NEW t \in Tags, DeletePoint(t) PROVE LockInv'
    BY <1>2, <2>3 DEF LockInv, DeletePoint, orders
  <2>4. ASSUME NEW t \in Tags, EagerDelete(t) PROVE LockInv'
    BY <1>2, <2>1, <2>4 DEF LockInv, EagerDelete
  <2>5. CASE EnableDelete
    BY <1>2, <2>5 DEF LockInv, EnableDelete
  <2>6. CASE DisableDelete
    BY <1>2, <2>6 DEF LockInv, DisableDelete, slots
  <2>7. CASE Save
    <3>1. ~lazyDone /\ (SaveDue => nd # MaxPoints)
      BY <1>2, <2>1, <2>7 DEF LockInv, Save, SaveDue
    <3>2. ~changeLock'
      BY <1>2, <2>7, <3>1, Zenon DEF LockInv, Save
    <3>3. eagerDone' /\ ~compactedOrder' => nd' < MaxPoints
      BY <1>2, <2>7 DEF LockInv, Save, SaveDue
    <3> QED BY <3>2, <3>3 DEF LockInv
  <2>8. CASE ReadjustData
    BY <1>2, <2>8 DEF LockInv, ReadjustData, slots, orders
  <2>9. CASE UNCHANGED vars
    BY <1>2, <2>9 DEF LockInv, vars, slots, orders
  <2> QED BY <1>2, <2>2, <2>3, <2>4, <2>5, <2>6, <2>7, <2>8, <2>9 DEF Next
<1>3. LockInv => LockReleased
  BY DEF LockInv, LockReleased
<1>4. Spec => []IInv
  BY Inductive
<1> QED BY <1>1, <1>2, <1>3, <1>4, PTL DEF Spec

\* The store counts as this module does: its Cardinality is the library's.
LEMMA SameCardinality == \A S : Store!Cardinality(S) = Cardinality(S)
BY Zenon DEF Cardinality, Store!Cardinality

\* To its callers the index is a bounded set of tags: only an insert and a delete
\* change it, by the one tag they are called with.
THEOREM Refinement == Protocol => (Spec => StoreSpec)
<1> SUFFICES ASSUME Protocol PROVE Spec => StoreSpec
  OBVIOUS
<1>1. IInv => Live = Mapped
  BY DEF IInv, TagsLead, Live
<1>2. Init => Store!Init
  <2> SUFFICES ASSUME Init PROVE Store!Init
    OBVIOUS
  <2>1. IInv /\ nd = InitialPoints /\ ~InRound
    BY InitIInv, Zenon DEF Init, InRound, SaveDue
  <2>2. Cardinality(Mapped) <= MaxPoints
    BY <2>1, SameNumber, TypeParts, SizeAssumption DEF IInv
  <2>3. Mapped \in SUBSET Tags
    BY DEF Mapped
  <2>4. Live = Mapped
    BY <1>1, <2>1
  <2>5. Live \in SUBSET Tags /\ Cardinality(Live) <= MaxPoints
    BY <2>2, <2>3, <2>4
  <2> QED BY <2>5, SameCardinality, Zenon DEF Store!Init
<1>3. IInv /\ IInv' /\ [Next]_vars => [Store!Next]_Live
  <2> SUFFICES ASSUME IInv, IInv', [Next]_vars
               PROVE  Store!Next \/ Live' = Live
    OBVIOUS
  <2>1. Live = Mapped /\ Live' = Mapped'
    BY <1>1 DEF IInv, TagsLead, Live, Mapped
  <2>2. ASSUME NEW t \in Tags, InsertPoint(t)
        PROVE  Store!Insert(t)
    <3>1. ~InRound /\ Mapped' = Mapped \cup {t} /\ t \notin Mapped /\ nd # MaxPoints
      BY <2>2, InsertStep
    <3>2. OrderInv /\ TagsLead /\ MapsOK /\ nd \in 0 .. MaxPoints
      BY <3>1, TypeParts DEF IInv, TypeOK
    <3>3. Cardinality(Tagged) = nd
      BY <3>2, FS_Interval, SizeAssumption DEF OrderInv
    <3>4. Cardinality(Mapped) < MaxPoints
      BY <3>1, <3>2, <3>3, SameNumber, SizeAssumption
    <3>5. t \notin Live /\ Live' = Live \cup {t}
      BY <2>1, <3>1, Zenon
    <3>6. Cardinality(Live) < MaxPoints
      BY <2>1, <3>4, Zenon
    <3> QED BY <3>5, <3>6, SameCardinality, Zenon DEF Store!Insert
  <2>3. ASSUME NEW t \in Tags, DeletePoint(t) \/ EagerDelete(t)
        PROVE  Store!Delete(t)
    BY <2>1, <2>3, DeleteStep, EagerStep DEF Store!Delete
  <2>4. ASSUME EnableDelete \/ DisableDelete \/ Save \/ ReadjustData
        PROVE  Live' = Live
    BY <2>1, <2>4, EnableStep, DisableStep, SaveStep, ReadjustStep
  <2>5. CASE UNCHANGED vars
    BY <2>1, <2>5 DEF vars, maps, Mapped
  <2> QED BY <2>2, <2>3, <2>4, <2>5 DEF Next, Store!Next
<1>4. Spec => []IInv
  BY Inductive
<1> QED BY <1>2, <1>3, <1>4, PTL DEF Spec, StoreSpec, Store!Spec
=============================================================================
