-------------------------- MODULE SPTAGIndexProofs --------------------------
(***************************************************************************)
(* For any numbers of threads, vectors and metadata, any capacity and any  *)
(* interleaving of adds, deletes, saves and restarts, the SPTAG index      *)
(* keeps its parts together, and is a store of vectors.                    *)
(***************************************************************************)
EXTENDS SPTAGIndex, SequenceTheorems, TLAPS

\* Where the call of AddIndex is that holds m_dataAddLock.
Adding == addLock \in Adders
Stage == adder[addLock]
n == Len(batch)

Grown == {"graph", "labels", "append", "map", "unlock"}

\* The locks, and the locals of AddIndex.
CallInv ==
    /\ \A t \in Adders : (adder[t] # "idle") <=> (addLock = t)
    /\ deleteLock <=> (saver = "compact")
    /\ (addLock = Saver) <=> (saver = "compact")
    /\ ~Adding => batch = <<>> /\ begin = 0 /\ k = 0
    /\ Adding =>
        /\ n \in 1 .. MaxBatch /\ taken + n <= MaxVectors
        /\ \A j \in 1 .. n : batch[j].n = taken + j /\ (~given => batch[j].meta = Empty)
        /\ (Stage = "build") <=> (begin = 0)
        /\ IF Stage \in {"append", "map"} THEN k < n ELSE k = 0
        /\ Stage = "append" => hasMeta
        /\ Stage = "map" => given /\ hasMapping

\* How far the three tables have grown.
RowsInv ==
    IF Adding /\ Stage \in Grown
    THEN /\ NumSamples = begin + n
         /\ graphRows = IF Stage = "graph" THEN begin ELSE begin + n
         /\ labelRows = IF Stage \in {"graph", "labels"} THEN begin ELSE begin + n
         /\ \A j \in 1 .. n : samples[begin + j] = batch[j]
    ELSE /\ graphRows = NumSamples /\ labelRows = NumSamples
         /\ Adding => NumSamples = begin

\* Which ids the other parts may hold.
IdsInv ==
    /\ deleted \subseteq Entered
    /\ \A m \in MetaValues : mapping[m] \in {0} \cup Entered
    /\ found \in {0} \cup Entered

\* No vector is there twice.
NumbersInv ==
    /\ \A i \in 1 .. NumSamples : (Adding => i <= begin) => samples[i].n <= taken
    /\ \A i, j \in 1 .. NumSamples : samples[i].n = samples[j].n => i = j

\* Before the first batch nothing is there to be deleted or saved.
ReadyInv ==
    /\ ready <=> (NumSamples # 0)
    /\ ~ready => saver = "idle" /\ ~complete /\ ~hasMeta /\ ~lost

Records ==
    IF ~Adding THEN NumSamples
    ELSE IF Stage = "append" THEN begin + k
    ELSE IF Stage \in {"map", "unlock"} THEN begin + n
    ELSE begin

\* Metadata and mapping, as long as no record is lost.
MetaInv ==
    /\ hasMapping => hasMeta
    /\ ~hasMeta => metadata = <<>>
    /\ hasMeta /\ ~lost =>
          /\ Len(metadata) = Records
          /\ \A i \in 1 .. Len(metadata) : metadata[i] = samples[i].meta
    /\ hasMapping /\ ~lost =>
          /\ \A m \in MetaValues : mapping[m] # 0 => samples[mapping[m]].meta = m
          /\ \A i \in Live :
                samples[i].meta \in Metas \ twins => mapping[samples[i].meta] = i

\* The loop of RefineIndex.
LoopInv ==
    saver = "compact" =>
        /\ next \in 1 .. newR + 1 /\ newR <= NumSamples
        /\ Len(indices) = next - 1 /\ Len(reverseIndices) = NumSamples
        /\ \A i \in 1 .. next - 1 :
              /\ indices[i] \in AllIds \ deleted
              /\ i \notin deleted => indices[i] = i
              /\ i \in deleted => indices[i] > newR
              /\ reverseIndices[indices[i]] = i
        /\ \A j \in AllIds \ deleted :
              j > newR => \E i \in 1 .. next - 1 : indices[i] = j

FileLive == (1 .. Len(file.samples)) \ file.deleted

\* What a load would find.
FileInv ==
    /\ saver # "idle" => ~complete
    /\ saver = "data" =>
          /\ Len(file.metadata) <= Len(metadata)
          /\ \A i \in 1 .. Len(file.metadata) : file.metadata[i] = metadata[i]
    /\ ~hasMeta => file.metadata = <<>>
    /\ Len(file.metadata) <= DataCapacity
    /\ complete =>
          /\ Len(file.samples) \in 1 .. DataCapacity
          /\ file.deleted \subseteq 1 .. Len(file.samples)
          /\ \A i \in 1 .. Len(file.samples) : file.samples[i].n <= taken
          /\ \A i, j \in 1 .. Len(file.samples) : file.samples[i].n = file.samples[j].n => i = j
          /\ hasMeta /\ ~file.lost /\ Len(file.metadata) = Len(file.samples) =>
                /\ \A i \in 1 .. Len(file.samples) : file.metadata[i] = file.samples[i].meta
                /\ hasMapping => \A i, j \in FileLive :
                      file.samples[i].meta \in Metas \ twins
                      /\ file.samples[i].meta = file.samples[j].meta => i = j

IInv ==
    /\ TypeOK /\ CallInv /\ RowsInv /\ IdsInv /\ NumbersInv /\ ReadyInv /\ MetaInv
    /\ LoopInv /\ FileInv
-----------------------------------------------------------------------------
\* A function on 1 .. m is a sequence.
LEMMA FcnSeq ==
    ASSUME NEW S, NEW m \in Nat, NEW f \in [1 .. m -> S]
    PROVE  f \in Seq(S) /\ Len(f) = m /\ \A i \in 1 .. m : f[i] \in S
<1>1. f \in Seq(S)
  BY SeqDef
<1>2. DOMAIN f = 1 .. m /\ DOMAIN f = 1 .. Len(f) /\ Len(f) \in Nat
  BY <1>1, LenProperties
<1> QED BY <1>1, <1>2

\* A call of AddIndex that is under way holds the lock alone.
LEMMA Holder ==
    ASSUME IInv, NEW t \in Adders, adder[t] # "idle"
    PROVE  /\ addLock = t /\ Adding /\ Stage = adder[t]
           /\ saver # "compact" /\ ~deleteLock
           /\ n \in 1 .. MaxBatch /\ taken + n <= MaxVectors
BY NamesAssumption DEF IInv, CallInv, Adding, Stage

\* It goes on to its next stage.
LEMMA GoesOn ==
    ASSUME IInv, NEW t \in Adders, adder[t] # "idle",
           NEW s \in {"samples", "graph", "labels", "append", "map", "unlock"},
           addLock' = addLock, adder' = [adder EXCEPT ![t] = s]
    PROVE  /\ Adding' /\ Stage' = s
           /\ \A u \in Adders : (adder'[u] # "idle") <=> (addLock' = u)
<1>1. addLock = t /\ Adding
  BY Holder
<1>2. adder \in [Adders -> {"idle", "build", "samples", "graph", "labels", "append", "map",
                            "unlock"}]
  BY DEF IInv, TypeOK, CallTypeOK
<1>3. \A u \in Adders : (adder[u] # "idle") <=> (addLock = u)
  BY DEF IInv, CallInv
<1> QED BY <1>1, <1>2, <1>3 DEF Adding, Stage

\* It returns.
LEMMA Returns ==
    ASSUME IInv, NEW t \in Adders, adder[t] # "idle",
           addLock' = NoOne, adder' = [adder EXCEPT ![t] = "idle"]
    PROVE  /\ ~Adding'
           /\ \A u \in Adders : (adder'[u] # "idle") <=> (addLock' = u)
<1>1. addLock = t /\ Adding
  BY Holder
<1>2. adder \in [Adders -> {"idle", "build", "samples", "graph", "labels", "append", "map",
                            "unlock"}]
  BY DEF IInv, TypeOK, CallTypeOK
<1>3. \A u \in Adders : (adder[u] # "idle") <=> (addLock = u)
  BY DEF IInv, CallInv
<1> QED BY <1>1, <1>2, <1>3, NamesAssumption DEF Adding

\* The sets of ids are sets of numbers.
LEMMA EnteredIds ==
    ASSUME IInv
    PROVE  /\ NumSamples \in Nat /\ NumSamples <= DataCapacity /\ n \in Nat
           /\ Entered \subseteq AllIds /\ Entered \subseteq Ids /\ AllIds \subseteq Ids
           /\ Adding => begin \in Nat /\ begin <= NumSamples
           /\ \A i \in AllIds : samples[i] \in Vectors
<1> USE NumbersAssumption
<1>1. NumSamples \in Nat /\ NumSamples <= DataCapacity /\ n \in Nat /\ begin \in Nat
      /\ k \in Nat /\ samples \in Seq(Vectors)
  BY DEF IInv, TypeOK, IndexTypeOK, CallTypeOK, NumSamples, n, Ids
<1>2. Adding => begin <= NumSamples
  BY <1>1 DEF IInv, RowsInv
<1>3. Adding /\ Stage \in {"map", "unlock"} => NumSamples = begin + n
  BY DEF IInv, RowsInv, Grown
<1>4. Adding /\ Stage = "map" => k < n
  BY DEF IInv, CallInv
<1>5. Entered \subseteq AllIds
  BY <1>1, <1>2, <1>3, <1>4 DEF Entered, Adding, Stage, n, AllIds
<1> QED BY <1>1, <1>2, <1>5 DEF AllIds, Ids, NumSamples
-----------------------------------------------------------------------------
(***************************************************************************)
(* AddIndex.                                                               *)
(***************************************************************************)
LEMMA AddBeginStep ==
    ASSUME IInv, NEW t \in Adders, AddBegin(t)
    PROVE  IInv'
<1> USE NumbersAssumption, NamesAssumption
<1>0. PICK m \in 1 .. MaxBatch, g \in BOOLEAN :
         /\ taken + m <= MaxVectors
         /\ \E ms \in [1 .. m -> IF g THEN Metas ELSE {Empty}] :
               batch' = [j \in 1 .. m |-> [n |-> taken + j, meta |-> ms[j]]]
         /\ given' = g
  BY DEF AddBegin
<1>1. PICK ms \in [1 .. m -> IF g THEN Metas ELSE {Empty}] :
         batch' = [j \in 1 .. m |-> [n |-> taken + j, meta |-> ms[j]]]
  BY <1>0
<1>2. /\ ~Adding /\ saver # "compact" /\ ~deleteLock
      /\ addLock = NoOne /\ addLock' = t /\ adder[t] = "idle"
      /\ UNCHANGED <<ready, index, metas, deleteLock, found, saver, refineVars, disk, ghosts>>
      /\ begin' = NumSamples /\ k' = 0
      /\ adder' = [adder EXCEPT ![t] = IF NumSamples = 0 THEN "build" ELSE "samples"]
  BY DEF AddBegin, IInv, CallInv, Adding
<1>3. taken \in Nat /\ m \in Nat
  BY DEF IInv, TypeOK, IndexTypeOK
<1>4. batch' \in [1 .. m -> Vectors]
  <2> SUFFICES ASSUME NEW j \in 1 .. m
               PROVE  [n |-> taken + j, meta |-> ms[j]] \in Vectors
    BY <1>1
  <2> QED BY <1>0, <1>1, <1>3 DEF Vectors
<1>5. batch' \in Seq(Vectors) /\ n' = m /\ Len(batch') = m
  BY <1>3, <1>4, FcnSeq DEF n
<1>6. \A j \in 1 .. m : batch'[j].n = taken + j /\ (~given' => batch'[j].meta = Empty)
  BY <1>0, <1>1
<1>7. NumSamples \in Nat /\ NumSamples <= DataCapacity
  BY EnteredIds
<1>8. Adding' /\ Stage' = (IF NumSamples = 0 THEN "build" ELSE "samples")
      /\ \A u \in Adders : (adder'[u] # "idle") <=> (addLock' = u)
  BY <1>2 DEF IInv, TypeOK, CallTypeOK, CallInv, Adding, Stage
<1>9. NumSamples' = NumSamples /\ AllIds' = AllIds
  BY <1>2 DEF NumSamples, AllIds, index
<1>10. Entered = AllIds /\ Entered' = AllIds /\ Live' = Live
  BY <1>2, <1>8, <1>9, <1>7 DEF Entered, Live, Adding, Stage, AllIds, index
<1>11. TypeOK'
  <2>1. IndexTypeOK' /\ SaveTypeOK'
    BY <1>2, <1>9 DEF IInv, TypeOK, IndexTypeOK, SaveTypeOK, index, metas, refineVars, disk, ghosts
  <2>2. adder' \in [Adders -> {"idle", "build", "samples", "graph", "labels", "append", "map",
                               "unlock"}]
    BY <1>2 DEF IInv, TypeOK, CallTypeOK
  <2>3. CallTypeOK'
    BY <1>0, <1>2, <1>5, <1>7, <2>2 DEF IInv, TypeOK, CallTypeOK, Ids
  <2> QED BY <2>1, <2>3 DEF TypeOK
<1>12. CallInv'
  BY <1>0, <1>2, <1>5, <1>6, <1>7, <1>8 DEF IInv, CallInv, metas, ghosts
<1>13. RowsInv'
  BY <1>2, <1>7, <1>8, <1>9 DEF IInv, RowsInv, Grown, index
<1>14. IdsInv'
  BY <1>2, <1>10 DEF IInv, IdsInv, index, metas
<1>15. NumbersInv'
  BY <1>2, <1>9 DEF IInv, NumbersInv, index, ghosts
<1>16. ReadyInv'
  BY <1>2, <1>9 DEF IInv, ReadyInv, disk, metas, ghosts
<1>17. MetaInv'
  <2>1. Records' = NumSamples /\ Records = NumSamples
    BY <1>2, <1>8, <1>9 DEF Records
  <2> QED BY <1>2, <1>10, <2>1 DEF IInv, MetaInv, index, metas, ghosts
<1>18. LoopInv' /\ FileInv'
  BY <1>2, <1>9 DEF IInv, LoopInv, FileInv, FileLive, disk, metas, ghosts
<1> QED BY <1>11, <1>12, <1>13, <1>14, <1>15, <1>16, <1>17, <1>18 DEF IInv

\* While the tables grow, all that is known of ids is about those before begin.
LEMMA GrowingIds ==
    ASSUME IInv, NEW t \in Adders, adder[t] \in {"samples", "graph", "labels"}
    PROVE  /\ begin \in Nat /\ begin > 0 /\ begin <= NumSamples /\ begin \in Ids
           /\ Entered = 1 .. begin /\ Records = begin /\ k = 0
           /\ \A i \in 1 .. begin : samples[i] \in Vectors
<1> USE NumbersAssumption
<1>1. Adding /\ Stage = adder[t]
  BY Holder
<1>2. begin \in {0} \cup Ids
  BY DEF IInv, TypeOK, CallTypeOK
<1>3. (begin # 0) /\ k = 0
  BY <1>1 DEF IInv, CallInv
<1>4. begin \in Nat /\ begin > 0 /\ begin <= NumSamples
  BY <1>1, <1>2, <1>3, EnteredIds DEF Ids
<1>5. Entered = 1 .. begin
  BY <1>1, <1>4 DEF Entered, Adding, Stage
<1>6. Records = begin
  BY <1>1 DEF Records
<1> QED BY <1>2, <1>3, <1>4, <1>5, <1>6, EnteredIds DEF AllIds

LEMMA RollbackStep ==
    ASSUME IInv, NEW t \in Adders, adder[t] \in {"samples", "graph", "labels"}, Rollback(t),
           UNCHANGED <<ready, deleted, metas, deleteLock, found, saver, refineVars, disk, ghosts>>
    PROVE  IInv'
<1> USE NumbersAssumption, NamesAssumption
<1>1. /\ Adding /\ Stage = adder[t] /\ saver # "compact" /\ ~deleteLock
  BY Holder
<1>2. /\ begin \in Nat /\ begin > 0 /\ begin <= NumSamples /\ begin \in Ids
      /\ Entered = 1 .. begin /\ Records = begin
      /\ \A i \in 1 .. begin : samples[i] \in Vectors
  BY GrowingIds
<1>3. /\ samples' = SubSeq(samples, 1, begin) /\ graphRows' = begin /\ labelRows' = begin
      /\ addLock' = NoOne /\ adder' = [adder EXCEPT ![t] = "idle"]
      /\ batch' = <<>> /\ given' = FALSE /\ begin' = 0 /\ k' = 0
      /\ ready' = ready /\ deleted' = deleted /\ deleteLock' = deleteLock /\ found' = found
      /\ saver' = saver
  BY DEF Rollback, LeaveAdd
<1>4. ~Adding' /\ \A u \in Adders : (adder'[u] # "idle") <=> (addLock' = u)
  BY <1>3, Returns
<1>5. /\ samples' \in Seq(Vectors) /\ NumSamples' = begin
      /\ \A i \in 1 .. begin : samples'[i] = samples[i]
  <2>1. /\ SubSeq(samples, 1, begin) \in Seq(Vectors)
        /\ Len(SubSeq(samples, 1, begin)) = (IF 1 <= begin THEN begin - 1 + 1 ELSE 0)
        /\ \A i \in 1 .. begin - 1 + 1 : SubSeq(samples, 1, begin)[i] = samples[1 + i - 1]
    BY <1>2, SubSeqProperties
  <2> QED BY <1>2, <1>3, <2>1 DEF NumSamples
<1>6. AllIds' = 1 .. begin /\ Entered' = Entered /\ Live' = Live /\ Records' = begin
  BY <1>2, <1>3, <1>4, <1>5 DEF AllIds, Entered, Live, Adding, Records
<1>7. NumSamples \in Nat /\ NumSamples <= DataCapacity
  BY EnteredIds
<1>8. TypeOK'
  <2>1. IndexTypeOK'
    BY <1>2, <1>3, <1>5, <1>7 DEF IInv, TypeOK, IndexTypeOK, metas, ghosts
  <2>2. adder' \in [Adders -> {"idle", "build", "samples", "graph", "labels", "append", "map",
                               "unlock"}]
    BY <1>3 DEF IInv, TypeOK, CallTypeOK
  <2>5. <<>> \in Seq(Vectors) /\ Len(<<>>) = 0
    BY EmptySeq
  <2>6. deleteLock \in BOOLEAN /\ found \in {0} \cup Ids
    BY DEF IInv, TypeOK, CallTypeOK
  <2>7. batch' \in Seq(Vectors) /\ Len(batch') <= MaxBatch
    BY <1>3, <2>5
  <2>8. deleteLock' \in BOOLEAN /\ given' \in BOOLEAN /\ found' \in {0} \cup Ids
    BY <1>3, <2>6
  <2>9. addLock' \in Adders \cup {Saver, NoOne} /\ begin' \in {0} \cup Ids /\ k' \in 0 .. MaxBatch
    BY <1>3
  <2>3. CallTypeOK'
    BY <2>2, <2>7, <2>8, <2>9 DEF CallTypeOK
  <2>4. SaveTypeOK'
    BY <1>3 DEF IInv, TypeOK, SaveTypeOK, refineVars, disk
  <2> QED BY <2>1, <2>3, <2>4 DEF TypeOK
<1>9. CallInv'
  BY <1>1, <1>3, <1>4 DEF IInv, CallInv
<1>10. RowsInv'
  BY <1>3, <1>4, <1>5 DEF RowsInv
<1>11. IdsInv'
  BY <1>3, <1>6 DEF IInv, IdsInv, metas
<1>12. NumbersInv'
  <2>1. \A i \in 1 .. begin : i \in 1 .. NumSamples /\ i <= begin
    BY <1>2, <1>7
  <2>2. \A i \in 1 .. begin : samples[i].n <= taken
    BY <2>1 DEF IInv, NumbersInv
  <2>3. \A i, j \in 1 .. begin : samples[i].n = samples[j].n => i = j
    BY <2>1 DEF IInv, NumbersInv
  <2> QED BY <1>4, <1>5, <2>2, <2>3 DEF NumbersInv, ghosts
<1>13. ReadyInv'
  BY <1>2, <1>3, <1>5, <1>7 DEF IInv, ReadyInv, disk, metas
<1>14. MetaInv'
  <2>1. \A m \in MetaValues : mapping[m] \in {0} \cup 1 .. begin
    BY <1>2 DEF IInv, IdsInv
  <2>2. \A i \in Live : i \in 1 .. begin
    BY <1>2 DEF Live
  <2> QED BY <1>2, <1>3, <1>5, <1>6, <2>1, <2>2 DEF IInv, MetaInv, metas, ghosts
<1>15. LoopInv' /\ FileInv'
  BY <1>1, <1>3 DEF IInv, LoopInv, FileInv, FileLive, disk, metas, ghosts
<1> QED BY <1>8, <1>9, <1>10, <1>11, <1>12, <1>13, <1>14, <1>15 DEF IInv

LEMMA GrowSamplesStep ==
    ASSUME IInv, NEW t \in Adders, GrowSamples(t)
    PROVE  IInv'
<1> USE NumbersAssumption, NamesAssumption
<1>1. adder[t] = "samples"
      /\ UNCHANGED <<ready, deleted, metas, deleteLock, found, saver, refineVars, disk, ghosts>>
  BY DEF GrowSamples
<1>2. CASE Rollback(t)
  BY <1>1, <1>2, RollbackStep
<1>3. ASSUME begin + n <= DataCapacity, samples' = samples \o batch,
             adder' = [adder EXCEPT ![t] = "graph"],
             UNCHANGED <<graphRows, labelRows, addLock, locals>>
      PROVE  IInv'
  <2>1. /\ Adding /\ Stage = "samples" /\ saver # "compact" /\ ~deleteLock
        /\ n \in 1 .. MaxBatch /\ taken + n <= MaxVectors
    BY <1>1, Holder
  <2>2. /\ begin \in Nat /\ begin > 0 /\ begin <= NumSamples /\ begin \in Ids
        /\ Entered = 1 .. begin /\ Records = begin /\ k = 0
        /\ \A i \in 1 .. begin : samples[i] \in Vectors
    BY <1>1, GrowingIds
  <2>3. NumSamples = begin /\ graphRows = begin /\ labelRows = begin
    BY <2>1 DEF IInv, RowsInv, Grown
  <2>4. Adding' /\ Stage' = "graph" /\ \A u \in Adders : (adder'[u] # "idle") <=> (addLock' = u)
    BY <1>1, <1>3, GoesOn
  <2>5. n \in Nat /\ n' = n /\ batch' = batch /\ begin' = begin /\ k' = k /\ given' = given
    BY <1>3, EnteredIds DEF n, locals
  <2>6. samples \in Seq(Vectors) /\ batch \in Seq(Vectors)
    BY DEF IInv, TypeOK, IndexTypeOK, CallTypeOK
  <2>7. /\ samples' \in Seq(Vectors) /\ NumSamples' = begin + n
        /\ \A i \in 1 .. begin : samples'[i] = samples[i]
        /\ \A j \in 1 .. n : samples'[begin + j] = batch[j]
    <3>1. /\ samples' \in Seq(Vectors) /\ Len(samples') = Len(samples) + Len(batch)
          /\ \A i \in 1 .. Len(samples) + Len(batch) :
                samples'[i] = IF i <= Len(samples) THEN samples[i] ELSE batch[i - Len(samples)]
      BY <1>3, <2>6, ConcatProperties
    <3> QED BY <2>2, <2>3, <2>5, <3>1 DEF NumSamples, n
  <2>8. Entered' = Entered /\ Live' = Live /\ Records' = begin
    BY <1>1, <2>2, <2>4, <2>5 DEF Entered, Live, Records, Adding, Stage
  <2>9. TypeOK'
    <3>1. IndexTypeOK'
      BY <1>1, <1>3, <2>2, <2>7 DEF IInv, TypeOK, IndexTypeOK, metas, ghosts
    <3>2. adder' \in [Adders -> {"idle", "build", "samples", "graph", "labels", "append", "map",
                                 "unlock"}]
      BY <1>3 DEF IInv, TypeOK, CallTypeOK
    <3>3. CallTypeOK' /\ SaveTypeOK'
      BY <1>1, <1>3, <3>2 DEF IInv, TypeOK, CallTypeOK, SaveTypeOK, locals, refineVars, disk
    <3> QED BY <3>1, <3>3 DEF TypeOK
  <2>10. CallInv'
    BY <1>1, <1>3, <2>1, <2>2, <2>4, <2>5 DEF IInv, CallInv, metas, ghosts
  <2>11. RowsInv'
    BY <1>3, <2>3, <2>4, <2>5, <2>7 DEF RowsInv, Grown
  <2>12. IdsInv'
    BY <1>1, <2>8 DEF IInv, IdsInv, metas
  <2>13. NumbersInv'
    <3>1. \A i \in 1 .. begin : samples'[i].n <= taken
      BY <2>1, <2>2, <2>3, <2>7 DEF IInv, NumbersInv
    <3>2. \A j \in 1 .. n : samples'[begin + j].n = taken + j
      BY <2>1, <2>7 DEF IInv, CallInv
    <3>3. \A i \in 1 .. begin + n : i > begin => i - begin \in 1 .. n /\ begin + (i - begin) = i
      BY <2>2, <2>5
    <3>4. \A i \in 1 .. begin + n : samples'[i].n = IF i <= begin THEN samples[i].n ELSE taken + (i - begin)
      BY <2>2, <2>5, <2>7, <3>2, <3>3
    <3>5. \A i, j \in 1 .. begin : samples[i].n = samples[j].n => i = j
      BY <2>2, <2>3 DEF IInv, NumbersInv
    <3>6. taken \in Nat /\ \A i \in 1 .. begin : samples[i].n \in Nat
      BY <2>2 DEF Vectors, IInv, TypeOK, IndexTypeOK
    <3>7. \A i, j \in 1 .. begin + n : samples'[i].n = samples'[j].n => i = j
      BY <2>2, <2>5, <2>7, <3>1, <3>4, <3>5, <3>6
    <3> QED BY <1>1, <2>4, <2>5, <2>7, <3>1, <3>7, <2>2 DEF NumbersInv, ghosts
  <2>14. ReadyInv'
    BY <1>1, <2>2, <2>3, <2>5, <2>7 DEF IInv, ReadyInv, disk, metas
  <2>15. MetaInv'
    <3>1. \A m \in MetaValues : mapping[m] \in {0} \cup 1 .. begin
      BY <2>2 DEF IInv, IdsInv
    <3>2. \A i \in Live : i \in 1 .. begin
      BY <2>2 DEF Live
    <3> QED BY <1>1, <2>2, <2>7, <2>8, <3>1, <3>2 DEF IInv, MetaInv, metas, ghosts
  <2>16. LoopInv' /\ FileInv'
    BY <1>1, <2>1 DEF IInv, LoopInv, FileInv, FileLive, disk, metas, ghosts
  <2> QED BY <2>9, <2>10, <2>11, <2>12, <2>13, <2>14, <2>15, <2>16 DEF IInv
<1> QED BY <1>2, <1>3 DEF GrowSamples, n

\* The graph and the labels grow: neither samples nor ids change.
LEMMA GrowRows ==
    ASSUME IInv, NEW t \in Adders, adder[t] \in {"graph", "labels"},
           NEW s \in {"labels", "append", "unlock"},
           adder' = [adder EXCEPT ![t] = s],
           s = "append" => hasMeta, s = "unlock" => ~hasMeta,
           (adder[t] = "graph") <=> (s = "labels"),
           graphRows' = IF s = "labels" THEN graphRows + n ELSE graphRows,
           labelRows' = IF s = "labels" THEN labelRows ELSE labelRows + n,
           UNCHANGED <<samples, addLock, locals>>,
           UNCHANGED <<ready, deleted, metas, deleteLock, found, saver, refineVars, disk, ghosts>>
    PROVE  IInv'
<1> USE NumbersAssumption, NamesAssumption
<1>1. /\ Adding /\ Stage = adder[t] /\ saver # "compact" /\ ~deleteLock
      /\ n \in 1 .. MaxBatch
  BY Holder
<1>2. /\ begin \in Nat /\ begin > 0 /\ begin <= NumSamples
      /\ Entered = 1 .. begin /\ Records = begin /\ k = 0
      /\ \A i \in 1 .. begin : samples[i] \in Vectors
  BY GrowingIds
<1>3. /\ NumSamples = begin + n
      /\ graphRows = (IF s = "labels" THEN begin ELSE begin + n) /\ labelRows = begin
      /\ \A j \in 1 .. n : samples[begin + j] = batch[j]
  BY <1>1 DEF IInv, RowsInv, Grown
<1>4. Adding' /\ Stage' = s /\ \A u \in Adders : (adder'[u] # "idle") <=> (addLock' = u)
  BY GoesOn
<1>5. n \in Nat /\ n' = n /\ batch' = batch /\ begin' = begin /\ k' = k /\ given' = given
  BY EnteredIds DEF n, locals
<1>6. NumSamples' = NumSamples
  BY DEF NumSamples
<1>7. s # "unlock" => Entered' = Entered /\ Live' = Live /\ Records' = begin
  BY <1>2, <1>4, <1>5 DEF Entered, Live, Records, Adding, Stage
<1>8. s = "unlock" => Entered' = 1 .. begin + n /\ Live' \subseteq Entered'
  BY <1>2, <1>4, <1>5 DEF Entered, Live, Adding, Stage, n
<1>9. TypeOK'
  <2>1. adder' \in [Adders -> {"idle", "build", "samples", "graph", "labels", "append", "map",
                               "unlock"}]
    BY DEF IInv, TypeOK, CallTypeOK
  <2>2. graphRows' \in Nat /\ labelRows' \in Nat
    BY <1>5 DEF IInv, TypeOK, IndexTypeOK
  <2> QED
    BY <2>1, <2>2, <1>6
    DEF IInv, TypeOK, IndexTypeOK, CallTypeOK, SaveTypeOK, metas, ghosts, locals, refineVars, disk
<1>10. CallInv'
  <2>2. /\ deleteLock <=> (saver = "compact")
        /\ (addLock = Saver) <=> (saver = "compact")
        /\ taken + n <= MaxVectors /\ begin # 0
        /\ \A j \in 1 .. n : batch[j].n = taken + j /\ (~given => batch[j].meta = Empty)
    BY <1>1, <1>2 DEF IInv, CallInv
  <2> QED BY <1>1, <1>2, <1>4, <1>5, <2>2 DEF CallInv, metas, ghosts
<1>11. RowsInv'
  BY <1>3, <1>4, <1>5, <1>6 DEF RowsInv, Grown
<1>12. IdsInv'
  <2>1. Entered \subseteq Entered'
    BY <1>2, <1>5, <1>7, <1>8
  <2> QED BY <2>1 DEF IInv, IdsInv, metas
<1>13. NumbersInv'
  BY <1>1, <1>4, <1>5, <1>6 DEF IInv, NumbersInv, ghosts
<1>14. ReadyInv'
  BY <1>6 DEF IInv, ReadyInv, disk, metas, ghosts
<1>15. MetaInv'
  <2>1. CASE s # "unlock"
    BY <1>2, <1>7, <2>1 DEF IInv, MetaInv, metas, ghosts
  <2>2. CASE s = "unlock"
    BY <2>2 DEF IInv, MetaInv, metas, ghosts
  <2> QED BY <2>1, <2>2
<1>16. LoopInv' /\ FileInv'
  BY <1>1 DEF IInv, LoopInv, FileInv, FileLive, disk, metas, ghosts
<1> QED BY <1>9, <1>10, <1>11, <1>12, <1>13, <1>14, <1>15, <1>16 DEF IInv

LEMMA GrowGraphStep ==
    ASSUME IInv, NEW t \in Adders, GrowGraph(t)
    PROVE  IInv'
<1>1. CASE Rollback(t)
  BY <1>1, RollbackStep DEF GrowGraph
<1>2. CASE ~Rollback(t)
  <2>1. /\ adder[t] = "graph" /\ graphRows' = graphRows + n
        /\ adder' = [adder EXCEPT ![t] = "labels"]
        /\ UNCHANGED <<samples, labelRows, addLock, locals>>
        /\ UNCHANGED <<ready, deleted, metas, deleteLock, found, saver, refineVars, disk, ghosts>>
    BY <1>2 DEF GrowGraph, n
  <2> QED BY <2>1, GrowRows
<1> QED BY <1>1, <1>2

LEMMA GrowLabelsStep ==
    ASSUME IInv, NEW t \in Adders, GrowLabels(t)
    PROVE  IInv'
<1>1. CASE Rollback(t)
  BY <1>1, RollbackStep DEF GrowLabels
<1>2. CASE ~Rollback(t)
  <2> DEFINE s == IF hasMeta THEN "append" ELSE "unlock"
  <2>1. /\ adder[t] = "labels" /\ labelRows' = labelRows + n
        /\ adder' = [adder EXCEPT ![t] = s]
        /\ UNCHANGED <<samples, graphRows, addLock, locals>>
        /\ UNCHANGED <<ready, deleted, metas, deleteLock, found, saver, refineVars, disk, ghosts>>
    BY <1>2 DEF GrowLabels, n
  <2> QED BY <2>1, GrowRows
<1> QED BY <1>1, <1>2

LEMMA AppendMetaStep ==
    ASSUME IInv, NEW t \in Adders, AppendMeta(t)
    PROVE  IInv'
<1> USE NumbersAssumption, NamesAssumption
<1> DEFINE m == batch[k + 1].meta
           s == IF k + 1 < n THEN "append" ELSE IF given /\ hasMapping THEN "map" ELSE "unlock"
<1>1. /\ adder[t] = "append" /\ metadata' = Recorded(metadata, m)
      /\ lost' = (lost \/ metadata' = metadata)
      /\ UNCHANGED <<ready, index, hasMeta, hasMapping, mapping, locks, batch, given,
                     begin, found, saver, refineVars, disk, taken, twins>>
      /\ k' = IF k + 1 < n THEN k + 1 ELSE 0
  BY DEF AppendMeta, n
<1>2. /\ Adding /\ Stage = "append" /\ addLock = t /\ saver # "compact" /\ ~deleteLock
      /\ n \in 1 .. MaxBatch /\ taken + n <= MaxVectors
  BY <1>1, Holder
<1>3. /\ k \in Nat /\ k < n /\ n \in Nat /\ begin \in Nat /\ hasMeta
      /\ \A j \in 1 .. n : batch[j].n = taken + j /\ (~given => batch[j].meta = Empty)
      /\ begin # 0
  BY <1>2, EnteredIds DEF IInv, CallInv, TypeOK, CallTypeOK
<1>4. adder' = [adder EXCEPT ![t] = s]
  <2>1. adder \in [Adders -> {"idle", "build", "samples", "graph", "labels", "append", "map",
                              "unlock"}]
    BY DEF IInv, TypeOK, CallTypeOK
  <2>2. CASE k + 1 < n
    BY <1>1, <2>1, <2>2 DEF AppendMeta, n
  <2>3. CASE ~(k + 1 < n)
    BY <2>3 DEF AppendMeta, n
  <2> QED BY <2>2, <2>3
<1>5. Adding' /\ Stage' = s /\ \A u \in Adders : (adder'[u] # "idle") <=> (addLock' = u)
  BY <1>1, <1>4, GoesOn DEF locks
<1>6. batch \in Seq(Vectors) /\ metadata \in Seq(MetaValues) /\ Len(metadata) <= DataCapacity
  BY DEF IInv, TypeOK, IndexTypeOK, CallTypeOK
<1>7. \A j \in 1 .. n : batch[j] \in Vectors
  BY <1>6, LenProperties DEF n
<1>8. m \in MetaValues
  BY <1>3, <1>7 DEF Vectors, MetaValues
<1>9. \/ /\ metadata' = metadata /\ lost'
      \/ /\ metadata' \in Seq(MetaValues) /\ Len(metadata') = Len(metadata) + 1
         /\ \A i \in 1 .. Len(metadata) : metadata'[i] = metadata[i]
         /\ metadata'[Len(metadata) + 1] = m
         /\ Len(metadata') <= DataCapacity
         /\ lost' = lost
  <2>1. CASE Len(metadata) + 1 < DataCapacity
    <3>1. metadata' = Append(metadata, m)
      BY <1>1, <2>1 DEF Recorded
    <3>2. Len(metadata) \in Nat
      BY <1>6, LenProperties
    <3>3. metadata' # metadata
      BY <1>6, <1>8, <3>1, <3>2, AppendProperties
    <3>4. lost' = lost
      BY <1>1, <3>3 DEF IInv, TypeOK, IndexTypeOK
    <3>5. /\ Append(metadata, m) \in Seq(MetaValues)
          /\ Len(Append(metadata, m)) = Len(metadata) + 1
          /\ \A i \in 1 .. Len(metadata) : Append(metadata, m)[i] = metadata[i]
          /\ Append(metadata, m)[Len(metadata) + 1] = m
      BY <1>6, <1>8, AppendProperties
    <3> QED BY <2>1, <3>1, <3>2, <3>4, <3>5
  <2>2. CASE ~(Len(metadata) + 1 < DataCapacity)
    BY <1>1, <2>2 DEF Recorded
  <2> QED BY <2>1, <2>2
<1>10. /\ NumSamples = begin + n /\ \A j \in 1 .. n : samples[begin + j] = batch[j]
       /\ graphRows = begin + n /\ labelRows = begin + n
  BY <1>2 DEF IInv, RowsInv, Grown
<1>11. /\ NumSamples' = NumSamples /\ samples' = samples /\ batch' = batch /\ n' = n
       /\ begin' = begin /\ given' = given
  BY <1>1 DEF NumSamples, index, n
<1>12. Entered = 1 .. begin
  BY <1>2, <1>3 DEF Entered, Adding, Stage
<1>13. Entered' = IF s = "unlock" THEN 1 .. begin + n ELSE 1 .. begin
  <2>1. s = "map" => k' = 0
    BY <1>1, <1>3
  <2> QED BY <1>3, <1>5, <1>11, <2>1 DEF Entered, Adding, Stage, n
<1>14. Entered \subseteq Entered'
  BY <1>3, <1>12, <1>13
<1>15. Records = begin + k /\ Records' = begin + k + 1
  BY <1>1, <1>2, <1>3, <1>5, <1>11 DEF Records
<1>16. TypeOK'
  <2>1. metadata' \in Seq(MetaValues) /\ Len(metadata') <= DataCapacity /\ lost' \in BOOLEAN
    BY <1>6, <1>9 DEF IInv, TypeOK, IndexTypeOK
  <2>2. IndexTypeOK'
    BY <1>1, <1>11, <2>1 DEF IInv, TypeOK, IndexTypeOK, index
  <2>3. adder' \in [Adders -> {"idle", "build", "samples", "graph", "labels", "append", "map",
                               "unlock"}]
    BY <1>4 DEF IInv, TypeOK, CallTypeOK
  <2>4. k' \in 0 .. MaxBatch
    BY <1>1, <1>2, <1>3
  <2>5. CallTypeOK' /\ SaveTypeOK'
    BY <1>1, <2>3, <2>4 DEF IInv, TypeOK, CallTypeOK, SaveTypeOK, locks, refineVars, disk
  <2> QED BY <2>2, <2>5 DEF TypeOK
<1>17. CallInv'
  <2>1. /\ deleteLock <=> (saver = "compact")
        /\ (addLock = Saver) <=> (saver = "compact")
    BY DEF IInv, CallInv
  <2>2. IF s \in {"append", "map"} THEN k' < n ELSE k' = 0
    BY <1>1, <1>3
  <2> QED BY <1>1, <1>2, <1>3, <1>5, <1>11, <2>1, <2>2 DEF CallInv, locks
<1>18. RowsInv'
  BY <1>1, <1>5, <1>10, <1>11 DEF RowsInv, Grown, index
<1>19. IdsInv'
  BY <1>1, <1>14 DEF IInv, IdsInv, index
<1>20. NumbersInv'
  BY <1>1, <1>2, <1>5, <1>11 DEF IInv, NumbersInv
<1>21. ReadyInv'
  BY <1>1, <1>3, <1>10, <1>11 DEF IInv, ReadyInv, disk
<1>22. MetaInv'
  <2>1. hasMapping' => hasMeta'
    BY <1>1 DEF IInv, MetaInv
  <2>2. ASSUME ~lost'
        PROVE  /\ Len(metadata') = Records'
               /\ \A i \in 1 .. Len(metadata') : metadata'[i] = samples'[i].meta
    <3>1. /\ Len(metadata) = begin + k
          /\ \A i \in 1 .. Len(metadata) : metadata[i] = samples[i].meta
      BY <1>1, <1>3, <1>15, <2>2 DEF IInv, MetaInv
    <3>2. samples[begin + (k + 1)] = batch[k + 1]
      BY <1>3, <1>10
    <3>3. samples[begin + k + 1].meta = m
      BY <1>3, <3>2
    <3>4. /\ Len(metadata') = begin + k + 1
          /\ \A i \in 1 .. begin + k : metadata'[i] = metadata[i]
          /\ metadata'[begin + k + 1] = m
      BY <1>9, <2>2, <3>1
    <3>5. \A i \in 1 .. begin + k + 1 : metadata'[i] = samples[i].meta
      <4> TAKE i \in 1 .. begin + k + 1
      <4>1. CASE i \in 1 .. begin + k
        BY <3>1, <3>4, <4>1
      <4>2. CASE i = begin + k + 1
        BY <3>3, <3>4, <4>2
      <4> QED BY <1>3, <4>1, <4>2
    <3> QED BY <1>11, <1>15, <3>4, <3>5
  <2>3. ASSUME hasMapping, ~lost'
        PROVE  /\ \A x \in MetaValues : mapping'[x] # 0 => samples'[mapping'[x]].meta = x
               /\ \A i \in Live' :
                     samples'[i].meta \in Metas \ twins' => mapping'[samples'[i].meta] = i
    <3>1. ~lost
      BY <1>1, <2>3
    <3>2. ASSUME NEW i \in Live', i \notin Live, samples[i].meta \in Metas
          PROVE  FALSE
      <4>1. s = "unlock" /\ i \in begin + 1 .. begin + n
        BY <1>1, <1>3, <1>12, <1>13, <3>2 DEF Live, index
      <4>2. ~given
        BY <2>3, <4>1
      <4>3. i - begin \in 1 .. n /\ begin + (i - begin) = i
        BY <1>3, <4>1
      <4>4. samples[i].meta = Empty
        BY <1>3, <1>10, <4>2, <4>3
      <4> QED BY <3>2, <4>4
    <3> QED BY <1>1, <1>11, <2>3, <3>1, <3>2 DEF IInv, MetaInv
  <2> QED BY <1>1, <1>3, <2>1, <2>2, <2>3 DEF MetaInv
<1>23. LoopInv' /\ FileInv'
  <2>1. LoopInv'
    BY <1>1, <1>2 DEF LoopInv
  <2>2. Len(metadata) \in Nat
    BY <1>6, LenProperties
  <2>3. saver = "data" =>
          /\ Len(file.metadata) <= Len(metadata')
          /\ \A i \in 1 .. Len(file.metadata) : file.metadata[i] = metadata'[i]
    <3>1. saver = "data" =>
            /\ Len(file.metadata) <= Len(metadata)
            /\ \A i \in 1 .. Len(file.metadata) : file.metadata[i] = metadata[i]
      BY DEF IInv, FileInv
    <3>2. Len(file.metadata) \in Nat
      BY LenProperties DEF IInv, TypeOK, SaveTypeOK
    <3> QED BY <1>9, <2>2, <3>1, <3>2
  <2>4. FileInv'
    BY <1>1, <2>3 DEF IInv, FileInv, FileLive, disk
  <2> QED BY <2>1, <2>4
<1> QED BY <1>16, <1>17, <1>18, <1>19, <1>20, <1>21, <1>22, <1>23 DEF IInv

LEMMA MapMetaStep ==
    ASSUME IInv, NEW t \in Adders, MapMeta(t)
    PROVE  IInv'
<1> USE NumbersAssumption, NamesAssumption
<1> DEFINE i == begin + k + 1
           s == IF k + 1 < n THEN "map" ELSE "unlock"
<1>1. /\ adder[t] = "map"
      /\ UNCHANGED <<ready, samples, graphRows, labelRows, hasMeta, metadata, hasMapping,
                     locks, batch, given, begin, found, saver, refineVars, disk, ghosts>>
      /\ k' = IF k + 1 < n THEN k + 1 ELSE 0
  BY DEF MapMeta, n
<1>2. PICK m \in MetaAt(i) : UpdateMetaMapping(m, i)
  BY DEF MapMeta
<1>3. /\ Adding /\ Stage = "map" /\ addLock = t /\ saver # "compact" /\ ~deleteLock
      /\ n \in 1 .. MaxBatch /\ taken + n <= MaxVectors
  BY <1>1, Holder
<1>4. /\ k \in Nat /\ k < n /\ n \in Nat /\ begin \in Nat /\ hasMapping /\ given
      /\ \A j \in 1 .. n : batch[j].n = taken + j
      /\ begin # 0 /\ i \in Nat
  BY <1>3, EnteredIds DEF IInv, CallInv, TypeOK, CallTypeOK
<1>5. adder' = [adder EXCEPT ![t] = s]
  <2>1. adder \in [Adders -> {"idle", "build", "samples", "graph", "labels", "append", "map",
                              "unlock"}]
    BY DEF IInv, TypeOK, CallTypeOK
  <2>2. CASE k + 1 < n
    BY <1>1, <2>1, <2>2 DEF MapMeta, n
  <2>3. CASE ~(k + 1 < n)
    BY <2>3 DEF MapMeta, n
  <2> QED BY <2>2, <2>3
<1>6. Adding' /\ Stage' = s /\ \A u \in Adders : (adder'[u] # "idle") <=> (addLock' = u)
  BY <1>1, <1>5, GoesOn DEF locks
<1>7. /\ NumSamples = begin + n /\ \A j \in 1 .. n : samples[begin + j] = batch[j]
      /\ graphRows = begin + n /\ labelRows = begin + n
  BY <1>3 DEF IInv, RowsInv, Grown
<1>8. /\ NumSamples' = NumSamples /\ samples' = samples /\ batch' = batch /\ n' = n
      /\ begin' = begin
  BY <1>1 DEF NumSamples, n
<1>9. Entered = 1 .. begin + k
  BY <1>3 DEF Entered, Adding, Stage
<1>10. Entered' = 1 .. i
  <2>1. s = "map" => k' = k + 1
    BY <1>1, <1>4
  <2>2. s = "unlock" => begin + n = i
    BY <1>4
  <2> QED BY <1>4, <1>6, <1>8, <2>1, <2>2 DEF Entered, Adding, Stage, n
<1>11. m \in MetaValues
  <2>1. metadata \in Seq(MetaValues)
    BY DEF IInv, TypeOK, IndexTypeOK
  <2>2. Len(metadata) \in Nat /\ \A j \in 1 .. Len(metadata) : metadata[j] \in MetaValues
    BY <2>1, LenProperties
  <2>3. CASE i <= Len(metadata)
    BY <1>2, <1>4, <2>2, <2>3 DEF MetaAt
  <2>4. CASE ~(i <= Len(metadata))
    BY <1>2, <2>4 DEF MetaAt
  <2> QED BY <2>3, <2>4
<1>12. mapping \in [MetaValues -> {0} \cup Ids] /\ mapping' = [mapping EXCEPT ![m] = i]
       /\ deleted' = (IF mapping[m] = 0 THEN deleted ELSE deleted \cup {mapping[m]})
  BY <1>2 DEF UpdateMetaMapping, IInv, TypeOK, IndexTypeOK
<1>13. i \in Ids /\ i <= NumSamples
  BY <1>4, <1>7, EnteredIds DEF Ids
<1>14. /\ deleted \subseteq Entered /\ found \in {0} \cup Entered
       /\ \A x \in MetaValues : mapping[x] \in {0} \cup Entered
  BY DEF IInv, IdsInv
<1>15. deleted' \subseteq Entered
  BY <1>11, <1>12, <1>14
<1>16. Entered \subseteq Entered'
  BY <1>4, <1>9, <1>10
<1>17. TypeOK'
  <2>1. deleted' \subseteq Ids /\ mapping' \in [MetaValues -> {0} \cup Ids]
    BY <1>11, <1>12, <1>13, <1>15, EnteredIds
  <2>2. IndexTypeOK'
    BY <1>1, <1>8, <2>1 DEF IInv, TypeOK, IndexTypeOK, ghosts
  <2>3. adder' \in [Adders -> {"idle", "build", "samples", "graph", "labels", "append", "map",
                               "unlock"}]
    BY <1>5 DEF IInv, TypeOK, CallTypeOK
  <2>4. k' \in 0 .. MaxBatch
    BY <1>1, <1>3, <1>4
  <2>5. CallTypeOK' /\ SaveTypeOK'
    BY <1>1, <2>3, <2>4 DEF IInv, TypeOK, CallTypeOK, SaveTypeOK, locks, refineVars, disk
  <2> QED BY <2>2, <2>5 DEF TypeOK
<1>18. CallInv'
  <2>1. /\ deleteLock <=> (saver = "compact")
        /\ (addLock = Saver) <=> (saver = "compact")
    BY DEF IInv, CallInv
  <2>2. IF s \in {"append", "map"} THEN k' < n ELSE k' = 0
    BY <1>1, <1>4
  <2> QED BY <1>1, <1>3, <1>4, <1>6, <1>8, <2>1, <2>2 DEF CallInv, locks, ghosts
<1>19. RowsInv'
  BY <1>1, <1>6, <1>7, <1>8 DEF RowsInv, Grown
<1>20. IdsInv'
  <2>2. \A x \in MetaValues : mapping'[x] = IF x = m THEN i ELSE mapping[x]
    BY <1>11, <1>12
  <2>3. i \in Entered'
    BY <1>4, <1>10
  <2>1. \A x \in MetaValues : mapping'[x] \in {0} \cup Entered'
    BY <1>14, <1>16, <2>2, <2>3
  <2> QED BY <1>1, <1>14, <1>15, <1>16, <2>1 DEF IdsInv
<1>21. NumbersInv'
  BY <1>1, <1>3, <1>6, <1>8 DEF IInv, NumbersInv, ghosts
<1>22. ReadyInv'
  BY <1>1, <1>8 DEF IInv, ReadyInv, disk, ghosts
<1>23. MetaInv'
  <2>1. hasMapping => hasMeta
    BY DEF IInv, MetaInv
  <2>2. Records = begin + n /\ Records' = begin + n
    BY <1>3, <1>6, <1>8 DEF Records
  <2>3. ASSUME ~lost
        PROVE  /\ \A x \in MetaValues : mapping'[x] # 0 => samples'[mapping'[x]].meta = x
               /\ \A j \in Live' :
                     samples'[j].meta \in Metas \ twins' => mapping'[samples'[j].meta] = j
    <3>1. /\ Len(metadata) = begin + n
          /\ \A j \in 1 .. Len(metadata) : metadata[j] = samples[j].meta
          /\ \A x \in MetaValues : mapping[x] # 0 => samples[mapping[x]].meta = x
          /\ \A j \in Live : samples[j].meta \in Metas \ twins => mapping[samples[j].meta] = j
      BY <1>4, <2>1, <2>2, <2>3 DEF IInv, MetaInv
    <3>2. samples[i].meta = m
      BY <1>2, <1>4, <3>1 DEF MetaAt
    <3>3. \A x \in MetaValues : mapping'[x] = IF x = m THEN i ELSE mapping[x]
      BY <1>11, <1>12
    <3>4. \A x \in MetaValues : mapping'[x] # 0 => samples'[mapping'[x]].meta = x
      BY <1>8, <3>1, <3>2, <3>3
    <3>5. ASSUME NEW j \in Live', samples[j].meta \in Metas \ twins
          PROVE  mapping'[samples[j].meta] = j
      <4>1. samples[j].meta \in MetaValues
        BY <3>5 DEF MetaValues
      <4>2. CASE j = i
        BY <3>2, <3>3, <4>1, <4>2
      <4>3. CASE j # i
        <5>1. j \in Live /\ j \notin deleted'
          BY <1>4, <1>9, <1>10, <1>12, <4>3 DEF Live
        <5>2. mapping[samples[j].meta] = j /\ j # 0
          BY <1>4, <1>9, <3>1, <3>5, <5>1 DEF Live
        <5>3. samples[j].meta # m
          BY <1>12, <5>1, <5>2
        <5> QED BY <3>3, <4>1, <5>2, <5>3
      <4> QED BY <4>2, <4>3
    <3> QED BY <1>1, <1>8, <3>4, <3>5 DEF ghosts
  <2> QED BY <1>1, <1>8, <2>1, <2>2, <2>3 DEF IInv, MetaInv, ghosts
<1>24. LoopInv' /\ FileInv'
  BY <1>1, <1>3 DEF IInv, LoopInv, FileInv, FileLive, disk, ghosts
<1> QED BY <1>17, <1>18, <1>19, <1>20, <1>21, <1>22, <1>23, <1>24 DEF IInv

LEMMA AddUnlockStep ==
    ASSUME IInv, NEW t \in Adders, AddUnlock(t)
    PROVE  IInv'
<1> USE NumbersAssumption, NamesAssumption
<1>1. /\ adder[t] = "unlock" /\ adder' = [adder EXCEPT ![t] = "idle"] /\ addLock' = NoOne
      /\ taken' = taken + n /\ batch' = <<>> /\ given' = FALSE /\ begin' = 0 /\ k' = 0
      /\ UNCHANGED <<ready, index, metas, deleteLock, found, saver, refineVars, disk, twins, lost>>
  BY DEF AddUnlock, LeaveAdd, n
<1>2. /\ Adding /\ Stage = "unlock" /\ saver # "compact" /\ ~deleteLock
      /\ n \in 1 .. MaxBatch /\ taken + n <= MaxVectors
  BY <1>1, Holder
<1>3. ~Adding' /\ \A u \in Adders : (adder'[u] # "idle") <=> (addLock' = u)
  BY <1>1, Returns
<1>4. /\ NumSamples = begin + n /\ \A j \in 1 .. n : samples[begin + j] = batch[j]
      /\ graphRows = begin + n /\ labelRows = begin + n
  BY <1>2 DEF IInv, RowsInv, Grown
<1>5. NumSamples' = NumSamples /\ AllIds' = AllIds /\ samples' = samples
  BY <1>1 DEF NumSamples, AllIds, index
<1>6. n \in Nat /\ begin \in Nat /\ taken \in Nat
  BY <1>2, EnteredIds DEF IInv, TypeOK, IndexTypeOK
<1>7. Entered = AllIds
  BY <1>2, <1>4 DEF Entered, Adding, Stage, n, AllIds
<1>8. Entered' = Entered /\ Live' = Live
  BY <1>1, <1>3, <1>5, <1>7 DEF Entered, Live, Adding, index
<1>9. Records' = Records
  BY <1>2, <1>3, <1>4, <1>5 DEF Records
<1>10. TypeOK'
  <2>1. taken' \in 0 .. MaxVectors
    BY <1>1, <1>2, <1>6
  <2>2. IndexTypeOK'
    BY <1>1, <1>5, <2>1 DEF IInv, TypeOK, IndexTypeOK, index, metas
  <2>3. adder' \in [Adders -> {"idle", "build", "samples", "graph", "labels", "append", "map",
                               "unlock"}]
    BY <1>1 DEF IInv, TypeOK, CallTypeOK
  <2>4. batch' \in Seq(Vectors) /\ Len(batch') <= MaxBatch
    BY <1>1, EmptySeq
  <2>5. addLock' \in Adders \cup {Saver, NoOne} /\ begin' \in {0} \cup Ids /\ k' \in 0 .. MaxBatch
    BY <1>1
  <2>7. given' \in BOOLEAN
    BY <1>1
  <2>6. CallTypeOK' /\ SaveTypeOK'
    BY <1>1, <2>3, <2>4, <2>5, <2>7 DEF IInv, TypeOK, CallTypeOK, SaveTypeOK, refineVars, disk
  <2> QED BY <2>2, <2>6 DEF TypeOK
<1>11. CallInv'
  BY <1>1, <1>2, <1>3 DEF IInv, CallInv
<1>12. RowsInv'
  BY <1>1, <1>3, <1>4, <1>5 DEF RowsInv, index
<1>13. IdsInv'
  BY <1>1, <1>8 DEF IInv, IdsInv, index, metas
<1>14. NumbersInv'
  <2>1. \A i \in 1 .. NumSamples : samples[i].n <= taken + n
    <3> TAKE i \in 1 .. NumSamples
    <3>1. CASE i <= begin
      <4>1. samples[i].n <= taken
        BY <3>1 DEF IInv, NumbersInv
      <4>2. samples[i].n \in Nat
        BY EnteredIds DEF AllIds, Vectors
      <4> QED BY <1>6, <4>1, <4>2
    <3>2. CASE i > begin
      <4>1. i - begin \in 1 .. n /\ begin + (i - begin) = i
        BY <1>4, <1>6, <3>2
      <4>2. samples[i].n = taken + (i - begin)
        BY <1>2, <1>4, <4>1 DEF IInv, CallInv
      <4> QED BY <1>6, <4>1, <4>2
    <3> QED BY <1>6, <3>1, <3>2
  <2> QED BY <1>1, <1>5, <2>1 DEF IInv, NumbersInv
<1>15. ReadyInv'
  BY <1>1, <1>5 DEF IInv, ReadyInv, disk, metas
<1>16. MetaInv'
  BY <1>1, <1>8, <1>9 DEF IInv, MetaInv, index, metas
<1>17. LoopInv' /\ FileInv'
  <2>1. \A i \in 1 .. Len(file.samples) : file.samples[i].n <= taken => file.samples[i].n <= taken + n
    <3> TAKE i \in 1 .. Len(file.samples)
    <3>1. file.samples[i].n \in Nat
      <4>1. file.samples \in Seq(Vectors)
        BY DEF IInv, TypeOK, SaveTypeOK
      <4>2. file.samples[i] \in Vectors
        BY <4>1, ElementOfSeq
      <4> QED BY <4>2 DEF Vectors
    <3> QED BY <1>6, <3>1
  <2> QED BY <1>1, <1>2, <2>1 DEF IInv, LoopInv, FileInv, FileLive, disk, metas
<1> QED BY <1>10, <1>11, <1>12, <1>13, <1>14, <1>15, <1>16, <1>17 DEF IInv

\* BuildMetaMapping maps a metadata to an id that has it, if there is one.
LEMMA Mapped ==
    ASSUME NEW ms, NEW ids \in SUBSET Nat, NEW m \in MetaValues
    PROVE  /\ MappingOf(ms, ids) \in [MetaValues -> {0} \cup ids]
           /\ MappingOf(ms, ids)[m] # 0 =>
                 /\ MappingOf(ms, ids)[m] \in ids
                 /\ MappingOf(ms, ids)[m] <= Len(ms)
                 /\ ms[MappingOf(ms, ids)[m]] = m
           /\ \A i \in ids :
                 /\ i <= Len(ms) /\ ms[i] = m
                 /\ \A j \in ids : j <= Len(ms) /\ ms[j] = m => j = i
                 => MappingOf(ms, ids)[m] = i
<1> DEFINE At(x) == {i \in ids : i <= Len(ms) /\ ms[i] = x}
           Last(x) == {i \in At(x) : \A j \in At(x) : j <= i}
           It(x) == IF Last(x) = {} THEN 0 ELSE CHOOSE i \in Last(x) : TRUE
<1>1. MappingOf(ms, ids) = [x \in MetaValues |-> It(x)]
  BY DEF MappingOf
<1>2. ASSUME NEW x \in MetaValues
      PROVE  It(x) \in {0} \cup ids /\ (It(x) # 0 => It(x) \in At(x))
  OBVIOUS
<1>3. ASSUME NEW i \in ids, i <= Len(ms), ms[i] = m,
             \A j \in ids : j <= Len(ms) /\ ms[j] = m => j = i
      PROVE  It(m) = i
  <2>1. At(m) = {i}
    BY <1>3
  <2>2. i \in Nat
    OBVIOUS
  <2>3. Last(m) = {i}
    BY <2>1, <2>2
  <2> QED BY <2>3
<1> HIDE DEF It
<1>4. MappingOf(ms, ids) \in [MetaValues -> {0} \cup ids]
  BY <1>1, <1>2
<1>5. MappingOf(ms, ids)[m] = It(m)
  BY <1>1
<1> QED BY <1>2, <1>3, <1>4, <1>5

LEMMA BuildStep ==
    ASSUME IInv, NEW t \in Adders, Build(t)
    PROVE  IInv'
<1> USE NumbersAssumption, NamesAssumption
<1> DEFINE L == IF n < DataCapacity THEN n ELSE n - 1
           ids == IF hasMapping' THEN 1 .. n ELSE {}
<1>1. /\ adder[t] = "build" /\ adder' = [adder EXCEPT ![t] = "idle"] /\ addLock' = NoOne
      /\ samples' = batch /\ graphRows' = n /\ labelRows' = n /\ deleted' = {}
      /\ hasMeta' = given
      /\ metadata' = (IF ~given THEN <<>> ELSE [j \in 1 .. L |-> batch[j].meta])
      /\ hasMapping' \in {FALSE, given}
      /\ mapping' = MappingOf(metadata', ids)
      /\ twins' = {m \in Metas : \E i, j \in 1 .. n :
                       i # j /\ batch[i].meta = m /\ batch[j].meta = m}
      /\ lost' = (given /\ n = DataCapacity)
      /\ ready' = TRUE /\ taken' = taken + n
      /\ batch' = <<>> /\ given' = FALSE /\ begin' = 0 /\ k' = 0
      /\ UNCHANGED <<deleteLock, found, saver, refineVars, disk>>
  BY DEF Build, LeaveAdd, n
<1>0. given \in BOOLEAN
  BY DEF IInv, TypeOK, CallTypeOK
<1>2. /\ Adding /\ Stage = "build" /\ saver # "compact" /\ ~deleteLock
      /\ n \in 1 .. MaxBatch /\ taken + n <= MaxVectors
  BY <1>1, Holder
<1>3. ~Adding' /\ \A u \in Adders : (adder'[u] # "idle") <=> (addLock' = u)
  BY <1>1, Returns
<1>4. begin = 0 /\ \A j \in 1 .. n : batch[j].n = taken + j
  BY <1>2 DEF IInv, CallInv
<1>5. NumSamples = 0
  BY <1>2, <1>4 DEF IInv, RowsInv, Grown
<1>6. ~ready /\ saver = "idle" /\ ~complete
  BY <1>5 DEF IInv, ReadyInv
<1>7. found = 0
  BY <1>2, <1>4 DEF IInv, IdsInv, Entered, Adding, Stage
<1>8. n \in Nat /\ n <= DataCapacity /\ taken \in Nat /\ L \in Nat
  BY <1>2, EnteredIds DEF IInv, TypeOK, IndexTypeOK
<1>9. batch \in Seq(Vectors) /\ \A j \in 1 .. n : batch[j] \in Vectors
  <2>1. batch \in Seq(Vectors)
    BY DEF IInv, TypeOK, CallTypeOK
  <2> QED BY <2>1, ElementOfSeq DEF n
<1>10. NumSamples' = n
  BY <1>1 DEF NumSamples, n
<1>11. Entered' = 1 .. n /\ Live' = 1 .. n /\ Records' = n
  BY <1>1, <1>3, <1>8, <1>10 DEF Entered, AllIds, Live, Adding, Records
<1>12. /\ metadata' \in Seq(MetaValues) /\ Len(metadata') <= DataCapacity
       /\ given => Len(metadata') = L /\ \A j \in 1 .. L : metadata'[j] = batch[j].meta
  <2>1. CASE ~given
    BY <1>1, <2>1, EmptySeq
  <2>2. CASE given
    <3>1. [j \in 1 .. L |-> batch[j].meta] \in [1 .. L -> MetaValues]
      BY <1>8, <1>9 DEF Vectors, MetaValues
    <3>2. metadata' \in Seq(MetaValues) /\ Len(metadata') = L
      BY <1>1, <1>8, <2>2, <3>1, FcnSeq
    <3> QED BY <1>1, <1>8, <2>2, <3>2
  <2> QED BY <2>1, <2>2
<1>13. mapping' \in [MetaValues -> {0} \cup ids] /\ ids \in SUBSET Nat /\ ids \subseteq 1 .. n
  <2>1. ids \in SUBSET Nat /\ Empty \in MetaValues
    BY DEF MetaValues
  <2> HIDE DEF ids
  <2>2. mapping' \in [MetaValues -> {0} \cup ids]
    BY <1>1, <2>1, Mapped
  <2> QED BY <2>1, <2>2 DEF ids
<1>14. TypeOK'
  <2>1. taken' \in 0 .. MaxVectors /\ twins' \subseteq Metas
    BY <1>1, <1>2, <1>8
  <2>9. lost' \in BOOLEAN /\ ready' \in BOOLEAN /\ hasMeta' \in BOOLEAN /\ hasMapping' \in BOOLEAN
    BY <1>1, <1>0
  <2>2. mapping' \in [MetaValues -> {0} \cup Ids]
    BY <1>8, <1>13 DEF Ids
  <2>3. IndexTypeOK'
    BY <1>1, <1>8, <1>9, <1>10, <1>12, <2>1, <2>2, <2>9 DEF IndexTypeOK
  <2>4. adder' \in [Adders -> {"idle", "build", "samples", "graph", "labels", "append", "map",
                               "unlock"}]
    BY <1>1 DEF IInv, TypeOK, CallTypeOK
  <2>5. batch' \in Seq(Vectors) /\ Len(batch') <= MaxBatch
    BY <1>1, EmptySeq
  <2>6. addLock' \in Adders \cup {Saver, NoOne} /\ begin' \in {0} \cup Ids /\ k' \in 0 .. MaxBatch
    BY <1>1
  <2>8. given' \in BOOLEAN
    BY <1>1
  <2>7. CallTypeOK' /\ SaveTypeOK'
    BY <1>1, <2>4, <2>5, <2>6, <2>8 DEF IInv, TypeOK, CallTypeOK, SaveTypeOK, refineVars, disk
  <2> QED BY <2>3, <2>7 DEF TypeOK
<1>15. CallInv'
  BY <1>1, <1>2, <1>3 DEF IInv, CallInv
<1>16. RowsInv'
  BY <1>1, <1>3, <1>10 DEF RowsInv
<1>17. IdsInv'
  BY <1>1, <1>7, <1>11, <1>13 DEF IdsInv
<1>18. NumbersInv'
  BY <1>1, <1>3, <1>4, <1>8, <1>10 DEF NumbersInv
<1>19. ReadyInv'
  BY <1>1, <1>2, <1>10 DEF ReadyInv
<1>20. MetaInv'
  <2>4. hasMapping' = FALSE \/ hasMapping' = given
    BY <1>1
  <2>1. (hasMapping' => hasMeta') /\ (~hasMeta' => metadata' = <<>>)
    BY <1>1, <1>0, <2>4
  <2>2. ASSUME hasMeta', ~lost'
        PROVE  /\ Len(metadata') = n
               /\ \A i \in 1 .. n : metadata'[i] = samples'[i].meta
    <3>1. given /\ L = n
      <4>1. given /\ n # DataCapacity
        BY <1>1, <2>2
      <4> QED BY <1>8, <4>1
    <3> QED BY <1>1, <1>12, <3>1
  <2>3. ASSUME hasMapping', ~lost'
        PROVE  /\ \A m \in MetaValues : mapping'[m] # 0 => samples'[mapping'[m]].meta = m
               /\ \A i \in 1 .. n :
                     samples'[i].meta \in Metas \ twins' => mapping'[samples'[i].meta] = i
    <3>1. ids = 1 .. n /\ Len(metadata') = n
          /\ \A i \in 1 .. n : metadata'[i] = samples'[i].meta
      BY <2>1, <2>2, <2>3
    <3>2. mapping' = MappingOf(metadata', 1 .. n) /\ 1 .. n \in SUBSET Nat
      BY <1>1, <3>1
    <3>3. ASSUME NEW m \in MetaValues, mapping'[m] # 0
          PROVE  samples'[mapping'[m]].meta = m
      BY <3>1, <3>2, <3>3, Mapped
    <3>4. ASSUME NEW i \in 1 .. n, samples'[i].meta \in Metas \ twins'
          PROVE  mapping'[samples'[i].meta] = i
      <4> DEFINE m == samples'[i].meta
      <4>1. m \in MetaValues
        BY <3>4 DEF MetaValues
      <4>2. \A j \in 1 .. n : metadata'[j] = m => j = i
        BY <1>1, <3>1, <3>4
      <4>3. i <= n /\ metadata'[i] = m
        BY <3>1, <1>8
      <4> HIDE DEF m
      <4>4. mapping'[m] = i
        BY <3>1, <3>2, <4>1, <4>2, <4>3, Mapped
      <4> QED BY <4>4 DEF m
    <3> QED BY <3>3, <3>4
  <2> QED BY <1>11, <2>1, <2>2, <2>3 DEF MetaInv
<1>21. LoopInv' /\ FileInv'
  <2>1. file.metadata = <<>>
    BY <1>6 DEF IInv, FileInv, ReadyInv
  <2> QED BY <1>1, <1>6, <2>1, EmptySeq DEF LoopInv, FileInv, disk
<1> QED BY <1>14, <1>15, <1>16, <1>17, <1>18, <1>19, <1>20, <1>21 DEF IInv
-----------------------------------------------------------------------------
(***************************************************************************)
(* DeleteIndex.                                                            *)
(***************************************************************************)
\* A vector with an id in Entered is deleted.
LEMMA Deleted ==
    ASSUME IInv, NEW i \in Entered, DeleteIndex(i), found' \in {0} \cup Entered,
           UNCHANGED <<ready, samples, graphRows, labelRows, metas, locks, addVars,
                       saver, refineVars, disk, ghosts>>
    PROVE  IInv'
<1>1. deleted' = deleted \cup {i} /\ saver # "compact"
  BY DEF DeleteIndex, IInv, CallInv
<1>2. NumSamples' = NumSamples /\ Entered' = Entered /\ Live' = Live \ {i}
  BY <1>1 DEF NumSamples, Entered, Live, AllIds, locks, addVars, locals
<1>3. i \in Ids /\ Entered \subseteq Ids
  BY EnteredIds
<1>4. TypeOK'
  <2>1. IndexTypeOK'
    BY <1>1, <1>2, <1>3 DEF IInv, TypeOK, IndexTypeOK, metas, ghosts
  <2>2. found' \in {0} \cup Ids
    BY <1>3
  <2>3. CallTypeOK' /\ SaveTypeOK'
    BY <2>2 DEF IInv, TypeOK, CallTypeOK, SaveTypeOK, locks, addVars, locals, refineVars, disk
  <2> QED BY <2>1, <2>3 DEF TypeOK
<1>5. CallInv'
  BY DEF IInv, CallInv, Adding, Stage, n, locks, addVars, locals, metas, ghosts
<1>6. RowsInv'
  BY <1>2 DEF IInv, RowsInv, Adding, Stage, n, locks, addVars, locals
<1>7. IdsInv'
  BY <1>1, <1>2 DEF IInv, IdsInv, metas
<1>8. NumbersInv' /\ ReadyInv'
  BY <1>2 DEF IInv, NumbersInv, ReadyInv, Adding, locks, addVars, locals, metas, disk, ghosts
<1>9. MetaInv'
  <2>1. Records' = Records
    BY <1>2 DEF Records, Adding, Stage, n, locks, addVars, locals
  <2> QED BY <1>2, <2>1 DEF IInv, MetaInv, metas, ghosts
<1>10. LoopInv' /\ FileInv'
  BY <1>1 DEF IInv, LoopInv, FileInv, FileLive, metas, disk, ghosts
<1> QED BY <1>4, <1>5, <1>6, <1>7, <1>8, <1>9, <1>10 DEF IInv

LEMMA DeleteFoundStep ==
    ASSUME IInv, DeleteFound
    PROVE  IInv'
<1>1. found' = found /\ found \in {0} \cup Entered
  BY DEF DeleteFound, IInv, IdsInv
<1> QED BY <1>1, Deleted DEF DeleteFound

LEMMA DeleteMetaStep ==
    ASSUME IInv, DeleteMeta
    PROVE  IInv'
<1>1. found \in Entered
  BY DEF DeleteMeta, IInv, IdsInv
<1> QED BY <1>1, Deleted DEF DeleteMeta

LEMMA LookUpMetaStep ==
    ASSUME IInv, LookUpMeta
    PROVE  IInv'
<1>1. UNCHANGED <<ready, index, metas, locks, addVars, saver, refineVars, disk, ghosts>>
  BY DEF LookUpMeta
<1>2. NumSamples' = NumSamples /\ Entered' = Entered /\ Live' = Live
  BY <1>1 DEF NumSamples, Entered, Live, AllIds, index, locks, addVars, locals
<1>3. found' \in Entered
  <2>1. \A m \in Metas : m \in MetaValues
    BY DEF MetaValues
  <2> QED BY <2>1 DEF LookUpMeta, IInv, IdsInv
<1>4. TypeOK'
  <2>1. IndexTypeOK' /\ SaveTypeOK'
    BY <1>1, <1>2
    DEF IInv, TypeOK, IndexTypeOK, SaveTypeOK, index, metas, refineVars, disk, ghosts
  <2>2. CallTypeOK'
    BY <1>1, <1>3, EnteredIds DEF IInv, TypeOK, CallTypeOK, locks, addVars, locals
  <2> QED BY <2>1, <2>2 DEF TypeOK
<1>5. CallInv' /\ RowsInv'
  BY <1>1, <1>2
  DEF IInv, CallInv, RowsInv, Adding, Stage, n, index, metas, locks, addVars, locals, ghosts
<1>6. IdsInv' /\ NumbersInv' /\ ReadyInv'
  BY <1>1, <1>2, <1>3
  DEF IInv, IdsInv, NumbersInv, ReadyInv, Adding, index, metas, locks, addVars, locals, disk, ghosts
<1>7. MetaInv'
  <2>1. Records' = Records
    BY <1>1, <1>2 DEF Records, Adding, Stage, n, locks, addVars, locals
  <2> QED BY <1>1, <1>2, <2>1 DEF IInv, MetaInv, index, metas, ghosts
<1>8. LoopInv' /\ FileInv'
  BY <1>1, <1>2 DEF IInv, LoopInv, FileInv, FileLive, AllIds, index, metas, refineVars, disk, ghosts
<1> QED BY <1>4, <1>5, <1>6, <1>7, <1>8 DEF IInv
-----------------------------------------------------------------------------
(***************************************************************************)
(* SaveIndex.                                                              *)
(***************************************************************************)
\* The saver does nothing to the index, and its files stay loadable or not.
LEMMA Saves ==
    ASSUME IInv,
           UNCHANGED <<ready, index, metas, locks, addVars, found, refineVars, ghosts>>,
           saver # "compact", saver' # "compact", saver # "idle",
           SaveTypeOK', FileInv'
    PROVE  IInv'
<1>1. NumSamples' = NumSamples /\ Entered' = Entered /\ Live' = Live /\ Records' = Records
  BY DEF NumSamples, Entered, Live, AllIds, Records, Adding, Stage, n, index, locks, addVars, locals
<1>2. TypeOK'
  BY <1>1
  DEF IInv, TypeOK, IndexTypeOK, CallTypeOK, index, metas, locks, addVars, locals, ghosts
<1>3. CallInv' /\ RowsInv'
  BY <1>1
  DEF IInv, CallInv, RowsInv, Adding, Stage, n, index, metas, locks, addVars, locals, ghosts
<1>4. IdsInv' /\ NumbersInv'
  BY <1>1 DEF IInv, IdsInv, NumbersInv, Adding, index, metas, locks, addVars, locals, ghosts
<1>5. ReadyInv'
  BY <1>1 DEF IInv, ReadyInv
<1>6. MetaInv'
  BY <1>1 DEF IInv, MetaInv, index, metas, ghosts
<1>7. LoopInv'
  BY DEF LoopInv
<1> QED BY <1>2, <1>3, <1>4, <1>5, <1>6, <1>7 DEF IInv

LEMMA ChoosePathStep ==
    ASSUME IInv, ChoosePath
    PROVE  IInv'
<1>1. SaveTypeOK'
  BY DEF ChoosePath, IInv, TypeOK, SaveTypeOK, refineVars, disk
<1>2. FileInv'
  BY DEF ChoosePath, IInv, FileInv, FileLive, metas, disk, ghosts
<1> QED BY <1>1, <1>2, Saves DEF ChoosePath

LEMMA SaveMetadataStep ==
    ASSUME IInv, SaveMetadata
    PROVE  IInv'
<1>1. /\ saver = "metadata" /\ saver' = "data" /\ complete' = complete
      /\ file' = [file EXCEPT !.metadata = metadata]
      /\ UNCHANGED <<ready, index, metas, locks, addVars, found, refineVars, ghosts>>
  BY DEF SaveMetadata
<1>2. /\ file \in [samples : Seq(Vectors), deleted : SUBSET Ids, metadata : Seq(MetaValues),
                   lost : BOOLEAN]
      /\ metadata \in Seq(MetaValues) /\ Len(metadata) <= DataCapacity
  BY DEF IInv, TypeOK, SaveTypeOK, IndexTypeOK
<1>3. /\ file' \in [samples : Seq(Vectors), deleted : SUBSET Ids, metadata : Seq(MetaValues),
                    lost : BOOLEAN]
      /\ file'.metadata = metadata
  BY <1>1, <1>2
<1>4. SaveTypeOK'
  BY <1>1, <1>3 DEF IInv, TypeOK, SaveTypeOK, refineVars
<1>5. Len(metadata) \in Nat
  BY <1>2, LenProperties
<1>6. ~complete /\ (~hasMeta => metadata = <<>>)
  BY <1>1 DEF IInv, FileInv, MetaInv
<1>7. FileInv'
  BY <1>1, <1>2, <1>3, <1>5, <1>6 DEF FileInv, metas
<1> QED BY <1>1, <1>4, <1>7, Saves

LEMMA SaveIndexDataStep ==
    ASSUME IInv, SaveIndexData
    PROVE  IInv'
<1> USE NumbersAssumption, NamesAssumption
<1>1. /\ saver = "data" /\ addLock = NoOne /\ saver' = "idle" /\ complete' = TRUE
      /\ file' = [file EXCEPT !.samples = samples, !.deleted = deleted, !.lost = lost]
      /\ UNCHANGED <<ready, index, metas, locks, addVars, found, refineVars, ghosts>>
  BY DEF SaveIndexData
<1>2. /\ file \in [samples : Seq(Vectors), deleted : SUBSET Ids, metadata : Seq(MetaValues),
                   lost : BOOLEAN]
      /\ samples \in Seq(Vectors) /\ deleted \subseteq Ids /\ lost \in BOOLEAN
  BY DEF IInv, TypeOK, SaveTypeOK, IndexTypeOK
<1>3. /\ file' \in [samples : Seq(Vectors), deleted : SUBSET Ids, metadata : Seq(MetaValues),
                    lost : BOOLEAN]
      /\ file'.samples = samples /\ file'.deleted = deleted /\ file'.metadata = file.metadata
      /\ file'.lost = lost
  BY <1>1, <1>2
<1>4. ~Adding /\ Entered = AllIds /\ Records = NumSamples /\ NumSamples \in 1 .. DataCapacity
  <2>1. ~Adding
    BY <1>1 DEF Adding
  <2>2. NumSamples # 0
    BY <1>1 DEF IInv, ReadyInv
  <2> QED BY <2>1, <2>2, EnteredIds DEF Entered, Records, Adding
<1>5. SaveTypeOK'
  BY <1>1, <1>3 DEF IInv, TypeOK, SaveTypeOK, refineVars
<1>6. FileInv'
  <2>1. /\ deleted \subseteq 1 .. NumSamples
        /\ \A i \in 1 .. NumSamples : samples[i].n <= taken
        /\ \A i, j \in 1 .. NumSamples : samples[i].n = samples[j].n => i = j
    BY <1>4 DEF IInv, IdsInv, NumbersInv, AllIds
  <2>2. /\ Len(file.metadata) <= Len(metadata) /\ (~hasMeta => file.metadata = <<>>)
        /\ \A i \in 1 .. Len(file.metadata) : file.metadata[i] = metadata[i]
        /\ Len(file.metadata) <= DataCapacity
    BY <1>1 DEF IInv, FileInv
  <2>3. ASSUME hasMeta, ~lost, Len(file.metadata) = NumSamples
        PROVE  /\ \A i \in 1 .. NumSamples : file.metadata[i] = samples[i].meta
               /\ hasMapping => \A i, j \in 1 .. NumSamples \ deleted :
                     samples[i].meta \in Metas \ twins /\ samples[i].meta = samples[j].meta => i = j
    <3>1. \A i \in 1 .. NumSamples : metadata[i] = samples[i].meta
      BY <1>4, <2>3 DEF IInv, MetaInv
    <3>2. hasMapping => \A i \in 1 .. NumSamples \ deleted :
             samples[i].meta \in Metas \ twins => mapping[samples[i].meta] = i
      BY <1>4, <2>3 DEF IInv, MetaInv, Live, AllIds
    <3>3. \A i \in 1 .. NumSamples : file.metadata[i] = samples[i].meta
      BY <2>2, <2>3, <3>1
    <3> QED BY <3>2, <3>3
  <2> QED BY <1>1, <1>3, <1>4, <2>1, <2>2, <2>3 DEF FileInv, FileLive, NumSamples, metas, ghosts
<1> QED BY <1>1, <1>5, <1>6, Saves

LEMMA OpenFilesStep ==
    ASSUME IInv, OpenFiles
    PROVE  IInv'
<1> USE NumbersAssumption
<1>1. /\ saver = "idle" /\ saver' = "opened" /\ ready /\ file' = NoFile /\ complete' = FALSE
      /\ UNCHANGED <<ready, index, metas, locks, addVars, found, refineVars, ghosts>>
  BY DEF OpenFiles
<1>2. NumSamples' = NumSamples /\ Entered' = Entered /\ Live' = Live /\ Records' = Records
  BY <1>1
  DEF NumSamples, Entered, Live, AllIds, Records, Adding, Stage, n, index, locks, addVars, locals
<1>3. NoFile \in [samples : Seq(Vectors), deleted : SUBSET Ids, metadata : Seq(MetaValues),
                  lost : BOOLEAN]
  <2>1. <<>> \in Seq(Vectors) /\ <<>> \in Seq(MetaValues)
    BY EmptySeq
  <2> QED BY <2>1 DEF NoFile
<1>4. TypeOK'
  <2>1. SaveTypeOK'
    BY <1>1, <1>3 DEF IInv, TypeOK, SaveTypeOK, refineVars
  <2> QED
    BY <1>1, <1>2, <2>1
    DEF IInv, TypeOK, IndexTypeOK, CallTypeOK, index, metas, locks, addVars, locals, ghosts
<1>5. CallInv' /\ RowsInv'
  BY <1>1, <1>2
  DEF IInv, CallInv, RowsInv, Adding, Stage, n, index, metas, locks, addVars, locals, ghosts
<1>6. IdsInv' /\ NumbersInv'
  BY <1>1, <1>2 DEF IInv, IdsInv, NumbersInv, Adding, index, metas, locks, addVars, locals, ghosts
<1>7. ReadyInv' /\ MetaInv' /\ LoopInv'
  BY <1>1, <1>2 DEF IInv, ReadyInv, MetaInv, LoopInv, index, metas, ghosts
<1>8. FileInv'
  BY <1>1, EmptySeq DEF FileInv, NoFile
<1> QED BY <1>4, <1>5, <1>6, <1>7, <1>8 DEF IInv

LEMMA RefineLockStep ==
    ASSUME IInv, RefineLock
    PROVE  IInv'
<1> USE NumbersAssumption, NamesAssumption
<1>1. /\ saver = "lock" /\ addLock = NoOne /\ addLock' = Saver /\ deleteLock' = TRUE
      /\ next' = 1 /\ newR' = NumSamples /\ indices' = <<>>
      /\ reverseIndices' = [i \in AllIds |-> 1] /\ saver' = "compact"
      /\ UNCHANGED <<ready, index, metas, addVars, found, disk, ghosts>>
  BY DEF RefineLock
<1>2. NumSamples \in Nat /\ NumSamples <= DataCapacity
  BY EnteredIds
<1>3. ~Adding /\ ~Adding' /\ NumSamples' = NumSamples /\ AllIds' = AllIds
  BY <1>1 DEF Adding, NumSamples, AllIds, index
<1>4. Entered' = Entered /\ Live' = Live /\ Records' = Records
  BY <1>1, <1>3 DEF Entered, Live, Records, Adding, index
<1>5. <<>> \in Seq(Ids) /\ Len(<<>>) = 0
  BY EmptySeq
<1>6. reverseIndices' \in Seq(Ids) /\ Len(reverseIndices') = NumSamples
  <2>1. [i \in AllIds |-> 1] \in [1 .. NumSamples -> Ids]
    BY DEF AllIds, Ids
  <2> QED BY <1>1, <1>2, <2>1, FcnSeq
<1>7. TypeOK'
  <2>1. IndexTypeOK' /\ CallTypeOK'
    BY <1>1, <1>3
    DEF IInv, TypeOK, IndexTypeOK, CallTypeOK, index, metas, addVars, locals, ghosts
  <2>2. next' \in 0 .. DataCapacity + 1 /\ newR' \in 0 .. DataCapacity
    BY <1>1, <1>2
  <2>3. SaveTypeOK'
    BY <1>1, <1>5, <1>6, <2>2 DEF IInv, TypeOK, SaveTypeOK, disk
  <2> QED BY <2>1, <2>3 DEF TypeOK
<1>8. CallInv' /\ RowsInv'
  BY <1>1, <1>3 DEF IInv, CallInv, RowsInv, Adding, index, addVars, locals
<1>9. IdsInv' /\ NumbersInv' /\ ReadyInv'
  BY <1>1, <1>3, <1>4 DEF IInv, IdsInv, NumbersInv, ReadyInv, index, metas, ghosts
<1>10. MetaInv'
  BY <1>1, <1>4 DEF IInv, MetaInv, index, metas, ghosts
<1>11. LoopInv'
  BY <1>1, <1>2, <1>3, <1>5, <1>6 DEF LoopInv, AllIds
<1>12. FileInv'
  BY <1>1 DEF IInv, FileInv, FileLive, disk, metas, ghosts
<1> QED BY <1>7, <1>8, <1>9, <1>10, <1>11, <1>12 DEF IInv

\* An iteration of the loop touches nothing but its locals.
LEMMA Iterates ==
    ASSUME IInv, saver = "compact",
           UNCHANGED <<ready, index, metas, locks, addVars, found, saver, disk, ghosts>>,
           next' \in 0 .. DataCapacity + 1, newR' \in 0 .. DataCapacity,
           indices' \in Seq(Ids), reverseIndices' \in Seq(Ids), LoopInv'
    PROVE  IInv'
<1>1. NumSamples' = NumSamples /\ Entered' = Entered /\ Live' = Live /\ Records' = Records
  BY DEF NumSamples, Entered, Live, AllIds, Records, Adding, Stage, n, index, locks, addVars, locals
<1>2. TypeOK'
  BY <1>1
  DEF IInv, TypeOK, IndexTypeOK, CallTypeOK, SaveTypeOK, index, metas, locks, addVars, locals,
      disk, ghosts
<1>3. CallInv' /\ RowsInv'
  BY <1>1
  DEF IInv, CallInv, RowsInv, Adding, Stage, n, index, metas, locks, addVars, locals, ghosts
<1>4. IdsInv' /\ NumbersInv' /\ ReadyInv'
  BY <1>1
  DEF IInv, IdsInv, NumbersInv, ReadyInv, Adding, index, metas, locks, addVars, locals, disk, ghosts
<1>5. MetaInv' /\ FileInv'
  BY <1>1 DEF IInv, MetaInv, FileInv, FileLive, index, metas, disk, ghosts
<1> QED BY <1>2, <1>3, <1>4, <1>5 DEF IInv

\* What the loop knows when it goes on.
LEMMA Looping ==
    ASSUME IInv, saver = "compact"
    PROVE  /\ next \in Nat /\ newR \in Nat /\ NumSamples \in Nat
           /\ next >= 1 /\ next <= newR + 1 /\ newR <= NumSamples /\ NumSamples <= DataCapacity
           /\ indices \in Seq(Ids) /\ reverseIndices \in Seq(Ids)
           /\ Len(indices) = next - 1 /\ Len(reverseIndices) = NumSamples
           /\ \A i \in 1 .. next - 1 :
                 /\ indices[i] \in AllIds \ deleted
                 /\ i \notin deleted => indices[i] = i
                 /\ i \in deleted => indices[i] > newR
                 /\ reverseIndices[indices[i]] = i
           /\ \A j \in AllIds \ deleted :
                 j > newR => \E i \in 1 .. next - 1 : indices[i] = j
<1>1. next \in Nat /\ newR \in Nat /\ indices \in Seq(Ids) /\ reverseIndices \in Seq(Ids)
  BY NumbersAssumption DEF IInv, TypeOK, SaveTypeOK
<1> QED BY <1>1, EnteredIds DEF IInv, LoopInv

\* A live id that is not listed yet becomes the next one.
LEMMA Listed ==
    ASSUME IInv, saver = "compact", next <= newR,
           NEW r \in next .. newR, r \notin deleted,
           indices' = Append(indices, r),
           reverseIndices' = [reverseIndices EXCEPT ![r] = next]
    PROVE  /\ indices' \in Seq(Ids) /\ Len(indices') = next
           /\ reverseIndices' \in Seq(Ids) /\ Len(reverseIndices') = NumSamples
           /\ \A i \in 1 .. next - 1 : indices'[i] = indices[i]
           /\ indices'[next] = r /\ r \in AllIds \ deleted
           /\ \A i \in 1 .. next : reverseIndices'[indices'[i]] = i
<1>0. /\ next \in Nat /\ newR \in Nat /\ NumSamples \in Nat
      /\ next >= 1 /\ next <= newR + 1 /\ newR <= NumSamples /\ NumSamples <= DataCapacity
      /\ indices \in Seq(Ids) /\ reverseIndices \in Seq(Ids)
      /\ Len(indices) = next - 1 /\ Len(reverseIndices) = NumSamples
  BY Looping
<1>1. r \in Nat /\ r \in 1 .. NumSamples /\ r \in Ids /\ next \in Ids /\ r \in AllIds \ deleted
  BY <1>0, NumbersAssumption DEF Ids, AllIds
<1>2. /\ indices' \in Seq(Ids) /\ Len(indices') = next - 1 + 1
      /\ \A i \in 1 .. next - 1 : indices'[i] = indices[i]
      /\ indices'[next - 1 + 1] = r
  BY <1>0, <1>1, AppendProperties
<1>3. /\ reverseIndices' \in Seq(Ids) /\ Len(reverseIndices') = NumSamples
      /\ \A j \in 1 .. NumSamples :
            reverseIndices'[j] = IF j = r THEN next ELSE reverseIndices[j]
  BY <1>0, <1>1, ExceptSeq
<1>4. \A i \in 1 .. next - 1 : indices[i] \in 1 .. NumSamples /\ indices[i] # r
                               /\ reverseIndices[indices[i]] = i
  <2> TAKE i \in 1 .. next - 1
  <2>1. /\ indices[i] \in AllIds /\ reverseIndices[indices[i]] = i
        /\ i \notin deleted => indices[i] = i
        /\ i \in deleted => indices[i] > newR
    BY Looping
  <2>2. indices[i] \in 1 .. NumSamples
    BY <2>1 DEF AllIds
  <2> QED BY <1>0, <1>1, <2>1, <2>2
<1>5. \A i \in 1 .. next : reverseIndices'[indices'[i]] = i
  <2> TAKE i \in 1 .. next
  <2>1. CASE i = next
    BY <1>0, <1>1, <1>2, <1>3, <2>1
  <2>2. CASE i # next
    <3>1. i \in 1 .. next - 1
      BY <1>0, <2>2
    <3> QED BY <1>2, <1>3, <1>4, <3>1
  <2> QED BY <2>1, <2>2
<1> QED BY <1>0, <1>1, <1>2, <1>3, <1>5

LEMMA KeepIdStep ==
    ASSUME IInv, KeepId
    PROVE  IInv'
<1>1. /\ saver = "compact" /\ next <= newR /\ next \notin deleted
      /\ indices' = Append(indices, next)
      /\ reverseIndices' = [reverseIndices EXCEPT ![next] = next]
      /\ next' = next + 1 /\ newR' = newR
      /\ UNCHANGED <<ready, index, metas, locks, addVars, found, saver, disk, ghosts>>
  BY DEF KeepId
<1>2. /\ next \in Nat /\ newR \in Nat /\ NumSamples \in Nat
      /\ next >= 1 /\ newR <= NumSamples /\ NumSamples <= DataCapacity
      /\ \A i \in 1 .. next - 1 :
            /\ indices[i] \in AllIds \ deleted
            /\ i \notin deleted => indices[i] = i
            /\ i \in deleted => indices[i] > newR
      /\ \A j \in AllIds \ deleted :
            j > newR => \E i \in 1 .. next - 1 : indices[i] = j
  BY <1>1, Looping
<1>3. next \in next .. newR
  BY <1>1, <1>2
<1>4. /\ indices' \in Seq(Ids) /\ Len(indices') = next
      /\ reverseIndices' \in Seq(Ids) /\ Len(reverseIndices') = NumSamples
      /\ \A i \in 1 .. next - 1 : indices'[i] = indices[i]
      /\ indices'[next] = next /\ next \in AllIds \ deleted
      /\ \A i \in 1 .. next : reverseIndices'[indices'[i]] = i
  BY <1>1, <1>3, Listed
<1>5. NumSamples' = NumSamples /\ AllIds' = AllIds /\ deleted' = deleted
  BY <1>1 DEF NumSamples, AllIds, index
<1>6. LoopInv'
  <2>1. \A i \in 1 .. next :
           /\ indices'[i] \in AllIds \ deleted
           /\ i \notin deleted => indices'[i] = i
           /\ i \in deleted => indices'[i] > newR
    <3> TAKE i \in 1 .. next
    <3>1. CASE i = next
      BY <1>1, <1>4, <3>1
    <3>2. CASE i # next
      BY <1>2, <1>4, <3>2
    <3> QED BY <3>1, <3>2
  <2>2. \A j \in AllIds \ deleted : j > newR => \E i \in 1 .. next : indices'[i] = j
    BY <1>2, <1>4
  <2> QED BY <1>1, <1>2, <1>4, <1>5, <2>1, <2>2 DEF LoopInv
<1>7. next' \in 0 .. DataCapacity + 1 /\ newR' \in 0 .. DataCapacity
  BY <1>1, <1>2, NumbersAssumption
<1> QED BY <1>1, <1>4, <1>6, <1>7, Iterates

LEMMA MoveLastStep ==
    ASSUME IInv, MoveLast
    PROVE  IInv'
<1>1. /\ saver = "compact" /\ next <= newR /\ next \in deleted
      /\ UNCHANGED <<ready, index, metas, locks, addVars, found, saver, disk, ghosts>>
  BY DEF MoveLast
<1>2. /\ next \in Nat /\ newR \in Nat /\ NumSamples \in Nat
      /\ next >= 1 /\ newR <= NumSamples /\ NumSamples <= DataCapacity
      /\ indices \in Seq(Ids) /\ reverseIndices \in Seq(Ids)
      /\ Len(indices) = next - 1 /\ Len(reverseIndices) = NumSamples
      /\ \A i \in 1 .. next - 1 :
            /\ indices[i] \in AllIds \ deleted
            /\ i \notin deleted => indices[i] = i
            /\ i \in deleted => indices[i] > newR
            /\ reverseIndices[indices[i]] = i
      /\ \A j \in AllIds \ deleted :
            j > newR => \E i \in 1 .. next - 1 : indices[i] = j
  BY <1>1, Looping
<1>3. PICK r \in 0 .. newR :
         /\ LastLive(r)
         /\ IF r < next
            THEN newR' = r /\ UNCHANGED <<next, indices, reverseIndices>>
            ELSE /\ indices' = Append(indices, r)
                 /\ reverseIndices' = [reverseIndices EXCEPT ![r] = next]
                 /\ newR' = r - 1
                 /\ next' = next + 1
  BY DEF MoveLast
<1>4. /\ r \in Nat /\ next - 1 <= r /\ r <= newR
      /\ \A i \in r + 1 .. newR : i \in deleted
      /\ r >= next => r \notin deleted
  BY <1>2, <1>3 DEF LastLive
<1>5. NumSamples' = NumSamples /\ AllIds' = AllIds /\ deleted' = deleted
  BY <1>1 DEF NumSamples, AllIds, index
<1>6. \A j \in AllIds \ deleted : j > r => \E i \in 1 .. next - 1 : indices[i] = j
  <2> TAKE j \in AllIds \ deleted
  <2> HAVE j > r
  <2>1. j \in Nat
    BY DEF AllIds
  <2>2. j > newR
    BY <1>2, <1>4, <2>1
  <2> QED BY <1>2, <2>2
<1>7. CASE r < next
  <2>1. r = next - 1 /\ newR' = next - 1 /\ next' = next /\ indices' = indices
        /\ reverseIndices' = reverseIndices
    BY <1>2, <1>3, <1>4, <1>7
  <2>2. \A i \in 1 .. next - 1 : i \in deleted => indices[i] > next - 1
    <3> TAKE i \in 1 .. next - 1
    <3>1. indices[i] \in Nat
      BY <1>2 DEF AllIds
    <3> QED BY <1>1, <1>2, <3>1
  <2>3. LoopInv'
    BY <1>2, <1>1, <1>5, <1>6, <2>1, <2>2 DEF LoopInv
  <2>4. next' \in 0 .. DataCapacity + 1 /\ newR' \in 0 .. DataCapacity
    BY <1>1, <1>2, <2>1, NumbersAssumption
  <2> QED BY <1>1, <1>2, <2>1, <2>3, <2>4, Iterates
<1>8. CASE ~(r < next)
  <2>1. /\ indices' = Append(indices, r) /\ r \notin deleted /\ r > next
        /\ reverseIndices' = [reverseIndices EXCEPT ![r] = next]
        /\ newR' = r - 1 /\ next' = next + 1
    BY <1>1, <1>2, <1>3, <1>4, <1>8
  <2>2. r \in next .. newR
    BY <1>2, <1>4, <2>1
  <2>3. /\ indices' \in Seq(Ids) /\ Len(indices') = next
        /\ reverseIndices' \in Seq(Ids) /\ Len(reverseIndices') = NumSamples
        /\ \A i \in 1 .. next - 1 : indices'[i] = indices[i]
        /\ indices'[next] = r /\ r \in AllIds \ deleted
        /\ \A i \in 1 .. next : reverseIndices'[indices'[i]] = i
    BY <1>1, <2>1, <2>2, Listed
  <2>4. \A i \in 1 .. next :
           /\ indices'[i] \in AllIds \ deleted
           /\ i \notin deleted => indices'[i] = i
           /\ i \in deleted => indices'[i] > r - 1
    <3> TAKE i \in 1 .. next
    <3>1. CASE i = next
      BY <1>1, <1>4, <2>3, <3>1
    <3>2. CASE i # next
      <4>1. i \in 1 .. next - 1
        BY <1>2, <3>2
      <4>2. indices[i] \in Nat
        BY <1>2, <4>1 DEF AllIds
      <4> QED BY <1>2, <1>4, <2>3, <4>1, <4>2
    <3> QED BY <3>1, <3>2
  <2>5. \A j \in AllIds \ deleted : j > r - 1 => \E i \in 1 .. next : indices'[i] = j
    <3> TAKE j \in AllIds \ deleted
    <3> HAVE j > r - 1
    <3>1. CASE j = r
      BY <1>2, <2>3, <3>1
    <3>2. CASE j # r
      <4>1. j > r
        BY <1>4, <3>2 DEF AllIds
      <4> QED BY <1>2, <1>6, <2>3, <4>1
    <3> QED BY <3>1, <3>2
  <2>6. LoopInv'
    BY <1>2, <1>1, <1>4, <1>5, <2>1, <2>3, <2>4, <2>5 DEF LoopInv
  <2>7. next' \in 0 .. DataCapacity + 1 /\ newR' \in 0 .. DataCapacity
    BY <1>1, <1>2, <1>4, <2>1, NumbersAssumption
  <2> QED BY <1>1, <2>3, <2>6, <2>7, Iterates
<1> QED BY <1>7, <1>8

LEMMA WriteRefinedStep ==
    ASSUME IInv, WriteRefined
    PROVE  IInv'
<1> USE NumbersAssumption, NamesAssumption
<1>1. /\ saver = "compact" /\ next > newR /\ saver' = "idle"
      /\ addLock' = NoOne /\ deleteLock' = FALSE
      /\ next' = 0 /\ newR' = 0 /\ indices' = <<>> /\ reverseIndices' = <<>>
      /\ UNCHANGED <<ready, index, metas, addVars, found, ghosts>>
  BY DEF WriteRefined, LeaveRefine
<1>2. /\ next \in Nat /\ newR \in Nat /\ NumSamples \in Nat /\ next <= newR + 1
      /\ newR <= NumSamples /\ NumSamples <= DataCapacity
      /\ indices \in Seq(Ids) /\ Len(indices) = next - 1
      /\ \A i \in 1 .. next - 1 : indices[i] \in AllIds \ deleted /\ reverseIndices[indices[i]] = i
  BY <1>1, Looping
<1>3. next - 1 = newR
  BY <1>1, <1>2
<1>4. addLock = Saver /\ ~complete
  BY <1>1 DEF IInv, CallInv, FileInv
<1>5. ~Adding /\ ~Adding' /\ NumSamples' = NumSamples /\ AllIds' = AllIds
  BY <1>1, <1>4 DEF Adding, NumSamples, AllIds, index
<1>6. Entered = AllIds /\ Entered' = Entered /\ Live' = Live /\ Records' = Records
      /\ Records = NumSamples
  BY <1>1, <1>5 DEF Entered, Live, Records, Adding, index
<1>7. /\ \A i \in AllIds : samples[i] \in Vectors
      /\ lost \in BOOLEAN /\ metadata \in Seq(MetaValues)
  BY EnteredIds DEF IInv, TypeOK, IndexTypeOK
<1>8. SaveTypeOK' /\ FileInv'
  <2>1. <<>> \in Seq(Ids) /\ next' \in 0 .. DataCapacity + 1 /\ newR' \in 0 .. DataCapacity
    BY <1>1, EmptySeq
  <2>2. CASE newR = 0
    <3>1. UNCHANGED disk
      BY <2>2 DEF WriteRefined
    <3>2. SaveTypeOK'
      BY <1>1, <2>1, <3>1 DEF IInv, TypeOK, SaveTypeOK, disk
    <3>3. FileInv'
      BY <1>1, <1>4, <3>1 DEF IInv, FileInv, disk, metas
    <3> QED BY <3>2, <3>3
  <2>3. CASE newR # 0
    <3>1. PICK ms \in [1 .. Len(indices) -> MetaValues] :
             /\ Refined(ms)
             /\ file' = [samples |-> [i \in 1 .. Len(indices) |-> samples[indices[i]]],
                         deleted |-> {},
                         metadata |-> IF hasMeta THEN ms ELSE <<>>,
                         lost |-> lost]
      BY <2>3 DEF WriteRefined
    <3>2. complete' = TRUE
      BY <2>3 DEF WriteRefined
    <3>3. ms \in Seq(MetaValues) /\ Len(ms) = newR
      BY <1>2, <1>3, FcnSeq
    <3>4. \A i \in 1 .. newR : indices[i] \in AllIds \ deleted /\ reverseIndices[indices[i]] = i
      BY <1>2, <1>3
    <3> DEFINE ss == [i \in 1 .. Len(indices) |-> samples[indices[i]]]
    <3>5. ss \in [1 .. newR -> Vectors] /\ \A i \in 1 .. newR : ss[i] = samples[indices[i]]
      BY <1>2, <1>3, <1>7, <3>4
    <3>6. ss \in Seq(Vectors) /\ Len(ss) = newR
      BY <1>2, <3>5, FcnSeq
    <3>7. /\ file'.samples = ss /\ file'.deleted = {} /\ file'.lost = lost
          /\ file'.metadata = (IF hasMeta THEN ms ELSE <<>>)
      BY <3>1
    <3>8. <<>> \in Seq(MetaValues) /\ Len(<<>>) = 0
      BY EmptySeq
    <3> HIDE DEF ss
    <3>9. file'.metadata \in Seq(MetaValues)
      BY <3>3, <3>7, <3>8
    <3>10. file' \in [samples : Seq(Vectors), deleted : SUBSET Ids, metadata : Seq(MetaValues),
                      lost : BOOLEAN]
      BY <1>7, <3>1, <3>6, <3>7, <3>9 DEF ss
    <3>11. SaveTypeOK'
      BY <1>1, <2>1, <3>2, <3>10 DEF SaveTypeOK
    <3>12. /\ \A i \in 1 .. newR : ss[i].n <= taken
           /\ \A i, j \in 1 .. newR : ss[i].n = ss[j].n => i = j
      <4>1. /\ \A i \in AllIds : samples[i].n <= taken
            /\ \A i, j \in AllIds : samples[i].n = samples[j].n => i = j
        BY <1>5 DEF IInv, NumbersInv, AllIds
      <4> QED BY <3>4, <3>5, <4>1
    <3>13. ASSUME hasMeta, ~lost
           PROVE  /\ \A i \in 1 .. newR : ms[i] = ss[i].meta
                  /\ hasMapping => \A i, j \in 1 .. newR :
                        ss[i].meta \in Metas \ twins /\ ss[i].meta = ss[j].meta => i = j
      <4>1. Len(metadata) = NumSamples /\ \A i \in AllIds : metadata[i] = samples[i].meta
        BY <1>6, <3>13 DEF IInv, MetaInv, AllIds
      <4>2. \A i \in 1 .. newR : ms[i] = ss[i].meta
        <5> TAKE i \in 1 .. newR
        <5>1. ms[i] \in MetaAt(indices[i])
          BY <1>2, <1>3, <3>1 DEF Refined
        <5>2. indices[i] \in AllIds /\ indices[i] <= Len(metadata)
          BY <1>2, <3>4, <4>1 DEF AllIds
        <5> QED BY <3>5, <4>1, <5>1, <5>2 DEF MetaAt
      <4>3. hasMapping => \A i \in AllIds \ deleted :
               samples[i].meta \in Metas \ twins => mapping[samples[i].meta] = i
        BY <1>6, <3>13 DEF IInv, MetaInv, Live
      <4>4. ASSUME hasMapping, NEW i \in 1 .. newR, NEW j \in 1 .. newR,
                   ss[i].meta \in Metas \ twins, ss[i].meta = ss[j].meta
            PROVE  i = j
        <5>1. indices[i] = indices[j]
          BY <3>4, <3>5, <4>3, <4>4
        <5> QED BY <3>4, <5>1
      <4> QED BY <4>2, <4>4
    <3>14. /\ \A i \in 1 .. Len(file'.samples) : file'.samples[i].n <= taken'
           /\ \A i, j \in 1 .. Len(file'.samples) :
                 file'.samples[i].n = file'.samples[j].n => i = j
           /\ Len(file'.samples) \in 1 .. DataCapacity
           /\ file'.deleted \subseteq 1 .. Len(file'.samples)
      BY <1>1, <1>2, <2>3, <3>6, <3>7, <3>12 DEF ghosts
    <3>15. (~hasMeta' => file'.metadata = <<>>) /\ Len(file'.metadata) <= DataCapacity
      BY <1>1, <1>2, <3>3, <3>7, <3>8 DEF metas
    <3>16. FileLive' = 1 .. newR
      BY <1>2, <3>6, <3>7 DEF FileLive
    <3>17. hasMeta' /\ ~file'.lost =>
             /\ \A i \in 1 .. Len(file'.samples) : file'.metadata[i] = file'.samples[i].meta
             /\ hasMapping' => \A i, j \in FileLive' :
                   file'.samples[i].meta \in Metas \ twins'
                   /\ file'.samples[i].meta = file'.samples[j].meta => i = j
      BY <1>1, <3>6, <3>7, <3>13, <3>16 DEF metas, ghosts
    <3>18. FileInv'
      BY <1>1, <3>14, <3>15, <3>17 DEF FileInv
    <3> QED BY <3>11, <3>18
  <2> QED BY <2>2, <2>3
<1>9. TypeOK'
  BY <1>1, <1>5, <1>8
  DEF IInv, TypeOK, IndexTypeOK, CallTypeOK, index, metas, addVars, locals, ghosts
<1>10. CallInv'
  BY <1>1, <1>4, <1>5 DEF IInv, CallInv, addVars, locals
<1>11. RowsInv' /\ IdsInv' /\ NumbersInv'
  BY <1>1, <1>5, <1>6
  DEF IInv, RowsInv, IdsInv, NumbersInv, index, metas, ghosts
<1>12. ReadyInv'
  BY <1>1, <1>5 DEF IInv, ReadyInv
<1>13. MetaInv' /\ LoopInv'
  BY <1>1, <1>6 DEF IInv, MetaInv, LoopInv, index, metas, ghosts
<1> QED BY <1>8, <1>9, <1>10, <1>11, <1>12, <1>13 DEF IInv
-----------------------------------------------------------------------------
(***************************************************************************)
(* LoadIndex in the next process.                                          *)
(***************************************************************************)
LEMMA RestartStep ==
    ASSUME IInv, Restart
    PROVE  IInv'
<1> USE NumbersAssumption, NamesAssumption
<1> DEFINE ids == IF hasMapping THEN (1 .. Len(samples')) \ deleted' ELSE {}
           N == Len(file.samples)
<1>1. /\ complete /\ samples' = file.samples /\ deleted' = file.deleted
      /\ graphRows' = Len(samples') /\ labelRows' = Len(samples')
      /\ metadata' = file.metadata
      /\ mapping' = MappingOf(metadata', ids)
      /\ lost' = (file.lost \/ (hasMeta /\ Len(metadata') # Len(samples')))
      /\ addLock' = NoOne /\ deleteLock' = FALSE
      /\ adder' = [t \in Adders |-> "idle"]
      /\ batch' = <<>> /\ given' = FALSE /\ begin' = 0 /\ k' = 0 /\ found' = 0
      /\ saver' = "idle" /\ next' = 0 /\ newR' = 0 /\ indices' = <<>> /\ reverseIndices' = <<>>
      /\ UNCHANGED <<ready, hasMeta, hasMapping, disk, taken, twins>>
  BY DEF Restart, LeaveAdd, LeaveRefine
<1>2. /\ N \in 1 .. DataCapacity
      /\ file.deleted \subseteq 1 .. N
      /\ \A i \in 1 .. N : file.samples[i].n <= taken
      /\ \A i, j \in 1 .. N : file.samples[i].n = file.samples[j].n => i = j
      /\ ~hasMeta => file.metadata = <<>>
      /\ Len(file.metadata) <= DataCapacity
      /\ hasMeta /\ ~file.lost /\ Len(file.metadata) = N =>
            /\ \A i \in 1 .. N : file.metadata[i] = file.samples[i].meta
            /\ hasMapping => \A i, j \in FileLive :
                  file.samples[i].meta \in Metas \ twins
                  /\ file.samples[i].meta = file.samples[j].meta => i = j
  BY <1>1 DEF IInv, FileInv
<1>3. file.samples \in Seq(Vectors) /\ file.metadata \in Seq(MetaValues) /\ file.lost \in BOOLEAN
      /\ file.deleted \subseteq Ids
  BY DEF IInv, TypeOK, SaveTypeOK
<1>4. NumSamples' = N /\ AllIds' = 1 .. N /\ ~Adding'
  BY <1>1 DEF NumSamples, AllIds, Adding
<1>5. Entered' = 1 .. N /\ Live' = FileLive /\ Records' = N
  BY <1>1, <1>4 DEF Entered, Live, FileLive, Records, Adding
<1>6. ready
  BY <1>1 DEF IInv, ReadyInv
<1>7. ids \in SUBSET Nat /\ ids \subseteq 1 .. N /\ Empty \in MetaValues
  BY <1>1 DEF MetaValues
<1>8. mapping' \in [MetaValues -> {0} \cup 1 .. N]
  <2>1. mapping' \in [MetaValues -> {0} \cup ids]
    <3> HIDE DEF ids
    <3> QED BY <1>1, <1>7, Mapped
  <2> QED BY <1>7, <2>1
<1>9. TypeOK'
  <2>1. <<>> \in Seq(Vectors) /\ <<>> \in Seq(Ids) /\ Len(<<>>) = 0
    BY EmptySeq
  <2>2. mapping' \in [MetaValues -> {0} \cup Ids]
    BY <1>2, <1>8 DEF Ids
  <2>3. graphRows' \in Nat /\ labelRows' \in Nat /\ NumSamples' <= DataCapacity
    BY <1>1, <1>2, <1>4
  <2>4. lost' \in BOOLEAN
    BY <1>1, <1>3
  <2>5. IndexTypeOK'
    BY <1>1, <1>2, <1>3, <2>2, <2>3, <2>4 DEF IInv, TypeOK, IndexTypeOK
  <2>6. adder' \in [Adders -> {"idle", "build", "samples", "graph", "labels", "append", "map",
                               "unlock"}]
    BY <1>1
  <2>7. given' \in BOOLEAN /\ deleteLock' \in BOOLEAN
    BY <1>1
  <2>8. addLock' \in Adders \cup {Saver, NoOne} /\ begin' \in {0} \cup Ids /\ k' \in 0 .. MaxBatch
        /\ found' \in {0} \cup Ids
    BY <1>1
  <2>9. batch' \in Seq(Vectors) /\ Len(batch') <= MaxBatch
    BY <1>1, <2>1
  <2>10. CallTypeOK'
    BY <2>6, <2>7, <2>8, <2>9 DEF CallTypeOK
  <2>11. next' \in 0 .. DataCapacity + 1 /\ newR' \in 0 .. DataCapacity
    BY <1>1
  <2>12. SaveTypeOK'
    BY <1>1, <2>1, <2>11 DEF IInv, TypeOK, SaveTypeOK, disk
  <2> QED BY <2>5, <2>10, <2>12 DEF TypeOK
<1>10. CallInv'
  BY <1>1, <1>4 DEF CallInv
<1>11. RowsInv'
  BY <1>1, <1>4 DEF RowsInv
<1>12. IdsInv'
  BY <1>1, <1>2, <1>5, <1>8 DEF IdsInv
<1>13. NumbersInv'
  BY <1>1, <1>2, <1>4 DEF NumbersInv
<1>14. ReadyInv'
  BY <1>1, <1>2, <1>4, <1>6 DEF ReadyInv
<1>15. MetaInv'
  <2>1. (hasMapping' => hasMeta') /\ (~hasMeta' => metadata' = <<>>)
    BY <1>1, <1>2 DEF IInv, MetaInv
  <2>2. ASSUME hasMeta, ~lost'
        PROVE  /\ Len(metadata') = N /\ ~file.lost
               /\ \A i \in 1 .. N : metadata'[i] = samples'[i].meta
    <3>1. Len(metadata') = N /\ ~file.lost
      BY <1>1, <2>2
    <3> QED BY <1>1, <1>2, <2>2, <3>1
  <2>3. ASSUME hasMapping, ~lost'
        PROVE  /\ \A m \in MetaValues : mapping'[m] # 0 => samples'[mapping'[m]].meta = m
               /\ \A i \in FileLive :
                     samples'[i].meta \in Metas \ twins => mapping'[samples'[i].meta] = i
    <3>1. hasMeta
      BY <2>3 DEF IInv, MetaInv
    <3>2. /\ Len(metadata') = N /\ ~file.lost
          /\ \A i \in 1 .. N : metadata'[i] = samples'[i].meta
      BY <2>2, <2>3, <3>1
    <3>3. ids = FileLive /\ FileLive \subseteq 1 .. N /\ FileLive \in SUBSET Nat
      BY <1>1, <2>3 DEF FileLive
    <3>4. mapping' = MappingOf(metadata', FileLive)
      BY <1>1, <3>3
    <3>5. ASSUME NEW m \in MetaValues, mapping'[m] # 0
          PROVE  samples'[mapping'[m]].meta = m
      <4>1. mapping'[m] \in FileLive /\ metadata'[mapping'[m]] = m
        BY <3>3, <3>4, <3>5, Mapped
      <4> QED BY <3>2, <3>3, <4>1
    <3>6. ASSUME NEW i \in FileLive, samples'[i].meta \in Metas \ twins
          PROVE  mapping'[samples'[i].meta] = i
      <4> DEFINE m == samples'[i].meta
      <4>1. m \in MetaValues
        BY <3>6 DEF MetaValues
      <4>2. i <= N /\ metadata'[i] = m
        BY <1>2, <3>2, <3>3
      <4>3. \A j \in FileLive : metadata'[j] = m => j = i
        <5> TAKE j \in FileLive
        <5> HAVE metadata'[j] = m
        <5>1. samples'[j].meta = m
          BY <3>2, <3>3
        <5> QED BY <1>1, <1>2, <2>3, <3>1, <3>2, <3>6, <5>1
      <4> HIDE DEF m
      <4>4. mapping'[m] = i
        BY <3>2, <3>3, <3>4, <4>1, <4>2, <4>3, Mapped
      <4> QED BY <4>4 DEF m
    <3> QED BY <3>5, <3>6
  <2>4. hasMeta' = hasMeta /\ hasMapping' = hasMapping /\ twins' = twins
    BY <1>1
  <2> QED BY <1>5, <2>1, <2>2, <2>3, <2>4 DEF MetaInv
<1>16. LoopInv'
  BY <1>1 DEF LoopInv
<1>17. FileInv'
  BY <1>1 DEF IInv, FileInv, FileLive, disk
<1> QED BY <1>9, <1>10, <1>11, <1>12, <1>13, <1>14, <1>15, <1>16, <1>17 DEF IInv
-----------------------------------------------------------------------------
LEMMA InitInv == Init => IInv
<1> SUFFICES ASSUME Init
             PROVE  IInv
  OBVIOUS
<1> USE NumbersAssumption, NamesAssumption
<1>1. /\ <<>> \in Seq(Vectors) /\ <<>> \in Seq(MetaValues) /\ <<>> \in Seq(Ids)
      /\ Len(<<>>) = 0
  BY EmptySeq
<1>2. NumSamples = 0 /\ AllIds = {} /\ ~Adding /\ Entered = {} /\ Live = {} /\ Records = 0
  BY <1>1 DEF Init, NumSamples, AllIds, Adding, Entered, Live, Records
<1>3. TypeOK
  <2>1. IndexTypeOK
    <3>1. ready \in BOOLEAN /\ hasMeta \in BOOLEAN /\ hasMapping \in BOOLEAN /\ lost \in BOOLEAN
      BY DEF Init
    <3>2. mapping \in [MetaValues -> {0} \cup Ids]
      BY DEF Init
    <3>3. samples \in Seq(Vectors) /\ NumSamples <= DataCapacity
          /\ metadata \in Seq(MetaValues) /\ Len(metadata) <= DataCapacity
      BY <1>1, <1>2 DEF Init
    <3>4. taken \in 0 .. MaxVectors /\ graphRows \in Nat /\ labelRows \in Nat
      BY DEF Init
    <3>5. deleted \subseteq Ids /\ twins \subseteq Metas
      BY DEF Init
    <3> QED BY <3>1, <3>2, <3>3, <3>4, <3>5 DEF IndexTypeOK
  <2>2. given \in BOOLEAN /\ deleteLock \in BOOLEAN
    BY DEF Init
  <2>3. CallTypeOK
    BY <1>1, <2>2 DEF Init, CallTypeOK
  <2>4. NoFile \in [samples : Seq(Vectors), deleted : SUBSET Ids, metadata : Seq(MetaValues),
                    lost : BOOLEAN]
    BY <1>1 DEF NoFile
  <2>5. SaveTypeOK
    <3>1. next \in 0 .. DataCapacity + 1 /\ newR \in 0 .. DataCapacity
      BY DEF Init
    <3>2. complete \in BOOLEAN
      BY DEF Init
    <3> QED BY <1>1, <2>4, <3>1, <3>2 DEF Init, SaveTypeOK
  <2> QED BY <2>1, <2>3, <2>5 DEF TypeOK
<1>4. CallInv /\ RowsInv /\ IdsInv /\ NumbersInv /\ ReadyInv
  BY <1>2 DEF Init, CallInv, RowsInv, IdsInv, NumbersInv, ReadyInv
<1>5. MetaInv /\ LoopInv
  BY <1>1, <1>2 DEF Init, MetaInv, LoopInv
<1>6. FileInv
  BY <1>1 DEF Init, FileInv, NoFile
<1> QED BY <1>3, <1>4, <1>5, <1>6 DEF IInv

LEMMA StepInv == IInv /\ [Next]_vars => IInv'
<1> SUFFICES ASSUME IInv, [Next]_vars
             PROVE  IInv'
  OBVIOUS
<1>1. ASSUME NEW t \in Adders, Add(t)
      PROVE  IInv'
  BY <1>1, AddBeginStep, BuildStep, GrowSamplesStep, GrowGraphStep, GrowLabelsStep,
     AppendMetaStep, MapMetaStep, AddUnlockStep DEF Add
<1>2. CASE Delete
  BY <1>2, DeleteFoundStep, LookUpMetaStep, DeleteMetaStep DEF Delete
<1>3. CASE SaveIndex
  BY <1>3, OpenFilesStep, ChoosePathStep, SaveMetadataStep, SaveIndexDataStep,
     RefineLockStep, KeepIdStep, MoveLastStep, WriteRefinedStep DEF SaveIndex, RefineIndex
<1>4. CASE Restart
  BY <1>4, RestartStep
<1>5. CASE UNCHANGED vars
  <2>1. TypeOK' /\ CallInv'
    BY <1>5
    DEF IInv, TypeOK, IndexTypeOK, CallTypeOK, SaveTypeOK, NumSamples, CallInv, Adding, Stage, n,
        vars, index, metas, locks, addVars, locals, refineVars, disk, ghosts
  <2>2. RowsInv' /\ IdsInv' /\ NumbersInv' /\ ReadyInv'
    BY <1>5
    DEF IInv, RowsInv, IdsInv, NumbersInv, ReadyInv, Entered, AllIds, NumSamples, Adding, Stage, n,
        vars, index, metas, locks, addVars, locals, disk, ghosts
  <2>3. MetaInv'
    BY <1>5
    DEF IInv, MetaInv, Records, Live, Entered, AllIds, NumSamples, Adding, Stage, n,
        vars, index, metas, locks, addVars, locals, ghosts
  <2>4. LoopInv' /\ FileInv'
    BY <1>5
    DEF IInv, LoopInv, FileInv, FileLive, AllIds, NumSamples, vars, index, metas, refineVars, disk,
        ghosts
  <2> QED BY <2>1, <2>2, <2>3, <2>4 DEF IInv
<1> QED BY <1>1, <1>2, <1>3, <1>4, <1>5 DEF Next

\* What is known of every part of the index holds in every state, whatever
\* adds, deletes, saves and restarts do.
THEOREM Inductive == Spec => []IInv
BY InitInv, StepInv, PTL DEF Spec

\* The variables have their types.
THEOREM TypesHold == Spec => []TypeOK
<1>1. IInv => TypeOK
  BY DEF IInv
<1> QED BY <1>1, Inductive, PTL

\* Samples, graph and labels have one length whenever no AddIndex is under way
\* (BKTIndex.cpp:681).
THEOREM RowsAgreeHolds == Spec => []RowsAgree
<1>1. IInv => RowsAgree
  <2> SUFFICES ASSUME IInv, ~Adding
               PROVE  RowsAgree
    BY DEF RowsAgree, Adding
  <2>1. Entered = AllIds
    BY DEF Entered, Adding
  <2> QED BY <2>1 DEF IInv, RowsInv, IdsInv, RowsAgree
<1> QED BY <1>1, Inductive, PTL

\* A vector has the metadata it was added with (MetadataSet.cpp:394).
THEOREM MetadataAlignedHolds == Spec => []MetadataAligned
<1>1. IInv => MetadataAligned
  <2> SUFFICES ASSUME IInv, hasMeta, ~lost
               PROVE  /\ \A i \in 1 .. Len(metadata) :
                            i <= NumSamples /\ metadata[i] = samples[i].meta
                      /\ addLock \notin Adders => Len(metadata) = NumSamples
    BY DEF MetadataAligned
  <2>1. Len(metadata) = Records /\ \A i \in 1 .. Len(metadata) : metadata[i] = samples[i].meta
    BY DEF IInv, MetaInv
  <2>2. NumSamples \in Nat /\ n \in Nat /\ (Adding => begin \in Nat /\ begin <= NumSamples)
    BY EnteredIds
  <2>3. Adding /\ Stage \in Grown => NumSamples = begin + n
    BY DEF IInv, RowsInv
  <2>4. Adding /\ Stage = "append" => k \in Nat /\ k < n
    BY NumbersAssumption DEF IInv, CallInv, TypeOK, CallTypeOK
  <2>5. Records \in Nat /\ Records <= NumSamples /\ (~Adding => Records = NumSamples)
    BY <2>2, <2>3, <2>4 DEF Records, Grown
  <2> QED BY <2>1, <2>2, <2>5 DEF Adding
<1> QED BY <1>1, Inductive, PTL

\* The live vector with a metadata is the one the mapping gives
\* (VectorIndex.cpp:235).
THEOREM LatestIsMappedHolds == Spec => []LatestIsMapped
<1>1. IInv => LatestIsMapped
  BY DEF IInv, MetaInv, LatestIsMapped
<1> QED BY <1>1, Inductive, PTL

LEMMA CompactedNow ==
    ASSUME IInv, saver = "compact", next > newR
    PROVE  /\ Len(indices) = newR
           /\ {indices[i] : i \in 1 .. newR} = AllIds \ deleted
           /\ \A i \in 1 .. newR : i \notin deleted => indices[i] = i
           /\ \A i \in 1 .. newR : reverseIndices[indices[i]] = i
<1>1. /\ next \in Nat /\ newR \in Nat /\ NumSamples \in Nat /\ next <= newR + 1
      /\ newR <= NumSamples /\ Len(indices) = next - 1
      /\ \A i \in 1 .. next - 1 :
            /\ indices[i] \in AllIds \ deleted
            /\ i \notin deleted => indices[i] = i
            /\ reverseIndices[indices[i]] = i
      /\ \A j \in AllIds \ deleted :
            j > newR => \E i \in 1 .. next - 1 : indices[i] = j
  BY Looping
<1>2. next - 1 = newR
  BY <1>1
<1>3. ASSUME NEW j \in AllIds \ deleted
      PROVE  \E i \in 1 .. newR : indices[i] = j
  <2>1. CASE j > newR
    BY <1>1, <1>2, <2>1
  <2>2. CASE ~(j > newR)
    <3>1. j \in 1 .. newR
      BY <1>1, <2>2 DEF AllIds
    <3> QED BY <1>1, <1>2, <3>1
  <2> QED BY <2>1, <2>2
<1> QED BY <1>1, <1>2, <1>3

\* Compaction keeps every live vector, and no other (BKTIndex.cpp:598).
THEOREM CompactedHolds == Spec => []Compacted
<1>1. IInv => Compacted
  BY CompactedNow DEF Compacted
<1> QED BY <1>1, Inductive, PTL
-----------------------------------------------------------------------------
(***************************************************************************)
(* The refinement.                                                         *)
(***************************************************************************)
LEMMA StoreInit == Init => Store!Init
BY NamesAssumption DEF Init, Store!Init, LiveVectors, Copies, Live, Entered, AllIds, NumSamples

\* The vectors are all different.
LEMMA Different ==
    ASSUME IInv
    PROVE  \A i, j \in AllIds : samples[i] = samples[j] => i = j
BY DEF IInv, NumbersInv, AllIds

\* More ids are entered and nothing is deleted.
LEMMA Puts ==
    ASSUME IInv, samples' = samples, deleted' = deleted, Entered \subseteq Entered',
           lost => lost', UNCHANGED disk
    PROVE  Store!Put
<1>1. Live \subseteq Live'
  BY DEF Live
<1>2. LiveVectors \subseteq LiveVectors'
  BY <1>1 DEF LiveVectors
<1> QED BY <1>2 DEF Store!Put, Copies, disk

LEMMA StoreAdd ==
    ASSUME IInv, NEW t \in Adders, Add(t)
    PROVE  Store!Next \/ UNCHANGED <<LiveVectors, Copies, lost>>
<1> USE NumbersAssumption, NamesAssumption
<1>1. ASSUME adder[t] \in {"samples", "graph", "labels"}, Rollback(t),
             UNCHANGED <<deleted, disk, ghosts>>
      PROVE  UNCHANGED <<LiveVectors, Copies, lost>>
  <2>1. /\ begin \in Nat /\ begin > 0 /\ begin <= NumSamples /\ Entered = 1 .. begin
        /\ \A i \in 1 .. begin : samples[i] \in Vectors
    BY <1>1, GrowingIds
  <2>2. /\ Len(SubSeq(samples, 1, begin)) = (IF 1 <= begin THEN begin - 1 + 1 ELSE 0)
        /\ \A i \in 1 .. begin - 1 + 1 : SubSeq(samples, 1, begin)[i] = samples[1 + i - 1]
    BY <2>1, SubSeqProperties
  <2>3. NumSamples' = begin /\ \A i \in 1 .. begin : samples'[i] = samples[i]
    BY <1>1, <2>1, <2>2 DEF Rollback, NumSamples
  <2>4. Entered' = 1 .. begin
    BY <1>1, <2>3 DEF Rollback, Entered, AllIds
  <2>5. Live' = Live /\ Live \subseteq 1 .. begin
    BY <1>1, <2>1, <2>4 DEF Live
  <2>6. LiveVectors' = LiveVectors
    BY <2>3, <2>5 DEF LiveVectors
  <2> QED BY <1>1, <2>6 DEF Copies, disk, ghosts
<1>2. CASE AddBegin(t)
  <2>1. ~Adding /\ addLock' = t /\ begin' = NumSamples /\ samples' = samples /\ deleted' = deleted
        /\ adder' = [adder EXCEPT ![t] = IF NumSamples = 0 THEN "build" ELSE "samples"]
        /\ UNCHANGED <<disk, ghosts>>
    BY <1>2 DEF AddBegin, Adding, index
  <2>2. adder'[t] \in {"build", "samples"}
    BY <2>1 DEF IInv, TypeOK, CallTypeOK
  <2>3. Entered' = Entered
    BY <2>1, <2>2, EnteredIds DEF Entered, Adding, AllIds
  <2> QED BY <2>1, <2>3, Puts DEF Store!Next, ghosts
<1>3. CASE Build(t)
  <2>1. Adding /\ Stage = "build"
    BY <1>3, Holder DEF Build
  <2>2. Entered = {}
    BY <2>1 DEF IInv, CallInv, Entered, Adding, Stage
  <2>3. LiveVectors = {}
    BY <2>2 DEF LiveVectors, Live
  <2>4. NumSamples = 0
    BY <2>1 DEF IInv, RowsInv, CallInv, Grown
  <2>5. ~lost
    BY <2>4 DEF IInv, ReadyInv
  <2> QED BY <1>3, <2>3, <2>5 DEF Build, Store!Next, Store!Put, Copies, disk
<1>4. CASE GrowSamples(t)
  <2>1. CASE Rollback(t)
    BY <1>1, <1>4, <2>1 DEF GrowSamples
  <2>2. CASE ~Rollback(t)
    <3>1. /\ adder[t] = "samples" /\ samples' = samples \o batch
          /\ adder' = [adder EXCEPT ![t] = "graph"]
          /\ UNCHANGED <<deleted, addLock, locals, disk, ghosts>>
      BY <1>4, <2>2 DEF GrowSamples
    <3>2. /\ begin \in Nat /\ Entered = 1 .. begin /\ begin <= NumSamples
      BY <3>1, GrowingIds
    <3>3. /\ samples \in Seq(Vectors) /\ batch \in Seq(Vectors) /\ NumSamples \in Nat
          /\ Len(batch) \in Nat
      BY EnteredIds DEF IInv, TypeOK, IndexTypeOK, CallTypeOK, n
    <3>4. \A i \in 1 .. Len(samples) + Len(batch) :
             (samples \o batch)[i] = IF i <= Len(samples) THEN samples[i] ELSE batch[i - Len(samples)]
      BY <3>3, ConcatProperties
    <3>5. \A i \in 1 .. begin : samples'[i] = samples[i]
      BY <3>1, <3>2, <3>3, <3>4 DEF NumSamples
    <3>6. Adding' /\ Stage' = "graph"
      BY <3>1, GoesOn
    <3>7. Entered' = 1 .. begin
      BY <3>1, <3>2, <3>6 DEF Entered, Adding, Stage, locals
    <3>8. Live' = Live /\ Live \subseteq 1 .. begin
      BY <3>1, <3>2, <3>7 DEF Live
    <3>9. LiveVectors' = LiveVectors
      BY <3>5, <3>8 DEF LiveVectors
    <3> QED BY <3>1, <3>9 DEF Copies, disk, ghosts
  <2> QED BY <2>1, <2>2
<1>5. ASSUME NEW s \in {"labels", "append", "unlock", "map"}, adder[t] # "idle",
             adder' = [adder EXCEPT ![t] = s],
             Entered = 1 .. begin,
             s = "map" => k' \in Nat, lost => lost',
             UNCHANGED <<samples, deleted, addLock, batch, begin, disk>>
      PROVE  Store!Next
  <2>1. Adding' /\ Stage' = s
    BY <1>5, GoesOn
  <2>2. begin \in Nat /\ Len(batch) \in Nat
    BY EnteredIds DEF IInv, TypeOK, CallTypeOK, Ids, n
  <2>3. Entered \subseteq Entered'
    <3>1. Entered' = 1 .. begin + (IF s = "map" THEN k'
                                   ELSE IF s = "unlock" THEN Len(batch) ELSE 0)
      BY <1>5, <2>1 DEF Entered, Adding, Stage
    <3>2. (IF s = "map" THEN k' ELSE IF s = "unlock" THEN Len(batch) ELSE 0) \in Nat
      BY <1>5, <2>2
    <3> QED BY <1>5, <2>2, <3>1, <3>2
  <2> QED BY <1>5, <2>3, Puts DEF Store!Next
<1>6. CASE GrowGraph(t)
  <2>1. CASE Rollback(t)
    BY <1>1, <1>6, <2>1 DEF GrowGraph
  <2>2. CASE ~Rollback(t)
    <3>1. /\ adder[t] = "graph" /\ adder' = [adder EXCEPT ![t] = "labels"]
          /\ UNCHANGED <<samples, deleted, addLock, batch, begin, disk, ghosts>>
      BY <1>6, <2>2 DEF GrowGraph, locals
    <3>2. Entered = 1 .. begin
      BY <3>1, GrowingIds
    <3> QED BY <1>5, <3>1, <3>2 DEF ghosts
  <2> QED BY <2>1, <2>2
<1>7. CASE GrowLabels(t)
  <2>1. CASE Rollback(t)
    BY <1>1, <1>7, <2>1 DEF GrowLabels
  <2>2. CASE ~Rollback(t)
    <3> DEFINE s == IF hasMeta THEN "append" ELSE "unlock"
    <3>1. /\ adder[t] = "labels" /\ adder' = [adder EXCEPT ![t] = s]
          /\ UNCHANGED <<samples, deleted, addLock, batch, begin, disk, ghosts>>
      BY <1>7, <2>2 DEF GrowLabels, locals
    <3>2. Entered = 1 .. begin
      BY <3>1, GrowingIds
    <3>3. s \in {"append", "unlock"}
      OBVIOUS
    <3> HIDE DEF s
    <3> QED BY <1>5, <3>1, <3>2, <3>3 DEF ghosts
  <2> QED BY <2>1, <2>2
<1>8. CASE AppendMeta(t)
  <2> DEFINE s == IF k + 1 < n THEN "append" ELSE IF given /\ hasMapping THEN "map" ELSE "unlock"
  <2>1. /\ adder[t] = "append" /\ (lost => lost')
        /\ k' = (IF k + 1 < n THEN k + 1 ELSE 0)
        /\ UNCHANGED <<samples, deleted, addLock, batch, begin, disk>>
    BY <1>8 DEF AppendMeta, n, index, locks
  <2>2. adder' = [adder EXCEPT ![t] = s]
    <3>1. adder \in [Adders -> {"idle", "build", "samples", "graph", "labels", "append", "map",
                                "unlock"}]
      BY DEF IInv, TypeOK, CallTypeOK
    <3>2. CASE k + 1 < n
      BY <1>8, <2>1, <3>1, <3>2 DEF AppendMeta, n
    <3>3. CASE ~(k + 1 < n)
      BY <1>8, <3>3 DEF AppendMeta, n
    <3> QED BY <3>2, <3>3
  <2>3. Adding /\ Stage = "append" /\ addLock = t
    BY <2>1, Holder
  <2>4. Entered = 1 .. begin
    BY <2>3, EnteredIds DEF Entered, Adding, Stage
  <2>5. s = "map" => k' \in Nat
    BY <2>1
  <2>6. s \in {"append", "map", "unlock"}
    OBVIOUS
  <2> HIDE DEF s
  <2> QED BY <1>5, <2>1, <2>2, <2>4, <2>5, <2>6
<1>9. CASE MapMeta(t)
  <2> DEFINE i == begin + k + 1
             s == IF k + 1 < n THEN "map" ELSE "unlock"
  <2>1. /\ adder[t] = "map" /\ k' = (IF k + 1 < n THEN k + 1 ELSE 0)
        /\ UNCHANGED <<samples, addLock, batch, begin, disk, ghosts>>
    BY <1>9 DEF MapMeta, n, locks
  <2>2. PICK m \in MetaAt(i) : UpdateMetaMapping(m, i)
    BY <1>9 DEF MapMeta
  <2>3. Adding /\ Stage = "map" /\ addLock = t
    BY <2>1, Holder
  <2>4. k \in Nat /\ k < n /\ n \in Nat /\ begin \in Nat /\ hasMapping
    BY <2>3, EnteredIds DEF IInv, CallInv, TypeOK, CallTypeOK
  <2>5. adder' = [adder EXCEPT ![t] = s]
    <3>1. adder \in [Adders -> {"idle", "build", "samples", "graph", "labels", "append", "map",
                                "unlock"}]
      BY DEF IInv, TypeOK, CallTypeOK
    <3>2. CASE k + 1 < n
      BY <1>9, <2>1, <3>1, <3>2 DEF MapMeta, n
    <3>3. CASE ~(k + 1 < n)
      BY <1>9, <3>3 DEF MapMeta, n
    <3> QED BY <3>2, <3>3
  <2>6. Adding' /\ Stage' = s
    BY <2>1, <2>5, GoesOn
  <2>7. Entered = 1 .. begin + k /\ Entered' = 1 .. i
    <3>1. s = "map" => k' = k + 1
      BY <2>1, <2>4
    <3>2. s = "unlock" => begin + n = i
      BY <2>4
    <3> QED BY <2>1, <2>3, <2>4, <2>6, <3>1, <3>2 DEF Entered, Adding, Stage, n
  <2>8. deleted' = (IF mapping[m] = 0 THEN deleted ELSE deleted \cup {mapping[m]})
    BY <2>2 DEF UpdateMetaMapping
  <2>9. NumSamples = begin + n
    BY <2>3 DEF IInv, RowsInv, Grown
  <2>10. i \in AllIds /\ Entered \subseteq AllIds /\ i \notin Entered
    BY <2>4, <2>7, <2>9, EnteredIds DEF AllIds
  <2>11. \A v \in LiveVectors \ LiveVectors' : lost \/ \E w \in LiveVectors' \ LiveVectors : w.meta = v.meta
    <3> SUFFICES ASSUME ~lost, NEW v \in LiveVectors, v \notin LiveVectors'
                 PROVE  \E w \in LiveVectors' \ LiveVectors : w.meta = v.meta
      OBVIOUS
    <3>1. PICK j \in Live : v = samples[j]
      BY DEF LiveVectors
    <3>2. j \in Entered /\ j \in Entered' /\ j \notin deleted
      BY <2>4, <2>7, <3>1 DEF Live
    <3>3. j \in deleted'
      BY <2>1, <3>1, <3>2 DEF Live, LiveVectors
    <3>4. mapping[m] = j /\ mapping[m] # 0
      BY <2>8, <3>2, <3>3
    <3>5. /\ Len(metadata) = begin + n
          /\ \A x \in 1 .. Len(metadata) : metadata[x] = samples[x].meta
          /\ \A x \in MetaValues : mapping[x] # 0 => samples[mapping[x]].meta = x
      BY <2>3, <2>4 DEF IInv, MetaInv, Records
    <3>6. m = samples[i].meta /\ m \in MetaValues
      <4>1. m = metadata[i] /\ i \in 1 .. Len(metadata)
        BY <2>2, <2>4, <3>5 DEF MetaAt
      <4>2. metadata \in Seq(MetaValues)
        BY DEF IInv, TypeOK, IndexTypeOK
      <4> QED BY <3>5, <4>1, <4>2, ElementOfSeq
    <3>7. samples[i].meta = v.meta
      BY <3>1, <3>4, <3>5, <3>6
    <3>8. i \notin deleted'
      BY <2>8, <2>10, <3>2, <3>4 DEF IInv, IdsInv
    <3>9. samples[i] \in LiveVectors'
      BY <2>1, <2>4, <2>7, <3>8 DEF LiveVectors, Live
    <3>10. samples[i] \notin LiveVectors
      <4> SUFFICES ASSUME NEW x \in Live, samples[i] = samples[x]
                   PROVE  FALSE
        BY DEF LiveVectors
      <4>1. x \in Entered
        BY DEF Live
      <4>2. x = i
        BY <2>10, <4>1, Different
      <4> QED BY <2>10, <4>1, <4>2
    <3> QED BY <3>7, <3>9, <3>10
  <2> QED BY <2>1, <2>11 DEF Store!Next, Store!Put, Copies, disk, ghosts
<1>10. CASE AddUnlock(t)
  <2>1. /\ adder[t] = "unlock" /\ adder' = [adder EXCEPT ![t] = "idle"] /\ addLock' = NoOne
        /\ UNCHANGED <<samples, deleted, disk, lost>>
    BY <1>10 DEF AddUnlock, index
  <2>2. Adding /\ Stage = "unlock"
    BY <2>1, Holder
  <2>3. NumSamples = begin + n
    BY <2>2 DEF IInv, RowsInv, Grown
  <2>4. Entered = AllIds
    BY <2>2, <2>3 DEF Entered, Adding, Stage, n, AllIds
  <2>5. Entered' = AllIds
    BY <2>1 DEF Entered, AllIds, NumSamples
  <2> QED BY <2>1, <2>4, <2>5, Puts DEF Store!Next
<1> QED BY <1>2, <1>3, <1>4, <1>6, <1>7, <1>8, <1>9, <1>10 DEF Add

LEMMA StoreDelete ==
    ASSUME IInv, Delete
    PROVE  Store!Next \/ UNCHANGED <<LiveVectors, Copies, lost>>
<1>1. CASE LookUpMeta
  <2>1. LiveVectors' = LiveVectors
    BY <1>1
    DEF LookUpMeta, LiveVectors, Live, Entered, AllIds, NumSamples, index, locks, addVars, locals
  <2> QED BY <1>1, <2>1 DEF LookUpMeta, Copies, disk, ghosts
<1>2. ASSUME NEW i \in Entered, DeleteIndex(i),
             UNCHANGED <<samples, locks, addVars, disk, ghosts>>
      PROVE  Store!Next \/ UNCHANGED <<LiveVectors, Copies, lost>>
  <2>1. deleted' = deleted \cup {i} /\ Entered' = Entered /\ Live' = Live \ {i}
    BY <1>2 DEF DeleteIndex, Entered, Live, AllIds, NumSamples, locks, addVars, locals
  <2>2. CASE i \in Live
    <3>1. \A j \in Live : j # i => samples[j] # samples[i]
      BY <2>2, EnteredIds, Different DEF Live
    <3>2. LiveVectors' = LiveVectors \ {samples[i]} /\ samples[i] \in LiveVectors
      BY <1>2, <2>1, <2>2, <3>1 DEF LiveVectors
    <3> QED BY <1>2, <3>2 DEF Store!Next, Store!Remove, Copies, disk, ghosts
  <2>3. CASE i \notin Live
    <3>1. LiveVectors' = LiveVectors
      BY <1>2, <2>1, <2>3 DEF LiveVectors
    <3> QED BY <1>2, <3>1 DEF Copies, disk, ghosts
  <2> QED BY <2>2, <2>3
<1>3. CASE DeleteFound
  BY <1>2, <1>3 DEF DeleteFound
<1>4. CASE DeleteMeta
  <2>1. found \in Entered
    BY <1>4 DEF DeleteMeta, IInv, IdsInv
  <2> QED BY <1>2, <1>4, <2>1 DEF DeleteMeta
<1> QED BY <1>1, <1>3, <1>4 DEF Delete

LEMMA StoreSave ==
    ASSUME IInv, SaveIndex
    PROVE  Store!Next \/ UNCHANGED <<LiveVectors, Copies, lost>>
<1> USE NamesAssumption
<1>1. UNCHANGED <<samples, deleted, lost>>
  BY DEF SaveIndex, OpenFiles, ChoosePath, SaveMetadata, SaveIndexData, RefineIndex, RefineLock,
         KeepId, MoveLast, WriteRefined, index, ghosts
<1>2. CASE RefineLock
  <2>1. LiveVectors' = LiveVectors
    BY <1>1, <1>2 DEF RefineLock, LiveVectors, Live, Entered, AllIds, NumSamples
  <2> QED BY <1>1, <1>2, <2>1 DEF RefineLock, Copies, disk
<1>3. CASE WriteRefined
  <2>1. saver = "compact" /\ next > newR /\ addLock' = NoOne
    BY <1>3 DEF WriteRefined
  <2>2. addLock = Saver /\ ~complete
    BY <2>1 DEF IInv, CallInv, FileInv
  <2>3. Entered = AllIds /\ Entered' = AllIds /\ Live = AllIds \ deleted
    BY <1>1, <2>1, <2>2 DEF Entered, Live, AllIds, NumSamples
  <2>4. LiveVectors' = LiveVectors
    BY <1>1, <2>3 DEF LiveVectors, Live
  <2>5. CASE UNCHANGED disk
    BY <1>1, <2>4, <2>5 DEF Copies, disk
  <2>6. CASE ~(UNCHANGED disk)
    <3>1. /\ complete' = TRUE /\ file'.deleted = {}
          /\ file'.samples = [i \in 1 .. Len(indices) |-> samples[indices[i]]]
      BY <1>3, <2>6 DEF WriteRefined
    <3>2. /\ next \in Nat /\ newR \in Nat /\ next <= newR + 1 /\ Len(indices) = next - 1
          /\ \A i \in 1 .. next - 1 : indices[i] \in AllIds \ deleted
      BY <2>1, Looping
    <3>3. Len(indices) = newR
      BY <2>1, <3>2
    <3>4. {indices[i] : i \in 1 .. newR} = AllIds \ deleted
      BY <2>1, CompactedNow
    <3>5. \A i \in 1 .. newR : indices[i] \in AllIds
      BY <3>2, <3>3
    <3>6. Len(file'.samples) = newR
      <4>1. file'.samples \in [1 .. newR -> Vectors]
        BY <3>1, <3>3, <3>5, EnteredIds
      <4> QED BY <3>2, <4>1, FcnSeq
    <3>7. {file'.samples[i] : i \in (1 .. Len(file'.samples)) \ file'.deleted} = LiveVectors
      BY <2>3, <3>1, <3>3, <3>4, <3>6 DEF LiveVectors
    <3>8. Copies = {} /\ Copies' = {LiveVectors}
      BY <2>2, <3>1, <3>7 DEF Copies
    <3> QED BY <1>1, <2>4, <3>8 DEF Store!Next, Store!Save
  <2> QED BY <2>5, <2>6
<1>4. CASE OpenFiles \/ ChoosePath \/ SaveMetadata \/ SaveIndexData \/ KeepId \/ MoveLast
  <2>1. UNCHANGED <<index, locks, addVars, lost>>
    BY <1>4 DEF OpenFiles, ChoosePath, SaveMetadata, SaveIndexData, KeepId, MoveLast, ghosts
  <2>2. LiveVectors' = LiveVectors
    BY <2>1 DEF LiveVectors, Live, Entered, AllIds, NumSamples, index, locks, addVars, locals
  <2>3. CASE OpenFiles
    BY <2>1, <2>2, <2>3 DEF OpenFiles, Store!Next, Store!BeginSave, Copies
  <2>4. CASE SaveMetadata
    <3>1. ~complete /\ complete' = complete
      BY <2>4 DEF SaveMetadata, IInv, FileInv
    <3> QED BY <2>1, <2>2, <3>1 DEF Copies
  <2>5. CASE SaveIndexData
    <3>1. /\ saver = "data" /\ addLock = NoOne /\ complete' = TRUE
          /\ file' = [file EXCEPT !.samples = samples, !.deleted = deleted, !.lost = lost]
      BY <2>5 DEF SaveIndexData
    <3>2. file \in [samples : Seq(Vectors), deleted : SUBSET Ids, metadata : Seq(MetaValues),
                    lost : BOOLEAN]
          /\ ~complete
      BY <3>1 DEF IInv, TypeOK, SaveTypeOK, FileInv
    <3>3. file'.samples = samples /\ file'.deleted = deleted
      BY <3>1, <3>2
    <3>4. Live = (1 .. Len(samples)) \ deleted
      BY <3>1 DEF Live, Entered, AllIds, NumSamples
    <3>5. Copies = {} /\ Copies' = {LiveVectors}
      BY <3>1, <3>2, <3>3, <3>4 DEF Copies, LiveVectors
    <3> QED BY <2>1, <2>2, <3>5 DEF Store!Next, Store!Save
  <2>6. CASE ChoosePath \/ KeepId \/ MoveLast
    <3>1. UNCHANGED disk
      BY <2>6 DEF ChoosePath, KeepId, MoveLast
    <3> QED BY <2>1, <2>2, <3>1 DEF Copies, disk
  <2> QED BY <1>4, <2>3, <2>4, <2>5, <2>6
<1> QED BY <1>2, <1>3, <1>4 DEF SaveIndex, RefineIndex

LEMMA StoreRestart ==
    ASSUME IInv, Restart
    PROVE  Store!Next
<1>1. /\ complete /\ samples' = file.samples /\ deleted' = file.deleted /\ addLock' = NoOne
      /\ UNCHANGED disk
  BY DEF Restart
<1>2. Live' = (1 .. Len(file.samples)) \ file.deleted
  BY <1>1, NamesAssumption DEF Live, Entered, AllIds, NumSamples
<1>3. LiveVectors' \in Copies
  BY <1>1, <1>2 DEF LiveVectors, Copies
<1> QED BY <1>1, <1>3 DEF Store!Next, Store!Load, Copies, disk

\* The index implements the abstract store: no vector that a caller may find is
\* lost by adds, failed growth, compaction, saves or loads.
THEOREM Refinement == Spec => StoreSpec
<1>1. ASSUME IInv, [Next]_vars
      PROVE  [Store!Next]_<<LiveVectors, Copies, lost>>
  <2>1. CASE Next
    BY <1>1, <2>1, StoreAdd, StoreDelete, StoreSave, StoreRestart DEF Next
  <2>2. CASE UNCHANGED vars
    BY <2>2
    DEF vars, index, locks, addVars, locals, disk, ghosts, LiveVectors, Live, Entered, AllIds,
        NumSamples, Copies
  <2> QED BY <1>1, <2>1, <2>2
<1> QED BY <1>1, StoreInit, Inductive, PTL DEF Spec, StoreSpec, Store!Spec
=============================================================================
