----------------------------- MODULE SPTAGIndex -----------------------------
(***************************************************************************)
(* The BKT index of SPTAG (BKTIndex.cpp; KDTIndex.cpp has the same code)   *)
(* with its metadata (VectorIndex.cpp, MetadataSet.cpp), used as in        *)
(* ConcurrentTest.cpp: threads add vectors, delete them and save the index *)
(* at the same time.  A new process may load what was saved.               *)
(*                                                                         *)
(* A vector is its place in the order of the callers' requests and the     *)
(* metadata that came with it.  Ids count from 1 here, and 0 is the -1 of  *)
(* GetMetaMapping.  What the trees and the graph say of a vector is left   *)
(* out, and with it what AddIndex does once it has released its lock.  The *)
(* headers of Dataset, Labelset and the graph are not in the repository:   *)
(* each is as long as the rows added to it, and its AddBatch may fail.     *)
(***************************************************************************)
EXTENDS Integers, Sequences, FiniteSets

CONSTANTS
    Adders,             \* threads that call AddIndex
    Saver,              \* the thread that calls SaveIndex
    Metas,              \* metadata strings
    Empty,              \* the empty ByteArray
    Garbage,            \* what a read past the end of m_offsets returns
    NoOne,
    DataCapacity,       \* m_iDataCapacity
    DeletePercent,      \* 100 * m_fDeletePercentageForRefine
    MaxVectors,         \* bound: vectors taken in
    MaxBatch            \* bound: p_vectorNum

ASSUME NumbersAssumption ==
    /\ DataCapacity \in Nat \ {0} /\ DeletePercent \in Nat
    /\ MaxVectors \in Nat /\ MaxBatch \in Nat \ {0} /\ MaxBatch <= DataCapacity

ASSUME NamesAssumption ==
    /\ Saver \notin Adders /\ NoOne \notin Adders \cup {Saver}
    /\ Empty # Garbage /\ Metas \cap {Empty, Garbage} = {}

Ids == 1 .. DataCapacity
Vectors == [n : 1 .. MaxVectors, meta : Metas \cup {Empty}]
MetaValues == Metas \cup {Empty, Garbage}
NoFile == [samples |-> <<>>, deleted |-> {}, metadata |-> <<>>, lost |-> FALSE]

VARIABLES
    ready,          \* m_bReady
    samples,        \* m_pSamples
    graphRows,      \* rows of m_pGraph
    labelRows,      \* rows of m_deletedID
    deleted,        \* ids set in m_deletedID
    hasMeta, metadata,      \* m_pMetadata
    hasMapping, mapping,    \* m_pMetaToVec
    addLock,        \* m_dataAddLock
    deleteLock,     \* m_dataDeleteLock is held exclusively
    adder,          \* where each call of AddIndex is
    batch, given, begin, k, \* locals of the AddIndex that holds addLock
    found,          \* id that DeleteIndex(p_meta) has found, 0 if none
    saver,          \* where SaveIndex is
    next, newR, indices, reverseIndices,    \* locals of RefineIndex
    file, complete, \* the folder of the index, and whether it can be loaded
    taken,          \* vectors taken in so far
    twins,          \* metadata that occur twice in the first batch
    lost            \* a metadata record was dropped or cut off

index == <<samples, graphRows, labelRows, deleted>>
metas == <<hasMeta, metadata, hasMapping, mapping>>
locks == <<addLock, deleteLock>>
locals == <<batch, given, begin, k>>
addVars == <<adder, locals>>
refineVars == <<next, newR, indices, reverseIndices>>
disk == <<file, complete>>
ghosts == <<taken, twins, lost>>
vars == <<ready, index, metas, locks, addVars, found, saver, refineVars, disk, ghosts>>

NumSamples == Len(samples)
AllIds == 1 .. NumSamples

Init ==
    /\ ready = FALSE
    /\ samples = <<>> /\ graphRows = 0 /\ labelRows = 0 /\ deleted = {}
    /\ hasMeta = FALSE /\ metadata = <<>>
    /\ hasMapping = FALSE /\ mapping = [m \in MetaValues |-> 0]
    /\ addLock = NoOne /\ deleteLock = FALSE
    /\ adder = [t \in Adders |-> "idle"]
    /\ batch = <<>> /\ given = FALSE /\ begin = 0 /\ k = 0
    /\ found = 0
    /\ saver = "idle"
    /\ next = 0 /\ newR = 0 /\ indices = <<>> /\ reverseIndices = <<>>
    /\ file = NoFile /\ complete = FALSE
    /\ taken = 0 /\ twins = {} /\ lost = FALSE
-----------------------------------------------------------------------------
(***************************************************************************)
(* Metadata.                                                               *)
(***************************************************************************)
\* What MemMetadataSet::GetMetadata may return.
MetaAt(i) == IF i <= Len(metadata) THEN {metadata[i]} ELSE MetaValues

\* MemMetadataSet::Add: m_offsets has an entry more than there are records,
\* and drops what does not fit.
Recorded(ms, m) == IF Len(ms) + 1 < DataCapacity THEN Append(ms, m) ELSE ms

\* BuildMetaMapping: of the records of an id in `ids` the last one counts.
MappingOf(ms, ids) ==
    [m \in MetaValues |->
        LET at == {i \in ids : i <= Len(ms) /\ ms[i] = m}
            last == {i \in at : \A j \in at : j <= i}
        IN IF last = {} THEN 0 ELSE CHOOSE i \in last : TRUE]
-----------------------------------------------------------------------------
(***************************************************************************)
(* AddIndex.                                                               *)
(***************************************************************************)
\* The locals of the critical section are gone.
LeaveAdd == batch' = <<>> /\ given' = FALSE /\ begin' = 0 /\ k' = 0

\* m_dataAddLock is taken.
AddBegin(t) ==
    /\ adder[t] = "idle" /\ addLock = NoOne
    /\ \E n \in 1 .. MaxBatch, g \in BOOLEAN :
          /\ taken + n <= MaxVectors
          /\ \E ms \in [1 .. n -> IF g THEN Metas ELSE {Empty}] :
                batch' = [j \in 1 .. n |-> [n |-> taken + j, meta |-> ms[j]]]
          /\ given' = g
    /\ begin' = NumSamples /\ k' = 0
    /\ addLock' = t
    /\ adder' = [adder EXCEPT ![t] = IF NumSamples = 0 THEN "build" ELSE "samples"]
    /\ UNCHANGED <<ready, index, metas, deleteLock, found, saver, refineVars,
                   disk, ghosts>>

\* The first vectors.  m_bReady is set last and nothing is done to the index
\* before.
Build(t) ==
    /\ adder[t] = "build"
    /\ LET n == Len(batch) IN
       /\ samples' = batch /\ graphRows' = n /\ labelRows' = n
       /\ deleted' = {}
       /\ hasMeta' = given
       /\ metadata' = IF ~given THEN <<>>
                      ELSE [j \in 1 .. (IF n < DataCapacity THEN n ELSE n - 1) |-> batch[j].meta]
       /\ hasMapping' \in {FALSE, given}
       /\ mapping' = MappingOf(metadata', IF hasMapping' THEN 1 .. n ELSE {})
       /\ twins' = {m \in Metas : \E i, j \in 1 .. n :
                       i # j /\ batch[i].meta = m /\ batch[j].meta = m}
       /\ lost' = (given /\ n = DataCapacity)
    /\ ready' = TRUE
    /\ taken' = taken + Len(batch)
    /\ addLock' = NoOne
    /\ adder' = [adder EXCEPT ![t] = "idle"] /\ LeaveAdd
    /\ UNCHANGED <<deleteLock, found, saver, refineVars, disk>>

\* Variant: m_pGraph.SetR is forgotten.
RollbackSamplesOnly(t) ==
    /\ samples' = SubSeq(samples, 1, begin)
    /\ labelRows' = begin
    /\ UNCHANGED graphRows
    /\ addLock' = NoOne
    /\ adder' = [adder EXCEPT ![t] = "idle"] /\ LeaveAdd

\* SetR(begin) for each of the three.
Rollback(t) ==
    /\ samples' = SubSeq(samples, 1, begin)
    /\ graphRows' = begin /\ labelRows' = begin
    /\ addLock' = NoOne
    /\ adder' = [adder EXCEPT ![t] = "idle"] /\ LeaveAdd

\* m_pSamples.AddBatch
GrowSamples(t) ==
    /\ adder[t] = "samples"
    /\ \/ /\ begin + Len(batch) <= DataCapacity
          /\ samples' = samples \o batch
          /\ adder' = [adder EXCEPT ![t] = "graph"]
          /\ UNCHANGED <<graphRows, labelRows, addLock, locals>>
       \/ Rollback(t)
    /\ UNCHANGED <<ready, deleted, metas, deleteLock, found, saver,
                   refineVars, disk, ghosts>>

\* m_pGraph.AddBatch
GrowGraph(t) ==
    /\ adder[t] = "graph"
    /\ \/ /\ graphRows' = graphRows + Len(batch)
          /\ adder' = [adder EXCEPT ![t] = "labels"]
          /\ UNCHANGED <<samples, labelRows, addLock, locals>>
       \/ Rollback(t)
    /\ UNCHANGED <<ready, deleted, metas, deleteLock, found, saver,
                   refineVars, disk, ghosts>>

\* m_deletedID.AddBatch
GrowLabels(t) ==
    /\ adder[t] = "labels"
    /\ \/ /\ labelRows' = labelRows + Len(batch)
          /\ adder' = [adder EXCEPT ![t] = IF hasMeta THEN "append" ELSE "unlock"]
          /\ UNCHANGED <<samples, graphRows, addLock, locals>>
       \/ Rollback(t)
    /\ UNCHANGED <<ready, deleted, metas, deleteLock, found, saver,
                   refineVars, disk, ghosts>>

\* m_pMetadata->Add, a record at a time: SaveMetadata does not wait for addLock.
AppendMeta(t) ==
    /\ adder[t] = "append"
    /\ metadata' = Recorded(metadata, batch[k + 1].meta)
    /\ lost' = (lost \/ metadata' = metadata)
    /\ IF k + 1 < Len(batch)
       THEN k' = k + 1 /\ UNCHANGED adder
       ELSE k' = 0 /\ adder' = [adder EXCEPT ![t] = IF given /\ hasMapping THEN "map" ELSE "unlock"]
    /\ UNCHANGED <<ready, index, hasMeta, hasMapping, mapping, locks, batch, given,
                   begin, found, saver, refineVars, disk, taken, twins>>

\* Variant: the old vector of the metadata is not deleted.
UpdateMetaMappingOnly(m, i) ==
    /\ deleted' = deleted
    /\ mapping' = [mapping EXCEPT ![m] = i]

\* Variant: the map is not asked whether it has the metadata.
UpdateMetaMappingBlindly(m, i) ==
    /\ deleted' = deleted \cup {mapping[m]}
    /\ mapping' = [mapping EXCEPT ![m] = i]

\* UpdateMetaMapping.  A look at the map between its two steps finds a deleted
\* vector, which is as if it had come before them.
UpdateMetaMapping(m, i) ==
    /\ deleted' = IF mapping[m] = 0 THEN deleted ELSE deleted \cup {mapping[m]}
    /\ mapping' = [mapping EXCEPT ![m] = i]

MapMeta(t) ==
    /\ adder[t] = "map"
    /\ ~deleteLock
    /\ \E m \in MetaAt(begin + k + 1) : UpdateMetaMapping(m, begin + k + 1)
    /\ IF k + 1 < Len(batch)
       THEN k' = k + 1 /\ UNCHANGED adder
       ELSE k' = 0 /\ adder' = [adder EXCEPT ![t] = "unlock"]
    /\ UNCHANGED <<ready, samples, graphRows, labelRows, hasMeta, metadata, hasMapping,
                   locks, batch, given, begin, found, saver, refineVars, disk, ghosts>>

AddUnlock(t) ==
    /\ adder[t] = "unlock"
    /\ addLock' = NoOne
    /\ taken' = taken + Len(batch)
    /\ adder' = [adder EXCEPT ![t] = "idle"] /\ LeaveAdd
    /\ UNCHANGED <<ready, index, metas, deleteLock, found, saver, refineVars, disk, twins,
                   lost>>
-----------------------------------------------------------------------------
(***************************************************************************)
(* DeleteIndex.                                                            *)
(***************************************************************************)
\* The ids whose AddIndex has come to the end of what it does to them under
\* m_dataAddLock.
Entered ==
    IF addLock \in Adders
    THEN 1 .. begin + (IF adder[addLock] = "map" THEN k
                       ELSE IF adder[addLock] = "unlock" THEN Len(batch) ELSE 0)
    ELSE AllIds

Live == Entered \ deleted

DeleteIndex(i) ==
    /\ ready /\ ~deleteLock
    /\ deleted' = deleted \cup {i}

\* By vector or id: what searches return.
DeleteFound ==
    /\ \E i \in Entered : DeleteIndex(i)
    /\ UNCHANGED <<ready, samples, graphRows, labelRows, metas, locks, addVars, found,
                   saver, refineVars, disk, ghosts>>

\* By metadata: GetMetaMapping first,
LookUpMeta ==
    /\ hasMapping /\ found = 0
    /\ \E m \in Metas : mapping[m] # 0 /\ found' = mapping[m]
    /\ UNCHANGED <<ready, index, metas, locks, addVars, saver, refineVars, disk, ghosts>>

\* then the id it returned.
DeleteMeta ==
    /\ found # 0
    /\ DeleteIndex(found)
    /\ found' = 0
    /\ UNCHANGED <<ready, samples, graphRows, labelRows, metas, locks, addVars,
                   saver, refineVars, disk, ghosts>>
-----------------------------------------------------------------------------
(***************************************************************************)
(* SaveIndex.                                                              *)
(***************************************************************************)
NeedRefine == 100 * Cardinality(deleted) > NumSamples * DeletePercent

\* The files are opened, which empties them.
OpenFiles ==
    /\ saver = "idle"
    /\ ready /\ NumSamples # Cardinality(deleted)
    /\ file' = NoFile /\ complete' = FALSE
    /\ saver' = "opened"
    /\ UNCHANGED <<ready, index, metas, locks, addVars, found, refineVars, ghosts>>

ChoosePath ==
    /\ saver = "opened"
    /\ saver' = IF NeedRefine THEN "lock" ELSE "metadata"
    /\ UNCHANGED <<ready, index, metas, locks, addVars, found, refineVars, disk, ghosts>>

\* SaveMetadata takes no lock: records are only ever appended.
SaveMetadata ==
    /\ saver = "metadata"
    /\ file' = [file EXCEPT !.metadata = metadata]
    /\ saver' = "data"
    /\ UNCHANGED <<ready, index, metas, locks, addVars, found, refineVars, complete, ghosts>>

\* Variant: it waits for none.
SaveIndexDataUnlocked ==
    /\ saver = "data"
    /\ file' = [file EXCEPT !.samples = samples, !.deleted = deleted, !.lost = lost]
    /\ complete' = TRUE
    /\ saver' = "idle"
    /\ UNCHANGED <<ready, index, metas, locks, addVars, found, refineVars, ghosts>>

\* SaveIndexData waits for both locks.
SaveIndexData ==
    /\ saver = "data" /\ addLock = NoOne
    /\ file' = [file EXCEPT !.samples = samples, !.deleted = deleted,
                            !.lost = lost]
    /\ complete' = TRUE
    /\ saver' = "idle"
    /\ UNCHANGED <<ready, index, metas, locks, addVars, found, refineVars, ghosts>>

LeaveRefine == next' = 0 /\ newR' = 0 /\ indices' = <<>> /\ reverseIndices' = <<>>

\* RefineIndex.  Both locks are kept to the end.
RefineLock ==
    /\ saver = "lock" /\ addLock = NoOne
    /\ addLock' = Saver /\ deleteLock' = TRUE
    /\ next' = 1 /\ newR' = NumSamples
    /\ indices' = <<>> /\ reverseIndices' = [i \in AllIds |-> 1]
    /\ saver' = "compact"
    /\ UNCHANGED <<ready, index, metas, addVars, found, disk, ghosts>>

\* A live vector keeps its id.
KeepId ==
    /\ saver = "compact" /\ next <= newR /\ next \notin deleted
    /\ indices' = Append(indices, next)
    /\ reverseIndices' = [reverseIndices EXCEPT ![next] = next]
    /\ next' = next + 1
    /\ UNCHANGED <<ready, index, metas, locks, addVars, found, saver, newR, disk, ghosts>>

\* Variant: the last vector is taken without a look whether it is deleted.
LastLiveOrNot(r) == r = newR

\* newR after the loop over deleted vectors at the end.
LastLive(r) ==
    /\ r \in next - 1 .. newR
    /\ \A i \in r + 1 .. newR : i \in deleted
    /\ r >= next => r \notin deleted

\* A deleted one gives its id to the last live vector, if there is one.
MoveLast ==
    /\ saver = "compact" /\ next <= newR /\ next \in deleted
    /\ \E r \in 0 .. newR :
          /\ LastLive(r)
          /\ IF r < next
             THEN newR' = r /\ UNCHANGED <<next, indices, reverseIndices>>
             ELSE /\ indices' = Append(indices, r)
                  /\ reverseIndices' = [reverseIndices EXCEPT ![r] = next]
                  /\ newR' = r - 1
                  /\ next' = next + 1
    /\ UNCHANGED <<ready, index, metas, locks, addVars, found, saver, disk, ghosts>>

\* Variant: the records keep their order.
RefinedInOrder(ms) == \A i \in 1 .. Len(indices) : ms[i] \in MetaAt(i)

\* RefineMetadata
Refined(ms) == \A i \in 1 .. Len(indices) : ms[i] \in MetaAt(indices[i])

\* The samples, trees, graph, labels and metadata of the new index are written,
\* unless nothing is left of it.
WriteRefined ==
    /\ saver = "compact" /\ next > newR
    /\ IF newR = 0
       THEN UNCHANGED disk
       ELSE /\ \E ms \in [1 .. Len(indices) -> MetaValues] :
                  /\ Refined(ms)
                  /\ file' = [samples |-> [i \in 1 .. Len(indices) |-> samples[indices[i]]],
                              deleted |-> {},
                              metadata |-> IF hasMeta THEN ms ELSE <<>>,
                              lost |-> lost]
            /\ complete' = TRUE
    /\ addLock' = NoOne /\ deleteLock' = FALSE
    /\ saver' = "idle" /\ LeaveRefine
    /\ UNCHANGED <<ready, index, metas, addVars, found, ghosts>>
-----------------------------------------------------------------------------
\* The process ends, whatever its threads are doing, and the next one calls
\* LoadIndex.
Restart ==
    /\ complete /\ (hasMeta => file.metadata # <<>>)
    /\ samples' = file.samples /\ deleted' = file.deleted
    /\ graphRows' = Len(samples') /\ labelRows' = Len(samples')
    /\ metadata' = file.metadata
    /\ mapping' = MappingOf(metadata', IF hasMapping THEN (1 .. Len(samples')) \ deleted' ELSE {})
    /\ lost' = (file.lost \/ (hasMeta /\ Len(metadata') # Len(samples')))
    /\ addLock' = NoOne /\ deleteLock' = FALSE
    /\ adder' = [t \in Adders |-> "idle"]
    /\ LeaveAdd /\ found' = 0 /\ saver' = "idle" /\ LeaveRefine
    /\ UNCHANGED <<ready, hasMeta, hasMapping, disk, taken, twins>>

Add(t) ==
    \/ AddBegin(t) \/ Build(t)
    \/ GrowSamples(t) \/ GrowGraph(t) \/ GrowLabels(t)
    \/ AppendMeta(t) \/ MapMeta(t) \/ AddUnlock(t)

Delete == DeleteFound \/ LookUpMeta \/ DeleteMeta

RefineIndex == RefineLock \/ KeepId \/ MoveLast \/ WriteRefined
SaveIndex == OpenFiles \/ ChoosePath \/ SaveMetadata \/ SaveIndexData \/ RefineIndex

Next == (\E t \in Adders : Add(t)) \/ Delete \/ SaveIndex \/ Restart

Spec == Init /\ [][Next]_vars
-----------------------------------------------------------------------------
(***************************************************************************)
(* Properties.                                                             *)
(***************************************************************************)
IndexTypeOK ==
    /\ ready \in BOOLEAN /\ hasMeta \in BOOLEAN /\ hasMapping \in BOOLEAN /\ lost \in BOOLEAN
    /\ samples \in Seq(Vectors) /\ NumSamples <= DataCapacity
    /\ graphRows \in Nat /\ labelRows \in Nat /\ deleted \subseteq Ids
    /\ metadata \in Seq(MetaValues) /\ Len(metadata) <= DataCapacity
    /\ mapping \in [MetaValues -> {0} \cup Ids]
    /\ taken \in 0 .. MaxVectors /\ twins \subseteq Metas

CallTypeOK ==
    /\ addLock \in Adders \cup {Saver, NoOne} /\ deleteLock \in BOOLEAN
    /\ adder \in [Adders -> {"idle", "build", "samples", "graph", "labels", "append", "map",
                             "unlock"}]
    /\ batch \in Seq(Vectors) /\ Len(batch) <= MaxBatch /\ given \in BOOLEAN
    /\ begin \in {0} \cup Ids /\ k \in 0 .. MaxBatch
    /\ found \in {0} \cup Ids

SaveTypeOK ==
    /\ saver \in {"idle", "opened", "metadata", "data", "lock", "compact"}
    /\ next \in 0 .. DataCapacity + 1 /\ newR \in 0 .. DataCapacity
    /\ indices \in Seq(Ids) /\ reverseIndices \in Seq(Ids)
    /\ file \in [samples : Seq(Vectors), deleted : SUBSET Ids, metadata : Seq(MetaValues),
                 lost : BOOLEAN]
    /\ complete \in BOOLEAN

\* The types of the variables.
TypeOK == IndexTypeOK /\ CallTypeOK /\ SaveTypeOK

\* Whoever holds m_dataAddLock next finds samples, graph and labels of one
\* length, also when one of them could not grow (BKTIndex.cpp:681-689), and no
\* id beyond it marked as deleted or mapped.
RowsAgree ==
    addLock \notin Adders =>
        /\ graphRows = NumSamples /\ labelRows = NumSamples
        /\ deleted \subseteq AllIds
        /\ \A m \in MetaValues : mapping[m] \in {0} \cup AllIds

\* As long as no record was dropped or cut off, record i is what the caller
\* gave with vector i, through adds that fail half-way, refines and loads, and
\* no vector is without a record when the lock is free.
MetadataAligned ==
    (hasMeta /\ ~lost) =>
        /\ \A i \in 1 .. Len(metadata) : i <= NumSamples /\ metadata[i] = samples[i].meta
        /\ addLock \notin Adders => Len(metadata) = NumSamples

\* With a mapping the live vector that was added with a metadata is the mapped
\* one, so that there is one at most, and a delete by metadata finds it: also
\* after a save, which may renumber, and a load, which makes the map anew.
\* Metadata that came twice in the first batch are left out, because
\* BuildMetaMapping keeps both vectors.
LatestIsMapped ==
    (hasMapping /\ ~lost) =>
        \A i \in Live :
            samples[i].meta \in Metas \ twins => mapping[samples[i].meta] = i

\* When the loop of RefineIndex ends, indices lists the live vectors, each
\* once, as many as newR, those with an id up to newR in their old place, and
\* reverseIndices leads back.
Compacted ==
    (saver = "compact" /\ next > newR) =>
        /\ Len(indices) = newR
        /\ {indices[i] : i \in 1 .. newR} = AllIds \ deleted
        /\ \A i \in 1 .. newR : i \notin deleted => indices[i] = i
        /\ \A i \in 1 .. newR : reverseIndices[indices[i]] = i

LiveVectors == {samples[i] : i \in Live}
Copies == IF complete
          THEN {{file.samples[i] : i \in (1 .. Len(file.samples)) \ file.deleted}}
          ELSE {}

Store == INSTANCE VectorStore WITH live <- LiveVectors, copies <- Copies

\* The index is a store of vectors: nothing is lost that was not deleted or
\* replaced, and a copy that can be loaded has what was live when it was made.
StoreSpec == Store!Spec
=============================================================================
