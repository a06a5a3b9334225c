-------------------------- MODULE HNSWInsertKSRep --------------------------
(***************************************************************************)
(* addPoint_ksrep and searchBaseLayer_ksrep: the construction of           *)
(* HNSWInsert on one level, where each search starts from the entry point  *)
(* and from a random sample of the ids counted so far.  The sample leaves  *)
(* out the SampleMargin newest ids, so as not to meet elements whose call  *)
(* is still in progress.                                                   *)
(***************************************************************************)
EXTENDS HNSWInsertProps

CONSTANTS
    SampleMin,      \* no sample until cur_element_count exceeds this (10000)
    SampleMargin,   \* the newest ids, left out of the sample (100)
    SampleSize      \* getL(cur_element_count)

ASSUME KSRepAssumption ==
    /\ MaxLevel = 0     \* addPoint_ksrep inserts every element at level 0
    /\ SampleMin \in Nat /\ SampleMargin \in 0 .. SampleMin
    /\ SampleSize \in 0 .. ef_construction - 1

\* Variant: rand() % cur_element_count.
SampledAll == IF cur_element_count > SampleMin THEN 0 .. cur_element_count - 1 ELSE {}

\* The values of rand() % (cur_element_count - 100), once there is a sample.
Sampled ==
    IF cur_element_count > SampleMin
    THEN 0 .. cur_element_count - SampleMargin - 1
    ELSE {}

\* The entry point and the sample are results and candidates; the first
\* iteration pops the nearest of them.
BeginSearchKSRep(i, ep) ==
    \E sample \in SUBSET Sampled :
        /\ Cardinality(sample) <= SampleSize
        /\ LET start == sample \cup {ep}
           IN  \E curr \in start :
                  /\ node' = [node EXCEPT ![i] = curr]
                  /\ visited' = [visited EXCEPT ![i] = start]
                  /\ candidateSet' = [candidateSet EXCEPT ![i] = start \ {curr}]
                  /\ top_candidates' = [top_candidates EXCEPT ![i] = start]
        /\ pc' = [pc EXCEPT ![i] = "search"]
        /\ level' = [level EXCEPT ![i] = 0]

InitElementKSRep(i) ==
    /\ pc[i] = "init"
    /\ dataReady' = dataReady \cup {i}
    /\ linkList' = [linkList EXCEPT ![i] = [l \in Levels |-> {}]]
    /\ \/ /\ node[i] = None
          /\ pc' = [pc EXCEPT ![i] = "first"]
          /\ UNCHANGED <<level, node, searchVars>>
       \/ /\ node[i] # None
          /\ BeginSearchKSRep(i, node[i])
    /\ UNCHANGED <<cur_element_count, element_levels_, enterpoint_node_,
                   maxlevel_, locks, maxlevelcopy, selectedNeighbors>>

StepKSRep(i) ==
    \/ LockElement(i) \/ LockGlobal(i) \/ ReadEntry(i) \/ InitElementKSRep(i)
    \/ First(i) \/ Expand(i) \/ SelectNeighbors(i) \/ Connect(i)
    \/ Publish(i) \/ Return(i)

NextKSRep == (\E i \in Ids : Reserve(i) \/ StepKSRep(i)) \/ LoopEnds

SpecKSRep == Init /\ [][NextKSRep]_vars
=============================================================================
