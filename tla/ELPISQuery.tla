----------------------------- MODULE ELPISQuery -----------------------------
(***************************************************************************)
(* How ELPIS answers a query (QueryEngine.cpp): the leaf the query is      *)
(* routed to is searched first, the tree gives the other leaves that may   *)
(* hold an answer, the workers of an OpenMP loop search them, and their    *)
(* queues are merged.                                                      *)
(*                                                                         *)
(* Distances are numbers.  A leaf's graph is left out: a search may find   *)
(* any points of the leaf, at any distance that the bounds of the tree     *)
(* allow.  A point found is the leaf it is in, its distance, and its place *)
(* in what was found there, 0 for the entry point; the entry point may be  *)
(* found a second time, since searchflat does not mark it.                 *)
(***************************************************************************)
EXTENDS Integers, Sequences, FiniteSets

CONSTANTS
    Leaves, Inner,      \* leaves and inner nodes of the tree
    Root,
    Children,           \* the two children of each inner node
    Leads,              \* the leaves below each node
    K,                  \* k
    Probes,             \* nprobes - 1
    NumWorkers,         \* nworker
    FlagMod,            \* values of vl_type, 2^16
    MaxDist,            \* bound on distances
    MaxFound,           \* bound on the points found in a leaf, beside its entry
    MaxQueries          \* bound on queries

Nodes   == Leaves \cup Inner
Workers == 0 .. NumWorkers - 1
Dists   == 0 .. MaxDist
FltMax  == MaxDist + 1
Points  == [leaf : Leaves, n : 0 .. MaxFound, dist : Dists, copy : BOOLEAN]

ASSUME TreeAssumption ==
    /\ IsFiniteSet(Leaves) /\ Leaves # {} /\ Leaves \cap Inner = {} /\ Root \in Inner
    /\ Children \in [Inner -> SUBSET Nodes] /\ Leads \in [Nodes -> SUBSET Leaves]
    /\ \A l \in Leaves : Leads[l] = {l}
    /\ \A i \in Inner : Leads[i] = UNION {Leads[c] : c \in Children[i]}
    /\ \A i \in Inner : \A c, d \in Children[i] : c # d => Leads[c] \cap Leads[d] = {}
    /\ Leads[Root] = Leaves

ASSUME NumbersAssumption ==
    /\ K \in Nat \ {0} /\ Probes \in Nat \ {0} /\ NumWorkers \in Nat \ {0}
    /\ FlagMod \in Nat \ {0}
    /\ MaxDist \in Nat /\ MaxFound \in Nat /\ MaxQueries \in Nat

VARIABLES
    query,          \* queries begun
    phase,          \* where searchNpLeafParallel is
    bound,          \* calculate_node_min_distance of each node
    app,            \* App_node
    pq,             \* nodes in the queue of the tree search
    candidates,
    kthBsf,         \* kth_bsf
    top,            \* top_candidates of each worker; that of worker 0 is the engine's
    bsf,            \* bsf of each worker: the nearest neighbour it has looked at
    pc, at, local,  \* each worker in the loop: its step, i, and the bsf it has read
    searched,       \* workers whose num_leaf_searched is not 0
    left,           \* what of each worker's localknn has not been merged
    results,
    currFlag, flag, \* curr_flag of the engine and of each worker
    used,           \* tags that each worker's flags have been marked with
    stale,          \* a search began with a tag used before
    found,          \* points that entered a queue in this query
    skipped         \* candidates that were not searched

treeVars   == <<bound, app, pq, candidates>>
workerVars == <<kthBsf, top, bsf, pc, at, local, searched>>
flagVars   == <<currFlag, flag, used, stale>>
vars == <<query, phase, treeVars, workerVars, left, results, flagVars, found, skipped>>

Init ==
    /\ query = 0 /\ phase = "idle"
    /\ bound = [n \in Nodes |-> 0] /\ app = CHOOSE l \in Leaves : TRUE
    /\ pq = {} /\ candidates = <<>>
    /\ kthBsf = FltMax
    /\ top = [w \in Workers |-> {}] /\ bsf = [w \in Workers |-> FltMax]
    /\ pc = [w \in Workers |-> "read"] /\ at = [w \in Workers |-> 1]
    /\ local = [w \in Workers |-> FltMax] /\ searched = {}
    /\ left = [w \in Workers |-> {}] /\ results = {}
    /\ currFlag = 0 /\ flag = [w \in Workers |-> 0] /\ used = [w \in Workers |-> {}] /\ stale = FALSE
    /\ found = {} /\ skipped = {}
-----------------------------------------------------------------------------
(***************************************************************************)
(* Queues and the search of a leaf.                                        *)
(***************************************************************************)
Farthest(Q) == {x \in Q : \A y \in Q : y.dist <= x.dist}

\* top().first
Top(Q) == (CHOOSE x \in Farthest(Q) : TRUE).dist

\* Q popped until its size is k.
Trimmed(Q) ==
    IF Cardinality(Q) <= K THEN {Q}
    ELSE {T \in SUBSET Q : Cardinality(T) = K /\ \A x \in T, y \in Q \ T : x.dist <= y.dist}

\* A leaf may hold a point at this distance: the bound of each node above it
\* is one on its points.
MayHold(b, l, d) == \A n \in Nodes : l \in Leads[n] => b[n] <= d

\* searchGraphLeaf: the points that enter the queue.  Neighbours are numbered
\* by distance.
Finds(b, l) ==
    {f \in UNION {[0 .. m -> {d \in Dists : MayHold(b, l, d)}] : m \in 0 .. MaxFound} :
        \A i \in DOMAIN f \ {0} : f[1] <= f[i] /\ (i + 1 \in DOMAIN f => f[i] <= f[i + 1])}

PointsOf(l, f) == {[leaf |-> l, n |-> i, dist |-> f[i], copy |-> FALSE] : i \in DOMAIN f}

\* bsf after a search: of the neighbours it looked at, also those that did not
\* enter the queue Q, the nearest counts; the entry point does not.
BsfAfter(w, l, f, Q) ==
    {c \in 0 .. bsf[w] : /\ c < bsf[w] => MayHold(bound, l, c)
                         /\ \A i \in DOMAIN f \ {0} : c <= f[i]
                         /\ \E x \in Q : x.dist <= c}

\* round_visit++; what is visited in the flags of w is marked with the new tag.
Next16(t) == (t + 1) % FlagMod
MarkWith(w, t) ==
    /\ used' = [used EXCEPT ![w] = @ \cup {t}]
    /\ stale' = (stale \/ t \in used[w])
-----------------------------------------------------------------------------
(***************************************************************************)
(* The main thread.                                                        *)
(***************************************************************************)
\* The leaf that the query is routed to is searched.  It has more than K points,
\* but a search that takes marks of an earlier one for its own may miss any.
SearchAppNode ==
    /\ phase = "idle" /\ query < MaxQueries
    /\ query' = query + 1
    /\ \E l \in Leaves, b \in [Nodes -> Dists] :
          /\ app' = l /\ bound' = b
          /\ \E f \in Finds(b, l) :
                /\ Cardinality(DOMAIN f) >= K \/ Next16(currFlag) \in used[0]
                /\ found' = PointsOf(l, f)
                /\ \E T \in Trimmed(PointsOf(l, f)) :
                      /\ top' = [top EXCEPT ![0] = T]
                      /\ kthBsf' = Top(T)
    /\ currFlag' = Next16(currFlag) /\ MarkWith(0, Next16(currFlag))
    /\ pq' = {Root} /\ candidates' = <<>> /\ skipped' = {}
    /\ phase' = "collect"
    /\ UNCHANGED <<bsf, pc, at, local, searched, left, results, flag>>

\* Variant: a child is left out when it cannot hold the nearest point.
WorthwhileForNearest(c) == \E d \in {x.dist : x \in top[0]} : bound[c] < d /\ \A x \in top[0] : d <= x.dist

Worthwhile(c) == bound[c] < kthBsf

\* Insertion into the sorted array.
Inserted(n) ==
    LET p == Cardinality({i \in DOMAIN candidates : bound[candidates[i]] <= bound[n]})
    IN SubSeq(candidates, 1, p) \o <<n>> \o SubSeq(candidates, p + 1, Len(candidates))

\* The node with the least bound is taken from the queue.
PopNode(n) ==
    /\ phase = "collect"
    /\ n \in pq /\ \A m \in pq : bound[n] <= bound[m]
    /\ bound[n] <= kthBsf
    /\ IF n \in Leaves
       THEN candidates' = Inserted(n) /\ pq' = pq \ {n}
       ELSE /\ pq' = (pq \ {n}) \cup {c \in Children[n] : Worthwhile(c) /\ c # app}
            /\ UNCHANGED candidates
    /\ UNCHANGED <<query, phase, bound, app, workerVars, left, results, flagVars, found, skipped>>

\* The queue is empty, or none of its nodes is near enough; the workers get
\* copies of what was found (copypq) and start.
StartWorkers ==
    /\ phase = "collect"
    /\ \A n \in pq : bound[n] > kthBsf
    /\ pq' = {}
    /\ top' = [w \in Workers |->
                 IF w = 0 THEN top[0] ELSE {[x EXCEPT !.copy = TRUE] : x \in top[0]}]
    /\ bsf' = [w \in Workers |-> FltMax] /\ searched' = {}
    /\ flag' = [flag EXCEPT ![0] = currFlag]
    /\ pc' = [w \in Workers |-> "read"] /\ at' = [w \in Workers |-> w + 1]
    /\ phase' = "probe"
    /\ UNCHANGED <<query, bound, app, candidates, kthBsf, local, left, results, currFlag, used,
                   stale, found, skipped>>
-----------------------------------------------------------------------------
(***************************************************************************)
(* The loop over the candidates: schedule(static, 1) gives worker w every  *)
(* NumWorkers-th of them.                                                  *)
(***************************************************************************)
Tasks == 1 .. (IF Len(candidates) < Probes THEN Len(candidates) ELSE Probes)
Leaf(w) == candidates[at[w]]

\* The next round; what was read is gone.
Continue(w) ==
    /\ pc' = [pc EXCEPT ![w] = "read"]
    /\ at' = [at EXCEPT ![w] = @ + NumWorkers]
    /\ local' = [local EXCEPT ![w] = FltMax]

\* Under the read lock.
ReadBsf(w) ==
    /\ phase = "probe" /\ pc[w] = "read" /\ at[w] \in Tasks
    /\ local' = [local EXCEPT ![w] = kthBsf]
    /\ pc' = [pc EXCEPT ![w] = "search"]
    /\ UNCHANGED <<query, phase, treeVars, kthBsf, top, bsf, at, searched, left, results,
                   flagVars, found, skipped>>

SkipLeaf(w) ==
    /\ pc[w] = "search" /\ bound[Leaf(w)] > bsf[w]
    /\ skipped' = skipped \cup {Leaf(w)}
    /\ Continue(w)
    /\ UNCHANGED <<query, phase, treeVars, kthBsf, top, bsf, searched, left, results, flagVars,
                   found>>

SearchLeaf(w) ==
    /\ pc[w] = "search" /\ bound[Leaf(w)] <= bsf[w]
    /\ searched' = searched \cup {w}
    /\ \E f \in Finds(bound, Leaf(w)) :
          LET new == PointsOf(Leaf(w), f)
          IN /\ found' = found \cup new
             /\ \E T \in Trimmed(top[w] \cup new), c \in BsfAfter(w, Leaf(w), f, top[w] \cup new) :
                   /\ top' = [top EXCEPT ![w] = T]
                   /\ bsf' = [bsf EXCEPT ![w] = c]
                   /\ IF Top(T) < local[w]
                      THEN pc' = [pc EXCEPT ![w] = "write"] /\ UNCHANGED <<at, local>>
                      ELSE Continue(w)
    /\ flag' = [flag EXCEPT ![w] = Next16(@)] /\ MarkWith(w, Next16(flag[w]))
    /\ UNCHANGED <<query, phase, treeVars, kthBsf, left, results, currFlag, skipped>>

\* Variant: the nearest neighbour is published.
WriteNearest(w) ==
    /\ pc[w] = "write"
    /\ kthBsf' = bsf[w]
    /\ Continue(w)
    /\ UNCHANGED <<query, phase, treeVars, top, bsf, searched, left, results, flagVars,
                   found, skipped>>

\* Under the write lock.  The value read before is not read again.
WriteBsf(w) ==
    /\ pc[w] = "write"
    /\ kthBsf' = Top(top[w])
    /\ Continue(w)
    /\ UNCHANGED <<query, phase, treeVars, top, bsf, searched, left, results, flagVars,
                   found, skipped>>
-----------------------------------------------------------------------------
(***************************************************************************)
(* The merge, after the barriers of both loops.                            *)
(***************************************************************************)
\* localknn of a worker that searched a leaf gets the K points of its queue;
\* with fewer of them what top() returns is undefined.  What only the loop
\* needed is set back.
EndWorkers ==
    /\ phase = "probe"
    /\ \A w \in Workers : pc[w] = "read" /\ at[w] \notin Tasks
    /\ \A w \in searched \ {0} : Cardinality(top[w]) = K
    /\ left' = [w \in Workers |-> IF w \in searched \ {0} THEN top[w] ELSE {}]
    /\ top' = [w \in Workers |-> IF w = 0 THEN top[0] ELSE {}]
    /\ bsf' = [w \in Workers |-> FltMax] /\ searched' = {} /\ kthBsf' = FltMax
    /\ at' = [w \in Workers |-> 1]
    /\ phase' = "merge"
    /\ UNCHANGED <<query, treeVars, pc, local, results, flagVars, found, skipped>>

\* Variant: copies are not told from what the worker has found.
EntersAnyCopy(x) == x.dist < Top(top[0])

\* A copy stands as FLT_MAX in localknn.
Enters(x) == ~x.copy /\ x.dist < Top(top[0])

\* The next of localknn: it enters the queue and the farthest leaves it, or it
\* is a copy, or it ends the loop for this worker.
MergeNext(w) ==
    /\ phase = "merge" /\ left[w] # {} /\ \A v \in 0 .. w - 1 : left[v] = {}
    /\ \E x \in left[w] :
          /\ \A y \in left[w] : x.dist <= y.dist
          /\ IF Enters(x)
             THEN /\ \E y \in Farthest(top[0] \cup {x}) :
                        top' = [top EXCEPT ![0] = (@ \cup {x}) \ {y}]
                  /\ left' = [left EXCEPT ![w] = @ \ {x}]
             ELSE /\ left' = [left EXCEPT ![w] = IF x.copy THEN @ \ {x} ELSE {}]
                  /\ UNCHANGED top
    /\ UNCHANGED <<query, phase, treeVars, kthBsf, bsf, pc, at, local, searched, results, flagVars,
                   found, skipped>>

Answer ==
    /\ phase = "merge" /\ \A w \in Workers : left[w] = {}
    /\ results' = top[0]
    /\ top' = [top EXCEPT ![0] = {}]
    /\ phase' = "idle"
    /\ UNCHANGED <<query, treeVars, kthBsf, bsf, pc, at, local, searched, left, flagVars, found,
                   skipped>>

Worker(w) == ReadBsf(w) \/ SkipLeaf(w) \/ SearchLeaf(w) \/ WriteBsf(w)

Next ==
    \/ SearchAppNode
    \/ \E n \in Nodes : PopNode(n)
    \/ StartWorkers
    \/ \E w \in Workers : Worker(w)
    \/ EndWorkers
    \/ \E w \in Workers : MergeNext(w)
    \/ Answer

Spec == Init /\ [][Next]_vars
-----------------------------------------------------------------------------
(***************************************************************************)
(* Properties.                                                             *)
(***************************************************************************)
TypeOK ==
    /\ query \in 0 .. MaxQueries /\ phase \in {"idle", "collect", "probe", "merge"}
    /\ bound \in [Nodes -> Dists] /\ app \in Leaves
    /\ pq \subseteq Nodes /\ candidates \in Seq(Leaves)
    /\ kthBsf \in 0 .. FltMax
    /\ top \in [Workers -> SUBSET Points] /\ bsf \in [Workers -> 0 .. FltMax]
    /\ pc \in [Workers -> {"read", "search", "write"}]
    /\ at \in [Workers -> Nat] /\ local \in [Workers -> 0 .. FltMax]
    /\ searched \subseteq Workers /\ left \in [Workers -> SUBSET Points]
    /\ results \subseteq Points /\ found \subseteq Points /\ skipped \subseteq Leaves
    /\ currFlag \in 0 .. FlagMod - 1 /\ flag \in [Workers -> 0 .. FlagMod - 1]
    /\ used \in [Workers -> SUBSET (0 .. FlagMod - 1)] /\ stale \in BOOLEAN

\* The search of App_node has filled the queue, as it does unless it takes marks
\* of an earlier search for its own.
FirstFull == Cardinality({x \in found : x.leaf = app}) >= K

Answered == phase = "idle" /\ FirstFull

\* The answers are the K nearest of all that the first search and the workers
\* have found, each once, whoever found them and however the copies that the
\* workers began with are spread over their queues.
AnswersMerged ==
    Answered =>
        /\ results \subseteq found /\ Cardinality(results) = K
        /\ \A x \in results, y \in found \ results : x.dist <= y.dist

Listed(l) == \E i \in DOMAIN candidates : candidates[i] = l

\* What was not searched could not matter: a leaf that the tree search left out
\* holds nothing nearer than an answer, and one that a worker skipped nothing
\* nearer than the nearest answer.  (A skipped leaf may hold one of the K
\* nearest: a worker compares with the nearest point it has seen.)
PrunedSafe ==
    Answered =>
        \A l \in Leaves \ {app} : \A d \in {e \in Dists : MayHold(bound, l, e)} :
            /\ ~Listed(l) => \A x \in results : x.dist <= d
            /\ l \in skipped => \E x \in results : x.dist <= d

\* kth_bsf, which workers compare with and overwrite under separate locks, may
\* rise again, but K of the points found so far are as near.
KthBound ==
    phase \in {"collect", "probe"} /\ FirstFull =>
        Cardinality({x \in found : x.dist <= kthBsf}) >= K

\* "max value of ushort is 65K => in total of search on all queries, we should
\* not exceed 65k searchleaf" (QueryEngine.cpp:33): with fewer searches than
\* tags, a search begins with a tag that no node is marked with.
TagsFresh == ~stale
=============================================================================
