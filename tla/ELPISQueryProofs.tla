-------------------------- MODULE ELPISQueryProofs --------------------------
(***************************************************************************)
(* Proofs about ELPISQuery.  Each queue is followed through the points it  *)
(* has let go: a queue of K points only ever changes for nearer ones, so   *)
(* what it let go once stays behind all that it holds.  A worker's queue   *)
(* may owe this to copies of points that the engine's queue holds, or      *)
(* has let go for nearer ones itself; that is why leaving the copies out   *)
(* of the merge loses nothing.                                             *)
(***************************************************************************)
EXTENDS ELPISQuery, FiniteSetTheorems, WellFoundedInduction, NaturalsInduction, TLAPS

Original(x) == [x EXCEPT !.copy = FALSE]

\* K of the points found are as near as this.
Enough(d) == Cardinality({x \in found : x.dist <= d}) >= K

\* Leaves that worker w searches: every NumWorkers-th of the candidates.
Turn(w, i) == \E m \in Nat : i = w + 1 + m * NumWorkers
Owned(w, l) == \E i \in DOMAIN candidates : Turn(w, i) /\ candidates[i] = l

\* What the queue of w has let go of is no nearer than what it holds.
Behind(w, y) == \A x \in top[w] : x.dist <= y.dist

\* While w's points are merged: what the engine has, and what w still has for
\* it, are K points as near as y.
BehindLeft(w, y) ==
    /\ \A x \in left[w] : x.dist <= y.dist
    /\ Cardinality({x \in top[0] : x.dist <= y.dist} \cup {x \in left[w] : ~x.copy}) >= K

FiniteInv ==
    /\ IsFiniteSet(found)
    /\ \A w \in Workers : IsFiniteSet(top[w]) /\ IsFiniteSet(left[w])

\* Where the workers and their queues are in each phase.
PhaseInv ==
    /\ \A w \in Workers : pc[w] # "read" => phase = "probe" /\ at[w] \in Tasks
    /\ phase = "probe" => \A w \in Workers : Turn(w, at[w]) /\ top[w] # {}
    /\ phase # "probe" => \A w \in Workers \ {0} : top[w] = {}
    /\ IF phase = "idle" THEN top[0] = {} ELSE top[0] # {}
    /\ phase # "merge" => \A w \in Workers : left[w] = {}

\* The nodes in the queue and the candidates share no leaf, and App_node is not
\* among them.
TreeInv ==
    /\ app \notin pq /\ ~Listed(app)
    /\ \A m, n \in pq : m # n => Leads[m] \cap Leads[n] = {}
    /\ \A n \in pq : \A l \in Leads[n] : ~Listed(l)
    /\ \A i, j \in DOMAIN candidates : candidates[i] = candidates[j] => i = j

\* Whose the points in the queues are.
PointsInv ==
    /\ \A x \in found : ~x.copy
    /\ phase = "collect" => \A x \in found : x.leaf = app
    /\ top[0] \subseteq found
    /\ \A w \in Workers : \A x \in top[w] :
          IF x.copy THEN Original(x) \in found /\ x.leaf = app
          ELSE x \in found /\ (phase = "probe" => IF x.leaf = app THEN w = 0 ELSE Owned(w, x.leaf))
    /\ phase = "probe" => \A w \in Workers \ ({0} \cup searched) : \A x \in top[w] : x.copy
    /\ \A w \in Workers : \A x \in left[w] :
          ~x.copy => /\ x \in found \ top[0]
                     /\ \A v \in Workers \ {w} : x \notin left[v]
    /\ left[0] = {}

FullInv ==
    FirstFull =>
        /\ phase # "idle" => Cardinality(top[0]) = K
        /\ phase = "probe" => \A w \in Workers : Cardinality(top[w]) = K

\* No point found is lost but for K that are as near.
KeptInv ==
    FirstFull =>
        /\ phase = "collect" => \A y \in found : y \in top[0] \/ Behind(0, y)
        /\ phase = "probe" =>
              /\ \A y \in found : \E w \in Workers : y \in top[w] \/ Behind(w, y)
              /\ \A w \in Workers : \A x \in top[w] :
                    x.copy => Original(x) \in top[0] \/ Behind(0, x)
        /\ phase = "merge" =>
              \A y \in found : \/ y \in top[0]
                               \/ \E w \in Workers : y \in left[w] \/ BehindLeft(w, y)

\* A leaf that is not, and will not be, among the candidates is too far.
CoverInv ==
    FirstFull =>
        \A l \in Leaves \ {app} :
            IF phase = "collect"
            THEN \/ Listed(l)
                 \/ \E n \in pq : l \in Leads[n]
                 \/ \E n \in Nodes : l \in Leads[n] /\ bound[n] >= kthBsf
            ELSE \A d \in Dists : ~Listed(l) /\ MayHold(bound, l, d) => Enough(d)

\* A worker's bsf, and with it a leaf that is skipped, is behind a point found.
SkipInv ==
    /\ phase = "probe" =>
          \A w \in Workers : bsf[w] < FltMax => \E x \in top[w] : x.dist <= bsf[w]
    /\ \A l \in skipped : \A d \in Dists : MayHold(bound, l, d) => \E x \in found : x.dist <= d

IInv ==
    /\ TypeOK /\ FiniteInv /\ PhaseInv
    /\ TreeInv /\ PointsInv /\ FullInv /\ KeptInv
    /\ CoverInv /\ SkipInv /\ KthBound /\ AnswersMerged

-----------------------------------------------------------------------------
(***************************************************************************)
(* Queues.                                                                 *)
(***************************************************************************)
LEMMA Numbers ==
    /\ K \in Nat /\ K >= 1 /\ NumWorkers \in Nat /\ NumWorkers >= 1
    /\ MaxDist \in Nat /\ MaxFound \in Nat /\ MaxQueries \in Nat
    /\ Probes \in Nat /\ FlagMod \in Nat /\ FlagMod >= 1
    /\ 0 \in Workers /\ Workers \subseteq Nat
    /\ Dists \subseteq Nat /\ FltMax \in Nat
    /\ \A d \in Dists : d <= MaxDist /\ d < FltMax /\ d \in 0 .. FltMax
  BY NumbersAssumption DEF Workers, Dists, FltMax

LEMMA PointTypes ==
    \A x \in Points : /\ x.dist \in Dists /\ x.dist \in Nat /\ x.dist <= MaxDist
                      /\ x.leaf \in Leaves /\ x.copy \in BOOLEAN
  BY Numbers DEF Points

LEMMA PointMade ==
    ASSUME NEW l \in Leaves, NEW n \in 0 .. MaxFound, NEW d \in Dists, NEW c \in BOOLEAN
    PROVE  [leaf |-> l, n |-> n, dist |-> d, copy |-> c] \in Points
  BY Zenon DEF Points

\* A finite queue that is not empty has a farthest point, which top() returns.
LEMMA TopIsFarthest ==
    ASSUME NEW Q \in SUBSET Points, Q # {}
    PROVE  /\ Top(Q) \in Dists
           /\ \A x \in Q : x.dist <= Top(Q)
           /\ \E x \in Farthest(Q) : x.dist = Top(Q)
           /\ Farthest(Q) \subseteq Q /\ Farthest(Q) # {}
           /\ \A x \in Farthest(Q) : x.dist = Top(Q)
<1> DEFINE Gaps == {g \in Nat : \E x \in Q : g = MaxDist - x.dist}
<1>1. \A x \in Q : x.dist \in Nat /\ x.dist <= MaxDist /\ x.dist \in Dists
  BY Numbers, PointTypes
<1>2. Gaps # {} /\ Gaps \subseteq Nat
  <2>1. PICK x \in Q : TRUE
    OBVIOUS
  <2>2. MaxDist - x.dist \in Nat
    BY <1>1, Numbers
  <2> QED BY <2>2
<1>3. PICK g \in Gaps : \A h \in Gaps : ~(<<h, g>> \in OpToRel(<, Nat))
  <2> HIDE DEF Gaps
  <2> QED BY <1>2, NatLessThanWellFounded, WFMin
<1>4. \A h \in Gaps : g <= h
  <2> HIDE DEF Gaps
  <2>1. \A h \in Gaps : ~(h < g)
    BY <1>2, <1>3 DEF OpToRel
  <2> QED BY <1>2, <2>1
<1>5. PICK x \in Q : g = MaxDist - x.dist
  OBVIOUS
<1>6. x \in Farthest(Q)
  <2> SUFFICES ASSUME NEW y \in Q PROVE y.dist <= x.dist
    BY DEF Farthest
  <2>1. MaxDist - y.dist \in Gaps
    BY <1>1, Numbers
  <2> QED BY <2>1, <1>1, <1>4, <1>5, Numbers
<1>7. Farthest(Q) \subseteq Q /\ \A y \in Farthest(Q) : y.dist = x.dist
  BY <1>1, <1>6, Numbers DEF Farthest
<1>8. Top(Q) = x.dist
  BY <1>6, <1>7 DEF Top
<1> QED BY <1>1, <1>6, <1>7, <1>8 DEF Farthest

\* What Trimmed keeps and drops.
LEMMA TrimmedFacts ==
    ASSUME NEW Q \in SUBSET Points, IsFiniteSet(Q), NEW T \in Trimmed(Q)
    PROVE  /\ T \subseteq Q /\ IsFiniteSet(T)
           /\ Cardinality(Q) >= K => Cardinality(T) = K
           /\ \A y \in Q \ T : Cardinality(T) = K /\ \A x \in T : x.dist <= y.dist
           /\ \A y \in Q : \E x \in T : x.dist <= y.dist
<1>0. Cardinality(Q) \in Nat
  BY FS_CardinalityType
<1>1. CASE Cardinality(Q) <= K
  <2>1. T = Q
    BY <1>1 DEF Trimmed
  <2>2. \A y \in Q : y.dist <= y.dist
    BY PointTypes
  <2> QED BY <2>1, <2>2, <1>0, <1>1, Numbers
<1>2. CASE ~(Cardinality(Q) <= K)
  <2>1. T \in SUBSET Q /\ Cardinality(T) = K /\ \A x \in T, y \in Q \ T : x.dist <= y.dist
    BY <1>2 DEF Trimmed
  <2>2. IsFiniteSet(T)
    BY <2>1, FS_Subset
  <2>3. T # {}
    BY <2>1, Numbers, FS_EmptySet
  <2>4. \A y \in Q : \E x \in T : x.dist <= y.dist
    <3> TAKE y \in Q
    <3>1. CASE y \in T
      BY <3>1, PointTypes
    <3>2. CASE y \notin T
      BY <2>1, <2>3, <3>2
    <3> QED BY <3>1, <3>2
  <2> QED BY <2>1, <2>2, <2>4
<1> QED BY <1>1, <1>2

\* Once there are K points in a queue, all of them this near, it stays so.
LEMMA TrimmedLowers ==
    ASSUME NEW Q \in SUBSET Points, IsFiniteSet(Q), NEW T \in Trimmed(Q),
           NEW S \in SUBSET Q, Cardinality(S) = K,
           NEW d \in Nat, \A x \in S : x.dist <= d
    PROVE  \A x \in T : x.dist <= d
<1>0. IsFiniteSet(S) /\ Cardinality(S) <= Cardinality(Q) /\ Cardinality(Q) \in Nat
  BY FS_Subset, FS_CardinalityType
<1>1. T \subseteq Q /\ IsFiniteSet(T) /\ Cardinality(T) = K
  BY <1>0, TrimmedFacts, Numbers
<1>2. \A y \in Q \ T, x \in T : x.dist <= y.dist
  BY TrimmedFacts
<1> SUFFICES ASSUME NEW x \in T, ~(x.dist <= d) PROVE FALSE
  OBVIOUS
<1>3. PICK z \in S : z \notin T
  <2>1. CASE S \subseteq T
    <3>1. S = T
      BY <2>1, <1>1, FS_Subset
    <3> QED BY <3>1
  <2> QED BY <2>1
<1>4. x.dist <= z.dist /\ z.dist <= d
  BY <1>2, <1>3
<1>5. x.dist \in Nat /\ z.dist \in Nat
  BY <1>1, PointTypes
<1> QED BY <1>4, <1>5

\* The points that a search finds.
LEMMA PointsOfFacts ==
    ASSUME NEW b, NEW l \in Leaves, NEW f \in Finds(b, l)
    PROVE  /\ PointsOf(l, f) \subseteq Points /\ IsFiniteSet(PointsOf(l, f)) /\ PointsOf(l, f) # {}
           /\ Cardinality(PointsOf(l, f)) = Cardinality(DOMAIN f)
           /\ \A x \in PointsOf(l, f) : ~x.copy /\ x.leaf = l
<1>1. PICK m \in 0 .. MaxFound : f \in [0 .. m -> {d \in Dists : MayHold(b, l, d)}]
  BY DEF Finds
<1>2. DOMAIN f = 0 .. m /\ \A i \in 0 .. m : f[i] \in Dists
  BY <1>1
<1>3. IsFiniteSet(DOMAIN f)
  BY <1>2, Numbers, FS_Interval
<1> DEFINE g == [i \in DOMAIN f |-> [leaf |-> l, n |-> i, dist |-> f[i], copy |-> FALSE]]
<1>4. PointsOf(l, f) \subseteq Points
  <2> SUFFICES ASSUME NEW i \in DOMAIN f
               PROVE  [leaf |-> l, n |-> i, dist |-> f[i], copy |-> FALSE] \in Points
    BY DEF PointsOf
  <2>1. i \in 0 .. MaxFound /\ f[i] \in Dists
    BY <1>2, Numbers
  <2> QED BY <2>1, PointMade
<1>5. g \in Surjection(DOMAIN f, PointsOf(l, f)) /\ g \in Injection(DOMAIN f, PointsOf(l, f))
  <2>1. g \in [DOMAIN f -> PointsOf(l, f)]
    BY DEF PointsOf
  <2>2. \A p \in PointsOf(l, f) : \E i \in DOMAIN f : g[i] = p
    BY DEF PointsOf
  <2>3. \A i, j \in DOMAIN f : g[i] = g[j] => i = j
    <3> TAKE i, j \in DOMAIN f
    <3>1. g[i].n = i /\ g[j].n = j
      OBVIOUS
    <3> QED BY <3>1
  <2> HIDE DEF g
  <2> QED BY <2>1, <2>2, <2>3 DEF Surjection, Injection, IsInjective
<1>6. IsFiniteSet(PointsOf(l, f)) /\ Cardinality(PointsOf(l, f)) = Cardinality(DOMAIN f)
  <2> HIDE DEF g
  <2> QED BY <1>3, <1>5, FS_Surjection
<1>7. PointsOf(l, f) # {}
  <2>1. 0 \in DOMAIN f
    BY <1>2
  <2> QED BY <2>1 DEF PointsOf
<1>8. \A x \in PointsOf(l, f) : ~x.copy /\ x.leaf = l
  BY DEF PointsOf
<1> QED BY <1>4, <1>6, <1>7, <1>8

LEMMA ExceptCopy ==
    ASSUME NEW l, NEW n, NEW d, NEW c \in BOOLEAN, NEW e \in BOOLEAN
    PROVE  [[leaf |-> l, n |-> n, dist |-> d, copy |-> c] EXCEPT !.copy = e]
             = [leaf |-> l, n |-> n, dist |-> d, copy |-> e]
  BY SMT

\* Copies, and the points they are copies of.
LEMMA CopyFacts ==
    ASSUME NEW x \in Points
    PROVE  /\ [x EXCEPT !.copy = TRUE] \in Points /\ Original(x) \in Points
           /\ [x EXCEPT !.copy = TRUE].dist = x.dist /\ Original(x).dist = x.dist
           /\ [x EXCEPT !.copy = TRUE].leaf = x.leaf /\ Original(x).leaf = x.leaf
           /\ [x EXCEPT !.copy = TRUE].copy /\ ~Original(x).copy
           /\ ~x.copy => Original([x EXCEPT !.copy = TRUE]) = x
           /\ x.copy => [Original(x) EXCEPT !.copy = TRUE] = x
<1>1. PICK l \in Leaves, n \in 0 .. MaxFound, d \in Dists, c \in BOOLEAN :
           x = [leaf |-> l, n |-> n, dist |-> d, copy |-> c]
  BY DEF Points
<1>2. /\ [x EXCEPT !.copy = TRUE] = [leaf |-> l, n |-> n, dist |-> d, copy |-> TRUE]
      /\ Original(x) = [leaf |-> l, n |-> n, dist |-> d, copy |-> FALSE]
  <2>1. \A e \in BOOLEAN :
           [x EXCEPT !.copy = e] = [leaf |-> l, n |-> n, dist |-> d, copy |-> e]
    <3> TAKE e \in BOOLEAN
    <3>1. [[leaf |-> l, n |-> n, dist |-> d, copy |-> c] EXCEPT !.copy = e]
             = [leaf |-> l, n |-> n, dist |-> d, copy |-> e]
      BY ExceptCopy
    <3> QED BY <1>1, <3>1
  <2> QED BY <2>1, Zenon DEF Original
<1>3. [x EXCEPT !.copy = TRUE] \in Points /\ Original(x) \in Points
  <2>1. TRUE \in BOOLEAN /\ FALSE \in BOOLEAN
    OBVIOUS
  <2>2. /\ [leaf |-> l, n |-> n, dist |-> d, copy |-> TRUE] \in Points
        /\ [leaf |-> l, n |-> n, dist |-> d, copy |-> FALSE] \in Points
    BY <2>1, PointMade, Zenon
  <2> QED BY <1>2, <2>2, Zenon
<1>4. /\ Original([x EXCEPT !.copy = TRUE]) = [leaf |-> l, n |-> n, dist |-> d, copy |-> FALSE]
      /\ [Original(x) EXCEPT !.copy = TRUE] = [leaf |-> l, n |-> n, dist |-> d, copy |-> TRUE]
  BY <1>2, ExceptCopy DEF Original
<1>5. x.dist = d /\ x.leaf = l /\ x.copy = c
  BY <1>1
<1>6. /\ [x EXCEPT !.copy = TRUE].dist = d /\ [x EXCEPT !.copy = TRUE].leaf = l
      /\ [x EXCEPT !.copy = TRUE].copy = TRUE
      /\ Original(x).dist = d /\ Original(x).leaf = l /\ Original(x).copy = FALSE
  BY <1>2
<1>7. ~x.copy => Original([x EXCEPT !.copy = TRUE]) = x
  <2> SUFFICES ASSUME ~c PROVE c = FALSE
    BY <1>1, <1>4, <1>5
  <2> QED BY Zenon
<1>8. x.copy => [Original(x) EXCEPT !.copy = TRUE] = x
  <2> SUFFICES ASSUME c PROVE c = TRUE
    BY <1>1, <1>4, <1>5
  <2> QED BY Zenon
<1> QED BY <1>3, <1>5, <1>6, <1>7, <1>8, Zenon

\* copypq.
LEMMA CopiesFacts ==
    ASSUME NEW Q \in SUBSET Points, IsFiniteSet(Q), \A x \in Q : ~x.copy
    PROVE  LET C == {[x EXCEPT !.copy = TRUE] : x \in Q}
           IN  /\ C \subseteq Points /\ IsFiniteSet(C) /\ Cardinality(C) = Cardinality(Q)
               /\ Q # {} => C # {}
               /\ \A c \in C : c.copy /\ Original(c) \in Q
<1> DEFINE C == {[x EXCEPT !.copy = TRUE] : x \in Q}
           g == [x \in Q |-> [x EXCEPT !.copy = TRUE]]
<1>1. \A c \in C : c \in Points /\ c.copy /\ Original(c) \in Q
  <2> TAKE c \in C
  <2>1. PICK x \in Q : c = [x EXCEPT !.copy = TRUE]
    OBVIOUS
  <2>2. x \in Points /\ ~x.copy
    OBVIOUS
  <2>3. c \in Points /\ c.copy /\ Original(c) = x
    BY <2>1, <2>2, CopyFacts
  <2> QED BY <2>3
<1>2. g \in Surjection(Q, C) /\ g \in Injection(Q, C)
  <2>1. g \in [Q -> C] /\ \A c \in C : \E x \in Q : g[x] = c
    OBVIOUS
  <2>2. \A x, y \in Q : g[x] = g[y] => x = y
    <3> TAKE x, y \in Q
    <3>1. Original(g[x]) = x /\ Original(g[y]) = y
      BY CopyFacts
    <3> QED BY <3>1
  <2> HIDE DEF g, C
  <2> QED BY <2>1, <2>2 DEF Surjection, Injection, IsInjective
<1>3. IsFiniteSet(C) /\ Cardinality(C) = Cardinality(Q)
  <2> HIDE DEF g, C
  <2> QED BY <1>2, FS_Surjection
<1>4. Q # {} => C # {}
  OBVIOUS
<1> QED BY <1>1, <1>3, <1>4

\* More points found, more of them near.
LEMMA MoreAreNear ==
    ASSUME NEW S, NEW T, S \subseteq T, IsFiniteSet(T), NEW d
    PROVE  /\ Cardinality({x \in S : x.dist <= d}) \in Nat
           /\ Cardinality({x \in T : x.dist <= d}) \in Nat
           /\ Cardinality({x \in S : x.dist <= d}) <= Cardinality({x \in T : x.dist <= d})
<1> DEFINE A == {x \in S : x.dist <= d}
           B == {x \in T : x.dist <= d}
<1>1. A \subseteq B /\ B \subseteq T
  OBVIOUS
<1> HIDE DEF A, B
<1>2. IsFiniteSet(B) /\ IsFiniteSet(A) /\ Cardinality(A) <= Cardinality(B)
  BY <1>1, FS_Subset
<1>3. Cardinality(A) \in Nat /\ Cardinality(B) \in Nat
  BY <1>2, FS_CardinalityType
<1> QED BY <1>2, <1>3 DEF A, B

\* Insertion into a sequence.
LEMMA InsertedAt ==
    ASSUME NEW s \in Seq(Leaves), NEW p \in 0 .. Len(s), NEW n \in Leaves
    PROVE  LET r == SubSeq(s, 1, p) \o <<n>> \o SubSeq(s, p + 1, Len(s))
           IN  /\ r \in Seq(Leaves) /\ Len(r) = Len(s) + 1
               /\ \A j \in 1 .. Len(s) + 1 :
                     r[j] = IF j <= p THEN s[j] ELSE IF j = p + 1 THEN n ELSE s[j - 1]
<1> DEFINE a == SubSeq(s, 1, p)
           z == SubSeq(s, p + 1, Len(s))
<1>0. Len(s) \in Nat /\ p \in Nat /\ p <= Len(s)
  OBVIOUS
<1>1. a \in Seq(Leaves) /\ Len(a) = p /\ \A j \in 1 .. p : a[j] = s[j]
  BY <1>0
<1>2. z \in Seq(Leaves) /\ Len(z) = Len(s) - p /\ \A j \in 1 .. Len(s) - p : z[j] = s[p + j]
  BY <1>0
<1> HIDE DEF a, z
<1> DEFINE b == a \o <<n>>
<1>3. /\ b \in Seq(Leaves) /\ Len(b) = p + 1
      /\ b[p + 1] = n /\ \A j \in 1 .. p : b[j] = s[j]
  BY <1>0, <1>1
<1> HIDE DEF b
<1>4. /\ b \o z \in Seq(Leaves) /\ Len(b \o z) = Len(s) + 1
      /\ \A j \in 1 .. p + 1 : (b \o z)[j] = b[j]
      /\ \A j \in 1 .. Len(s) + 1 : j > p + 1 => (b \o z)[j] = z[j - (p + 1)]
  BY <1>0, <1>2, <1>3
<1>5. ASSUME NEW j \in 1 .. Len(s) + 1
      PROVE  (b \o z)[j] = IF j <= p THEN s[j] ELSE IF j = p + 1 THEN n ELSE s[j - 1]
  <2>0. j \in Nat /\ j >= 1
    OBVIOUS
  <2>1. CASE j <= p + 1
    <3>1. j \in 1 .. p + 1
      BY <2>0, <2>1, <1>0
    <3>2. (b \o z)[j] = b[j]
      BY <3>1, <1>4
    <3>3. CASE j <= p
      BY <2>0, <3>2, <3>3, <1>0, <1>3
    <3>4. CASE j = p + 1
      BY <3>2, <3>4, <1>0, <1>3
    <3>5. j <= p \/ j = p + 1
      BY <2>0, <2>1, <1>0
    <3> QED BY <3>3, <3>4, <3>5
  <2>2. CASE j > p + 1
    <3>1. (b \o z)[j] = z[j - (p + 1)]
      BY <2>2, <1>4
    <3>2. j - (p + 1) \in 1 .. Len(s) - p /\ p + (j - (p + 1)) = j - 1
      BY <2>2, <1>0
    <3> QED BY <2>2, <3>1, <3>2, <1>0, <1>2
  <2>3. j <= p + 1 \/ j > p + 1
    BY <2>0, <1>0
  <2> QED BY <2>1, <2>2, <2>3
<1> QED BY <1>4, <1>5 DEF a, b, z

LEMMA InsertedFacts ==
    ASSUME candidates \in Seq(Leaves), NEW n \in Leaves
    PROVE  /\ Inserted(n) \in Seq(Leaves) /\ DOMAIN Inserted(n) = 1 .. Len(candidates) + 1
           /\ \E p \in 0 .. Len(candidates) :
                 \A j \in 1 .. Len(candidates) + 1 :
                    Inserted(n)[j] = IF j <= p THEN candidates[j]
                                     ELSE IF j = p + 1 THEN n ELSE candidates[j - 1]
<1> DEFINE S == {i \in DOMAIN candidates : bound[candidates[i]] <= bound[n]}
<1>0. Len(candidates) \in Nat
  OBVIOUS
<1>1. IsFiniteSet(1 .. Len(candidates)) /\ Cardinality(1 .. Len(candidates)) = Len(candidates)
  BY <1>0, FS_Interval
<1>2. S \subseteq 1 .. Len(candidates)
  OBVIOUS
<1> HIDE DEF S
<1>3. Cardinality(S) \in 0 .. Len(candidates)
  <2>1. IsFiniteSet(S) /\ Cardinality(S) <= Len(candidates)
    BY <1>1, <1>2, FS_Subset
  <2> QED BY <1>0, <2>1, FS_CardinalityType
<1> DEFINE p == Cardinality(S)
<1>4. Inserted(n) = SubSeq(candidates, 1, p) \o <<n>> \o SubSeq(candidates, p + 1, Len(candidates))
  BY DEF Inserted, S
<1>5. p \in 0 .. Len(candidates)
  BY <1>3
<1> HIDE DEF p
<1>6. /\ Inserted(n) \in Seq(Leaves) /\ Len(Inserted(n)) = Len(candidates) + 1
      /\ \A j \in 1 .. Len(candidates) + 1 :
            Inserted(n)[j] = IF j <= p THEN candidates[j]
                             ELSE IF j = p + 1 THEN n ELSE candidates[j - 1]
  <2> DEFINE r == SubSeq(candidates, 1, p) \o <<n>> \o SubSeq(candidates, p + 1, Len(candidates))
  <2>1. /\ r \in Seq(Leaves) /\ Len(r) = Len(candidates) + 1
        /\ \A j \in 1 .. Len(candidates) + 1 :
              r[j] = IF j <= p THEN candidates[j] ELSE IF j = p + 1 THEN n ELSE candidates[j - 1]
    BY <1>5, InsertedAt
  <2>2. Inserted(n) = r
    BY <1>4
  <2> HIDE DEF r
  <2> QED BY <2>1, <2>2
<1> QED BY <1>5, <1>6

\* What x is or is a copy of.
Real(x) == IF x.copy THEN Original(x) ELSE x

\* A queue without a copy of one of its own points stands for as many points.
LEMMA RealPoints ==
    ASSUME NEW S \in SUBSET Points, IsFiniteSet(S),
           NEW F \in SUBSET Points, IsFiniteSet(F),
           \A x \in S : IF x.copy THEN Original(x) \in F /\ Original(x) \notin S ELSE x \in F
    PROVE  Cardinality(S) <= Cardinality(F)
<1> DEFINE g == [x \in S |-> Real(x)]
<1>1. g \in [S -> F]
  BY DEF Real
<1>2. \A x, y \in S : g[x] = g[y] => x = y
  <2> SUFFICES ASSUME NEW x \in S, NEW y \in S, Real(x) = Real(y) PROVE x = y
    OBVIOUS
  <2>1. CASE x.copy /\ y.copy
    <3>1. Original(x) = Original(y)
      BY <2>1 DEF Real
    <3>2. [Original(x) EXCEPT !.copy = TRUE] = x /\ [Original(y) EXCEPT !.copy = TRUE] = y
      BY <2>1, CopyFacts
    <3> QED BY <3>1, <3>2
  <2>2. CASE x.copy /\ ~y.copy
    BY <2>2 DEF Real
  <2>3. CASE ~x.copy /\ y.copy
    BY <2>3 DEF Real
  <2>4. CASE ~x.copy /\ ~y.copy
    BY <2>4 DEF Real
  <2> QED BY <2>1, <2>2, <2>3, <2>4
<1> HIDE DEF g
<1>3. g \in Injection(S, F)
  BY <1>1, <1>2 DEF Injection, IsInjective
<1> QED BY <1>3, FS_Injection

LEMMA TreeFacts ==
    /\ Root \in Nodes /\ Root \notin Leaves /\ Leads[Root] = Leaves
    /\ \A l \in Leaves : l \in Nodes /\ Leads[l] = {l}
    /\ \A n \in Nodes : n \notin Leaves => n \in Inner
    /\ \A n \in Nodes : Leads[n] \subseteq Leaves
    /\ \A i \in Inner : /\ Children[i] \subseteq Nodes
                        /\ \A c \in Children[i] : Leads[c] \subseteq Leads[i]
                        /\ \A l \in Leads[i] : \E c \in Children[i] : l \in Leads[c]
                        /\ \A c, d \in Children[i] : c # d => Leads[c] \cap Leads[d] = {}
  BY TreeAssumption DEF Nodes

\* The first candidates of the workers, and those after them, differ.
LEMMA TurnUnique ==
    ASSUME NEW v \in Workers, NEW w \in Workers, NEW i \in Nat, Turn(v, i), Turn(w, i)
    PROVE  v = w
<1>1. PICK m \in Nat : i = v + 1 + m * NumWorkers
  BY DEF Turn
<1>2. PICK n \in Nat : i = w + 1 + n * NumWorkers
  BY DEF Turn
<1>3. v \in Nat /\ w \in Nat /\ v < NumWorkers /\ w < NumWorkers /\ NumWorkers \in Nat
  BY Numbers DEF Workers
<1>4. ASSUME NEW a \in Nat, NEW b \in Nat, a < b
      PROVE  a * NumWorkers + NumWorkers <= b * NumWorkers
  <2>1. b = a + 1 + (b - a - 1) /\ b - a - 1 \in Nat
    BY <1>4
  <2>2. PICK e \in Nat : b = a + 1 + e
    BY <2>1
  <2>3. b * NumWorkers = a * NumWorkers + NumWorkers + e * NumWorkers
    BY <2>2, <1>3
  <2>4. e * NumWorkers \in Nat /\ a * NumWorkers \in Nat
    BY <1>3
  <2> QED BY <2>3, <2>4, <1>3
<1>5. m * NumWorkers \in Nat /\ n * NumWorkers \in Nat
  BY <1>3
<1>6. ~(m < n) /\ ~(n < m)
  BY <1>1, <1>2, <1>3, <1>4, <1>5
<1>7. m = n
  BY <1>6
<1> QED BY <1>1, <1>2, <1>3, <1>5, <1>7

LEMMA NextTurn ==
    ASSUME NEW w \in Workers
    PROVE  /\ Turn(w, w + 1)
           /\ \A i \in Nat : Turn(w, i) => Turn(w, i + NumWorkers)
<1>1. w \in Nat /\ NumWorkers \in Nat
  BY Numbers
<1>2. w + 1 = w + 1 + 0 * NumWorkers
  BY <1>1
<1>3. ASSUME NEW i \in Nat, Turn(w, i)
      PROVE  Turn(w, i + NumWorkers)
  <2>1. PICK m \in Nat : i = w + 1 + m * NumWorkers
    BY <1>3 DEF Turn
  <2>2. i + NumWorkers = w + 1 + (m + 1) * NumWorkers
    BY <2>1, <1>1
  <2> QED BY <2>2 DEF Turn
<1> QED BY <1>2, <1>3 DEF Turn

\* A worker's queue of K points as near as d: so many points were found.
LEMMA QueueIsEnough ==
    ASSUME IInv, phase = "probe", NEW w \in Workers, Cardinality(top[w]) = K,
           NEW d \in Nat, \A x \in top[w] : x.dist <= d
    PROVE  Enough(d)
<1> DEFINE F == {x \in found : x.dist <= d}
<1>1. top[w] \subseteq Points /\ IsFiniteSet(top[w]) /\ found \subseteq Points /\ IsFiniteSet(found)
  BY DEF IInv, TypeOK, FiniteInv
<1>2. F \subseteq Points /\ IsFiniteSet(F)
  BY <1>1, FS_Subset
<1>3. ASSUME NEW x \in top[w]
      PROVE  IF x.copy THEN Original(x) \in F /\ Original(x) \notin top[w] ELSE x \in F
  <2>1. CASE x.copy
    <3>1. Original(x) \in found /\ x.leaf = app
      BY <2>1 DEF IInv, PointsInv
    <3>2. Original(x).dist = x.dist /\ Original(x).leaf = app /\ ~Original(x).copy
      BY <1>1, <3>1, CopyFacts
    <3>3. w # 0
      BY <2>1 DEF IInv, PointsInv
    <3>4. Original(x) \notin top[w]
      BY <3>2, <3>3 DEF IInv, PointsInv
    <3> QED BY <2>1, <3>1, <3>2, <3>4
  <2>2. CASE ~x.copy
    BY <2>2 DEF IInv, PointsInv
  <2> QED BY <2>1, <2>2
<1> HIDE DEF F
<1>4. K <= Cardinality(F)
  BY <1>1, <1>2, <1>3, RealPoints
<1> QED BY <1>2, <1>4, Numbers, FS_CardinalityType DEF Enough, F
-----------------------------------------------------------------------------
(***************************************************************************)
(* The invariant is inductive: one lemma for each action.                  *)
(***************************************************************************)
LEMMA NextTag ==
    ASSUME NEW t \in Nat
    PROVE  Next16(t) \in 0 .. FlagMod - 1
  BY Numbers DEF Next16

LEMMA Marked ==
    ASSUME TypeOK, NEW w \in Workers, NEW t \in 0 .. FlagMod - 1, MarkWith(w, t)
    PROVE  used' \in [Workers -> SUBSET (0 .. FlagMod - 1)] /\ stale' \in BOOLEAN
<1>1. used' \in [Workers -> SUBSET (0 .. FlagMod - 1)]
  BY DEF TypeOK, MarkWith
<1>2. stale' \in BOOLEAN
  BY Zenon DEF TypeOK, MarkWith
<1> QED BY <1>1, <1>2

LEMMA InitInv == Init => IInv
<1> SUFFICES ASSUME Init PROVE IInv
  OBVIOUS
<1> USE DEF Init
<1>1. TypeOK
  <2>1. app \in Leaves /\ bound \in [Nodes -> Dists]
    BY TreeAssumption, Numbers DEF Dists
  <2>2. currFlag \in 0 .. FlagMod - 1 /\ flag \in [Workers -> 0 .. FlagMod - 1]
        /\ used \in [Workers -> SUBSET (0 .. FlagMod - 1)]
    BY Numbers
  <2>3. bsf \in [Workers -> 0 .. FltMax] /\ local \in [Workers -> 0 .. FltMax] /\ kthBsf \in 0 .. FltMax
    BY Numbers
  <2>4. query \in 0 .. MaxQueries /\ candidates \in Seq(Leaves) /\ at \in [Workers -> Nat]
    BY Numbers
  <2> QED BY <2>1, <2>2, <2>3, <2>4 DEF TypeOK
<1>2. FiniteInv /\ PhaseInv /\ TreeInv /\ PointsInv /\ SkipInv /\ KthBound
  BY FS_EmptySet, Numbers DEF FiniteInv, PhaseInv, TreeInv, PointsInv, SkipInv, KthBound, Listed
<1>3. ~FirstFull
  <2>1. {x \in found : x.leaf = app} = {}
    OBVIOUS
  <2> QED BY <2>1, FS_EmptySet, Numbers DEF FirstFull
<1> QED BY <1>1, <1>2, <1>3 DEF IInv, FullInv, KeptInv, CoverInv, AnswersMerged, Answered

LEMMA SearchAppNodeInv == IInv /\ SearchAppNode => IInv'
<1> SUFFICES ASSUME IInv, SearchAppNode PROVE IInv'
  OBVIOUS
<1>1. PICK l \in Leaves, b \in [Nodes -> Dists] :
         /\ app' = l /\ bound' = b
         /\ \E f \in Finds(b, l) :
               /\ Cardinality(DOMAIN f) >= K \/ Next16(currFlag) \in used[0]
               /\ found' = PointsOf(l, f)
               /\ \E T \in Trimmed(PointsOf(l, f)) :
                     /\ top' = [top EXCEPT ![0] = T]
                     /\ kthBsf' = Top(T)
  BY DEF SearchAppNode
<1>2. PICK f \in Finds(b, l) :
         /\ found' = PointsOf(l, f)
         /\ \E T \in Trimmed(PointsOf(l, f)) :
               /\ top' = [top EXCEPT ![0] = T]
               /\ kthBsf' = Top(T)
  BY <1>1
<1>3. PICK T \in Trimmed(PointsOf(l, f)) : top' = [top EXCEPT ![0] = T] /\ kthBsf' = Top(T)
  BY <1>2
<1>4. /\ phase = "idle" /\ phase' = "collect" /\ query' = query + 1 /\ query < MaxQueries
      /\ currFlag' = Next16(currFlag) /\ MarkWith(0, Next16(currFlag))
      /\ pq' = {Root} /\ candidates' = <<>> /\ skipped' = {}
      /\ UNCHANGED <<bsf, pc, at, local, searched, left, results, flag>>
  BY DEF SearchAppNode
<1>5. /\ found' \subseteq Points /\ IsFiniteSet(found') /\ found' # {}
      /\ \A x \in found' : ~x.copy /\ x.leaf = l
  BY <1>2, PointsOfFacts
<1>6. /\ T \subseteq found' /\ IsFiniteSet(T) /\ (Cardinality(found') >= K => Cardinality(T) = K)
      /\ \A y \in found' : y \notin T => \A x \in T : x.dist <= y.dist
      /\ \A y \in found' : \E x \in T : x.dist <= y.dist
  <2> DEFINE Q == PointsOf(l, f)
  <2>1. Q = found'
    BY <1>2
  <2> HIDE DEF Q
  <2>2. T \in Trimmed(Q)
    BY DEF Q
  <2> QED BY <2>1, <2>2, <1>5, TrimmedFacts
<1>7. /\ T # {} /\ T \in SUBSET Points /\ Top(T) \in Dists /\ \A x \in T : x.dist <= Top(T)
  BY <1>5, <1>6, TopIsFarthest
<1>8. top \in [Workers -> SUBSET Points] /\ 0 \in Workers
  BY Numbers DEF IInv, TypeOK
<1>9. top'[0] = T /\ \A w \in Workers \ {0} : top'[w] = {}
  BY <1>3, <1>4, <1>8 DEF IInv, PhaseInv
<1>10. \A w \in Workers : left[w] = {} /\ left'[w] = {} /\ pc'[w] = "read"
  BY <1>4 DEF IInv, PhaseInv
<1>11. TypeOK'
  <2>1. query' \in 0 .. MaxQueries
    BY <1>4, Numbers DEF IInv, TypeOK
  <2>2. phase' \in {"idle", "collect", "probe", "merge"} /\ bound' \in [Nodes -> Dists] /\ app' \in Leaves
    BY <1>1, <1>4
  <2>3. pq' \subseteq Nodes /\ candidates' \in Seq(Leaves) /\ skipped' \subseteq Leaves
    BY <1>4, TreeFacts
  <2>4. kthBsf' \in 0 .. FltMax
    BY <1>3, <1>7, Numbers
  <2>5. top' \in [Workers -> SUBSET Points] /\ found' \subseteq Points
    BY <1>3, <1>5, <1>7, <1>8
  <2>6. Next16(currFlag) \in 0 .. FlagMod - 1
    BY NextTag DEF IInv, TypeOK
  <2>7. used' \in [Workers -> SUBSET (0 .. FlagMod - 1)] /\ stale' \in BOOLEAN
    BY <1>4, <1>8, <2>6, Marked DEF IInv
  <2> QED BY <1>4, <2>1, <2>2, <2>3, <2>4, <2>5, <2>6, <2>7 DEF IInv, TypeOK
<1>12. FiniteInv'
  BY <1>5, <1>6, <1>9, <1>10, FS_EmptySet DEF FiniteInv
<1>13. PhaseInv'
  BY <1>4, <1>7, <1>9, <1>10 DEF PhaseInv
<1>14. TreeInv'
  BY <1>1, <1>4, TreeFacts DEF TreeInv, Listed
<1>15. PointsInv'
  BY <1>1, <1>4, <1>5, <1>6, <1>8, <1>9, <1>10 DEF PointsInv
<1>16. FirstFull' => Cardinality(T) = K
  <2>1. {x \in found' : x.leaf = app'} = found'
    BY <1>1, <1>5
  <2> QED BY <2>1, <1>6 DEF FirstFull
<1>17. FullInv'
  BY <1>4, <1>9, <1>16 DEF FullInv
<1>18. KeptInv'
  BY <1>4, <1>6, <1>9 DEF KeptInv, Behind
<1>19. CoverInv'
  BY <1>4, TreeFacts DEF CoverInv
<1>20. SkipInv'
  BY <1>4 DEF SkipInv
<1>21. KthBound'
  <2> SUFFICES ASSUME FirstFull' PROVE Cardinality({x \in found' : x.dist <= kthBsf'}) >= K
    BY DEF KthBound
  <2> DEFINE N == {x \in found' : x.dist <= kthBsf'}
  <2>1. T \subseteq N /\ N \subseteq found'
    BY <1>3, <1>6, <1>7
  <2> HIDE DEF N
  <2>2. IsFiniteSet(N) /\ Cardinality(T) <= Cardinality(N)
    BY <1>5, <2>1, FS_Subset
  <2> QED BY <1>16, <2>2, Numbers, FS_CardinalityType DEF N
<1>22. AnswersMerged'
  BY <1>4 DEF AnswersMerged, Answered
<1> QED BY <1>11, <1>12, <1>13, <1>14, <1>15, <1>17, <1>18, <1>19, <1>20, <1>21, <1>22 DEF IInv

\* After an insertion, what was listed still is, with the new leaf, and once each.
LEMMA InsertedLists ==
    ASSUME candidates \in Seq(Leaves), NEW n \in Leaves, candidates' = Inserted(n)
    PROVE  /\ \A l : Listed(l)' <=> Listed(l) \/ l = n
           /\ ~Listed(n) /\ (\A i, j \in DOMAIN candidates : candidates[i] = candidates[j] => i = j)
                => \A i, j \in DOMAIN candidates' : candidates'[i] = candidates'[j] => i = j
<1> DEFINE N == Len(candidates)
<1>1. /\ N \in Nat /\ DOMAIN candidates = 1 .. N
      /\ DOMAIN candidates' = 1 .. N + 1
  BY InsertedFacts
<1>2. PICK p \in 0 .. N :
         \A j \in 1 .. N + 1 :
            candidates'[j] = IF j <= p THEN candidates[j]
                             ELSE IF j = p + 1 THEN n ELSE candidates[j - 1]
  BY InsertedFacts
<1> HIDE DEF N
<1>3. /\ \A j \in 1 .. N + 1 : j <= p => j \in 1 .. N /\ candidates'[j] = candidates[j]
      /\ p + 1 \in 1 .. N + 1 /\ candidates'[p + 1] = n
      /\ \A j \in 1 .. N + 1 : j > p + 1 => j - 1 \in 1 .. N /\ candidates'[j] = candidates[j - 1]
      /\ \A j \in 1 .. N + 1 : j <= p \/ j = p + 1 \/ j > p + 1
  BY <1>1, <1>2
<1>4. ASSUME NEW l PROVE Listed(l)' => Listed(l) \/ l = n
  <2> SUFFICES ASSUME NEW j \in 1 .. N + 1, candidates'[j] = l PROVE Listed(l) \/ l = n
    BY <1>1 DEF Listed
  <2> QED BY <1>1, <1>3 DEF Listed
<1>5. ASSUME NEW l, Listed(l) \/ l = n PROVE Listed(l)'
  <2>1. CASE l = n
    BY <2>1, <1>1, <1>3 DEF Listed
  <2>2. CASE Listed(l)
    <3>1. PICK i \in 1 .. N : candidates[i] = l
      BY <2>2, <1>1 DEF Listed
    <3>2. CASE i <= p
      <4>1. i \in 1 .. N + 1
        BY <1>1
      <4> QED BY <3>1, <3>2, <4>1, <1>1, <1>3 DEF Listed
    <3>3. CASE ~(i <= p)
      <4>1. i + 1 \in 1 .. N + 1 /\ i + 1 > p + 1 /\ (i + 1) - 1 = i
        BY <3>3, <1>1
      <4>2. candidates'[i + 1] = l
        BY <3>1, <4>1, <1>3
      <4> QED BY <4>1, <4>2, <1>1 DEF Listed
    <3> QED BY <3>2, <3>3
  <2> QED BY <1>5, <2>1, <2>2
<1>6. ASSUME ~Listed(n), \A i, j \in DOMAIN candidates : candidates[i] = candidates[j] => i = j,
             NEW i \in 1 .. N + 1, NEW j \in 1 .. N + 1, candidates'[i] = candidates'[j]
      PROVE  i = j
  <2>1. \A k \in 1 .. N : candidates[k] # n
    BY <1>1, <1>6 DEF Listed
  <2>2. \A h, k \in 1 .. N : candidates[h] = candidates[k] => h = k
    BY <1>1, <1>6
  <2>3. CASE i <= p /\ j <= p
    BY <2>2, <2>3, <1>3, <1>6
  <2>4. CASE i <= p /\ j > p + 1
    <3>1. i = j - 1
      BY <2>2, <2>4, <1>3, <1>6
    <3> QED BY <2>4, <3>1
  <2>5. CASE i > p + 1 /\ j <= p
    <3>1. i - 1 = j
      BY <2>2, <2>5, <1>3, <1>6
    <3> QED BY <2>5, <3>1
  <2>6. CASE i > p + 1 /\ j > p + 1
    <3>1. i - 1 = j - 1
      BY <2>2, <2>6, <1>3, <1>6
    <3> QED BY <3>1
  <2>7. CASE i = p + 1 \/ j = p + 1
    BY <2>1, <2>7, <1>3, <1>6
  <2> QED BY <2>3, <2>4, <2>5, <2>6, <2>7, <1>3
<1> QED BY <1>1, <1>4, <1>5, <1>6

LEMMA PopNodeInv == ASSUME NEW n \in Nodes PROVE IInv /\ PopNode(n) => IInv'
<1> SUFFICES ASSUME IInv, PopNode(n) PROVE IInv'
  OBVIOUS
<1>1. /\ phase = "collect" /\ n \in pq /\ bound[n] <= kthBsf
      /\ UNCHANGED <<query, phase, bound, app, workerVars, left, results, flagVars, found, skipped>>
  BY DEF PopNode
<1>2. UNCHANGED <<kthBsf, top, bsf, pc, at, local, searched, currFlag, flag, used, stale>>
  BY <1>1 DEF workerVars, flagVars
<1>3. CASE n \in Leaves
  <2>1. candidates' = Inserted(n) /\ pq' = pq \ {n}
    BY <1>3 DEF PopNode
  <2>2. candidates \in Seq(Leaves) /\ Leads[n] = {n}
    BY <1>3, TreeFacts DEF IInv, TypeOK
  <2>3. n # app /\ ~Listed(n)
    BY <1>1, <2>2 DEF IInv, TreeInv
  <2>4. \A l : Listed(l)' <=> Listed(l) \/ l = n
    BY <1>3, <2>1, <2>2, InsertedLists
  <2>5. candidates' \in Seq(Leaves) /\ pq' \subseteq Nodes
    BY <1>3, <2>1, <2>2, InsertedFacts DEF IInv, TypeOK
  <2>6. TreeInv'
    <3>1. \A i, j \in DOMAIN candidates' : candidates'[i] = candidates'[j] => i = j
      BY <1>3, <2>1, <2>2, <2>3, InsertedLists DEF IInv, TreeInv
    <3>2. \A m \in pq' : n \notin Leads[m]
      BY <1>1, <2>1, <2>2 DEF IInv, TreeInv
    <3>3. app' \notin pq' /\ ~Listed(app)'
      BY <1>1, <2>1, <2>3, <2>4 DEF IInv, TreeInv
    <3>4. \A m \in pq' : \A l \in Leads[m] : ~Listed(l)'
      BY <2>1, <2>4, <3>2 DEF IInv, TreeInv
    <3>5. \A h, m \in pq' : h # m => Leads[h] \cap Leads[m] = {}
      BY <2>1 DEF IInv, TreeInv
    <3> QED BY <3>1, <3>3, <3>4, <3>5 DEF TreeInv
  <2>7. CoverInv'
    <3> SUFFICES ASSUME FirstFull', NEW l \in Leaves \ {app'}
                 PROVE  \/ Listed(l)'
                        \/ \E m \in pq' : l \in Leads[m]
                        \/ \E m \in Nodes : l \in Leads[m] /\ bound'[m] >= kthBsf'
      BY <1>1 DEF CoverInv
    <3>1. \/ Listed(l)
          \/ \E m \in pq : l \in Leads[m]
          \/ \E m \in Nodes : l \in Leads[m] /\ bound[m] >= kthBsf
      BY <1>1 DEF IInv, CoverInv, FirstFull
    <3>2. l \in Leads[n] => l = n
      BY <2>2
    <3> QED BY <1>1, <1>2, <2>1, <2>4, <3>1, <3>2
  <2> QED BY <1>1, <1>2, <2>5, <2>6, <2>7
     DEF IInv, TypeOK, FiniteInv, PhaseInv, PointsInv, FullInv, KeptInv, SkipInv, KthBound,
         AnswersMerged, FirstFull, Behind, Answered, MayHold
<1>4. CASE n \notin Leaves
  <2> DEFINE new == {c \in Children[n] : Worthwhile(c) /\ c # app}
  <2>1. n \in Inner /\ new \subseteq Children[n]
    BY <1>4, TreeFacts
  <2>2. pq' = (pq \ {n}) \cup new /\ candidates' = candidates
    BY <1>4 DEF PopNode
  <2>3. /\ Children[n] \subseteq Nodes
        /\ \A c \in Children[n] : Leads[c] \subseteq Leads[n]
        /\ \A l \in Leads[n] : \E c \in Children[n] : l \in Leads[c]
        /\ \A c, d \in Children[n] : c # d => Leads[c] \cap Leads[d] = {}
    BY <2>1, TreeFacts
  <2>4. \A l : Listed(l)' <=> Listed(l)
    BY <2>2 DEF Listed
  <2>5. pq' \subseteq Nodes
    BY <2>1, <2>2, <2>3 DEF IInv, TypeOK
  <2>6. TreeInv'
    <3>1. app' \notin pq'
      BY <1>1, <2>2 DEF IInv, TreeInv
    <3>2. ~Listed(app)'
      BY <1>1, <2>2 DEF IInv, TreeInv, Listed
    <3>3. \A m \in pq' : \A l \in Leads[m] : ~Listed(l)'
      <4> TAKE m \in pq'
      <4>1. CASE m \in new
        BY <4>1, <1>1, <2>1, <2>3, <2>4 DEF IInv, TreeInv
      <4>2. CASE m \notin new
        BY <4>2, <2>2, <2>4 DEF IInv, TreeInv
      <4> QED BY <4>1, <4>2
    <3>4. ASSUME NEW h \in pq', NEW m \in pq', h # m
          PROVE  Leads[h] \cap Leads[m] = {}
      <4>1. CASE h \in new /\ m \in new
        BY <3>4, <4>1, <2>1, <2>3
      <4>2. CASE h \in new /\ m \notin new
        <5>1. Leads[h] \subseteq Leads[n] /\ m \in pq /\ m # n
          BY <4>2, <2>1, <2>2, <2>3
        <5> QED BY <5>1, <1>1 DEF IInv, TreeInv
      <4>3. CASE h \notin new /\ m \in new
        <5>1. Leads[m] \subseteq Leads[n] /\ h \in pq /\ h # n
          BY <4>3, <2>1, <2>2, <2>3
        <5> QED BY <5>1, <1>1 DEF IInv, TreeInv
      <4>4. CASE h \notin new /\ m \notin new
        BY <3>4, <4>4, <2>2 DEF IInv, TreeInv
      <4> QED BY <4>1, <4>2, <4>3, <4>4
    <3> QED BY <2>2, <3>1, <3>2, <3>3, <3>4 DEF IInv, TreeInv
  <2>7. CoverInv'
    <3> SUFFICES ASSUME FirstFull', NEW l \in Leaves \ {app'}
                 PROVE  \/ Listed(l)'
                        \/ \E m \in pq' : l \in Leads[m]
                        \/ \E m \in Nodes : l \in Leads[m] /\ bound'[m] >= kthBsf'
      BY <1>1 DEF CoverInv
    <3>1. \/ Listed(l)
          \/ \E m \in pq : l \in Leads[m]
          \/ \E m \in Nodes : l \in Leads[m] /\ bound[m] >= kthBsf
      BY <1>1 DEF IInv, CoverInv, FirstFull
    <3>2. CASE l \in Leads[n]
      <4>1. PICK c \in Children[n] : l \in Leads[c]
        BY <3>2, <2>3
      <4>2. c # app
        <5>1. app \in Leaves
          BY DEF IInv, TypeOK
        <5>2. Leads[app] = {app}
          BY <5>1, TreeFacts
        <5> QED BY <4>1, <5>2, <1>1
      <4>3. CASE Worthwhile(c)
        BY <4>1, <4>2, <4>3, <2>2
      <4>4. CASE ~Worthwhile(c)
        <5>1. c \in Nodes /\ bound[c] \in Nat /\ kthBsf \in Nat
          <6>1. c \in Nodes
            BY <4>1, <2>3
          <6>2. bound[c] \in Dists /\ kthBsf \in 0 .. FltMax
            BY <6>1 DEF IInv, TypeOK
          <6>3. Dists \subseteq Nat /\ FltMax \in Nat
            BY Numbers
          <6>4. kthBsf \in Nat
            BY <6>2, <6>3
          <6> QED BY <6>1, <6>2, <6>3, <6>4
        <5>2. bound[c] >= kthBsf
          BY <4>4, <5>1 DEF Worthwhile
        <5> QED BY <4>1, <5>1, <5>2, <1>1, <1>2
      <4> QED BY <4>3, <4>4
    <3>3. CASE l \notin Leads[n]
      BY <3>1, <3>3, <1>1, <1>2, <2>2, <2>4
    <3> QED BY <3>2, <3>3
  <2> QED BY <1>1, <1>2, <2>2, <2>5, <2>6, <2>7
     DEF IInv, TypeOK, FiniteInv, PhaseInv, PointsInv, FullInv, KeptInv, SkipInv, KthBound,
         AnswersMerged, FirstFull, Behind, Answered, MayHold
<1> QED BY <1>3, <1>4

LEMMA StartWorkersInv == IInv /\ StartWorkers => IInv'
<1> SUFFICES ASSUME IInv, StartWorkers PROVE IInv'
  OBVIOUS
<1> DEFINE copies == {[x EXCEPT !.copy = TRUE] : x \in top[0]}
<1>1. /\ phase = "collect" /\ phase' = "probe"
      /\ \A n \in pq : bound[n] > kthBsf
      /\ pq' = {} /\ searched' = {}
      /\ top' = [w \in Workers |-> IF w = 0 THEN top[0] ELSE copies]
      /\ bsf' = [w \in Workers |-> FltMax]
      /\ flag' = [flag EXCEPT ![0] = currFlag]
      /\ pc' = [w \in Workers |-> "read"] /\ at' = [w \in Workers |-> w + 1]
      /\ UNCHANGED <<query, bound, app, candidates, kthBsf, local, left, results, currFlag, used,
                     stale, found, skipped>>
  BY DEF StartWorkers
<1>2. /\ top[0] \subseteq Points /\ IsFiniteSet(top[0]) /\ top[0] # {} /\ top[0] \subseteq found
      /\ \A x \in top[0] : ~x.copy /\ x.leaf = app
  BY <1>1, Numbers DEF IInv, TypeOK, FiniteInv, PhaseInv, PointsInv
<1>3. /\ copies \subseteq Points /\ IsFiniteSet(copies) /\ Cardinality(copies) = Cardinality(top[0])
      /\ copies # {} /\ \A c \in copies : c.copy /\ Original(c) \in top[0]
  BY <1>2, CopiesFacts
<1>4. \A c \in copies : c.leaf = app
  <2> TAKE c \in copies
  <2>1. Original(c).leaf = c.leaf
    BY <1>3, CopyFacts
  <2> QED BY <2>1, <1>2, <1>3
<1> HIDE DEF copies
<1>5. 0 \in Workers /\ top'[0] = top[0] /\ \A w \in Workers \ {0} : top'[w] = copies
  BY <1>1, Numbers
<1>6. TypeOK'
  <2>1. top' \in [Workers -> SUBSET Points]
    BY <1>1, <1>2, <1>3
  <2>2. bsf' \in [Workers -> 0 .. FltMax] /\ at' \in [Workers -> Nat]
    BY <1>1, Numbers
  <2>3. flag' \in [Workers -> 0 .. FlagMod - 1]
    BY <1>1 DEF IInv, TypeOK
  <2> QED BY <1>1, <2>1, <2>2, <2>3 DEF IInv, TypeOK
<1>7. FiniteInv'
  BY <1>1, <1>2, <1>3, <1>5 DEF IInv, FiniteInv
<1>8. PhaseInv'
  BY <1>1, <1>2, <1>3, <1>5, NextTurn DEF IInv, PhaseInv
<1>9. TreeInv'
  BY <1>1 DEF IInv, TreeInv, Listed
<1>10. PointsInv'
  <2>1. ASSUME NEW w \in Workers, NEW x \in top'[w]
        PROVE  IF x.copy THEN Original(x) \in found' /\ x.leaf = app'
               ELSE x \in found' /\ (x.leaf = app' /\ w = 0)
    BY <2>1, <1>1, <1>2, <1>3, <1>4, <1>5
  <2>2. \A w \in Workers : left'[w] = {}
    BY <1>1 DEF IInv, PhaseInv
  <2>3. \A w \in Workers \ {0} : \A x \in top'[w] : x.copy
    BY <1>3, <1>5
  <2>4. top'[0] \subseteq found' /\ \A x \in found' : ~x.copy
    BY <1>1, <1>2, <1>5 DEF IInv, PointsInv
  <2> QED BY <1>1, <1>5, <2>1, <2>2, <2>3, <2>4 DEF PointsInv
<1>11. FullInv'
  BY <1>1, <1>3, <1>5 DEF IInv, FullInv, FirstFull
<1>12. KeptInv'
  <2> SUFFICES ASSUME FirstFull'
               PROVE  /\ \A y \in found : \E w \in Workers : y \in top'[w] \/ Behind(w, y)'
                      /\ \A w \in Workers : \A x \in top'[w] :
                            x.copy => Original(x) \in top'[0] \/ Behind(0, x)'
    BY <1>1 DEF KeptInv
  <2>1. \A y \in found : y \in top'[0] \/ Behind(0, y)'
    BY <1>1, <1>5 DEF IInv, KeptInv, FirstFull, Behind
  <2>2. \A w \in Workers : \A x \in top'[w] : x.copy => Original(x) \in top'[0]
    BY <1>2, <1>3, <1>5
  <2> QED BY <1>5, <2>1, <2>2
<1>13. CoverInv'
  <2> SUFFICES ASSUME FirstFull', NEW l \in Leaves \ {app}, NEW d \in Dists,
                      ~Listed(l), MayHold(bound, l, d)
               PROVE  Enough(d)
    BY <1>1 DEF CoverInv, Listed, Enough
  <2>1. PICK n \in Nodes : l \in Leads[n] /\ bound[n] >= kthBsf
    <3>1. \/ \E n \in pq : l \in Leads[n]
          \/ \E n \in Nodes : l \in Leads[n] /\ bound[n] >= kthBsf
      BY <1>1 DEF IInv, CoverInv, FirstFull
    <3>2. \A n \in pq : n \in Nodes /\ bound[n] >= kthBsf
      <4> TAKE n \in pq
      <4>1. n \in Nodes
        BY DEF IInv, TypeOK
      <4>2. bound[n] \in Dists /\ kthBsf \in 0 .. FltMax
        BY <4>1 DEF IInv, TypeOK
      <4>3. bound[n] \in Nat /\ kthBsf \in Nat
        <5>1. Dists \subseteq Nat /\ FltMax \in Nat
          BY Numbers
        <5>2. kthBsf \in Nat
          BY <4>2, <5>1
        <5> QED BY <4>2, <5>1, <5>2
      <4> QED BY <4>1, <4>3, <1>1
    <3> QED BY <3>1, <3>2
  <2>2. kthBsf <= d
    <3>1. bound[n] \in Dists /\ kthBsf \in 0 .. FltMax
      BY <2>1 DEF IInv, TypeOK
    <3>2. bound[n] \in Nat /\ d \in Nat
      BY <3>1, Numbers
    <3>3. bound[n] <= d
      BY <2>1 DEF MayHold
    <3> QED BY <2>1, <3>1, <3>2, <3>3
  <2> DEFINE A == {x \in found : x.dist <= kthBsf}
             B == {x \in found : x.dist <= d}
  <2>3. Cardinality(A) >= K
    BY <1>1 DEF IInv, KthBound, FirstFull
  <2>4. found \subseteq Points /\ IsFiniteSet(found) /\ kthBsf \in 0 .. FltMax /\ d \in Nat
    BY Numbers DEF IInv, TypeOK, FiniteInv
  <2>5. A \subseteq B /\ B \subseteq found
    <3> SUFFICES ASSUME NEW x \in found, x.dist <= kthBsf PROVE x.dist <= d
      OBVIOUS
    <3>1. x.dist \in Nat
      BY <2>4, PointTypes
    <3> QED BY <3>1, <2>2, <2>4
  <2> HIDE DEF A, B
  <2>6. IsFiniteSet(B) /\ IsFiniteSet(A) /\ Cardinality(A) <= Cardinality(B)
    BY <2>4, <2>5, FS_Subset
  <2>7. Cardinality(A) \in Nat /\ Cardinality(B) \in Nat
    BY <2>6, FS_CardinalityType
  <2> QED BY <2>3, <2>6, <2>7, Numbers DEF Enough, B
<1>14. SkipInv'
  <2>1. \A w \in Workers : ~(bsf'[w] < FltMax)
    BY <1>1, Numbers
  <2> QED BY <1>1, <2>1 DEF IInv, SkipInv, MayHold
<1>15. KthBound' /\ AnswersMerged'
  BY <1>1 DEF IInv, KthBound, FirstFull, AnswersMerged, Answered
<1> QED BY <1>6, <1>7, <1>8, <1>9, <1>10, <1>11, <1>12, <1>13, <1>14, <1>15 DEF IInv

LEMMA ReadBsfInv == ASSUME NEW w \in Workers PROVE IInv /\ ReadBsf(w) => IInv'
<1> SUFFICES ASSUME IInv, ReadBsf(w) PROVE IInv'
  OBVIOUS
<1>1. /\ phase = "probe" /\ at[w] \in Tasks
      /\ local' = [local EXCEPT ![w] = kthBsf]
      /\ pc' = [pc EXCEPT ![w] = "search"]
      /\ UNCHANGED <<query, phase, bound, app, pq, candidates, kthBsf, top, bsf, at, searched, left,
                     results, currFlag, flag, used, stale, found, skipped>>
  BY DEF ReadBsf, treeVars, flagVars
<1>2. TypeOK'
  BY <1>1 DEF IInv, TypeOK
<1>3. PhaseInv'
  BY <1>1 DEF IInv, TypeOK, PhaseInv, Tasks
<1> QED BY <1>1, <1>2, <1>3
     DEF IInv, FiniteInv, TreeInv, PointsInv, FullInv, KeptInv, CoverInv, SkipInv, KthBound,
         AnswersMerged, FirstFull, Behind, BehindLeft, Answered, MayHold, Listed, Owned, Enough

\* The step to the next round, whatever happened in this one.
LEMMA ContinuePhase ==
    ASSUME IInv, NEW w \in Workers, phase = "probe", Continue(w),
           UNCHANGED <<phase, candidates, left>>, NEW T, T # {}, top' = [top EXCEPT ![w] = T]
    PROVE  /\ PhaseInv'
           /\ pc' \in [Workers -> {"read", "search", "write"}]
           /\ at' \in [Workers -> Nat] /\ local' \in [Workers -> 0 .. FltMax]
<1>1. /\ pc' = [pc EXCEPT ![w] = "read"] /\ at' = [at EXCEPT ![w] = @ + NumWorkers]
      /\ local' = [local EXCEPT ![w] = FltMax]
  BY DEF Continue
<1>2. /\ pc' \in [Workers -> {"read", "search", "write"}]
      /\ at' \in [Workers -> Nat] /\ local' \in [Workers -> 0 .. FltMax]
  <2>1. /\ pc \in [Workers -> {"read", "search", "write"}]
        /\ at \in [Workers -> Nat] /\ local \in [Workers -> 0 .. FltMax]
    BY DEF IInv, TypeOK
  <2>2. pc' \in [Workers -> {"read", "search", "write"}]
    BY <1>1, <2>1
  <2>3. at[w] + NumWorkers \in Nat /\ FltMax \in 0 .. FltMax
    BY <2>1, Numbers
  <2>4. at' \in [Workers -> Nat] /\ local' \in [Workers -> 0 .. FltMax]
    BY <1>1, <2>1, <2>3
  <2> QED BY <2>2, <2>4
<1>3. \A v \in Workers : /\ v = w => at'[v] = at[v] + NumWorkers
                         /\ v # w => at'[v] = at[v] /\ pc'[v] = pc[v] /\ top'[v] = top[v]
                         /\ at[v] \in Nat /\ top'[w] = T /\ pc'[w] = "read"
  BY <1>1 DEF IInv, TypeOK
<1>4. \A v \in Workers : Turn(v, at'[v]) /\ top'[v] # {}
  BY <1>3, NextTurn DEF IInv, PhaseInv
<1>5. \A v \in Workers : pc'[v] # "read" => at'[v] \in Tasks'
  BY <1>3 DEF IInv, PhaseInv, Tasks
<1> QED BY <1>2, <1>4, <1>5, Numbers DEF IInv, PhaseInv

LEMMA SkipLeafInv == ASSUME NEW w \in Workers PROVE IInv /\ SkipLeaf(w) => IInv'
<1> SUFFICES ASSUME IInv, SkipLeaf(w) PROVE IInv'
  OBVIOUS
<1> DEFINE L == Leaf(w)
<1>1. /\ pc[w] = "search" /\ bound[L] > bsf[w] /\ skipped' = skipped \cup {L} /\ Continue(w)
      /\ UNCHANGED <<query, phase, bound, app, pq, candidates, kthBsf, top, bsf, searched, left,
                     results, currFlag, flag, used, stale, found>>
  BY DEF SkipLeaf, treeVars, flagVars
<1>2. phase = "probe" /\ at[w] \in Tasks /\ top[w] # {}
  BY <1>1 DEF IInv, PhaseInv
<1>3. L \in Leaves
  BY <1>2, Numbers DEF IInv, TypeOK, Tasks, Leaf
<1>4. top' = [top EXCEPT ![w] = top[w]] /\ top[w] \subseteq Points
  BY <1>1 DEF IInv, TypeOK
<1>5. /\ PhaseInv'
      /\ pc' \in [Workers -> {"read", "search", "write"}]
      /\ at' \in [Workers -> Nat] /\ local' \in [Workers -> 0 .. FltMax]
  BY <1>1, <1>2, <1>4, ContinuePhase
<1>6. TypeOK'
  BY <1>1, <1>3, <1>5 DEF IInv, TypeOK
<1>7. SkipInv'
  <2>1. ASSUME NEW d \in Dists, MayHold(bound, L, d)
        PROVE  \E x \in found : x.dist <= d
    <3>1. L \in Nodes /\ L \in Leads[L]
      BY <1>3, TreeFacts
    <3>2. bound[L] <= d
      BY <2>1, <3>1 DEF MayHold
    <3>3. bound[L] \in Dists /\ bsf[w] \in 0 .. FltMax
      BY <3>1 DEF IInv, TypeOK
    <3>4. bound[L] < FltMax /\ bound[L] \in Nat /\ d \in Nat /\ FltMax \in Nat
      BY <3>3, Numbers
    <3>5. bsf[w] < FltMax /\ bsf[w] < d
      BY <1>1, <3>2, <3>3, <3>4
    <3>6. PICK x \in top[w] : x.dist <= bsf[w]
      BY <1>2, <3>5 DEF IInv, SkipInv
    <3>7. x \in Points /\ x.dist \in Nat /\ x.dist <= d
      <4>1. x \in Points
        BY <1>4
      <4>2. x.dist \in Nat
        BY <4>1, PointTypes
      <4> QED BY <4>1, <4>2, <3>3, <3>4, <3>5, <3>6
    <3>8. CASE x.copy
      <4>1. Original(x) \in found
        BY <3>8 DEF IInv, PointsInv
      <4>2. Original(x).dist = x.dist
        BY <3>7, CopyFacts
      <4> QED BY <3>7, <4>1, <4>2
    <3>9. CASE ~x.copy
      BY <3>7, <3>9 DEF IInv, PointsInv
    <3> QED BY <3>8, <3>9
  <2>2. ASSUME NEW l \in skipped', NEW d \in Dists, MayHold(bound, l, d)
        PROVE  \E x \in found : x.dist <= d
    BY <1>1, <2>1, <2>2 DEF IInv, SkipInv
  <2> QED BY <1>1, <2>2 DEF IInv, SkipInv, MayHold
<1> QED BY <1>1, <1>5, <1>6, <1>7
     DEF IInv, FiniteInv, TreeInv, PointsInv, FullInv, KeptInv, CoverInv, KthBound,
         AnswersMerged, FirstFull, Behind, BehindLeft, Answered, MayHold, Listed, Owned, Enough

LEMMA WriteBsfInv == ASSUME NEW w \in Workers PROVE IInv /\ WriteBsf(w) => IInv'
<1> SUFFICES ASSUME IInv, WriteBsf(w) PROVE IInv'
  OBVIOUS
<1>1. /\ pc[w] = "write" /\ kthBsf' = Top(top[w]) /\ Continue(w)
      /\ UNCHANGED <<query, phase, bound, app, pq, candidates, top, bsf, searched, left,
                     results, currFlag, flag, used, stale, found, skipped>>
  BY DEF WriteBsf, treeVars, flagVars
<1>2. phase = "probe" /\ top[w] # {} /\ top[w] \subseteq Points
  BY <1>1 DEF IInv, TypeOK, PhaseInv
<1>3. Top(top[w]) \in Dists /\ \A x \in top[w] : x.dist <= Top(top[w])
  BY <1>2, TopIsFarthest
<1>4. top' = [top EXCEPT ![w] = top[w]]
  BY <1>1 DEF IInv, TypeOK
<1>5. /\ PhaseInv'
      /\ pc' \in [Workers -> {"read", "search", "write"}]
      /\ at' \in [Workers -> Nat] /\ local' \in [Workers -> 0 .. FltMax]
  BY <1>1, <1>2, <1>4, ContinuePhase
<1>6. TypeOK'
  BY <1>1, <1>3, <1>5, Numbers DEF IInv, TypeOK
<1>7. KthBound'
  <2> SUFFICES ASSUME FirstFull PROVE Enough(kthBsf')
    BY <1>1 DEF KthBound, FirstFull, Enough
  <2>1. Cardinality(top[w]) = K /\ Top(top[w]) \in Nat
    BY <1>2, <1>3, Numbers DEF IInv, FullInv
  <2> QED BY <1>1, <1>2, <1>3, <2>1, QueueIsEnough
<1>8. CoverInv'
  BY <1>1, <1>2 DEF IInv, CoverInv, FirstFull, Listed, MayHold, Enough
<1>9. FiniteInv' /\ TreeInv' /\ PointsInv'
  BY <1>1 DEF IInv, FiniteInv, TreeInv, PointsInv, Listed, Owned
<1>10. FullInv' /\ KeptInv'
  BY <1>1 DEF IInv, FullInv, KeptInv, FirstFull, Behind, BehindLeft
<1>11. SkipInv' /\ AnswersMerged'
  BY <1>1, <1>2 DEF IInv, SkipInv, MayHold, AnswersMerged, Answered
<1> QED BY <1>5, <1>6, <1>7, <1>8, <1>9, <1>10, <1>11 DEF IInv

LEMMA SearchLeafInv == ASSUME NEW w \in Workers PROVE IInv /\ SearchLeaf(w) => IInv'
<1> SUFFICES ASSUME IInv, SearchLeaf(w) PROVE IInv'
  OBVIOUS
<1> DEFINE L == Leaf(w)
<1>1. /\ pc[w] = "search" /\ searched' = searched \cup {w}
      /\ flag' = [flag EXCEPT ![w] = Next16(@)] /\ MarkWith(w, Next16(flag[w]))
      /\ UNCHANGED <<query, phase, bound, app, pq, candidates, kthBsf, left, results, currFlag, skipped>>
  BY DEF SearchLeaf, treeVars
<1>2. PICK f \in Finds(bound, L) :
         /\ found' = found \cup PointsOf(L, f)
         /\ \E T \in Trimmed(top[w] \cup PointsOf(L, f)),
               c \in BsfAfter(w, L, f, top[w] \cup PointsOf(L, f)) :
               /\ top' = [top EXCEPT ![w] = T]
               /\ bsf' = [bsf EXCEPT ![w] = c]
               /\ IF Top(T) < local[w]
                  THEN pc' = [pc EXCEPT ![w] = "write"] /\ UNCHANGED <<at, local>>
                  ELSE Continue(w)
  BY DEF SearchLeaf
<1> DEFINE new == PointsOf(L, f)
           Q == top[w] \cup new
<1>3. PICK T \in Trimmed(Q), c \in BsfAfter(w, L, f, Q) :
         /\ top' = [top EXCEPT ![w] = T]
         /\ bsf' = [bsf EXCEPT ![w] = c]
         /\ IF Top(T) < local[w]
            THEN pc' = [pc EXCEPT ![w] = "write"] /\ UNCHANGED <<at, local>>
            ELSE Continue(w)
  BY <1>2
<1>4. /\ phase = "probe" /\ at[w] \in Tasks /\ Turn(w, at[w])
      /\ top[w] # {} /\ top[w] \subseteq Points /\ IsFiniteSet(top[w])
      /\ found \subseteq Points /\ IsFiniteSet(found)
  BY <1>1 DEF IInv, TypeOK, FiniteInv, PhaseInv
<1>5. at[w] \in DOMAIN candidates /\ L \in Leaves /\ L # app /\ Owned(w, L)
  <2>1. at[w] \in DOMAIN candidates
    BY <1>4, Numbers DEF IInv, TypeOK, Tasks
  <2> QED BY <2>1, <1>4 DEF IInv, TypeOK, TreeInv, Leaf, Owned, Listed
<1>6. /\ new \subseteq Points /\ IsFiniteSet(new)
      /\ \A x \in new : ~x.copy /\ x.leaf = L
  BY <1>2, <1>5, PointsOfFacts
<1> HIDE DEF new, L
<1>7. Q \in SUBSET Points /\ IsFiniteSet(Q) /\ top[w] \subseteq Q /\ new \subseteq Q
  BY <1>4, <1>6, FS_Union
<1> HIDE DEF Q
<1>8. /\ T \subseteq Q /\ IsFiniteSet(T)
      /\ Cardinality(Q) >= K => Cardinality(T) = K
      /\ \A y \in Q \ T : \A x \in T : x.dist <= y.dist
      /\ \A y \in Q : \E x \in T : x.dist <= y.dist
  BY <1>3, <1>7, TrimmedFacts
<1>9. T # {} /\ T \in SUBSET Points
  BY <1>4, <1>7, <1>8
<1>10. found' = found \cup new /\ found' \subseteq Points /\ IsFiniteSet(found')
  BY <1>2, <1>4, <1>6, FS_Union DEF new
<1>11. top'[w] = T /\ \A v \in Workers \ {w} : top'[v] = top[v]
  BY <1>3 DEF IInv, TypeOK
<1>12. FirstFull' = FirstFull
  <2>1. {x \in found' : x.leaf = app'} = {x \in found : x.leaf = app}
    BY <1>1, <1>5, <1>6, <1>10
  <2> QED BY <2>1 DEF FirstFull
<1>13. /\ PhaseInv'
       /\ pc' \in [Workers -> {"read", "search", "write"}]
       /\ at' \in [Workers -> Nat] /\ local' \in [Workers -> 0 .. FltMax]
  <2>1. CASE Top(T) < local[w]
    <3>1. pc' = [pc EXCEPT ![w] = "write"] /\ UNCHANGED <<at, local>>
      BY <2>1, <1>3
    <3>2. \A v \in Workers : top'[v] # {}
      BY <1>4, <1>9, <1>11 DEF IInv, PhaseInv
    <3> QED BY <3>1, <3>2, <1>1, <1>4, Numbers DEF IInv, TypeOK, PhaseInv, Tasks
  <2>2. CASE ~(Top(T) < local[w])
    BY <2>2, <1>1, <1>3, <1>4, <1>9, ContinuePhase
  <2> QED BY <2>1, <2>2
<1>14. c \in 0 .. FltMax /\ \E x \in Q : x.dist <= c
  <2>1. c \in 0 .. bsf[w] /\ \E x \in Q : x.dist <= c
    BY DEF BsfAfter
  <2>2. bsf[w] \in 0 .. FltMax
    BY DEF IInv, TypeOK
  <2> QED BY <2>1, <2>2, Numbers
<1>15. TypeOK'
  <2>1. flag[w] \in Nat
    BY Numbers DEF IInv, TypeOK
  <2>2. Next16(flag[w]) \in 0 .. FlagMod - 1
    BY <2>1, NextTag
  <2>3. used' \in [Workers -> SUBSET (0 .. FlagMod - 1)] /\ stale' \in BOOLEAN
    BY <1>1, <2>2, Marked DEF IInv
  <2>4. flag' \in [Workers -> 0 .. FlagMod - 1]
    BY <1>1, <2>2 DEF IInv, TypeOK
  <2>5. top' \in [Workers -> SUBSET Points] /\ bsf' \in [Workers -> 0 .. FltMax]
        /\ searched' \subseteq Workers
    BY <1>1, <1>3, <1>9, <1>14 DEF IInv, TypeOK
  <2> QED BY <1>1, <1>10, <1>13, <2>3, <2>4, <2>5 DEF IInv, TypeOK
<1>16. FiniteInv'
  BY <1>1, <1>8, <1>10, <1>11 DEF IInv, FiniteInv
<1>17. TreeInv'
  BY <1>1 DEF IInv, TreeInv, Listed
<1>18. PointsInv'
  <2>1. \A x \in found' : ~x.copy
    BY <1>6, <1>10 DEF IInv, PointsInv
  <2>2. ASSUME NEW v \in Workers, NEW x \in top'[v]
        PROVE  IF x.copy THEN Original(x) \in found' /\ x.leaf = app'
               ELSE x \in found' /\ IF x.leaf = app' THEN v = 0 ELSE Owned(v, x.leaf)'
    <3>1. CASE x \in top[v]
      BY <3>1, <1>1, <1>4, <1>10 DEF IInv, PointsInv, Owned
    <3>2. CASE x \notin top[v]
      <4>1. v = w /\ x \in new
        BY <2>2, <3>2, <1>8, <1>11 DEF Q
      <4> QED BY <4>1, <1>1, <1>5, <1>6, <1>10 DEF Owned
    <3> QED BY <3>1, <3>2
  <2>3. top'[0] \subseteq found'
    <3>1. CASE w = 0
      BY <3>1, <1>8, <1>10, <1>11 DEF IInv, PointsInv, Q
    <3>2. CASE w # 0
      BY <3>2, <1>10, <1>11, Numbers DEF IInv, PointsInv
    <3> QED BY <3>1, <3>2
  <2>4. \A v \in Workers \ ({0} \cup searched') : \A x \in top'[v] : x.copy
    BY <1>1, <1>4, <1>11 DEF IInv, PointsInv
  <2>5. \A v \in Workers : left'[v] = {}
    BY <1>1, <1>4 DEF IInv, PhaseInv
  <2> QED BY <1>1, <1>4, <2>1, <2>2, <2>3, <2>4, <2>5, Numbers DEF PointsInv
<1>19. FirstFull => Cardinality(top[w]) = K /\ Cardinality(T) = K
  <2> SUFFICES ASSUME FirstFull PROVE Cardinality(top[w]) = K /\ Cardinality(T) = K
    OBVIOUS
  <2>1. Cardinality(top[w]) = K
    BY <1>4 DEF IInv, FullInv
  <2>2. Cardinality(top[w]) <= Cardinality(Q) /\ Cardinality(Q) \in Nat
    BY <1>7, FS_Subset, FS_CardinalityType
  <2> QED BY <1>8, <2>1, <2>2, Numbers
<1>20. FullInv'
  BY <1>1, <1>4, <1>11, <1>12, <1>19, Numbers DEF IInv, FullInv
<1>21. ASSUME FirstFull, NEW v \in Workers, NEW y \in Points, Behind(v, y)
       PROVE  Behind(v, y)'
  <2>1. CASE v = w
    <3>1. y.dist \in Nat /\ \A x \in top[w] : x.dist <= y.dist
      BY <1>21, <2>1, PointTypes DEF Behind
    <3>2. \A x \in T : x.dist <= y.dist
      BY <1>3, <1>7, <1>19, <1>21, <3>1, TrimmedLowers
    <3> QED BY <2>1, <3>2, <1>11 DEF Behind
  <2>2. CASE v # w
    BY <1>21, <2>2, <1>11 DEF Behind
  <2> QED BY <2>1, <2>2
<1>22. ASSUME NEW y \in Q
       PROVE  y \in top'[w] \/ Behind(w, y)'
  BY <1>8, <1>11 DEF Behind
<1>23. KeptInv'
  <2> SUFFICES ASSUME FirstFull
               PROVE  /\ \A y \in found' : \E v \in Workers : y \in top'[v] \/ Behind(v, y)'
                      /\ \A v \in Workers : \A x \in top'[v] :
                            x.copy => Original(x) \in top'[0] \/ Behind(0, x)'
    BY <1>1, <1>4, <1>12 DEF KeptInv
  <2>1. ASSUME NEW y \in found'
        PROVE  \E v \in Workers : y \in top'[v] \/ Behind(v, y)'
    <3>1. CASE y \in new
      BY <3>1, <1>7, <1>22
    <3>2. CASE y \in found
      <4>1. PICK v \in Workers : y \in top[v] \/ Behind(v, y)
        BY <3>2, <1>4 DEF IInv, KeptInv
      <4>2. CASE Behind(v, y)
        BY <4>2, <1>10, <1>21
      <4>3. CASE y \in top[v] /\ v = w
        BY <4>3, <1>7, <1>22
      <4>4. CASE y \in top[v] /\ v # w
        BY <4>4, <1>11
      <4> QED BY <4>1, <4>2, <4>3, <4>4
    <3> QED BY <3>1, <3>2, <1>10
  <2>2. ASSUME NEW v \in Workers, NEW x \in top'[v], x.copy
        PROVE  Original(x) \in top'[0] \/ Behind(0, x)'
    <3>1. x \in top[v] /\ x \in Points
      BY <2>2, <1>6, <1>8, <1>11 DEF Q, IInv, TypeOK
    <3>2. Original(x) \in top[0] \/ Behind(0, x)
      BY <2>2, <3>1, <1>4 DEF IInv, KeptInv
    <3>3. CASE Behind(0, x)
      BY <3>1, <3>3, <1>21, Numbers
    <3>4. CASE Original(x) \in top[0] /\ w # 0
      BY <3>4, <1>11, Numbers
    <3>5. CASE Original(x) \in top[0] /\ w = 0
      <4>1. Original(x) \in top'[0] \/ Behind(0, Original(x))'
        BY <3>5, <1>7, <1>22
      <4>2. Original(x).dist = x.dist
        BY <3>1, CopyFacts
      <4> QED BY <4>1, <4>2 DEF Behind
    <3> QED BY <3>2, <3>3, <3>4, <3>5
  <2> QED BY <2>1, <2>2
<1>24. ASSUME NEW d PROVE Cardinality({x \in found : x.dist <= d}) >= K
                            => Cardinality({x \in found' : x.dist <= d}) >= K
  <2>1. /\ Cardinality({x \in found : x.dist <= d}) \in Nat
        /\ Cardinality({x \in found' : x.dist <= d}) \in Nat
        /\ Cardinality({x \in found : x.dist <= d}) <= Cardinality({x \in found' : x.dist <= d})
    <3>1. found \subseteq found'
      BY <1>10
    <3>2. IsFiniteSet(found')
      BY <1>10
    <3> QED BY <3>1, <3>2, MoreAreNear
  <2> QED BY <2>1, Numbers
<1>25. CoverInv'
  BY <1>1, <1>4, <1>12, <1>24 DEF IInv, CoverInv, Listed, MayHold, Enough
<1>26. SkipInv'
  <2>1. \E x \in T : x.dist <= c
    <3>1. PICK z \in Q : z.dist <= c
      BY <1>14
    <3>2. PICK x \in T : x.dist <= z.dist
      BY <3>1, <1>8
    <3>3. x.dist \in Nat /\ z.dist \in Nat
      BY <1>7, <1>9, PointTypes
    <3> QED BY <3>1, <3>2, <3>3, <1>14
  <2>2. \A v \in Workers : bsf'[v] < FltMax => \E x \in top'[v] : x.dist <= bsf'[v]
    BY <2>1, <1>3, <1>4, <1>11 DEF IInv, TypeOK, SkipInv
  <2> QED BY <2>2, <1>1, <1>10 DEF IInv, SkipInv, MayHold
<1>27. KthBound' /\ AnswersMerged'
  BY <1>1, <1>4, <1>12, <1>24 DEF IInv, KthBound, AnswersMerged, Answered
<1> QED BY <1>13, <1>15, <1>16, <1>17, <1>18, <1>20, <1>23, <1>25, <1>26, <1>27 DEF IInv

LEMMA EndWorkersInv == IInv /\ EndWorkers => IInv'
<1> SUFFICES ASSUME IInv, EndWorkers PROVE IInv'
  OBVIOUS
<1>1. /\ phase = "probe" /\ phase' = "merge"
      /\ \A w \in Workers : pc[w] = "read"
      /\ left' = [w \in Workers |-> IF w \in searched \ {0} THEN top[w] ELSE {}]
      /\ top' = [w \in Workers |-> IF w = 0 THEN top[0] ELSE {}]
      /\ bsf' = [w \in Workers |-> FltMax] /\ searched' = {} /\ kthBsf' = FltMax
      /\ at' = [w \in Workers |-> 1]
      /\ UNCHANGED <<query, bound, app, pq, candidates, pc, local, results, currFlag, flag, used,
                     stale, found, skipped>>
  BY DEF EndWorkers, treeVars, flagVars
<1>2. /\ 0 \in Workers /\ top'[0] = top[0] /\ left'[0] = {}
      /\ \A w \in Workers \ {0} : top'[w] = {}
      /\ \A w \in Workers \ {0} : left'[w] = IF w \in searched THEN top[w] ELSE {}
  BY <1>1, Numbers
<1>3. /\ top \in [Workers -> SUBSET Points] /\ found \subseteq Points
      /\ IsFiniteSet(found) /\ \A w \in Workers : IsFiniteSet(top[w])
  BY DEF IInv, TypeOK, FiniteInv
<1>4. TypeOK'
  <2>1. left' \in [Workers -> SUBSET Points] /\ top' \in [Workers -> SUBSET Points]
    BY <1>1, <1>3
  <2>2. bsf' \in [Workers -> 0 .. FltMax] /\ at' \in [Workers -> Nat] /\ kthBsf' \in 0 .. FltMax
    BY <1>1, Numbers
  <2> QED BY <1>1, <2>1, <2>2 DEF IInv, TypeOK
<1>5. FiniteInv'
  <2>1. IsFiniteSet({})
    BY FS_EmptySet
  <2> QED BY <1>1, <1>2, <1>3, <2>1 DEF FiniteInv
<1>6. PhaseInv'
  BY <1>1, <1>2 DEF IInv, PhaseInv
<1>7. TreeInv'
  BY <1>1 DEF IInv, TreeInv, Listed
<1>8. ASSUME NEW w \in Workers \ {0}, NEW x \in top[w], ~x.copy
      PROVE  /\ x \in found \ top[0]
             /\ \A v \in Workers \ {w} : x \notin top[v]
  <2>1. x \in found /\ x.leaf # app /\ Owned(w, x.leaf)
    BY <1>1, <1>8 DEF IInv, PointsInv
  <2>2. ASSUME NEW v \in Workers \ {w}, x \in top[v] PROVE FALSE
    <3>1. Owned(v, x.leaf)
      BY <1>1, <1>8, <2>1, <2>2 DEF IInv, PointsInv
    <3>2. PICK i \in DOMAIN candidates : Turn(w, i) /\ candidates[i] = x.leaf
      BY <2>1 DEF Owned
    <3>3. PICK j \in DOMAIN candidates : Turn(v, j) /\ candidates[j] = x.leaf
      BY <3>1 DEF Owned
    <3>4. i = j /\ i \in Nat
      BY <3>2, <3>3 DEF IInv, TypeOK, TreeInv
    <3> QED BY <3>2, <3>3, <3>4, TurnUnique
  <2> QED BY <1>2, <2>1, <2>2
<1>9. PointsInv'
  <2>1. ASSUME NEW w \in Workers, NEW x \in left'[w], ~x.copy
        PROVE  /\ x \in found' \ top'[0]
               /\ \A v \in Workers \ {w} : x \notin left'[v]
    <3>1. w # 0 /\ x \in top[w]
      BY <2>1, <1>1, <1>2
    <3> QED BY <2>1, <3>1, <1>1, <1>2, <1>8
  <2>2. ASSUME NEW w \in Workers, NEW x \in top'[w]
        PROVE  IF x.copy THEN Original(x) \in found' /\ x.leaf = app' ELSE x \in found'
    <3>1. x \in top[w]
      BY <2>2, <1>2
    <3> QED BY <3>1, <1>1 DEF IInv, PointsInv
  <2>3. top'[0] \subseteq found' /\ \A x \in found' : ~x.copy
    BY <1>1, <1>2 DEF IInv, PointsInv
  <2> QED BY <1>1, <1>2, <2>1, <2>2, <2>3 DEF PointsInv
<1>10. FullInv'
  BY <1>1, <1>2 DEF IInv, FullInv, FirstFull
<1>11. KeptInv'
  <2> SUFFICES ASSUME FirstFull, NEW y \in found
               PROVE  y \in top[0] \/ \E w \in Workers : y \in left'[w] \/ BehindLeft(w, y)'
    BY <1>1, <1>2 DEF KeptInv, FirstFull
  <2>1. /\ \A w \in Workers : Cardinality(top[w]) = K
        /\ y \in Points /\ y.dist \in Nat /\ ~y.copy
    BY <1>1, <1>3, PointTypes DEF IInv, FullInv, PointsInv
  <2>2. PICK w \in Workers : y \in top[w] \/ Behind(w, y)
    BY <1>1 DEF IInv, KeptInv
  <2>3. ASSUME Behind(0, y) PROVE BehindLeft(0, y)'
    <3>1. {x \in top'[0] : x.dist <= y.dist} \cup {x \in left'[0] : ~x.copy} = top[0]
      BY <2>3, <1>2 DEF Behind
    <3>2. \A x \in left'[0] : x.dist <= y.dist
      BY <1>2
    <3> QED BY <1>2, <2>1, <3>1, <3>2, Numbers DEF BehindLeft
  <2>4. CASE w = 0
    BY <2>2, <2>3, <2>4
  <2>5. CASE w # 0 /\ y \in top[w]
    BY <2>1, <2>5, <1>1, <1>2 DEF IInv, PointsInv
  <2>6. CASE w # 0 /\ Behind(w, y)
    <3>1. CASE \E x \in top[w] : x.copy /\ Behind(0, x)
      <4>1. PICK x \in top[w] : Behind(0, x)
        BY <3>1
      <4>2. x \in Points /\ x.dist \in Nat /\ x.dist <= y.dist /\ top[0] \subseteq Points
        BY <2>6, <4>1, <1>2, <1>3, PointTypes DEF Behind
      <4>3. \A z \in top[0] : z.dist \in Nat /\ z.dist <= x.dist
        BY <4>1, <4>2, PointTypes DEF Behind
      <4>4. Behind(0, y)
        BY <2>1, <4>2, <4>3 DEF Behind
      <4> QED BY <1>2, <2>3, <4>4
    <3>2. CASE \A x \in top[w] : x.copy => Original(x) \in top[0]
      <4> DEFINE near == {x \in top[0] : x.dist <= y.dist}
                 own  == {x \in top[w] : ~x.copy}
      <4>1. ASSUME NEW x \in top[w]
            PROVE  IF x.copy THEN Original(x) \in near /\ Original(x) \notin top[w] ELSE x \in own
        <5>1. CASE x.copy
          <6>1. x \in Points /\ x.dist <= y.dist /\ Original(x) \in top[0]
            BY <5>1, <3>2, <2>6, <1>3 DEF Behind
          <6>2. Original(x).dist = x.dist /\ ~Original(x).copy
            BY <6>1, CopyFacts
          <6>3. Original(x) \notin top[w]
            BY <2>6, <6>1, <6>2, <1>8
          <6> QED BY <5>1, <6>1, <6>2, <6>3
        <5> QED BY <5>1
      <4>2. /\ near \subseteq Points /\ IsFiniteSet(near)
            /\ own \subseteq Points /\ IsFiniteSet(own)
            /\ top[w] \subseteq Points /\ IsFiniteSet(top[w])
        BY <1>2, <1>3, FS_Subset
      <4> HIDE DEF near, own
      <4>3. near \cup own \in SUBSET Points /\ IsFiniteSet(near \cup own)
        BY <4>2, FS_Union
      <4>4. \A x \in top[w] : IF x.copy THEN Original(x) \in near \cup own /\ Original(x) \notin top[w]
                              ELSE x \in near \cup own
        BY <4>1
      <4>5. K <= Cardinality(near \cup own) /\ Cardinality(near \cup own) \in Nat
        BY <2>1, <4>2, <4>3, <4>4, RealPoints, FS_CardinalityType
      <4>6. CASE w \in searched
        <5>1. left'[w] = top[w]
          BY <2>6, <4>6, <1>2
        <5>2. BehindLeft(w, y)'
          BY <2>6, <4>5, <5>1, <1>2, Numbers DEF BehindLeft, Behind, near, own
        <5> QED BY <5>2
      <4>7. CASE w \notin searched
        <5>1. own = {}
          BY <2>6, <4>7, <1>1 DEF IInv, PointsInv, own
        <5>2. near \cup own = {x \in top'[0] : x.dist <= y.dist} \cup {x \in left'[0] : ~x.copy}
          BY <5>1, <1>2 DEF near
        <5>3. \A x \in left'[0] : x.dist <= y.dist
          BY <1>2
        <5>4. BehindLeft(0, y)'
          BY <4>5, <5>2, <5>3, Numbers DEF BehindLeft
        <5> QED BY <5>4, <1>2
      <4> QED BY <4>6, <4>7
    <3> QED BY <3>1, <3>2, <1>1 DEF IInv, KeptInv
  <2> QED BY <2>2, <2>4, <2>5, <2>6
<1>12. CoverInv'
  BY <1>1 DEF IInv, CoverInv, FirstFull, Listed, MayHold, Enough
<1>13. SkipInv' /\ KthBound' /\ AnswersMerged'
  BY <1>1 DEF IInv, SkipInv, MayHold, KthBound, AnswersMerged, Answered
<1> QED BY <1>4, <1>5, <1>6, <1>7, <1>9, <1>10, <1>11, <1>12, <1>13 DEF IInv

\* In the merge, with K points in the engine's queue and all of them this near.
LEMMA EngineBehind ==
    ASSUME NEW T \in SUBSET Points, Cardinality(T) = K, NEW y, \A x \in T : x.dist <= y.dist,
           top'[0] = T, left'[0] = {}
    PROVE  BehindLeft(0, y)'
<1>1. {x \in top'[0] : x.dist <= y.dist} \cup {x \in left'[0] : ~x.copy} = T
  OBVIOUS
<1>2. \A x \in left'[0] : x.dist <= y.dist
  OBVIOUS
<1> QED BY <1>1, <1>2, Numbers DEF BehindLeft

LEMMA MergeNextInv == ASSUME NEW w \in Workers PROVE IInv /\ MergeNext(w) => IInv'
<1> SUFFICES ASSUME IInv, MergeNext(w) PROVE IInv'
  OBVIOUS
<1>1. /\ phase = "merge" /\ left[w] # {}
      /\ UNCHANGED <<query, phase, bound, app, pq, candidates, kthBsf, bsf, pc, at, local, searched,
                     results, currFlag, flag, used, stale, found, skipped>>
  BY DEF MergeNext, treeVars, flagVars
<1>2. PICK x \in left[w] :
         /\ \A y \in left[w] : x.dist <= y.dist
         /\ IF Enters(x)
            THEN /\ \E y \in Farthest(top[0] \cup {x}) :
                       top' = [top EXCEPT ![0] = (@ \cup {x}) \ {y}]
                 /\ left' = [left EXCEPT ![w] = @ \ {x}]
            ELSE /\ left' = [left EXCEPT ![w] = IF x.copy THEN @ \ {x} ELSE {}]
                 /\ UNCHANGED top
  BY DEF MergeNext
<1>3. /\ top \in [Workers -> SUBSET Points] /\ left \in [Workers -> SUBSET Points]
      /\ 0 \in Workers /\ left[0] = {} /\ w # 0
      /\ top[0] \subseteq found /\ found \subseteq Points /\ IsFiniteSet(found)
      /\ IsFiniteSet(top[0]) /\ top[0] # {} /\ \A v \in Workers : IsFiniteSet(left[v])
      /\ FirstFull => Cardinality(top[0]) = K
  BY <1>1, Numbers DEF IInv, TypeOK, FiniteInv, PhaseInv, PointsInv, FullInv
<1>4. x \in Points /\ x.dist \in Nat /\ top[0] \in SUBSET Points
  BY <1>3, PointTypes
<1>5. Top(top[0]) \in Nat /\ \A z \in top[0] : z.dist <= Top(top[0])
  BY <1>3, TopIsFarthest, Numbers
<1>6. UNCHANGED <<query, bound, candidates, found, app, skipped>> /\ FirstFull' = FirstFull
  BY <1>1 DEF FirstFull
<1>7. TreeInv' /\ SkipInv' /\ KthBound' /\ AnswersMerged' /\ CoverInv'
  BY <1>1 DEF IInv, TreeInv, Listed, SkipInv, MayHold, KthBound, AnswersMerged, Answered, CoverInv,
              FirstFull, Enough
\* x enters and y leaves the engine's queue.
<1>8. CASE Enters(x)
  <2>1. PICK y \in Farthest(top[0] \cup {x}) : top' = [top EXCEPT ![0] = (top[0] \cup {x}) \ {y}]
    BY <1>2, <1>8
  <2>2. left' = [left EXCEPT ![w] = left[w] \ {x}]
    BY <1>2, <1>8
  <2>3. ~x.copy /\ x.dist < Top(top[0])
    BY <1>8 DEF Enters
  <2>4. /\ x \in found \ top[0]
        /\ \A v \in Workers \ {w} : x \notin left[v]
    BY <2>3 DEF IInv, PointsInv
  <2>5. y \in top[0] \cup {x} /\ \A z \in top[0] \cup {x} : z.dist <= y.dist
    BY DEF Farthest
  <2>6. y \in top[0] /\ y # x
    <3>1. PICK z \in top[0] : z.dist = Top(top[0])
      BY <1>3, TopIsFarthest
    <3> QED BY <2>3, <2>5, <3>1, <1>4, <1>5
  <2> DEFINE T == (top[0] \cup {x}) \ {y}
  <2>7. /\ top'[0] = T /\ \A v \in Workers \ {0} : top'[v] = top[v]
        /\ left'[w] = left[w] \ {x} /\ \A v \in Workers \ {w} : left'[v] = left[v]
        /\ left'[0] = {}
    BY <2>1, <2>2, <1>3
  <2>8. T \subseteq found /\ T \in SUBSET Points /\ x \in T
    BY <2>4, <2>6, <1>3
  <2>9. IsFiniteSet(T) /\ Cardinality(T) = Cardinality(top[0])
    <3>1. IsFiniteSet(top[0] \cup {x}) /\ Cardinality(top[0] \cup {x}) = Cardinality(top[0]) + 1
      BY <2>4, <1>3, FS_AddElement
    <3>2. Cardinality(top[0]) \in Nat
      BY <1>3, FS_CardinalityType
    <3> QED BY <2>6, <3>1, <3>2, FS_RemoveElement
  <2> HIDE DEF T
  <2>10. TypeOK'
    <3>1. top' \in [Workers -> SUBSET Points] /\ left' \in [Workers -> SUBSET Points]
      BY <2>1, <2>2, <2>8, <1>3 DEF T
    <3> QED BY <1>1, <3>1 DEF IInv, TypeOK
  <2>11. FiniteInv'
    <3>1. IsFiniteSet(left[w] \ {x})
      BY <1>3, FS_RemoveElement
    <3> QED BY <2>7, <2>9, <3>1, <1>1 DEF IInv, FiniteInv
  <2>12. PhaseInv'
    BY <1>1, <2>7, <2>8 DEF IInv, PhaseInv
  <2>13. PointsInv'
    <3>1. ASSUME NEW v \in Workers, NEW z \in left'[v], ~z.copy
          PROVE  /\ z \in found' \ top'[0]
                 /\ \A u \in Workers \ {v} : z \notin left'[u]
      <4>1. z \in left[v] /\ z # x
        BY <3>1, <2>4, <2>7
      <4>2. /\ z \in found \ top[0]
            /\ \A u \in Workers \ {v} : z \notin left[u]
        BY <3>1, <4>1 DEF IInv, PointsInv
      <4>3. \A u \in Workers : left'[u] \subseteq left[u]
        BY <2>7
      <4> QED BY <4>1, <4>2, <4>3, <2>7, <1>1 DEF T
    <3>2. \A z \in found' : ~z.copy
      BY <1>1 DEF IInv, PointsInv
    <3>3. ASSUME NEW v \in Workers, NEW z \in top'[v]
          PROVE  IF z.copy THEN Original(z) \in found' /\ z.leaf = app' ELSE z \in found'
      <4>1. CASE v = 0
        BY <3>2, <3>3, <4>1, <2>7, <2>8, <1>1
      <4>2. CASE v # 0
        BY <3>3, <4>2, <2>7, <1>1 DEF IInv, PhaseInv
      <4> QED BY <4>1, <4>2
    <3> QED BY <3>1, <3>2, <3>3, <2>7, <2>8, <1>1 DEF PointsInv
  <2>14. FullInv'
    BY <2>7, <2>9, <1>1, <1>3, <1>6 DEF FullInv
  <2>15. KeptInv'
    <3> SUFFICES ASSUME FirstFull, NEW z \in found
                 PROVE  z \in top'[0] \/ \E v \in Workers : z \in left'[v] \/ BehindLeft(v, z)'
      BY <1>1, <1>6 DEF KeptInv
    <3>1. /\ z \in Points /\ z.dist \in Nat /\ Cardinality(T) = K
          /\ y.dist \in Nat /\ T \in SUBSET Points
      BY <1>3, <2>6, <2>8, <2>9, PointTypes
    <3>2. ASSUME y.dist <= z.dist PROVE BehindLeft(0, z)'
      <4>1. \A u \in T : u.dist <= z.dist
        <5> TAKE u \in T
        <5>1. u.dist <= y.dist /\ u.dist \in Nat
          BY <2>5, <3>1, PointTypes DEF T
        <5> QED BY <5>1, <3>1, <3>2
      <4> QED BY <4>1, <3>1, <2>7, EngineBehind
    <3>3. CASE y.dist <= z.dist
      BY <3>2, <3>3, <1>3
    <3>4. CASE ~(y.dist <= z.dist) /\ z \in top[0]
      <4>1. z # y
        BY <3>1, <3>4
      <4> QED BY <3>4, <4>1, <2>7 DEF T
    <3>5. ASSUME NEW v \in Workers, z \in left[v]
          PROVE  z \in top'[0] \/ z \in left'[v]
      BY <3>5, <2>7, <2>8
    <3>6. ASSUME ~(y.dist <= z.dist), NEW v \in Workers, BehindLeft(v, z)
          PROVE  BehindLeft(v, z)'
      <4> DEFINE U  == {u \in top[0] : u.dist <= z.dist} \cup {u \in left[v] : ~u.copy}
                 U2 == {u \in top'[0] : u.dist <= z.dist} \cup {u \in left'[v] : ~u.copy}
      <4>1. Cardinality(U) >= K /\ \A u \in left[v] : u.dist <= z.dist
        BY <3>6 DEF BehindLeft
      <4>2. U \subseteq U2
        <5>1. ASSUME NEW u \in top[0], u.dist <= z.dist PROVE u \in top'[0]
          BY <3>6, <5>1, <2>7 DEF T
        <5>2. ASSUME NEW u \in left[v], ~u.copy, u \notin left'[v]
              PROVE  u \in top'[0] /\ u.dist <= z.dist
          BY <4>1, <5>2, <2>7, <2>8
        <5> QED BY <5>1, <5>2
      <4>3. IsFiniteSet(U2)
        <5>1. IsFiniteSet(top'[0]) /\ IsFiniteSet(left'[v])
          BY <2>11, <1>3 DEF FiniteInv
        <5>2. IsFiniteSet({u \in top'[0] : u.dist <= z.dist}) /\ IsFiniteSet({u \in left'[v] : ~u.copy})
          BY <5>1, FS_Subset
        <5> QED BY <5>2, FS_Union
      <4> HIDE DEF U, U2
      <4>4. Cardinality(U) <= Cardinality(U2) /\ IsFiniteSet(U)
        BY <4>2, <4>3, FS_Subset
      <4>5. Cardinality(U2) >= K
        BY <4>1, <4>3, <4>4, Numbers, FS_CardinalityType
      <4>6. \A u \in left'[v] : u.dist <= z.dist
        BY <4>1, <2>7
      <4> QED BY <4>5, <4>6 DEF BehindLeft, U2
    <3>7. z \in top[0] \/ \E v \in Workers : z \in left[v] \/ BehindLeft(v, z)
      BY <1>1 DEF IInv, KeptInv
    <3> QED BY <3>3, <3>4, <3>5, <3>6, <3>7
  <2> QED BY <1>7, <2>10, <2>11, <2>12, <2>13, <2>14, <2>15 DEF IInv
\* x is passed over, or ends the loop.
<1>9. CASE ~Enters(x)
  <2> DEFINE rest == IF x.copy THEN left[w] \ {x} ELSE {}
  <2>1. left' = [left EXCEPT ![w] = rest] /\ top' = top
    BY <1>2, <1>9
  <2>2. rest \subseteq left[w] /\ IsFiniteSet(rest)
    BY <1>3, FS_Subset
  <2>3. left'[w] = rest /\ \A v \in Workers \ {w} : left'[v] = left[v]
    BY <2>1, <1>3
  <2> HIDE DEF rest
  <2>4. \A v \in Workers : left'[v] \subseteq left[v]
    BY <2>2, <2>3
  <2>5. TypeOK'
    <3>1. left' \in [Workers -> SUBSET Points]
      BY <2>1, <2>2, <1>3
    <3> QED BY <1>1, <2>1, <3>1 DEF IInv, TypeOK
  <2>6. FiniteInv'
    BY <1>1, <2>1, <2>2, <2>3 DEF IInv, FiniteInv
  <2>7. PhaseInv'
    BY <1>1, <2>1 DEF IInv, PhaseInv
  <2>8. PointsInv'
    <3>1. ASSUME NEW v \in Workers, NEW z \in left'[v], ~z.copy
          PROVE  /\ z \in found' \ top'[0]
                 /\ \A u \in Workers \ {v} : z \notin left'[u]
      <4>1. z \in left[v]
        BY <3>1, <2>4
      <4>2. /\ z \in found \ top[0]
            /\ \A u \in Workers \ {v} : z \notin left[u]
        BY <3>1, <4>1 DEF IInv, PointsInv
      <4> QED BY <4>2, <2>1, <2>4, <1>1
    <3>2. left'[0] = {}
      BY <2>3, <1>3
    <3> QED BY <1>1, <2>1, <3>1, <3>2 DEF IInv, PointsInv
  <2>9. FullInv'
    BY <1>1, <1>6, <2>1 DEF IInv, FullInv
  <2>10. KeptInv'
    <3> SUFFICES ASSUME FirstFull, NEW z \in found
                 PROVE  z \in top'[0] \/ \E v \in Workers : z \in left'[v] \/ BehindLeft(v, z)'
      BY <1>1, <1>6 DEF KeptInv
    <3>1. z \in Points /\ z.dist \in Nat /\ ~z.copy
      BY <1>3, PointTypes DEF IInv, PointsInv
    <3>2. z \in top[0] \/ \E v \in Workers : z \in left[v] \/ BehindLeft(v, z)
      BY <1>1 DEF IInv, KeptInv
    <3>3. ASSUME ~x.copy, x.dist <= z.dist PROVE BehindLeft(0, z)'
      <4>1. Top(top[0]) <= x.dist
        BY <3>3, <1>4, <1>5, <1>9 DEF Enters
      <4>2. \A u \in top[0] : u.dist <= z.dist
        <5> TAKE u \in top[0]
        <5>1. u.dist \in Nat /\ u.dist <= Top(top[0])
          BY <1>4, <1>5, PointTypes
        <5> QED BY <5>1, <4>1, <3>1, <3>3, <1>4, <1>5
      <4>3. top'[0] = top[0] /\ left'[0] = {} /\ Cardinality(top[0]) = K
        BY <2>1, <2>3, <1>3
      <4> QED BY <4>2, <4>3, <1>4, EngineBehind
    <3>4. ASSUME NEW v \in Workers, z \in left[v]
          PROVE  z \in left'[v] \/ BehindLeft(0, z)'
      <4>1. CASE v # w
        BY <3>4, <4>1, <2>3
      <4>2. CASE v = w /\ x.copy
        BY <3>1, <3>4, <4>2, <2>3 DEF rest
      <4>3. CASE v = w /\ ~x.copy
        BY <3>3, <3>4, <4>3, <1>2
      <4> QED BY <4>1, <4>2, <4>3
    <3>5. ASSUME NEW v \in Workers, BehindLeft(v, z)
          PROVE  BehindLeft(v, z)' \/ BehindLeft(0, z)'
      <4>1. CASE v # w
        <5>1. left'[v] = left[v]
          BY <4>1, <2>3
        <5> QED BY <3>5, <5>1, <2>1 DEF BehindLeft
      <4>2. CASE v = w /\ x.copy
        <5>1. {u \in left'[v] : ~u.copy} = {u \in left[v] : ~u.copy}
          BY <4>2, <2>3 DEF rest
        <5>2. \A u \in left'[v] : u.dist <= z.dist
          BY <3>5, <2>4 DEF BehindLeft
        <5> QED BY <3>5, <5>1, <5>2, <2>1 DEF BehindLeft
      <4>3. CASE v = w /\ ~x.copy
        <5>1. x.dist <= z.dist
          BY <3>5, <4>3 DEF BehindLeft
        <5> QED BY <3>3, <4>3, <5>1
      <4> QED BY <4>1, <4>2, <4>3
    <3> QED BY <3>2, <3>4, <3>5, <2>1, <1>3
  <2> QED BY <1>7, <2>5, <2>6, <2>7, <2>8, <2>9, <2>10 DEF IInv
<1> QED BY <1>8, <1>9

LEMMA AnswerInv == IInv /\ Answer => IInv'
<1> SUFFICES ASSUME IInv, Answer PROVE IInv'
  OBVIOUS
<1>1. /\ phase = "merge" /\ \A w \in Workers : left[w] = {}
      /\ results' = top[0] /\ top' = [top EXCEPT ![0] = {}] /\ phase' = "idle"
      /\ UNCHANGED <<query, bound, app, pq, candidates, kthBsf, bsf, pc, at, local, searched, left,
                     currFlag, flag, used, stale, found, skipped>>
  BY DEF Answer, treeVars, flagVars
<1>2. /\ top \in [Workers -> SUBSET Points] /\ 0 \in Workers
      /\ top'[0] = {} /\ \A w \in Workers \ {0} : top'[w] = {}
      /\ top[0] \subseteq found /\ IsFiniteSet(top[0]) /\ found \subseteq Points
  BY <1>1, Numbers DEF IInv, TypeOK, FiniteInv, PhaseInv, PointsInv
<1>3. \A w \in Workers : top'[w] = {} /\ left'[w] = {}
  BY <1>1, <1>2
<1>4. TypeOK'
  <2>1. top' \in [Workers -> SUBSET Points] /\ results' \subseteq Points
    BY <1>1, <1>2
  <2> QED BY <1>1, <2>1 DEF IInv, TypeOK
<1>5. FiniteInv' /\ PhaseInv' /\ TreeInv' /\ PointsInv'
  <2>1. IsFiniteSet({})
    BY FS_EmptySet
  <2> QED BY <1>1, <1>2, <1>3, <2>1 DEF IInv, FiniteInv, PhaseInv, TreeInv, Listed, PointsInv
<1>6. FullInv' /\ KeptInv' /\ CoverInv' /\ SkipInv' /\ KthBound'
  BY <1>1 DEF IInv, FullInv, KeptInv, CoverInv, SkipInv, KthBound, FirstFull, Listed, MayHold, Enough
<1>7. AnswersMerged'
  <2> SUFFICES ASSUME FirstFull
               PROVE  /\ top[0] \subseteq found /\ Cardinality(top[0]) = K
                      /\ \A x \in top[0], y \in found \ top[0] : x.dist <= y.dist
    BY <1>1 DEF AnswersMerged, Answered, FirstFull
  <2>1. Cardinality(top[0]) = K
    BY <1>1 DEF IInv, FullInv
  <2>2. ASSUME NEW x \in top[0], NEW y \in found \ top[0] PROVE x.dist <= y.dist
    <3>1. PICK w \in Workers : BehindLeft(w, y)
      BY <1>1 DEF IInv, KeptInv
    <3> DEFINE near == {z \in top[0] : z.dist <= y.dist}
    <3>2. near \cup {z \in left[w] : ~z.copy} = near
      BY <1>1
    <3>3. Cardinality(near) >= K /\ near \subseteq top[0]
      BY <3>1, <3>2 DEF BehindLeft
    <3>4. near = top[0]
      <4> HIDE DEF near
      <4>1. IsFiniteSet(near) /\ Cardinality(near) <= Cardinality(top[0])
        BY <3>3, <1>2, FS_Subset
      <4>2. Cardinality(near) = Cardinality(top[0])
        BY <2>1, <3>3, <4>1, Numbers, FS_CardinalityType
      <4> QED BY <3>3, <4>2, <1>2, FS_Subset
    <3> QED BY <3>4
  <2> QED BY <1>2, <2>1, <2>2
<1> QED BY <1>4, <1>5, <1>6, <1>7 DEF IInv
-----------------------------------------------------------------------------
(***************************************************************************)
(* The theorems.                                                           *)
(***************************************************************************)
\* Whatever the tree, K, the number of workers and what the searches of the
\* leaves find: the invariant above holds of the queues, the tree search and the
\* workers.
THEOREM Inductive == Spec => []IInv
<1>1. Init => IInv
  BY InitInv
<1>2. IInv /\ [Next]_vars => IInv'
  <2> SUFFICES ASSUME IInv, [Next]_vars PROVE IInv'
    OBVIOUS
  <2>1. CASE SearchAppNode
    BY <2>1, SearchAppNodeInv
  <2>2. ASSUME NEW n \in Nodes, PopNode(n) PROVE IInv'
    BY <2>2, PopNodeInv
  <2>3. CASE StartWorkers
    BY <2>3, StartWorkersInv
  <2>4. ASSUME NEW w \in Workers, Worker(w) PROVE IInv'
    BY <2>4, ReadBsfInv, SkipLeafInv, SearchLeafInv, WriteBsfInv DEF Worker
  <2>5. CASE EndWorkers
    BY <2>5, EndWorkersInv
  <2>6. ASSUME NEW w \in Workers, MergeNext(w) PROVE IInv'
    BY <2>6, MergeNextInv
  <2>7. CASE Answer
    BY <2>7, AnswerInv
  <2>8. CASE UNCHANGED vars
    <3>1. UNCHANGED <<query, phase, bound, app, pq, candidates, kthBsf, top, bsf, pc, at, local,
                      searched, left, results, currFlag, flag, used, stale, found, skipped>>
      BY <2>8 DEF vars, treeVars, workerVars, flagVars
    <3>2. TypeOK' /\ FiniteInv' /\ PhaseInv' /\ TreeInv'
      BY <3>1 DEF IInv, TypeOK, FiniteInv, PhaseInv, TreeInv, Tasks, Listed
    <3>3. PointsInv' /\ FullInv' /\ KeptInv'
      BY <3>1 DEF IInv, PointsInv, Owned, FullInv, KeptInv, FirstFull, Behind, BehindLeft
    <3>4. CoverInv' /\ SkipInv' /\ KthBound' /\ AnswersMerged'
      BY <3>1 DEF IInv, CoverInv, SkipInv, KthBound, AnswersMerged, Answered, FirstFull, Listed,
                  MayHold, Enough
    <3> QED BY <3>2, <3>3, <3>4 DEF IInv
  <2> QED BY <2>1, <2>2, <2>3, <2>4, <2>5, <2>6, <2>7, <2>8 DEF Next
<1> QED BY <1>1, <1>2, PTL DEF Spec

\* The variables of the query engine have their types.
THEOREM TypesHold == Spec => []TypeOK
<1>1. IInv => TypeOK
  BY DEF IInv
<1> QED BY <1>1, Inductive, PTL

\* The merge of the workers' queues gives the K nearest of all points found,
\* each once.
THEOREM AnswersMergedHolds == Spec => []AnswersMerged
<1>1. IInv => AnswersMerged
  BY DEF IInv
<1> QED BY <1>1, Inductive, PTL

\* kth_bsf may rise when workers overwrite it, but K of the points found are
\* always as near.
THEOREM KthBoundHolds == Spec => []KthBound
<1>1. IInv => KthBound
  BY DEF IInv
<1> QED BY <1>1, Inductive, PTL

\* The tree search and the workers leave out no leaf that could matter.
THEOREM PrunedSafeHolds == Spec => []PrunedSafe
<1>1. IInv => PrunedSafe
  <2> SUFFICES ASSUME IInv, Answered, NEW l \in Leaves \ {app}, NEW d \in Dists,
                      MayHold(bound, l, d)
               PROVE  /\ ~Listed(l) => \A x \in results : x.dist <= d
                      /\ l \in skipped => \E x \in results : x.dist <= d
    BY DEF PrunedSafe
  <2>1. /\ phase = "idle" /\ FirstFull /\ results \subseteq found /\ Cardinality(results) = K
        /\ \A x \in results, y \in found \ results : x.dist <= y.dist
    BY DEF Answered, IInv, AnswersMerged
  <2>2. found \subseteq Points /\ IsFiniteSet(found) /\ d \in Nat
    BY Numbers DEF IInv, TypeOK, FiniteInv
  <2>3. \A x \in found : x.dist \in Nat
    BY <2>2, PointTypes
  <2>4. IsFiniteSet(results) /\ results # {}
    <3>1. IsFiniteSet(results)
      BY <2>1, <2>2, FS_Subset
    <3> QED BY <2>1, <3>1, Numbers, FS_EmptySet
  <2>5. ASSUME ~Listed(l), NEW x \in results, ~(x.dist <= d) PROVE FALSE
    <3> DEFINE near == {y \in found : y.dist <= d}
    <3>1. Cardinality(near) >= K
      BY <2>1, <2>5 DEF IInv, CoverInv, Enough
    <3>2. near \subseteq results
      <4> SUFFICES ASSUME NEW y \in found, y.dist <= d, y \notin results PROVE FALSE
        OBVIOUS
      <4>1. x.dist <= y.dist
        BY <2>1, <2>5
      <4> QED BY <4>1, <2>1, <2>2, <2>3, <2>5
    <3>3. x \notin near
      BY <2>5
    <3> HIDE DEF near
    <3>4. IsFiniteSet(near) /\ Cardinality(near) <= K /\ (Cardinality(near) = K => near = results)
      BY <3>2, <2>1, <2>4, FS_Subset
    <3>5. Cardinality(near) \in Nat
      BY <3>4, FS_CardinalityType
    <3> QED BY <3>1, <3>3, <3>4, <3>5, <2>5, Numbers
  <2>6. ASSUME l \in skipped PROVE \E x \in results : x.dist <= d
    <3>1. PICK y \in found : y.dist <= d
      BY <2>6 DEF IInv, SkipInv
    <3>2. CASE y \in results
      BY <3>1, <3>2
    <3>3. CASE y \notin results
      <4>1. PICK x \in results : TRUE
        BY <2>4
      <4>2. x.dist <= y.dist /\ x.dist \in Nat /\ y.dist \in Nat
        BY <2>1, <2>3, <3>3, <4>1
      <4> QED BY <3>1, <4>2, <2>2
    <3> QED BY <3>2, <3>3
  <2> QED BY <2>5, <2>6
<1> QED BY <1>1, Inductive, PTL
-----------------------------------------------------------------------------
(***************************************************************************)
(* Tags.  TagsFresh fails in the second query: the engine's own flags are  *)
(* worker 0's too, and each of the two counts on from its own tag.  Here   *)
(* is what remains true: in the first query every tag is fresh, so that    *)
(* its first search is full, as the theorems above suppose; and the other  *)
(* workers' tags are fresh in all queries.                                 *)
(***************************************************************************)
\* At least as many as the leaves that w has searched in this query.
Turns(w) == IF pc[w] = "write" THEN at[w] ELSE at[w] - 1

\* Worker 0 starts with the engine's tag.
FirstInv ==
    query <= 1 =>
        /\ ~stale
        /\ query = 0 => /\ phase = "idle" /\ currFlag = 0
                        /\ \A w \in Workers : flag[w] = 0 /\ used[w] = {}
        /\ query = 1 => FirstFull
        /\ phase = "collect" =>
              /\ currFlag = 1
              /\ \A w \in Workers : flag[w] = 0 /\ used[w] \subseteq (IF w = 0 THEN {1} ELSE {})
        /\ phase = "probe" =>
              \A w \in Workers : used[w] \subseteq 1 .. flag[w] /\ flag[w] <= Turns(w) + 1

\* The other workers count on from query to query.
OthersInv ==
    \A w \in Workers \ {0} :
        /\ used[w] \subseteq 1 .. flag[w]
        /\ flag[w] <= query * Probes
        /\ phase = "collect" => flag[w] <= (query - 1) * Probes
        /\ phase = "probe" => flag[w] <= (query - 1) * Probes + Turns(w)

\* In the first query of an engine no search takes marks for its own, and the
\* first one fills the queue.
FirstQueryFresh == query <= 1 => TagsFresh /\ (query = 1 => FirstFull)

\* A search of another worker than 0 begins with a tag it has not used.
OthersFresh == \A w \in Workers \ {0} : pc[w] = "search" => Next16(flag[w]) \notin used[w]

LEMMA TagTypes ==
    ASSUME TypeOK
    PROVE  /\ query \in Nat /\ query <= MaxQueries
           /\ \A w \in Workers : /\ at[w] \in Nat /\ Turns(w) \in Int
                                 /\ flag[w] \in Nat /\ flag[w] <= FlagMod - 1
                                 /\ used[w] \subseteq Nat
  BY Numbers DEF TypeOK, Turns

\* A tag that has not come round.
LEMMA TagAfter ==
    ASSUME NEW t \in Nat, t + 1 < FlagMod
    PROVE  Next16(t) = t + 1
  BY Numbers DEF Next16

LEMMA Products ==
    ASSUME NEW q \in Nat
    PROVE  /\ q * Probes \in Nat /\ (q - 1) * Probes + Probes = q * Probes
           /\ \A m \in Nat : q <= m => q * Probes <= m * Probes
<1>1. Probes \in Nat
  BY Numbers
<1>2. q * Probes \in Nat /\ (q - 1) * Probes + Probes = q * Probes
  BY <1>1
<1>3. ASSUME NEW m \in Nat, q <= m PROVE q * Probes <= m * Probes
  <2>1. PICK e \in Nat : m = q + e
    <3>1. m - q \in Nat /\ m = q + (m - q)
      BY <1>3
    <3> QED BY <3>1
  <2>2. m * Probes = q * Probes + e * Probes /\ e * Probes \in Nat
    BY <1>1, <2>1
  <2> QED BY <1>2, <2>2
<1> QED BY <1>2, <1>3

\* A step without a search, in the loop or after it.
LEMMA QuietTags ==
    ASSUME TypeOK, TypeOK', phase # "idle",
           UNCHANGED <<query, app, currFlag, flag, used, stale, found>>,
           \/ phase' = phase /\ \A w \in Workers : Turns(w)' >= Turns(w)
           \/ phase' \in {"merge", "idle"}
    PROVE  (FirstInv => FirstInv') /\ (OthersInv => OthersInv')
<1>1. FirstFull' = FirstFull
  BY DEF FirstFull
<1>2. \A w \in Workers : /\ Turns(w) \in Int /\ flag[w] \in Nat /\ flag'[w] = flag[w]
                         /\ used'[w] = used[w]
  BY TagTypes
<1>3. \A w \in Workers : Turns(w)' \in Int
  <2>1. \A w \in Workers : at'[w] \in Nat
    BY DEF TypeOK
  <2> QED BY <2>1 DEF Turns
<1>4. query \in Nat /\ (query - 1) * Probes \in Int
  BY Numbers DEF TypeOK
<1>5. ASSUME FirstInv PROVE FirstInv'
  <2> USE <1>5
  <2> SUFFICES ASSUME query <= 1 PROVE FirstInv'
    BY DEF FirstInv
  <2>1. query = 1 /\ ~stale /\ FirstFull
    BY <1>4 DEF FirstInv
  <2>2. phase' = "collect" =>
           /\ currFlag' = 1
           /\ \A w \in Workers : flag'[w] = 0 /\ used'[w] \subseteq (IF w = 0 THEN {1} ELSE {})
    BY DEF FirstInv
  <2>3. ASSUME phase' = "probe", NEW w \in Workers
        PROVE  used'[w] \subseteq 1 .. flag'[w] /\ flag'[w] <= Turns(w)' + 1
    <3>1. phase = "probe" /\ Turns(w)' >= Turns(w)
      BY <2>3
    <3>2. used[w] \subseteq 1 .. flag[w] /\ flag[w] <= Turns(w) + 1
      BY <3>1 DEF FirstInv
    <3> HIDE DEF Turns
    <3> QED BY <1>2, <1>3, <3>1, <3>2
  <2> QED BY <1>1, <2>1, <2>2, <2>3 DEF FirstInv
<1>6. ASSUME OthersInv PROVE OthersInv'
  <2> USE <1>6
  <2> SUFFICES ASSUME NEW w \in Workers \ {0}
               PROVE  /\ used'[w] \subseteq 1 .. flag'[w]
                      /\ flag'[w] <= query' * Probes
                      /\ phase' = "collect" => flag'[w] <= (query' - 1) * Probes
                      /\ phase' = "probe" => flag'[w] <= (query' - 1) * Probes + Turns(w)'
    BY DEF OthersInv
  <2>1. /\ used[w] \subseteq 1 .. flag[w] /\ flag[w] <= query * Probes
        /\ phase = "collect" => flag[w] <= (query - 1) * Probes
        /\ phase = "probe" => flag[w] <= (query - 1) * Probes + Turns(w)
    BY DEF OthersInv
  <2>2. ASSUME phase' = "probe"
        PROVE  flag'[w] <= (query' - 1) * Probes + Turns(w)'
    <3>1. phase = "probe" /\ Turns(w)' >= Turns(w)
      BY <2>2
    <3> DEFINE b == (query - 1) * Probes
    <3>2. b \in Int /\ flag[w] <= b + Turns(w)
      BY <1>4, <2>1, <3>1
    <3> HIDE DEF b
    <3>3. flag[w] <= b + Turns(w)'
      BY <1>2, <1>3, <3>1, <3>2
    <3> QED BY <3>3, <1>2 DEF b
  <2> QED BY <1>2, <2>1, <2>2
<1> QED BY <1>5, <1>6

\* The new query counts on; worker 0 and the engine begin if it is the first.
LEMMA SearchAppNodeTags ==
    ASSUME IInv, FirstInv, Probes + 1 < FlagMod, SearchAppNode
    PROVE  FirstInv'
<1>1. /\ phase' = "collect" /\ query' = query + 1
      /\ currFlag' = Next16(currFlag) /\ MarkWith(0, Next16(currFlag)) /\ UNCHANGED flag
  BY DEF SearchAppNode
<1>2. PICK l \in Leaves, b \in [Nodes -> Dists] :
         /\ app' = l
         /\ \E f \in Finds(b, l) :
               /\ Cardinality(DOMAIN f) >= K \/ Next16(currFlag) \in used[0]
               /\ found' = PointsOf(l, f)
  BY DEF SearchAppNode
<1>3. PICK f \in Finds(b, l) :
         /\ Cardinality(DOMAIN f) >= K \/ Next16(currFlag) \in used[0]
         /\ found' = PointsOf(l, f)
  BY <1>2
<1> SUFFICES ASSUME query' <= 1 PROVE FirstInv'
  BY DEF FirstInv
<1>4. query = 0 /\ query' = 1
  BY <1>1, TagTypes DEF IInv
<1>5. /\ currFlag = 0 /\ ~stale
      /\ \A w \in Workers : flag[w] = 0 /\ used[w] = {}
  BY <1>4 DEF FirstInv
<1>6. Next16(currFlag) = 1 /\ 0 \in Workers
  BY <1>5, TagAfter, Numbers
<1>7. FirstFull'
  <2>1. Cardinality(PointsOf(l, f)) >= K /\ \A x \in PointsOf(l, f) : x.leaf = l
    BY <1>3, <1>5, <1>6, PointsOfFacts
  <2>2. {x \in found' : x.leaf = app'} = PointsOf(l, f)
    BY <1>2, <1>3, <2>1
  <2> QED BY <2>1, <2>2 DEF FirstFull
<1>8. ~stale'
  BY <1>1, <1>5, <1>6 DEF MarkWith
<1>9. \A w \in Workers : flag'[w] = 0 /\ used'[w] \subseteq (IF w = 0 THEN {1} ELSE {})
  BY <1>1, <1>5, <1>6 DEF MarkWith, IInv, TypeOK
<1> QED BY <1>1, <1>4, <1>6, <1>7, <1>8, <1>9 DEF FirstInv

LEMMA SearchAppNodeOthers ==
    ASSUME IInv, OthersInv, SearchAppNode
    PROVE  OthersInv'
<1>1. phase' = "collect" /\ query' = query + 1 /\ MarkWith(0, Next16(currFlag)) /\ flag' = flag
  BY DEF SearchAppNode
<1>2. query \in Nat /\ query' \in Nat /\ query' - 1 = query /\ query <= query'
  BY <1>1, TagTypes DEF IInv
<1>3. query * Probes \in Nat /\ query' * Probes \in Nat /\ query * Probes <= query' * Probes
  BY <1>2, Products
<1>4. ASSUME NEW w \in Workers \ {0}
      PROVE  /\ used'[w] \subseteq 1 .. flag'[w]
             /\ flag'[w] <= query' * Probes
             /\ flag'[w] <= (query' - 1) * Probes
  <2>1. flag'[w] = flag[w] /\ flag[w] \in Nat
    BY <1>1, TagTypes DEF IInv
  <2>2. used'[w] = used[w]
    BY <1>1 DEF MarkWith, IInv, TypeOK
  <2>3. used[w] \subseteq 1 .. flag[w] /\ flag[w] <= query * Probes
    BY DEF OthersInv
  <2> DEFINE a == query * Probes
             c == query' * Probes
  <2>4. flag[w] <= a /\ a <= c /\ a \in Nat /\ c \in Nat
    BY <1>3, <2>3
  <2> HIDE DEF a, c
  <2>5. flag[w] <= c
    BY <2>1, <2>4
  <2> QED BY <1>2, <2>1, <2>2, <2>3, <2>4, <2>5 DEF a, c
<1> QED BY <1>1, <1>4 DEF OthersInv

\* Worker 0 is given the engine's tag, the others keep theirs.
LEMMA StartWorkersTags ==
    ASSUME IInv, StartWorkers
    PROVE  (FirstInv => FirstInv') /\ (OthersInv => OthersInv')
<1>1. /\ phase = "collect" /\ phase' = "probe"
      /\ flag' = [flag EXCEPT ![0] = currFlag]
      /\ pc' = [w \in Workers |-> "read"] /\ at' = [w \in Workers |-> w + 1]
      /\ UNCHANGED <<query, app, currFlag, used, stale, found>>
  BY DEF StartWorkers
<1>2. /\ query \in Nat /\ (query - 1) * Probes \in Int
      /\ \A w \in Workers : flag[w] \in Nat /\ w \in Nat /\ Turns(w)' = w
  <2>1. \A w \in Workers : w \in Nat /\ Turns(w)' = w
    BY <1>1, Numbers DEF Turns
  <2> QED BY <2>1, TagTypes, Numbers DEF IInv
<1> HIDE DEF Turns
<1>3. ASSUME FirstInv PROVE FirstInv'
  <2> USE <1>3
  <2> SUFFICES ASSUME query <= 1 PROVE FirstInv'
    BY <1>1 DEF FirstInv
  <2>1. /\ query = 1 /\ ~stale /\ FirstFull /\ currFlag = 1
        /\ \A w \in Workers : flag[w] = 0 /\ used[w] \subseteq (IF w = 0 THEN {1} ELSE {})
    BY <1>1, <1>2 DEF FirstInv
  <2>2. ASSUME NEW w \in Workers
        PROVE  used'[w] \subseteq 1 .. flag'[w] /\ flag'[w] <= Turns(w)' + 1
    <3>1. used'[w] = used[w] /\ flag'[w] = IF w = 0 THEN 1 ELSE 0
      BY <1>1, <2>1 DEF IInv, TypeOK
    <3> QED BY <1>2, <2>1, <3>1
  <2>3. FirstFull'
    BY <1>1, <2>1 DEF FirstFull
  <2> QED BY <1>1, <2>1, <2>2, <2>3 DEF FirstInv
<1>4. ASSUME OthersInv PROVE OthersInv'
  <2> USE <1>4
  <2> SUFFICES ASSUME NEW w \in Workers \ {0}
               PROVE  /\ used'[w] \subseteq 1 .. flag'[w]
                      /\ flag'[w] <= query' * Probes
                      /\ flag'[w] <= (query' - 1) * Probes + Turns(w)'
    BY <1>1 DEF OthersInv
  <2>1. used'[w] = used[w] /\ flag'[w] = flag[w] /\ query' = query
    BY <1>1 DEF IInv, TypeOK
  <2>2. /\ used[w] \subseteq 1 .. flag[w] /\ flag[w] <= query * Probes
        /\ flag[w] <= (query - 1) * Probes
    BY <1>1 DEF OthersInv
  <2> QED BY <1>2, <2>1, <2>2
<1> QED BY <1>3, <1>4

\* A search counts its worker's tag up, and so does the place in the loop.
LEMMA SearchLeafSteps ==
    ASSUME IInv, IInv', NEW w \in Workers, SearchLeaf(w)
    PROVE  /\ phase = "probe" /\ phase' = "probe"
           /\ UNCHANGED <<query, app, currFlag>>
           /\ flag' = [flag EXCEPT ![w] = Next16(flag[w])] /\ MarkWith(w, Next16(flag[w]))
           /\ at[w] \in Nat /\ at[w] <= Probes /\ Turns(w) = at[w] - 1
           /\ Turns(w)' \in Int /\ Turns(w)' >= at[w]
           /\ \A v \in Workers \ {w} : Turns(v)' = Turns(v)
           /\ FirstFull => FirstFull'
<1>1. /\ pc[w] = "search"
      /\ flag' = [flag EXCEPT ![w] = Next16(flag[w])] /\ MarkWith(w, Next16(flag[w]))
      /\ UNCHANGED <<query, phase, app, candidates, currFlag>>
  BY DEF SearchLeaf, treeVars
<1>2. phase = "probe" /\ at[w] \in Tasks
  BY <1>1 DEF IInv, PhaseInv
<1>3. at[w] \in Nat /\ at[w] <= Probes /\ Turns(w) = at[w] - 1
  <2>1. Len(candidates) \in Nat
    BY DEF IInv, TypeOK
  <2> QED BY <1>1, <1>2, <2>1, Numbers DEF Tasks, Turns
<1>4. \/ pc' = [pc EXCEPT ![w] = "write"] /\ at' = at
      \/ pc' = [pc EXCEPT ![w] = "read"] /\ at' = [at EXCEPT ![w] = at[w] + NumWorkers]
  BY Zenon DEF SearchLeaf, Continue
<1>5. Turns(w)' \in Int /\ Turns(w)' >= at[w]
  <2>1. \/ pc'[w] = "write" /\ at'[w] = at[w]
        \/ pc'[w] = "read" /\ at'[w] = at[w] + NumWorkers
    BY <1>4 DEF IInv, TypeOK
  <2> QED BY <1>3, <2>1, Numbers DEF Turns
<1>6. \A v \in Workers \ {w} : Turns(v)' = Turns(v)
  <2>1. \A v \in Workers \ {w} : pc'[v] = pc[v] /\ at'[v] = at[v]
    BY <1>4 DEF IInv, TypeOK
  <2> QED BY <2>1 DEF Turns
<1>7. FirstFull => FirstFull'
  <2> DEFINE A == {x \in found : x.leaf = app}
             B == {x \in found' : x.leaf = app}
  <2>1. found \subseteq found'
    BY DEF SearchLeaf
  <2>2. A \subseteq B /\ IsFiniteSet(B)
    <3>1. IsFiniteSet(found') /\ B \subseteq found'
      BY DEF IInv, FiniteInv
    <3> QED BY <2>1, <3>1, FS_Subset
  <2> HIDE DEF A, B
  <2>3. /\ Cardinality(A) <= Cardinality(B)
        /\ Cardinality(A) \in Nat /\ Cardinality(B) \in Nat
    BY <2>2, FS_Subset, FS_CardinalityType
  <2>4. Cardinality(A) >= K => Cardinality(B) >= K
    BY <2>3, Numbers
  <2> QED BY <1>1, <2>4 DEF FirstFull, A, B
<1> QED BY <1>1, <1>2, <1>3, <1>5, <1>6, <1>7

LEMMA SearchLeafTags ==
    ASSUME IInv, IInv', FirstInv, Probes + 1 < FlagMod, NEW w \in Workers, SearchLeaf(w)
    PROVE  FirstInv'
<1> SUFFICES ASSUME query' <= 1 PROVE FirstInv'
  BY DEF FirstInv
<1>1. /\ phase = "probe" /\ phase' = "probe"
      /\ UNCHANGED <<query, app, currFlag>>
      /\ flag' = [flag EXCEPT ![w] = Next16(flag[w])] /\ MarkWith(w, Next16(flag[w]))
      /\ at[w] \in Nat /\ at[w] <= Probes /\ Turns(w) = at[w] - 1
      /\ Turns(w)' \in Int /\ Turns(w)' >= at[w]
      /\ \A v \in Workers \ {w} : Turns(v)' = Turns(v)
      /\ FirstFull => FirstFull'
  BY SearchLeafSteps
<1> HIDE DEF Turns
<1>2. /\ query = 1 /\ ~stale /\ FirstFull
      /\ \A v \in Workers : used[v] \subseteq 1 .. flag[v] /\ flag[v] <= Turns(v) + 1
  BY <1>1, TagTypes DEF IInv, FirstInv
<1>3. flag[w] \in Nat /\ flag[w] <= at[w] /\ flag[w] + 1 < FlagMod
  BY <1>1, <1>2, TagTypes, Numbers DEF IInv
<1>4. Next16(flag[w]) = flag[w] + 1
  BY <1>3, TagAfter
<1>5. ~stale'
  <2>1. flag[w] + 1 \notin used[w]
    BY <1>2, <1>3
  <2> QED BY <1>1, <1>2, <1>4, <2>1 DEF MarkWith
<1>6. ASSUME NEW v \in Workers
      PROVE  used'[v] \subseteq 1 .. flag'[v] /\ flag'[v] <= Turns(v)' + 1
  <2>1. CASE v = w
    <3>1. used'[w] = used[w] \cup {flag[w] + 1} /\ flag'[w] = flag[w] + 1
      BY <1>1, <1>4 DEF MarkWith, IInv, TypeOK
    <3>2. used[w] \subseteq 1 .. flag[w]
      BY <1>2
    <3> QED BY <1>1, <1>3, <2>1, <3>1, <3>2
  <2>2. CASE v # w
    <3>1. used'[v] = used[v] /\ flag'[v] = flag[v] /\ Turns(v)' = Turns(v)
      BY <1>1, <2>2 DEF MarkWith, IInv, TypeOK
    <3> QED BY <1>2, <3>1
  <2> QED BY <2>1, <2>2
<1> QED BY <1>1, <1>2, <1>5, <1>6 DEF FirstInv

\* The tag of another worker has not come round.
LEMMA OthersTag ==
    ASSUME IInv, OthersInv, MaxQueries * Probes < FlagMod, NEW w \in Workers \ {0},
           phase = "probe", Turns(w) + 1 <= Probes
    PROVE  Next16(flag[w]) = flag[w] + 1 /\ flag[w] + 1 <= query * Probes
<1>1. /\ query \in Nat /\ MaxQueries \in Nat /\ query <= MaxQueries
      /\ flag[w] \in Nat /\ Turns(w) \in Int /\ Probes \in Nat /\ FlagMod \in Nat
  BY TagTypes, Numbers DEF IInv
<1> HIDE DEF Turns
<1> DEFINE a == (query - 1) * Probes
           b == query * Probes
           c == MaxQueries * Probes
<1>2. a \in Int /\ b \in Nat /\ c \in Nat /\ a + Probes = b /\ b <= c /\ c < FlagMod
  BY <1>1, Products
<1>3. flag[w] <= a + Turns(w)
  BY DEF OthersInv
<1> HIDE DEF a, b, c
<1>4. flag[w] + 1 <= b /\ flag[w] + 1 < FlagMod
  BY <1>1, <1>2, <1>3
<1> QED BY <1>1, <1>4, TagAfter DEF b

LEMMA SearchLeafOthers ==
    ASSUME IInv, IInv', OthersInv, MaxQueries * Probes < FlagMod, NEW w \in Workers, SearchLeaf(w)
    PROVE  OthersInv'
<1>1. /\ phase = "probe" /\ phase' = "probe" /\ query' = query
      /\ flag' = [flag EXCEPT ![w] = Next16(flag[w])] /\ MarkWith(w, Next16(flag[w]))
      /\ at[w] \in Nat /\ at[w] <= Probes /\ Turns(w) = at[w] - 1
      /\ Turns(w)' \in Int /\ Turns(w)' >= at[w]
      /\ \A v \in Workers \ {w} : Turns(v)' = Turns(v)
  BY SearchLeafSteps
<1> HIDE DEF Turns
<1> SUFFICES ASSUME NEW v \in Workers \ {0}
             PROVE  /\ used'[v] \subseteq 1 .. flag'[v]
                    /\ flag'[v] <= query' * Probes
                    /\ flag'[v] <= (query' - 1) * Probes + Turns(v)'
  BY <1>1 DEF OthersInv
<1>2. /\ used[v] \subseteq 1 .. flag[v] /\ flag[v] <= query * Probes
      /\ flag[v] <= (query - 1) * Probes + Turns(v)
  BY <1>1 DEF OthersInv
<1>3. CASE v = w
  <2>1. flag[w] \in Nat /\ query \in Nat /\ Probes \in Nat
    BY TagTypes, Numbers DEF IInv
  <2>2. Next16(flag[w]) = flag[w] + 1 /\ flag[w] + 1 <= query * Probes
    <3>1. Turns(w) + 1 <= Probes
      BY <1>1
    <3> QED BY <1>1, <1>3, <3>1, OthersTag
  <2>3. used'[w] = used[w] \cup {flag[w] + 1} /\ flag'[w] = flag[w] + 1
    BY <1>1, <2>2 DEF MarkWith, IInv, TypeOK
  <2>4. used'[w] \subseteq 1 .. flag'[w]
    BY <1>2, <1>3, <2>1, <2>3
  <2>5. flag'[w] <= (query - 1) * Probes + Turns(w)'
    <3> DEFINE a == (query - 1) * Probes
    <3>1. a \in Int /\ flag[w] <= a + Turns(w)
      BY <1>2, <1>3, <2>1
    <3> HIDE DEF a
    <3>2. flag'[w] <= a + Turns(w)'
      BY <1>1, <2>1, <2>3, <3>1
    <3> QED BY <3>2 DEF a
  <2> QED BY <1>1, <1>3, <2>2, <2>3, <2>4, <2>5
<1>4. CASE v # w
  <2>1. used'[v] = used[v] /\ flag'[v] = flag[v] /\ Turns(v)' = Turns(v)
    BY <1>1, <1>4 DEF MarkWith, IInv, TypeOK
  <2> QED BY <1>1, <1>2, <2>1
<1> QED BY <1>3, <1>4

\* The steps without a search.
Quiet ==
    \/ \E n \in Nodes : PopNode(n)
    \/ \E w \in Workers : ReadBsf(w) \/ SkipLeaf(w) \/ WriteBsf(w) \/ MergeNext(w)
    \/ EndWorkers
    \/ Answer

LEMMA QuietStep ==
    ASSUME IInv, Quiet
    PROVE  /\ phase # "idle"
           /\ UNCHANGED <<query, app, currFlag, flag, used, stale, found>>
           /\ \/ phase' = phase /\ \A w \in Workers : Turns(w)' >= Turns(w)
              \/ phase' \in {"merge", "idle"}
<1>1. \A w \in Workers : at[w] \in Nat /\ Turns(w) \in Int
  BY TagTypes DEF IInv
<1>2. UNCHANGED <<pc, at>> => \A w \in Workers : Turns(w)' >= Turns(w)
  BY <1>1 DEF Turns
<1>3. ASSUME NEW n \in Nodes, PopNode(n)
      PROVE  /\ phase = "collect" /\ phase' = phase /\ UNCHANGED <<pc, at>>
             /\ UNCHANGED <<query, app, currFlag, flag, used, stale, found>>
  BY <1>3 DEF PopNode, workerVars, flagVars
<1>4. ASSUME NEW w \in Workers, ReadBsf(w) \/ SkipLeaf(w) \/ WriteBsf(w)
      PROVE  /\ phase = "probe" /\ phase' = phase
             /\ UNCHANGED <<query, app, currFlag, flag, used, stale, found>>
             /\ \A v \in Workers : Turns(v)' >= Turns(v)
  <2>1. phase = "probe"
    BY <1>4 DEF ReadBsf, SkipLeaf, WriteBsf, IInv, PhaseInv
  <2>2. phase' = phase /\ UNCHANGED <<query, app, currFlag, flag, used, stale, found>>
    BY <1>4 DEF ReadBsf, SkipLeaf, WriteBsf, treeVars, flagVars
  <2>3. \/ pc[w] = "read" /\ pc' = [pc EXCEPT ![w] = "search"] /\ at' = at
        \/ pc' = [pc EXCEPT ![w] = "read"] /\ at' = [at EXCEPT ![w] = at[w] + NumWorkers]
    BY <1>4, Zenon DEF ReadBsf, SkipLeaf, WriteBsf, Continue
  <2>4. /\ \/ pc[w] = "read" /\ pc'[w] = "search" /\ at'[w] = at[w]
           \/ pc'[w] = "read" /\ at'[w] = at[w] + NumWorkers
        /\ \A v \in Workers \ {w} : pc'[v] = pc[v] /\ at'[v] = at[v]
    BY <2>3 DEF IInv, TypeOK
  <2>5. ASSUME NEW v \in Workers PROVE Turns(v)' >= Turns(v)
    BY <1>1, <2>4, Numbers DEF Turns
  <2> QED BY <2>1, <2>2, <2>5
<1>5. ASSUME EndWorkers
      PROVE  /\ phase = "probe" /\ phase' = "merge"
             /\ UNCHANGED <<query, app, currFlag, flag, used, stale, found>>
  BY <1>5 DEF EndWorkers, treeVars, flagVars
<1>6. ASSUME (\E w \in Workers : MergeNext(w)) \/ Answer
      PROVE  /\ phase = "merge" /\ phase' \in {"merge", "idle"}
             /\ UNCHANGED <<query, app, currFlag, flag, used, stale, found>>
  BY <1>6 DEF MergeNext, Answer, treeVars, flagVars
<1> QED BY <1>2, <1>3, <1>4, <1>5, <1>6, Zenon DEF Quiet

LEMMA StutterTags ==
    ASSUME UNCHANGED vars
    PROVE  (FirstInv => FirstInv') /\ (OthersInv => OthersInv')
<1>1. UNCHANGED <<query, phase, app, pc, at, currFlag, flag, used, stale, found>>
  BY DEF vars, treeVars, workerVars, flagVars
<1>2. FirstFull' = FirstFull /\ \A w \in Workers : Turns(w)' = Turns(w)
  BY <1>1 DEF FirstFull, Turns
<1> QED BY <1>1, <1>2 DEF FirstInv, OthersInv

LEMMA OtherSteps ==
    ASSUME IInv, IInv', [Next]_vars,
           ~SearchAppNode, \A w \in Workers : ~SearchLeaf(w)
    PROVE  (FirstInv => FirstInv') /\ (OthersInv => OthersInv')
<1>1. StartWorkers \/ Quiet \/ UNCHANGED vars
  BY Zenon DEF Next, Worker, Quiet
<1>2. CASE Quiet
  BY <1>2, QuietStep, QuietTags DEF IInv
<1> QED BY <1>1, <1>2, StartWorkersTags, StutterTags

\* With fewer probes than tags, the first query of an engine is not disturbed by
\* tags: its first search is full, as the theorems on answers suppose, and no
\* search takes marks of another for its own.
THEOREM FirstQueryFreshHolds == Probes + 1 < FlagMod => (Spec => []FirstQueryFresh)
<1> SUFFICES ASSUME Probes + 1 < FlagMod PROVE Spec => []FirstQueryFresh
  OBVIOUS
<1>1. Init => FirstInv
  BY DEF Init, FirstInv
<1>2. IInv /\ IInv' /\ FirstInv /\ [Next]_vars => FirstInv'
  BY SearchAppNodeTags, SearchLeafTags, OtherSteps
<1>3. FirstInv => FirstQueryFresh
  BY DEF FirstInv, FirstQueryFresh, TagsFresh
<1> QED BY <1>1, <1>2, <1>3, Inductive, PTL DEF Spec

\* The count of QueryEngine.cpp:33 is right for every worker but the first: with
\* fewer searches than tags in all queries, none begins with a tag it has used.
THEOREM OthersFreshHolds == MaxQueries * Probes < FlagMod => (Spec => []OthersFresh)
<1> SUFFICES ASSUME MaxQueries * Probes < FlagMod PROVE Spec => []OthersFresh
  OBVIOUS
<1>1. Init => OthersInv
  BY Numbers DEF Init, OthersInv
<1>2. IInv /\ IInv' /\ OthersInv /\ [Next]_vars => OthersInv'
  BY SearchAppNodeOthers, SearchLeafOthers, OtherSteps
<1>3. IInv /\ OthersInv => OthersFresh
  <2> SUFFICES ASSUME IInv, OthersInv, NEW w \in Workers \ {0}, pc[w] = "search"
               PROVE  Next16(flag[w]) \notin used[w]
    BY DEF OthersFresh
  <2>1. phase = "probe" /\ at[w] \in Tasks
    BY DEF IInv, PhaseInv
  <2>2. at[w] <= Probes /\ at[w] \in Nat
    <3>1. Len(candidates) \in Nat
      BY DEF IInv, TypeOK
    <3> QED BY <2>1, <3>1, Numbers DEF Tasks
  <2>3. Turns(w) + 1 <= Probes
    BY <2>2 DEF Turns
  <2>4. Next16(flag[w]) = flag[w] + 1
    BY <2>1, <2>3, OthersTag
  <2>5. used[w] \subseteq 1 .. flag[w] /\ flag[w] \in Nat
    BY TagTypes DEF IInv, OthersInv
  <2> QED BY <2>4, <2>5
<1> QED BY <1>1, <1>2, <1>3, Inductive, PTL DEF Spec
=============================================================================
