---------------------------- MODULE ELPISQueryMC ----------------------------
(* ELPISQuery for TLC: a tree of four leaves, whose halves and leaves are    *)
(* interchangeable.                                                          *)
EXTENDS ELPISQuery, TLC

CONSTANTS root, i1, i2, l1, l2, l3, l4

FourLeaves == {l1, l2, l3, l4}
Tree == (root :> {i1, i2}) @@ (i1 :> {l1, l2}) @@ (i2 :> {l3, l4})
Below == (root :> FourLeaves) @@ (i1 :> {l1, l2}) @@ (i2 :> {l3, l4}) @@ [l \in FourLeaves |-> {l}]

Symmetry == {p \in Permutations(FourLeaves \cup {i1, i2}) :
               \A i \in {i1, i2} : p[i] \in {i1, i2} /\ {p[l] : l \in Tree[i]} = Tree[p[i]]}

\* Bounds do not fall on the way down, that of the root is 0, and that of the
\* first leaf, which nobody looks at, is that of its parent.
BoundsRise ==
    /\ bound'[root] = 0
    /\ \A i \in Inner : \A c \in Children[i] :
          bound'[i] <= bound'[c] /\ (c = app' => bound'[i] = bound'[c])

\* Beside the entry points, two searches find a neighbour.
Small == BoundsRise /\ Cardinality({x \in found' : x.n > 0}) <= 2
=============================================================================
