---------------------------- MODULE SPTAGQueryMC ----------------------------
(* SPTAGQuery for TLC. *)
EXTENDS SPTAGQuery, TLC

Symmetry == Permutations(Clients)

\* Bound: one query by each client and one spurious wakeup, or, without one,
\* two queries by one client while the other one has given up dialling.
TwoQueries ==
  /\ Cardinality(spurious') <= 1
  /\ \A c \in Clients : sent'[c] = 2 =>
       /\ spurious' = {}
       /\ \A d \in Clients \ {c} : sent'[d] = 0 /\ d \notin dialling' /\ table'[d] = 0
=============================================================================
