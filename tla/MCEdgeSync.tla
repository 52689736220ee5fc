----------------------------- MODULE MCEdgeSync -----------------------------
(***************************************************************************)
(* TLC instances of EdgeSync.  Instances, request slots, record ids and    *)
(* values are interchangeable: no definition picks one of them.            *)
(***************************************************************************)
EXTENDS EdgeSync, TLC

Symmetry == Permutations(Nodes) \cup Permutations(Reqs)
              \cup Permutations(Ids) \cup Permutations(Vals)
              \cup Permutations(Apexes)
=============================================================================
