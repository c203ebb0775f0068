-------------------------- MODULE MCAccessRequests --------------------------
(* Instances of AccessRequests for TLC.                                     *)
EXTENDS AccessRequests, TLC

Symmetry == Permutations(Handlers) \cup Permutations(Ids)
=============================================================================
