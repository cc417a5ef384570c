------------------------------ MODULE MCGroup ------------------------------
(* Group for TLC: model values for main and the requests, which are        *)
(* interchangeable within their kind.                                      *)
EXTENDS Group, TLC

Symmetry == Permutations(Starts) \cup Permutations(Stops) \cup Permutations(Restarts)
=============================================================================
