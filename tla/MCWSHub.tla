------------------------------ MODULE MCWSHub ------------------------------
(* WSHub for TLC: model values for clients and broadcasting goroutines.    *)
EXTENDS WSHub, TLC

Symmetry == Permutations(Client) \cup Permutations(Broadcaster)
=============================================================================
