----------------------------- MODULE MCProcess -----------------------------
(* Process for TLC: model values for goroutines and exec.Cmd objects.      *)
EXTENDS Process, TLC

Symmetry == Permutations(Cmd) \cup Permutations(Monitors) \cup Permutations(Stoppers)
=============================================================================
