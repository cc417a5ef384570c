----------------------------- MODULE MCProgram -----------------------------
(* Program for TLC, with model values for main, the requests and the       *)
(* names of groups; liveness is checked, so no symmetry is used.           *)
EXTENDS Program, TLC
=============================================================================
