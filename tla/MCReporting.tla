---------------------------- MODULE MCReporting ----------------------------
(* Reporting for TLC.                                                      *)
EXTENDS Reporting, TLC
=============================================================================
