----------------------------- MODULE Lifecycle -----------------------------
(***************************************************************************)
(* What an instance promises about its children, whatever the goroutines   *)
(* around it do: there is one entitlement to run a child, and it is handed *)
(* from the starter to the child, to its exit event and to whoever         *)
(* consumes that event.  So children never overlap, an exit is consumed    *)
(* once, and an entitlement given up is never found again.                 *)
(***************************************************************************)
VARIABLE phase  \* "starting", "up", "exited" or "over"

Init == phase = "starting"

Spawn == phase = "starting" /\ phase' = "up"
Exit == phase = "up" /\ phase' = "exited"
Restart == phase = "exited" /\ phase' = "starting"
GiveUp == phase \in {"starting", "exited"} /\ phase' = "over"

Next == Spawn \/ Exit \/ Restart \/ GiveUp

Spec == Init /\ [][Next]_phase
=============================================================================
