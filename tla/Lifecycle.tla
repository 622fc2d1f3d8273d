----------------------------- MODULE Lifecycle ------------------------------
(***************************************************************************)
(* What state_machine.hpp promises of every module, without the locks, the *)
(* flags and the threads that its transitions use: Initializing takes      *)
(* Ready to Running or Stopped, Stopping takes Ready or Running to         *)
(* Stopped, one transition runs at a time, and a stopped module is dead.   *)
(***************************************************************************)
VARIABLE phase

Init == phase = "Ready"

BeginInitializing == phase = "Ready" /\ phase' = "Initializing"

EndInitializing == phase = "Initializing" /\ phase' \in {"Running", "Stopped"}

BeginStopping == phase \in {"Ready", "Running"} /\ phase' = "Stopping"

EndStopping == phase = "Stopping" /\ phase' = "Stopped"

Next == BeginInitializing \/ EndInitializing \/ BeginStopping \/ EndStopping

Safety == Init /\ [][Next]_phase

\* A transition that began also ends.
Spec == Safety /\ WF_phase(EndInitializing) /\ WF_phase(EndStopping)
=============================================================================
