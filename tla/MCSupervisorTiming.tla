------------------------- MODULE MCSupervisorTiming -------------------------
(* The observed supervisor with the values of MCSupervisor. *)
EXTENDS SupervisorTiming, MCSupervisor
=============================================================================
