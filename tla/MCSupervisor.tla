---------------------------- MODULE MCSupervisor ----------------------------
(* Values for the constants of Supervisor: three children, of which one is *)
(* allowed to exit, skip counts on both sides of the threshold, and        *)
(* policies in which the deadlines do not divide by the poll period.       *)
EXTENDS Supervisor

MCSkips        == {0, 3}
MCAllPublished == [t \in Templates |-> "ok"]
=============================================================================
