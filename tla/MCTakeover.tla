----------------------------- MODULE MCTakeover -----------------------------
(* Values for the constants of Takeover: the desktop and one service.      *)
EXTENDS Takeover

MCSkips        == {0, 1}
MCAllPublished == [t \in Templates |-> "ok"]
=============================================================================
