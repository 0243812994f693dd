--------------------------- MODULE MCScreeningCost ---------------------------
(* A small instance of ScreeningCost for TLC. *)
EXTENDS ScreeningCost

CONSTANTS tab1, tab2, tender1, tender2, consumer1, consumer2

MCRequests == {tab1, tab2}
MCTenders == {tender1, tender2}
MCCached == {tender2}
MCConsumers == {consumer1, consumer2}
=============================================================================
