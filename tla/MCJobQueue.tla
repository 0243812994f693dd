------------------------------ MODULE MCJobQueue ------------------------------
(* Constants of the TLC runs of JobQueue. *)
EXTENDS JobQueue

CONSTANTS c1, c2, k1, k2

MCIds == 1..2
MCConsumers == {c1, c2}
MCKeys == {k1, k2}
MCPriorities == {1, 5}
\* One container claims every kind, the other is dedicated to k1's.
MCServes == [c \in MCConsumers |-> IF c = c1 THEN MCKeys ELSE {k1}]
=============================================================================
