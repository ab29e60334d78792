----------------------------- MODULE MCTCPServer -----------------------------
(* One or two connections; the bodies tell the clients apart. *)
EXTENDS TCPServer

CONSTANTS c1, c2, b1, b2

BodiesOf == [c \in Conns |-> IF c = c1 THEN {<<>>, <<11>>, <<11, 12>>}
                                       ELSE {<<21>>, <<21, 22>>}]

Five == [c \in Conns |-> 5]
Two == [c \in Conns |-> 2]
TwoAndNone == [c \in Conns |-> IF c = c1 THEN 2 ELSE 0]
=============================================================================
