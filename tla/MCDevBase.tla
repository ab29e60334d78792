------------------------------ MODULE MCDevBase ------------------------------
(* Two devices: d1 is an NPDSerial, the class of d2 marks steps 2..8 itself. *)
EXTENDS DevBase

CONSTANTS d1, d2

Steps == [d \in Devices |-> IF d = d1 THEN {} ELSE 2..8]
=============================================================================
