----------------------------- MODULE MCQueueUse -----------------------------
(* NPDMessageQueue on small sets of threads. *)
EXTENDS QueueUse, TLC

CONSTANTS p1, p2, c1, c2, x, y

PushersAndOne == {p1, p2, c1}
Two == {c1, c2}
=============================================================================
