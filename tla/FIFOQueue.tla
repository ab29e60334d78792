------------------------------ MODULE FIFOQueue ------------------------------
(***************************************************************************)
(* What a thread-safe queue promises ("@brief", NPDMessageQueue.hpp:4):    *)
(* elements leave once each, in the order they came, and a pop() is        *)
(* refused only at a moment of its call when the queue is empty.           *)
(***************************************************************************)
EXTENDS Sequences

CONSTANTS Threads, Elems, Garbage

VARIABLES
  items,      \* the elements inside
  phase,      \* "idle", "pending" or "refused": where each thread's pop() is
  got         \* the element its last successful pop() returned

vars == <<items, phase, got>>

Init ==
  /\ items = <<>>
  /\ phase = [t \in Threads |-> "idle"]
  /\ got = [t \in Threads |-> Garbage]

Put(e) ==
  /\ items' = Append(items, e)
  /\ UNCHANGED <<phase, got>>

Ask(t) ==
  /\ phase[t] # "pending"
  /\ phase' = [phase EXCEPT ![t] = "pending"]
  /\ UNCHANGED <<items, got>>

Take(t) ==
  /\ phase[t] = "pending"
  /\ items # <<>>
  /\ items' = Tail(items)
  /\ got' = [got EXCEPT ![t] = Head(items)]
  /\ phase' = [phase EXCEPT ![t] = "idle"]

Refuse(t) ==
  /\ phase[t] = "pending"
  /\ items = <<>>
  /\ phase' = [phase EXCEPT ![t] = "refused"]
  /\ UNCHANGED <<items, got>>

(* The caller deals with the exception and turns to a push(). *)
Dismiss(t) ==
  /\ phase[t] = "refused"
  /\ phase' = [phase EXCEPT ![t] = "idle"]
  /\ UNCHANGED <<items, got>>

Next ==
  \/ \E e \in Elems : Put(e)
  \/ \E t \in Threads : Ask(t) \/ Take(t) \/ Refuse(t) \/ Dismiss(t)

Spec == Init /\ [][Next]_vars
=============================================================================
