------------------------------ MODULE QueueUse ------------------------------
(***************************************************************************)
(* NPDMessageQueue in the hands of threads that call push() and pop() as   *)
(* they like.  Poppers are the threads that ever call pop(); with one of   *)
(* them the queue is the thread-safe FIFO its header announces, with two   *)
(* it is not.                                                              *)
(***************************************************************************)
EXTENDS MessageQueue

CONSTANTS
  Pushers,    \* threads that call push()
  Poppers,    \* threads that call pop()
  MaxPush     \* bound: calls of push() in a behaviour

ASSUME UsersAssumption == Pushers \subseteq Threads /\ Poppers \subseteq Threads
ASSUME MaxPushAssumption == MaxPush \in Nat

vars == qvars

BeingPushed == {t \in Threads : qpc[t] \in {"push", "pushing"}}

CallPush(t, e) ==
  /\ Len(store) + Cardinality(BeingPushed) < MaxPush
  /\ PushCall(t, e)

CallPop(t) ==
  /\ start <= MaxPush
  /\ PopCall(t)

Next ==
  \/ \E t \in Pushers, e \in Elems : CallPush(t, e)
  \/ \E t \in Poppers : CallPop(t)
  \/ \E t \in Threads : QueueStep(t)

(* A thread inside an operation is scheduled again; a free mutex is given  *)
(* to somebody who keeps asking.                                           *)
Fairness == \A t \in Threads : WF_vars(QueueStep(t))

Spec == QInit /\ [][Next]_vars /\ Fairness

-----------------------------------------------------------------------------
(* The refinement.  An element leaves when front() has copied it; a pop()   *)
(* is refused when the empty queue is seen: at the load of the end cursor,  *)
(* if that came first, because the popper itself is the only thread that    *)
(* moves start.                                                             *)

Dropping == \E t \in Threads : qpc[t] = "drop"

AbsItems == IF Dropping THEN Tail(Content) ELSE Content

Refused(t) == qpc[t] = "thrown" \/ (qpc[t] = "emptyF" /\ half[t] = start)

AbsPhase ==
  [t \in Threads |->
     IF Refused(t) THEN "refused"
     ELSE IF qpc[t] \in {"empty", "emptyF", "emptyS", "lock", "front"} THEN "pending"
     ELSE "idle"]

Abstract == INSTANCE FIFOQueue
  WITH items <- AbsItems, phase <- AbsPhase, got <- front

(* With a single popper the queue is a linearizable FIFO: nothing is lost,  *)
(* duplicated or reordered, and pop() throws only if the queue was empty at *)
(* some moment of the call, in spite of the unlocked empty().               *)
IsFIFO == Abstract!Spec

(* Every pop() that is called comes back, with an element or an exception.  *)
PopReturns == \A t \in Threads : qpc[t] = "empty" ~> qpc[t] \in {"took", "thrown"}
=============================================================================
