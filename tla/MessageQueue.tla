---------------------------- MODULE MessageQueue ----------------------------
(***************************************************************************)
(* NPDMessageQueue<T> (LibNPDBase/NPDMessageQueue.hpp): a std::queue and a *)
(* std::mutex.  push() and size() work under the mutex.  pop() first asks  *)
(* empty() WITHOUT the mutex, throws if the answer is yes, and only then   *)
(* locks, copies front() and removes it.                                   *)
(*                                                                         *)
(* The std::queue sits on a std::deque, whose two cursors are the state:   *)
(* start (next element to leave) and the end of store (where the next one  *)
(* goes).  empty() compares the two cursors; unlocked, it loads one after  *)
(* the other, in whichever order the compiler chose, and other threads may *)
(* move either in between.                                                 *)
(***************************************************************************)
EXTENDS Integers, Sequences, FiniteSets

CONSTANTS
  Threads,    \* threads that share the queue
  Elems,      \* values of the element type
  Garbage,    \* what front() of an empty queue yields
  Free        \* owner of an unlocked mutex

ASSUME GarbageAssumption == Garbage \notin Elems
ASSUME FreeAssumption == Free \notin Threads
ASSUME ThreadsAssumption == IsFiniteSet(Threads)

VARIABLES
  store,      \* every element pushed so far, in the order it was stored
  start,      \* how many were removed: the deque's start cursor
  lock,       \* holder of _QUEUE_LOCK
  qpc,        \* where each thread is inside the queue's operations
  half,       \* the cursor empty() has loaded first, while it runs
  task,       \* _task, the argument of push(), while it runs
  front       \* _NPD_MESSAGE_QUEUE_FRONT, the result of pop()

qvars == <<store, start, lock, qpc, half, task, front>>

Returned == {"out", "took", "thrown"}
QPc == Returned \cup {"push", "pushing", "empty", "emptyF", "emptyS",
                      "lock", "front", "drop"}

(* What the queue holds, oldest first. *)
Content == SubSeq(store, start + 1, Len(store))

(* size(): the distance of the cursors.  (The code returns it unsigned: it   *)
(* is 0 for equal cursors only, and after an underflow a huge number.)      *)
QueueSize == Len(store) - start

QTypeOK ==
  /\ store \in Seq(Elems)
  /\ start \in Nat
  /\ lock \in Threads \cup {Free}
  /\ qpc \in [Threads -> QPc]
  /\ half \in [Threads -> Nat]
  /\ task \in [Threads -> Elems \cup {Garbage}]
  /\ front \in [Threads -> Elems \cup {Garbage}]

QInit ==
  /\ store = <<>>
  /\ start = 0
  /\ lock = Free
  /\ qpc = [t \in Threads |-> "out"]
  /\ half = [t \in Threads |-> 0]
  /\ task = [t \in Threads |-> Garbage]
  /\ front = [t \in Threads |-> Garbage]

-----------------------------------------------------------------------------
(* push(_task): lock_guard, std::queue::push. *)

PushCall(t, e) ==
  /\ qpc[t] \in Returned
  /\ qpc' = [qpc EXCEPT ![t] = "push"]
  /\ task' = [task EXCEPT ![t] = e]
  /\ UNCHANGED <<store, start, lock, half, front>>

PushLock(t) ==
  /\ qpc[t] = "push"
  /\ lock = Free
  /\ lock' = t
  /\ qpc' = [qpc EXCEPT ![t] = "pushing"]
  /\ UNCHANGED <<store, start, half, task, front>>

(* Negative controls, here and below, are named Mut...: definitions with a  *)
(* bug, which the properties must catch when they stand in for the original.*)
MutStoreMoved(t) ==           \* the argument was moved from before it is stored
  /\ qpc[t] = "pushing"
  /\ store' = Append(store, Garbage)
  /\ task' = [task EXCEPT ![t] = Garbage]
  /\ lock' = Free
  /\ qpc' = [qpc EXCEPT ![t] = "out"]
  /\ UNCHANGED <<start, half, front>>

MutStoreOnce(t) ==            \* a task is stored only if none is waiting
  /\ qpc[t] = "pushing"
  /\ store' = IF start < Len(store) THEN store ELSE Append(store, task[t])
  /\ task' = [task EXCEPT ![t] = Garbage]
  /\ lock' = Free
  /\ qpc' = [qpc EXCEPT ![t] = "out"]
  /\ UNCHANGED <<start, half, front>>

PushStore(t) ==
  /\ qpc[t] = "pushing"
  /\ store' = Append(store, task[t])
  /\ task' = [task EXCEPT ![t] = Garbage]
  /\ lock' = Free
  /\ qpc' = [qpc EXCEPT ![t] = "out"]
  /\ UNCHANGED <<start, half, front>>

-----------------------------------------------------------------------------
(* pop(): empty() and the throw, unlocked; then lock_guard, front, pop. *)

PopCall(t) ==
  /\ qpc[t] \in Returned
  /\ qpc' = [qpc EXCEPT ![t] = "empty"]
  /\ UNCHANGED <<store, start, lock, half, task, front>>

EmptyLoadFinish(t) ==
  /\ qpc[t] = "empty"
  /\ half' = [half EXCEPT ![t] = Len(store)]
  /\ qpc' = [qpc EXCEPT ![t] = "emptyF"]
  /\ UNCHANGED <<store, start, lock, task, front>>

EmptyLoadStart(t) ==
  /\ qpc[t] = "empty"
  /\ half' = [half EXCEPT ![t] = start]
  /\ qpc' = [qpc EXCEPT ![t] = "emptyS"]
  /\ UNCHANGED <<store, start, lock, task, front>>

(* The second load and the comparison. *)
MutSaysEmpty(t) == qpc[t] = "emptyS" /\ half[t] = Len(store)

SaysEmpty(t) ==
  \/ qpc[t] = "emptyF" /\ half[t] = start
  \/ qpc[t] = "emptyS" /\ half[t] = Len(store)

PopThrow(t) ==
  /\ SaysEmpty(t)
  /\ qpc' = [qpc EXCEPT ![t] = "thrown"]
  /\ half' = [half EXCEPT ![t] = 0]
  /\ UNCHANGED <<store, start, lock, task, front>>

PopGoOn(t) ==
  /\ qpc[t] \in {"emptyF", "emptyS"}
  /\ ~SaysEmpty(t)
  /\ qpc' = [qpc EXCEPT ![t] = "lock"]
  /\ half' = [half EXCEPT ![t] = 0]
  /\ UNCHANGED <<store, start, lock, task, front>>

PopLock(t) ==
  /\ qpc[t] = "lock"
  /\ lock = Free
  /\ lock' = t
  /\ qpc' = [qpc EXCEPT ![t] = "front"]
  /\ UNCHANGED <<store, start, half, task, front>>

MutPopBack(t) ==              \* back() for front()
  /\ qpc[t] = "front"
  /\ front' = [front EXCEPT ![t] = IF start < Len(store) THEN store[Len(store)]
                                                         ELSE Garbage]
  /\ qpc' = [qpc EXCEPT ![t] = "drop"]
  /\ UNCHANGED <<store, start, lock, half, task>>

PopFront(t) ==
  /\ qpc[t] = "front"
  /\ front' = [front EXCEPT ![t] = IF start < Len(store) THEN store[start + 1]
                                                         ELSE Garbage]
  /\ qpc' = [qpc EXCEPT ![t] = "drop"]
  /\ UNCHANGED <<store, start, lock, half, task>>

MutKeepLock(t) ==             \* the mutex is not released
  /\ qpc[t] = "drop"
  /\ start' = start + 1
  /\ qpc' = [qpc EXCEPT ![t] = "took"]
  /\ UNCHANGED <<store, lock, half, task, front>>

PopDrop(t) ==
  /\ qpc[t] = "drop"
  /\ start' = start + 1
  /\ lock' = Free
  /\ qpc' = [qpc EXCEPT ![t] = "took"]
  /\ UNCHANGED <<store, half, task, front>>

(* Everything a thread does inside an operation, the removal apart: callers *)
(* that keep books on the elements follow PushStore and PopDrop by name.    *)
QuietStep(t) ==
  \/ PushLock(t)
  \/ EmptyLoadFinish(t) \/ EmptyLoadStart(t)
  \/ PopThrow(t) \/ PopGoOn(t)
  \/ PopLock(t) \/ PopFront(t)

QueueStep(t) == QuietStep(t) \/ PushStore(t) \/ PopDrop(t)

-----------------------------------------------------------------------------
(* The mutex is held exactly inside the critical sections. *)
LockInv == \A t \in Threads : qpc[t] \in {"pushing", "front", "drop"} <=> lock = t

(* A push() in progress has its argument. *)
TaskInv == \A t \in Threads : qpc[t] \in {"push", "pushing"} => task[t] \in Elems

(* front() and pop() are only applied to a queue that holds something. *)
NoUnderflow == \A t \in Threads : qpc[t] \in {"front", "drop"} => start < Len(store)
=============================================================================
