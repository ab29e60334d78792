---------------------------- MODULE QueueUse_proofs ----------------------------
(***************************************************************************)
(* A queue with one popper, for any threads, elements and calls: types, no *)
(* underflow, and the FIFO it implements.  Only the popper moves start;    *)
(* whatever empty() has loaded of the two cursors, start is what it was    *)
(* and the end can only have moved on.                                     *)
(***************************************************************************)
EXTENDS QueueUse, SequenceTheorems, TLAPS

(* What the queue's own steps preserve, whoever its callers are: types, the *)
(* mutex and the arguments in progress.                                     *)
QInv == QTypeOK /\ LockInv /\ TaskInv

(* The empty queue is well-typed and unlocked.                              *)
LEMMA QInitInv == QInit => QInv
BY FreeAssumption DEF QInit, QInv, QTypeOK, LockInv, TaskInv, QPc, Returned

(* A call of push() with an element keeps the queue well-formed.            *)
LEMMA PushCallInv ==
  ASSUME NEW t \in Threads, NEW e \in Elems, QInv, PushCall(t, e)
  PROVE  QInv'
<1>1. QTypeOK'
  BY DEF QInv, QTypeOK, PushCall, QPc, Returned
<1>2. LockInv'
  BY DEF QInv, QTypeOK, LockInv, PushCall, Returned
<1>3. TaskInv'
  BY DEF QInv, QTypeOK, TaskInv, PushCall, Returned
<1>4. QED
  BY <1>1, <1>2, <1>3 DEF QInv

(* A call of pop() keeps the queue well-formed.                             *)
LEMMA PopCallInv ==
  ASSUME NEW t \in Threads, QInv, PopCall(t)
  PROVE  QInv'
BY DEF QInv, QTypeOK, LockInv, TaskInv, PopCall, QPc, Returned

(* Every step inside an operation keeps the queue well-formed; in           *)
(* particular two threads are never in a critical section together.         *)
LEMMA QueueStepInv ==
  ASSUME NEW t \in Threads, QInv, QueueStep(t)
  PROVE  QInv'
<1> USE DEF QInv, QTypeOK, LockInv, TaskInv, QPc, Returned
<1>1. CASE PushLock(t)
  BY <1>1, FreeAssumption DEF PushLock
<1>2. CASE PushStore(t)
  BY <1>2, FreeAssumption DEF PushStore
<1>3. CASE EmptyLoadFinish(t)
  BY <1>3 DEF EmptyLoadFinish
<1>4. CASE EmptyLoadStart(t)
  BY <1>4 DEF EmptyLoadStart
<1>5. CASE PopThrow(t)
  BY <1>5 DEF PopThrow, SaysEmpty
<1>6. CASE PopGoOn(t)
  BY <1>6 DEF PopGoOn
<1>7. CASE PopLock(t)
  BY <1>7, FreeAssumption DEF PopLock
<1>8. CASE PopFront(t)
  BY <1>8 DEF PopFront
<1>9. CASE PopDrop(t)
  BY <1>9, FreeAssumption DEF PopDrop
<1>10. QED
  BY <1>1, <1>2, <1>3, <1>4, <1>5, <1>6, <1>7, <1>8, <1>9 DEF QueueStep, QuietStep

(* Steps that leave the queue alone.                                        *)
LEMMA QStutterInv == QInv /\ UNCHANGED qvars => QInv'
BY DEF QInv, QTypeOK, LockInv, TaskInv, qvars

-----------------------------------------------------------------------------
SinglePopper == \A s, t \in Poppers : s = t

Popping == {"empty", "emptyF", "emptyS", "lock", "front", "drop"}

(* What a thread in pop() knows of the cursors.                             *)
Knows(t) ==
  /\ qpc[t] \in Popping => t \in Poppers
  /\ qpc[t] = "emptyF" => start <= half[t] /\ half[t] <= Len(store)
  /\ qpc[t] = "emptyS" => half[t] = start
  /\ qpc[t] \in {"lock", "front", "drop"} => start < Len(store)

IInv == QInv /\ start <= Len(store) /\ \A t \in Threads : Knows(t)

LEMMA LenStore == ASSUME QTypeOK PROVE Len(store) \in Nat /\ start \in Nat
BY LenProperties DEF QTypeOK

(* Another thread is not in pop() when one is.                              *)
LEMMA Alone ==
  ASSUME SinglePopper, IInv, NEW s \in Threads, NEW t \in Threads, s # t, qpc[t] \in Popping
  PROVE  qpc[s] \notin Popping
BY DEF SinglePopper, IInv, Knows

LEMMA InitInv == ASSUME QInit PROVE IInv
<1>1. QInv
  BY QInitInv
<1>2. start = 0 /\ store = <<>> /\ Len(store) = 0 /\ \A t \in Threads : qpc[t] = "out"
  BY DEF QInit
<1>3. QED
  BY <1>1, <1>2 DEF IInv, Knows, Popping

(* A step that moves no cursor, and after which the thread knows what it    *)
(* has to.                                                                  *)
LEMMA CursorsStay ==
  ASSUME IInv, QInv', NEW t \in Threads, UNCHANGED <<store, start>>,
         \A s \in Threads \ {t} : qpc'[s] = qpc[s] /\ half'[s] = half[s], Knows(t)'
  PROVE  IInv'
BY DEF IInv, Knows

LEMMA StepInv ==
  ASSUME SinglePopper, IInv, Next
  PROVE  IInv'
<1>0. QInv /\ QTypeOK /\ Len(store) \in Nat /\ start \in Nat /\ start <= Len(store)
  BY LenStore DEF IInv, QInv
<1> USE UsersAssumption
<1>1. ASSUME NEW t \in Threads, NEW e \in Elems, CallPush(t, e) PROVE IInv'
  <2>1. QInv'
    BY <1>0, <1>1, PushCallInv DEF CallPush
  <2>2. qpc' = [qpc EXCEPT ![t] = "push"] /\ UNCHANGED <<store, start, half>>
    BY <1>1 DEF CallPush, PushCall
  <2>3. Knows(t)'
    BY <1>0, <2>2 DEF QTypeOK, Knows, Popping
  <2>4. QED
    BY <1>0, <2>1, <2>2, <2>3, CursorsStay DEF QTypeOK
<1>2. ASSUME NEW t \in Poppers, CallPop(t) PROVE IInv'
  <2>1. QInv'
    BY <1>0, <1>2, PopCallInv DEF CallPop
  <2>2. qpc' = [qpc EXCEPT ![t] = "empty"] /\ UNCHANGED <<store, start, half>>
    BY <1>2 DEF CallPop, PopCall
  <2>3. Knows(t)'
    BY <1>0, <2>2 DEF QTypeOK, Knows, Popping
  <2>4. QED
    BY <1>0, <2>1, <2>2, <2>3, CursorsStay DEF QTypeOK
<1>3. ASSUME NEW t \in Threads, QueueStep(t) PROVE IInv'
  <2>1. QInv' /\ Knows(t)
    BY <1>0, <1>3, QueueStepInv DEF IInv
  <2>2. CASE PushLock(t)
    <3>1. qpc' = [qpc EXCEPT ![t] = "pushing"] /\ UNCHANGED <<store, start, half>>
      BY <2>2 DEF PushLock
    <3>2. Knows(t)'
      BY <1>0, <3>1 DEF QTypeOK, Knows, Popping
    <3>3. QED
      BY <1>0, <2>1, <3>1, <3>2, CursorsStay DEF QTypeOK
  <2>3. CASE EmptyLoadFinish(t)
    <3>1. /\ qpc[t] = "empty" /\ qpc' = [qpc EXCEPT ![t] = "emptyF"]
          /\ half' = [half EXCEPT ![t] = Len(store)] /\ UNCHANGED <<store, start>>
      BY <2>3 DEF EmptyLoadFinish
    <3>2. Knows(t)'
      BY <1>0, <2>1, <3>1 DEF QTypeOK, Knows, Popping
    <3>3. QED
      BY <1>0, <2>1, <3>1, <3>2, CursorsStay DEF QTypeOK
  <2>4. CASE EmptyLoadStart(t)
    <3>1. /\ qpc[t] = "empty" /\ qpc' = [qpc EXCEPT ![t] = "emptyS"]
          /\ half' = [half EXCEPT ![t] = start] /\ UNCHANGED <<store, start>>
      BY <2>4 DEF EmptyLoadStart
    <3>2. Knows(t)'
      BY <1>0, <2>1, <3>1 DEF QTypeOK, Knows, Popping
    <3>3. QED
      BY <1>0, <2>1, <3>1, <3>2, CursorsStay DEF QTypeOK
  <2>5. CASE PopThrow(t)
    <3>1. /\ qpc' = [qpc EXCEPT ![t] = "thrown"]
          /\ half' = [half EXCEPT ![t] = 0] /\ UNCHANGED <<store, start>>
      BY <2>5 DEF PopThrow
    <3>2. Knows(t)'
      BY <1>0, <3>1 DEF QTypeOK, Knows, Popping
    <3>3. QED
      BY <1>0, <2>1, <3>1, <3>2, CursorsStay DEF QTypeOK
  <2>6. CASE PopGoOn(t)
    <3>1. /\ qpc[t] \in {"emptyF", "emptyS"} /\ ~ SaysEmpty(t)
          /\ qpc' = [qpc EXCEPT ![t] = "lock"]
          /\ half' = [half EXCEPT ![t] = 0] /\ UNCHANGED <<store, start>>
      BY <2>6 DEF PopGoOn
    <3>2. half[t] \in Nat
      BY <1>0 DEF QTypeOK
    <3>3. start < Len(store) /\ t \in Poppers
      BY <1>0, <2>1, <3>1, <3>2 DEF SaysEmpty, Knows, Popping
    <3>4. Knows(t)'
      BY <1>0, <3>1, <3>3 DEF QTypeOK, Knows, Popping
    <3>5. QED
      BY <1>0, <2>1, <3>1, <3>4, CursorsStay DEF QTypeOK
  <2>7. CASE PopLock(t)
    <3>1. /\ qpc[t] = "lock" /\ qpc' = [qpc EXCEPT ![t] = "front"]
          /\ UNCHANGED <<store, start, half>>
      BY <2>7 DEF PopLock
    <3>2. Knows(t)'
      BY <1>0, <2>1, <3>1 DEF QTypeOK, Knows, Popping
    <3>3. QED
      BY <1>0, <2>1, <3>1, <3>2, CursorsStay DEF QTypeOK
  <2>8. CASE PopFront(t)
    <3>1. /\ qpc[t] = "front" /\ qpc' = [qpc EXCEPT ![t] = "drop"]
          /\ UNCHANGED <<store, start, half>>
      BY <2>8 DEF PopFront
    <3>2. Knows(t)'
      BY <1>0, <2>1, <3>1 DEF QTypeOK, Knows, Popping
    <3>3. QED
      BY <1>0, <2>1, <3>1, <3>2, CursorsStay DEF QTypeOK
  <2>9. CASE PushStore(t)
    <3>1. /\ qpc' = [qpc EXCEPT ![t] = "out"]
          /\ store' = Append(store, task[t]) /\ UNCHANGED <<start, half>>
      BY <2>9 DEF PushStore
    <3>2. Len(store') = Len(store) + 1
      BY <1>0, <3>1, AppendProperties DEF QTypeOK
    <3>3. \A s \in Threads : half[s] \in Nat /\ (qpc'[s] = qpc[s] \/ qpc'[s] = "out")
      BY <1>0, <3>1 DEF QTypeOK
    <3>4. ASSUME NEW s \in Threads PROVE Knows(s)'
      <4>1. Knows(s)
        BY DEF IInv
      <4>2. QED
        BY <1>0, <3>1, <3>2, <3>3, <4>1 DEF Knows, Popping
    <3>5. QED
      BY <1>0, <2>1, <3>1, <3>2, <3>4 DEF IInv
  <2>10. CASE PopDrop(t)
    <3>1. /\ qpc[t] = "drop" /\ qpc' = [qpc EXCEPT ![t] = "took"]
          /\ start' = start + 1 /\ UNCHANGED <<store, half>>
      BY <2>10 DEF PopDrop
    <3>2. start < Len(store)
      BY <2>1, <3>1 DEF Knows
    <3>3. \A s \in Threads : qpc'[s] \notin Popping
      <4>1. \A s \in Threads \ {t} : qpc[s] \notin Popping
        BY <3>1, Alone DEF Popping
      <4>2. QED
        BY <1>0, <3>1, <4>1 DEF QTypeOK, Popping
    <3>4. \A s \in Threads : Knows(s)'
      BY <3>3 DEF Knows, Popping
    <3>5. QED
      BY <1>0, <2>1, <3>1, <3>2, <3>4 DEF IInv
  <2>11. QED
    BY <1>3, <2>2, <2>3, <2>4, <2>5, <2>6, <2>7, <2>8, <2>9, <2>10 DEF QueueStep, QuietStep
<1>4. QED
  BY <1>1, <1>2, <1>3 DEF Next

(* IInv holds of every state.                                               *)
THEOREM Invariant == ASSUME SinglePopper PROVE Spec => []IInv
<1>1. IInv /\ [Next]_vars => IInv'
  <2>1. IInv /\ UNCHANGED vars => IInv'
    <3>1. QInv /\ UNCHANGED qvars => QInv'
      BY QStutterInv
    <3>2. QED
      BY <3>1 DEF IInv, Knows, vars, qvars
  <2>2. QED
    BY <2>1, StepInv
<1>2. QED
  BY InitInv, <1>1, PTL DEF Spec

(* Types and the mutex, for any number of poppers.                          *)
THEOREM QTypeCorrect == Spec => []QTypeOK
<1>1. QInit => QInv
  BY QInitInv
<1>2. QInv /\ [Next]_vars => QInv'
  <2>1. QInv /\ UNCHANGED vars => QInv'
    BY QStutterInv DEF vars
  <2>2. QED
    BY <2>1, PushCallInv, PopCallInv, QueueStepInv, UsersAssumption DEF Next, CallPush, CallPop
<1>3. QInv => QTypeOK
  BY DEF QInv
<1>4. QED
  BY <1>1, <1>2, <1>3, PTL DEF Spec

(* With one popper the unlocked empty() is enough: front() and pop() find   *)
(* an element, however many threads push meanwhile.                         *)
THEOREM NoUnderflowCorrect == ASSUME SinglePopper PROVE Spec => []NoUnderflow
<1>1. IInv => NoUnderflow
  BY DEF IInv, Knows, NoUnderflow
<1>2. QED
  BY <1>1, Invariant, PTL

-----------------------------------------------------------------------------
(* The elements from a place on, when one is added, and when the first goes. *)
LEMMA RestAppended ==
  ASSUME NEW S, NEW s \in Seq(S), NEW e \in S, NEW k \in 0..Len(s)
  PROVE  SubSeq(Append(s, e), k + 1, Len(Append(s, e))) = Append(SubSeq(s, k + 1, Len(s)), e)
<1> DEFINE new == Append(s, e)
           n == Len(s)
           left == SubSeq(new, k + 1, n + 1)
           rest == SubSeq(s, k + 1, n)
           right == Append(rest, e)
<1>1. n \in Nat /\ k \in Nat /\ k <= n
  BY LenProperties
<1>2. /\ new \in Seq(S) /\ Len(new) = n + 1 /\ new[n + 1] = e
      /\ \A i \in 1..n : new[i] = s[i]
  BY AppendProperties
<1>3. \A i \in 1..n : s[i] \in S
  BY ElementOfSeq
<1> HIDE DEF n, new
<1>4. /\ rest \in Seq(S) /\ Len(rest) = n - k
      /\ \A i \in 1..n - k : rest[i] = s[k + i]
  <2>1. \A i \in k + 1..n : s[i] \in S
    BY <1>1, <1>3
  <2>2. /\ rest \in Seq(S) /\ Len(rest) = IF k + 1 <= n THEN n - (k + 1) + 1 ELSE 0
        /\ \A i \in 1..n - (k + 1) + 1 : rest[i] = s[k + 1 + i - 1]
    BY <1>1, <2>1, SubSeqProperties
  <2> HIDE DEF rest
  <2>3. QED
    BY <1>1, <2>2
<1>5. /\ left \in Seq(S) /\ Len(left) = n + 1 - k
      /\ \A i \in 1..n + 1 - k : left[i] = new[k + i]
  <2>1. \A i \in k + 1..n + 1 : new[i] \in S
    BY <1>1, <1>2, <1>3
  <2>2. /\ left \in Seq(S) /\ Len(left) = IF k + 1 <= n + 1 THEN n + 1 - (k + 1) + 1 ELSE 0
        /\ \A i \in 1..n + 1 - (k + 1) + 1 : left[i] = new[k + 1 + i - 1]
    BY <1>1, <2>1, SubSeqProperties
  <2> HIDE DEF left
  <2>3. QED
    BY <1>1, <2>2
<1> HIDE DEF left, rest
<1>6. /\ right \in Seq(S) /\ Len(right) = Len(rest) + 1 /\ right[Len(rest) + 1] = e
      /\ \A i \in 1..Len(rest) : right[i] = rest[i]
  BY <1>4, AppendProperties
<1> HIDE DEF right
<1>7. ASSUME NEW i \in 1..n + 1 - k PROVE left[i] = right[i]
  <2>1. CASE i <= n - k
    BY <1>1, <1>2, <1>4, <1>5, <1>6, <2>1
  <2>2. CASE i = n + 1 - k
    BY <1>1, <1>2, <1>4, <1>5, <1>6, <2>2
  <2>3. QED
    BY <1>1, <2>1, <2>2
<1>8. left = right
  <2>1. Len(left) = n + 1 - k /\ Len(right) = n + 1 - k
    BY <1>1, <1>4, <1>5, <1>6
  <2>2. \A i \in 1..Len(left) : left[i] = right[i]
    BY <1>7, <2>1
  <2>3. QED
    BY <1>5, <1>6, <2>1, <2>2, SeqEqual
<1>9. QED
  BY <1>2, <1>8 DEF left, right, rest, new, n

LEMMA RestEmpty ==
  ASSUME NEW S, NEW s \in Seq(S)
  PROVE  SubSeq(s, Len(s) + 1, Len(s)) = <<>>
<1>1. Len(s) \in Nat
  BY LenProperties
<1>2. QED
  BY <1>1, SubSeqEmpty

(* What has been seen of the content in each state of the popper.           *)
LEMMA ItemsAre ==
  ASSUME IInv
  PROVE  /\ Dropping => /\ start < Len(store)
                        /\ AbsItems = SubSeq(store, start + 2, Len(store))
         /\ ~ Dropping => AbsItems = SubSeq(store, start + 1, Len(store))
<1>1. store \in Seq(Elems) /\ Len(store) \in Nat /\ start \in Nat
  BY LenStore DEF IInv, QInv, QTypeOK
<1>2. ASSUME Dropping PROVE start < Len(store)
  BY <1>2 DEF Dropping, IInv, Knows
<1>3. ASSUME Dropping PROVE AbsItems = SubSeq(store, start + 2, Len(store))
  <2>1. start + 1 \in 1..Len(store) /\ Len(store) \in start + 1..Len(store) /\ start + 1 + 1 = start + 2
    BY <1>1, <1>2, <1>3
  <2>2. Tail(SubSeq(store, start + 1, Len(store))) = SubSeq(store, start + 1 + 1, Len(store))
    BY <1>1, <2>1, HeadTailOfSubSeq
  <2>3. QED
    BY <1>3, <2>1, <2>2 DEF AbsItems, Content
<1>4. QED
  BY <1>2, <1>3 DEF AbsItems, Content

-----------------------------------------------------------------------------
(* Steps of FIFOQueue.                                                      *)
MapStep == Abstract!Next \/ UNCHANGED <<AbsItems, AbsPhase, front>>

PhaseOf(t) ==
  IF Refused(t) THEN "refused"
  ELSE IF qpc[t] \in {"empty", "emptyF", "emptyS", "lock", "front"} THEN "pending"
  ELSE "idle"

LEMMA PhaseIs ==
  /\ AbsPhase = [t \in Threads |-> PhaseOf(t)]
  /\ AbsPhase' = [t \in Threads |-> PhaseOf(t)']
BY DEF AbsPhase, PhaseOf

(* A step of t changes the phase of t at most, unless start moves.          *)
LEMMA PhaseMoves ==
  ASSUME NEW t \in Threads, start' = start,
         \A s \in Threads \ {t} : qpc'[s] = qpc[s] /\ half'[s] = half[s]
  PROVE  AbsPhase' = [AbsPhase EXCEPT ![t] = PhaseOf(t)']
<1>1. \A s \in Threads \ {t} : PhaseOf(s)' = PhaseOf(s)
  BY DEF PhaseOf, Refused
<1>2. QED
  BY <1>1, PhaseIs

(* A step that neither adds nor takes an element, as a step of the phase.   *)
LEMMA PhaseStep ==
  ASSUME IInv, NEW t \in Threads, UNCHANGED <<store, start, front>>, Dropping' = Dropping,
         \A s \in Threads \ {t} : qpc'[s] = qpc[s] /\ half'[s] = half[s],
         \/ PhaseOf(t)' = PhaseOf(t)
         \/ PhaseOf(t) # "pending" /\ PhaseOf(t)' = "pending"
         \/ PhaseOf(t) = "pending" /\ PhaseOf(t)' = "refused" /\ AbsItems = <<>>
         \/ PhaseOf(t) = "refused" /\ PhaseOf(t)' = "idle"
  PROVE  MapStep
<1>1. AbsPhase' = [AbsPhase EXCEPT ![t] = PhaseOf(t)'] /\ AbsPhase[t] = PhaseOf(t)
  BY PhaseMoves, PhaseIs
<1>2. AbsItems' = AbsItems
  BY DEF AbsItems, Content
<1>3. CASE PhaseOf(t)' = PhaseOf(t)
  <2>1. AbsPhase' = AbsPhase
    BY <1>1, <1>3, PhaseIs
  <2>2. QED
    BY <1>2, <2>1 DEF MapStep
<1>4. CASE PhaseOf(t) # "pending" /\ PhaseOf(t)' = "pending"
  <2>1. Abstract!Ask(t)
    BY <1>1, <1>2, <1>4 DEF Abstract!Ask
  <2>2. QED
    BY <2>1 DEF MapStep, Abstract!Next
<1>5. CASE PhaseOf(t) = "pending" /\ PhaseOf(t)' = "refused" /\ AbsItems = <<>>
  <2>1. Abstract!Refuse(t)
    BY <1>1, <1>2, <1>5 DEF Abstract!Refuse
  <2>2. QED
    BY <2>1 DEF MapStep, Abstract!Next
<1>6. CASE PhaseOf(t) = "refused" /\ PhaseOf(t)' = "idle"
  <2>1. Abstract!Dismiss(t)
    BY <1>1, <1>2, <1>6 DEF Abstract!Dismiss
  <2>2. QED
    BY <2>1 DEF MapStep, Abstract!Next
<1>7. QED
  BY <1>3, <1>4, <1>5, <1>6

(* Nobody drops an element before or after a step of t.                     *)
LEMMA NotDropping ==
  ASSUME NEW t \in Threads, QTypeOK, \A s \in Threads \ {t} : qpc'[s] = qpc[s],
         qpc[t] # "drop", qpc'[t] # "drop"
  PROVE  Dropping' = Dropping
BY DEF Dropping

LEMMA MapsNext ==
  ASSUME SinglePopper, IInv, Next
  PROVE  MapStep
<1>0. /\ QTypeOK /\ LockInv /\ TaskInv /\ Len(store) \in Nat /\ start \in Nat /\ start <= Len(store)
      /\ store \in Seq(Elems)
  BY LenStore DEF IInv, QInv, QTypeOK
<1> USE UsersAssumption
<1>1. ASSUME NEW t \in Threads, NEW e \in Elems, CallPush(t, e) PROVE MapStep
  <2>1. /\ qpc[t] \in Returned /\ qpc' = [qpc EXCEPT ![t] = "push"]
        /\ UNCHANGED <<store, start, half, front>>
    BY <1>1 DEF CallPush, PushCall
  <2>2. \A s \in Threads \ {t} : qpc'[s] = qpc[s] /\ half'[s] = half[s]
    BY <1>0, <2>1 DEF QTypeOK
  <2>3. qpc'[t] = "push" /\ Dropping' = Dropping
    BY <1>0, <2>1, <2>2, NotDropping DEF QTypeOK, Returned
  <2>4. PhaseOf(t) \in {"refused", "idle"} /\ PhaseOf(t)' = "idle"
    BY <2>1, <2>3 DEF PhaseOf, Refused, Returned
  <2>5. QED
    BY <2>1, <2>2, <2>3, <2>4, PhaseStep
<1>2. ASSUME NEW t \in Threads, CallPop(t) PROVE MapStep
  <2>1. /\ qpc[t] \in Returned /\ qpc' = [qpc EXCEPT ![t] = "empty"]
        /\ UNCHANGED <<store, start, half, front>>
    BY <1>2 DEF CallPop, PopCall
  <2>2. \A s \in Threads \ {t} : qpc'[s] = qpc[s] /\ half'[s] = half[s]
    BY <1>0, <2>1 DEF QTypeOK
  <2>3. qpc'[t] = "empty" /\ Dropping' = Dropping
    BY <1>0, <2>1, <2>2, NotDropping DEF QTypeOK, Returned
  <2>4. PhaseOf(t) # "pending" /\ PhaseOf(t)' = "pending"
    BY <2>1, <2>3 DEF PhaseOf, Refused, Returned
  <2>5. QED
    BY <2>1, <2>2, <2>3, <2>4, PhaseStep
<1>3. ASSUME NEW t \in Threads, PushLock(t) PROVE MapStep
  <2>1. /\ qpc[t] = "push" /\ qpc' = [qpc EXCEPT ![t] = "pushing"]
        /\ UNCHANGED <<store, start, half, front>>
    BY <1>3 DEF PushLock
  <2>2. \A s \in Threads \ {t} : qpc'[s] = qpc[s] /\ half'[s] = half[s]
    BY <1>0, <2>1 DEF QTypeOK
  <2>3. qpc'[t] = "pushing" /\ Dropping' = Dropping
    BY <1>0, <2>1, <2>2, NotDropping DEF QTypeOK
  <2>4. PhaseOf(t) = PhaseOf(t)'
    BY <2>1, <2>3 DEF PhaseOf, Refused
  <2>5. QED
    BY <2>1, <2>2, <2>3, <2>4, PhaseStep
<1>4. ASSUME NEW t \in Threads, EmptyLoadFinish(t) PROVE MapStep
  <2>1. /\ qpc[t] = "empty" /\ qpc' = [qpc EXCEPT ![t] = "emptyF"]
        /\ half' = [half EXCEPT ![t] = Len(store)] /\ UNCHANGED <<store, start, front>>
    BY <1>4 DEF EmptyLoadFinish
  <2>2. \A s \in Threads \ {t} : qpc'[s] = qpc[s] /\ half'[s] = half[s]
    BY <1>0, <2>1 DEF QTypeOK
  <2>3. qpc'[t] = "emptyF" /\ half'[t] = Len(store) /\ Dropping' = Dropping
    BY <1>0, <2>1, <2>2, NotDropping DEF QTypeOK
  <2>4. PhaseOf(t) = "pending" /\ PhaseOf(t)' = IF Len(store) = start THEN "refused" ELSE "pending"
    BY <2>1, <2>3 DEF PhaseOf, Refused
  <2>5. Len(store) = start => AbsItems = <<>>
    <3>1. ~ Dropping
      BY <2>1, Alone DEF Dropping, Popping
    <3>2. QED
      BY <1>0, <3>1, ItemsAre, RestEmpty
  <2>6. QED
    BY <2>1, <2>2, <2>3, <2>4, <2>5, PhaseStep
<1>5. ASSUME NEW t \in Threads, EmptyLoadStart(t) PROVE MapStep
  <2>1. /\ qpc[t] = "empty" /\ qpc' = [qpc EXCEPT ![t] = "emptyS"]
        /\ half' = [half EXCEPT ![t] = start] /\ UNCHANGED <<store, start, front>>
    BY <1>5 DEF EmptyLoadStart
  <2>2. \A s \in Threads \ {t} : qpc'[s] = qpc[s] /\ half'[s] = half[s]
    BY <1>0, <2>1 DEF QTypeOK
  <2>3. qpc'[t] = "emptyS" /\ Dropping' = Dropping
    BY <1>0, <2>1, <2>2, NotDropping DEF QTypeOK
  <2>4. PhaseOf(t) = PhaseOf(t)'
    BY <2>1, <2>3 DEF PhaseOf, Refused
  <2>5. QED
    BY <2>1, <2>2, <2>3, <2>4, PhaseStep
<1>6. ASSUME NEW t \in Threads, PopThrow(t) PROVE MapStep
  <2>1. /\ SaysEmpty(t) /\ qpc' = [qpc EXCEPT ![t] = "thrown"]
        /\ half' = [half EXCEPT ![t] = 0] /\ UNCHANGED <<store, start, front>>
    BY <1>6 DEF PopThrow
  <2>2. \A s \in Threads \ {t} : qpc'[s] = qpc[s] /\ half'[s] = half[s]
    BY <1>0, <2>1 DEF QTypeOK
  <2>3. qpc'[t] = "thrown" /\ Dropping' = Dropping
    BY <1>0, <2>1, <2>2, NotDropping DEF QTypeOK, SaysEmpty
  <2>4. PhaseOf(t)' = "refused"
    BY <2>3 DEF PhaseOf, Refused
  <2>5. CASE qpc[t] = "emptyF" /\ half[t] = start
    <3>1. PhaseOf(t) = "refused"
      BY <2>5 DEF PhaseOf, Refused
    <3>2. QED
      BY <2>1, <2>2, <2>3, <2>4, <3>1, PhaseStep
  <2>6. CASE qpc[t] = "emptyS" /\ half[t] = Len(store)
    <3>1. PhaseOf(t) = "pending"
      BY <2>6 DEF PhaseOf, Refused
    <3>2. start = Len(store)
      BY <2>6 DEF IInv, Knows
    <3>3. ~ Dropping
      BY <2>6, Alone DEF Dropping, Popping
    <3>4. AbsItems = <<>>
      BY <1>0, <3>2, <3>3, ItemsAre, RestEmpty
    <3>5. QED
      BY <2>1, <2>2, <2>3, <2>4, <3>1, <3>4, PhaseStep
  <2>7. QED
    BY <2>1, <2>5, <2>6 DEF SaysEmpty
<1>7. ASSUME NEW t \in Threads, PopGoOn(t) PROVE MapStep
  <2>1. /\ qpc[t] \in {"emptyF", "emptyS"} /\ ~ SaysEmpty(t) /\ qpc' = [qpc EXCEPT ![t] = "lock"]
        /\ half' = [half EXCEPT ![t] = 0] /\ UNCHANGED <<store, start, front>>
    BY <1>7 DEF PopGoOn
  <2>2. \A s \in Threads \ {t} : qpc'[s] = qpc[s] /\ half'[s] = half[s]
    BY <1>0, <2>1 DEF QTypeOK
  <2>3. qpc'[t] = "lock" /\ Dropping' = Dropping
    BY <1>0, <2>1, <2>2, NotDropping DEF QTypeOK
  <2>4. PhaseOf(t) = "pending" /\ PhaseOf(t)' = "pending"
    BY <2>1, <2>3 DEF PhaseOf, Refused, SaysEmpty
  <2>5. QED
    BY <2>1, <2>2, <2>3, <2>4, PhaseStep
<1>8. ASSUME NEW t \in Threads, PopLock(t) PROVE MapStep
  <2>1. /\ qpc[t] = "lock" /\ qpc' = [qpc EXCEPT ![t] = "front"]
        /\ UNCHANGED <<store, start, half, front>>
    BY <1>8 DEF PopLock
  <2>2. \A s \in Threads \ {t} : qpc'[s] = qpc[s] /\ half'[s] = half[s]
    BY <1>0, <2>1 DEF QTypeOK
  <2>3. qpc'[t] = "front" /\ Dropping' = Dropping
    BY <1>0, <2>1, <2>2, NotDropping DEF QTypeOK
  <2>4. PhaseOf(t) = PhaseOf(t)'
    BY <2>1, <2>3 DEF PhaseOf, Refused
  <2>5. QED
    BY <2>1, <2>2, <2>3, <2>4, PhaseStep
<1>9. ASSUME NEW t \in Threads, PopFront(t) PROVE MapStep
  <2>1. /\ qpc[t] = "front" /\ qpc' = [qpc EXCEPT ![t] = "drop"]
        /\ front' = [front EXCEPT ![t] = IF start < Len(store) THEN store[start + 1] ELSE Garbage]
        /\ UNCHANGED <<store, start, half>>
    BY <1>9 DEF PopFront
  <2>2. \A s \in Threads \ {t} : qpc'[s] = qpc[s] /\ half'[s] = half[s]
    BY <1>0, <2>1 DEF QTypeOK
  <2>3. qpc'[t] = "drop" /\ start < Len(store) /\ Dropping'
    BY <1>0, <2>1 DEF QTypeOK, IInv, Knows, Dropping
  <2>4. ~ Dropping
    BY <2>1, Alone DEF Dropping, Popping
  <2>5. start + 1 \in 1..Len(store) /\ Len(store) \in start + 1..Len(store)
    BY <1>0, <2>3
  <2>6. /\ AbsItems = SubSeq(store, start + 1, Len(store))
        /\ Head(AbsItems) = store[start + 1]
        /\ AbsItems' = Tail(AbsItems)
    <3>1. AbsItems = Content /\ Content' = Content /\ AbsItems' = Tail(Content')
      BY <2>1, <2>3, <2>4 DEF AbsItems, Content
    <3>2. QED
      BY <1>0, <2>5, <3>1, HeadTailOfSubSeq DEF Content
  <2>7. AbsItems # <<>>
    <3>1. SubSeq(store, start + 1, Len(store)) # <<>>
      <4>1. \A i \in start + 1..Len(store) : store[i] \in Elems
        BY <1>0, ElementOfSeq
      <4>2. Len(SubSeq(store, start + 1, Len(store))) = Len(store) - (start + 1) + 1
        BY <1>0, <2>5, <4>1, SubSeqProperties
      <4>3. Len(SubSeq(store, start + 1, Len(store))) # 0
        BY <1>0, <2>3, <4>2
      <4>4. Len(<<>>) = 0
        OBVIOUS
      <4>5. QED
        BY <4>3, <4>4, Zenon
    <3>2. QED
      BY <2>6, <3>1
  <2>8. PhaseOf(t) = "pending" /\ PhaseOf(t)' = "idle"
    BY <2>1, <2>3 DEF PhaseOf, Refused
  <2>9. AbsPhase' = [AbsPhase EXCEPT ![t] = "idle"] /\ AbsPhase[t] = "pending"
    BY <2>1, <2>2, <2>8, PhaseMoves, PhaseIs
  <2>10. Abstract!Take(t)
    BY <2>1, <2>3, <2>6, <2>7, <2>9 DEF Abstract!Take
  <2>11. QED
    BY <2>10 DEF MapStep, Abstract!Next
<1>10. ASSUME NEW t \in Threads, PushStore(t) PROVE MapStep
  <2>1. /\ qpc[t] = "pushing" /\ qpc' = [qpc EXCEPT ![t] = "out"]
        /\ store' = Append(store, task[t]) /\ UNCHANGED <<start, half, front>>
    BY <1>10 DEF PushStore
  <2>2. task[t] \in Elems
    BY <1>0, <2>1 DEF TaskInv
  <2>3. \A s \in Threads \ {t} : qpc'[s] = qpc[s] /\ half'[s] = half[s]
    BY <1>0, <2>1 DEF QTypeOK
  <2>4. qpc'[t] = "out" /\ Dropping' = Dropping
    BY <1>0, <2>1, <2>3, NotDropping DEF QTypeOK
  <2>5. PhaseOf(t) = "idle" /\ PhaseOf(t)' = "idle"
    BY <2>1, <2>4 DEF PhaseOf, Refused
  <2>6. AbsPhase' = AbsPhase
    BY <2>1, <2>3, <2>5, PhaseMoves, PhaseIs
  <2>7. AbsItems' = Append(AbsItems, task[t])
    <3>1. CASE Dropping
      <4>1. start + 1 \in 0..Len(store) /\ start + 1 + 1 = start + 2
        BY <1>0, <3>1, ItemsAre
      <4>2. AbsItems' = SubSeq(store', start + 2, Len(store'))
        <5>1. store' \in Seq(Elems) /\ Len(store') = Len(store) + 1
          BY <1>0, <2>1, <2>2, AppendProperties
        <5>2. start + 1 \in 1..Len(store') /\ Len(store') \in start + 1..Len(store')
          BY <1>0, <5>1
        <5>3. Tail(SubSeq(store', start + 1, Len(store'))) = SubSeq(store', start + 1 + 1, Len(store'))
          BY <5>1, <5>2, HeadTailOfSubSeq
        <5>4. AbsItems' = Tail(SubSeq(store', start + 1, Len(store')))
          BY <2>1, <2>4, <3>1 DEF AbsItems, Content
        <5>5. QED
          BY <4>1, <5>3, <5>4
      <4>3. AbsItems = SubSeq(store, start + 2, Len(store))
        BY <3>1, ItemsAre
      <4>4. SubSeq(Append(store, task[t]), start + 1 + 1, Len(Append(store, task[t])))
              = Append(SubSeq(store, start + 1 + 1, Len(store)), task[t])
        BY <1>0, <2>2, <4>1, RestAppended
      <4>5. QED
        BY <2>1, <4>1, <4>2, <4>3, <4>4
    <3>2. CASE ~ Dropping
      <4>1. start \in 0..Len(store)
        BY <1>0
      <4>2. AbsItems' = SubSeq(store', start + 1, Len(store'))
        BY <2>1, <2>4, <3>2 DEF AbsItems, Content
      <4>3. AbsItems = SubSeq(store, start + 1, Len(store))
        BY <3>2, ItemsAre
      <4>4. QED
        BY <1>0, <2>1, <2>2, <4>1, <4>2, <4>3, RestAppended
    <3>3. QED
      BY <3>1, <3>2
  <2>8. Abstract!Put(task[t])
    BY <2>1, <2>6, <2>7 DEF Abstract!Put
  <2>9. QED
    BY <2>2, <2>8 DEF MapStep, Abstract!Next
<1>11. ASSUME NEW t \in Threads, PopDrop(t) PROVE MapStep
  <2>1. /\ qpc[t] = "drop" /\ qpc' = [qpc EXCEPT ![t] = "took"]
        /\ start' = start + 1 /\ UNCHANGED <<store, half, front>>
    BY <1>11 DEF PopDrop
  <2>2. \A s \in Threads \ {t} : qpc'[s] = qpc[s] /\ qpc[s] \notin Popping
    BY <1>0, <2>1, Alone DEF QTypeOK, Popping
  <2>3. qpc'[t] = "took" /\ Dropping
    BY <1>0, <2>1 DEF QTypeOK, Dropping
  <2>4. ~ Dropping'
    BY <2>2, <2>3 DEF Dropping, Popping
  <2>5. \A s \in Threads : PhaseOf(s)' = PhaseOf(s)
    BY <2>1, <2>2, <2>3 DEF PhaseOf, Refused, Popping
  <2>6. AbsPhase' = AbsPhase
    BY <2>5, PhaseIs
  <2>7. AbsItems' = AbsItems
    <3>1. AbsItems' = SubSeq(store, start + 1 + 1, Len(store))
      BY <2>1, <2>4 DEF AbsItems, Content
    <3>2. start + 1 + 1 = start + 2
      BY <1>0
    <3>3. QED
      BY <2>3, <3>1, <3>2, ItemsAre
  <2>8. QED
    BY <2>1, <2>6, <2>7 DEF MapStep
<1>12. QED
  BY <1>1, <1>2, <1>3, <1>4, <1>5, <1>6, <1>7, <1>8, <1>9, <1>10, <1>11
  DEF Next, QueueStep, QuietStep

LEMMA InitMaps == ASSUME QInit PROVE Abstract!Init
<1>1. store = <<>> /\ start = 0 /\ front = [t \in Threads |-> Garbage]
      /\ \A t \in Threads : qpc[t] = "out"
  BY DEF QInit
<1>2. AbsItems = <<>>
  <2>1. ~ Dropping
    BY <1>1 DEF Dropping
  <2>2. AbsItems = SubSeq(store, 0 + 1, Len(store)) /\ Len(store) = 0
    BY <1>1, <2>1 DEF AbsItems, Content
  <2>3. QED
    BY <1>1, <2>2, SubSeqEmpty
<1>3. AbsPhase = [t \in Threads |-> "idle"]
  BY <1>1 DEF AbsPhase, Refused
<1>4. QED
  BY <1>1, <1>2, <1>3 DEF Abstract!Init

(* With one popper the queue is the FIFO its header announces, for any      *)
(* number of threads that push: nothing lost, doubled or out of order, and  *)
(* a pop() refused only if the queue was empty during it.                   *)
THEOREM IsFIFOCorrect == ASSUME SinglePopper PROVE Spec => IsFIFO
<1>1. IInv /\ [Next]_vars => [Abstract!Next]_(Abstract!vars)
  <2>1. UNCHANGED vars => UNCHANGED <<AbsItems, AbsPhase, front>>
    BY DEF vars, qvars, AbsItems, Content, Dropping, AbsPhase, Refused
  <2>2. QED
    BY <2>1, MapsNext DEF MapStep, Abstract!vars
<1>2. QED
  BY InitMaps, Invariant, <1>1, PTL DEF Spec, IsFIFO, Abstract!Spec
=============================================================================
