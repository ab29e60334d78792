---------------------------- MODULE TCPClient_proofs ----------------------------
(***************************************************************************)
(* NPDTCPClient for any number of threads, any message and frame lengths   *)
(* and any number of retries.  Shape is the part of the inductive          *)
(* invariant that says where the calls are; the balance of the tasks, the  *)
(* drain of disconnect() and the frame loop are then proved one by one on  *)
(* top of it.                                                              *)
(***************************************************************************)
EXTENDS TCPClient, FiniteSetTheorems, TLAPS

(* What the queue's own steps preserve, whoever its callers are: types, the *)
(* mutex and the arguments in progress.                                     *)
QInv == QTypeOK /\ LockInv /\ TaskInv

(* The empty queue is well-typed and unlocked.                              *)
LEMMA QInitInv == QInit => QInv
BY FreeAssumption DEF QInit, QInv, QTypeOK, LockInv, TaskInv, QPc, Returned

(* A call of push() with an element keeps the queue well-formed.            *)
LEMMA PushCallInv ==
  ASSUME NEW t \in Threads, NEW e \in Elems, QInv, PushCall(t, e)
  PROVE  QInv'
<1>1. QTypeOK'
  BY DEF QInv, QTypeOK, PushCall, QPc, Returned
<1>2. LockInv'
  BY DEF QInv, QTypeOK, LockInv, PushCall, Returned
<1>3. TaskInv'
  BY DEF QInv, QTypeOK, TaskInv, PushCall, Returned
<1>4. QED
  BY <1>1, <1>2, <1>3 DEF QInv

(* A call of pop() keeps the queue well-formed.                             *)
LEMMA PopCallInv ==
  ASSUME NEW t \in Threads, QInv, PopCall(t)
  PROVE  QInv'
BY DEF QInv, QTypeOK, LockInv, TaskInv, PopCall, QPc, Returned

(* Every step inside an operation keeps the queue well-formed; in           *)
(* particular two threads are never in a critical section together.         *)
LEMMA QueueStepInv ==
  ASSUME NEW t \in Threads, QInv, QueueStep(t)
  PROVE  QInv'
<1> USE DEF QInv, QTypeOK, LockInv, TaskInv, QPc, Returned
<1>1. CASE PushLock(t)
  BY <1>1, FreeAssumption DEF PushLock
<1>2. CASE PushStore(t)
  BY <1>2, FreeAssumption DEF PushStore
<1>3. CASE EmptyLoadFinish(t)
  BY <1>3 DEF EmptyLoadFinish
<1>4. CASE EmptyLoadStart(t)
  BY <1>4 DEF EmptyLoadStart
<1>5. CASE PopThrow(t)
  BY <1>5 DEF PopThrow, SaysEmpty
<1>6. CASE PopGoOn(t)
  BY <1>6 DEF PopGoOn
<1>7. CASE PopLock(t)
  BY <1>7, FreeAssumption DEF PopLock
<1>8. CASE PopFront(t)
  BY <1>8 DEF PopFront
<1>9. CASE PopDrop(t)
  BY <1>9, FreeAssumption DEF PopDrop
<1>10. QED
  BY <1>1, <1>2, <1>3, <1>4, <1>5, <1>6, <1>7, <1>8, <1>9 DEF QueueStep, QuietStep

(* Steps that leave the queue alone.                                        *)
LEMMA QStutterInv == QInv /\ UNCHANGED qvars => QInv'
BY DEF QInv, QTypeOK, LockInv, TaskInv, qvars

-----------------------------------------------------------------------------
Shape == TypeOK /\ LockInv /\ TaskInv /\ PlaceInv /\ ReadyInv

(* Initially nobody is in a call.                                           *)
LEMMA InitShape == Init => Shape
<1> SUFFICES ASSUME Init PROVE Shape
  OBVIOUS
<1>1. QInv
  BY QInitInv DEF Init
<1>2. ObjectTypes
  BY DEF Init, ObjectTypes
<1>3. CallTypes
  BY CallsAssumption DEF Init, CallTypes, PcValues
<1>4. LoopTypes
  BY RetriesAssumption DEF Init, LoopTypes
<1>5. HistoryTypes
  BY DEF Init, HistoryTypes
<1>6. PlaceInv /\ ReadyInv
  BY DEF Init, QInit, PlaceInv, ReadyInv, Returned
<1>7. QED
  BY <1>1, <1>2, <1>3, <1>4, <1>5, <1>6 DEF Shape, TypeOK, QInv

(* Calls that do not touch the queue and end, or begin, at once.            *)
LEMMA EnterShape ==
  ASSUME NEW t \in Threads, Shape, Enter(t) \/ DisconnectBegin(t)
  PROVE  Shape'
<1>1. UNCHANGED qvars /\ UNCHANGED objvars /\ UNCHANGED loopvars /\ UNCHANGED histvars
  BY DEF Enter, Connect, SendRefuse, RecvRefuse, RecvBegin, DisconnectBegin, SendBegin
<1>2. QInv'
  BY <1>1, QStutterInv DEF QInv, Shape, TypeOK
<1>3. ObjectTypes' /\ LoopTypes' /\ HistoryTypes'
  BY <1>1 DEF Shape, TypeOK, ObjectTypes, LoopTypes, HistoryTypes,
              objvars, loopvars, histvars
<1>4. CallTypes' /\ PlaceInv' /\ ReadyInv'
  <2> USE <1>1, CallsAssumption
      DEF Shape, TypeOK, CallTypes, PcValues, PlaceInv, ReadyInv,
          Call, Return, Goto, Returned, qvars, objvars
  <2>1. CASE Connect(t) \/ SendRefuse(t) \/ RecvRefuse(t)
    BY <2>1 DEF Connect, SendRefuse, RecvRefuse
  <2>2. CASE RecvBegin(t)
    BY <2>2 DEF RecvBegin, ObjectTypes
  <2>3. CASE DisconnectBegin(t)
    BY <2>3 DEF DisconnectBegin
  <2>4. ASSUME NEW n \in Sizes, SendBegin(t, n)
        PROVE  CallTypes' /\ PlaceInv' /\ ReadyInv'
    BY <2>4, MaxLengthsAssumption DEF SendBegin, ObjectTypes
  <2>5. QED
    BY <2>1, <2>2, <2>3, <2>4 DEF Enter
<1>5. QED
  BY <1>2, <1>3, <1>4 DEF Shape, TypeOK, QInv

(* init() finds nobody in a call.                                           *)
LEMMA ClientInitShape ==
  ASSUME NEW fd \in SockFds, NEW len \in MaxLengths, Shape, ClientInit(fd, len)
  PROVE  Shape'
<1>1. UNCHANGED qvars /\ UNCHANGED loopvars /\ UNCHANGED histvars
  BY DEF ClientInit
<1>2. QInv'
  BY <1>1, QStutterInv DEF QInv, Shape, TypeOK
<1>3. LoopTypes' /\ HistoryTypes'
  BY <1>1 DEF Shape, TypeOK, LoopTypes, HistoryTypes, loopvars, histvars
<1>4. ObjectTypes' /\ CallTypes' /\ PlaceInv' /\ ReadyInv'
  BY <1>1, SockFdsAssumption
  DEF ClientInit, Shape, TypeOK, ObjectTypes, CallTypes, PlaceInv, ReadyInv, qvars
<1>5. QED
  BY <1>2, <1>3, <1>4 DEF Shape, TypeOK, QInv

(* Steps inside the queue leave the client where it is.                     *)
LEMMA QueueShape ==
  ASSUME NEW t \in Threads, Shape, InQueue(t) \/ TaskStored(t)
  PROVE  Shape'
<1>1. QueueStep(t)
  BY DEF InQueue, TaskStored, QueueStep
<1>2. QInv'
  BY <1>1, QueueStepInv DEF QInv, Shape, TypeOK
<1>3. UNCHANGED <<objvars, pc, calls, ret, num, size, loopvars>>
  BY DEF InQueue, TaskStored
<1>4. ObjectTypes' /\ CallTypes' /\ LoopTypes' /\ ReadyInv'
  BY <1>3 DEF Shape, TypeOK, ObjectTypes, CallTypes, LoopTypes, ReadyInv, objvars, loopvars
<1>5. HistoryTypes'
  <2> USE DEF Shape, TypeOK, HistoryTypes
  <2>1. CASE InQueue(t)
    BY <2>1 DEF InQueue, histvars
  <2>2. CASE TaskStored(t)
    <3>1. Len(store) + 1 \in Nat
      BY DEF QTypeOK
    <3>2. QED
      BY <2>2, <3>1 DEF TaskStored
  <2>3. QED
    BY <2>1, <2>2
<1>6. PlaceInv'
  <2> SUFFICES ASSUME NEW u \in Threads
               PROVE  /\ pc[u] \in {"push", "rpush"} => qpc'[u] \in {"push", "pushing", "out"}
                      /\ pc[u] = "pop" => qpc'[u] \in QPc \ {"push", "pushing", "out"}
                      /\ pc[u] \notin {"push", "rpush", "pop"} => qpc'[u] \in Returned
    BY <1>3 DEF PlaceInv
  <2> USE DEF Shape, TypeOK, QTypeOK, PlaceInv, QPc, Returned
  <2>1. CASE u # t
    BY <2>1, <1>1 DEF QueueStep, QuietStep, PushLock, PushStore, EmptyLoadFinish,
       EmptyLoadStart, PopThrow, PopGoOn, PopLock, PopFront, PopDrop
  <2>2. CASE u = t
    BY <2>2, <1>1 DEF QueueStep, QuietStep, PushLock, PushStore, EmptyLoadFinish,
       EmptyLoadStart, PopThrow, PopGoOn, PopLock, PopFront, PopDrop, SaysEmpty
  <2>3. QED
    BY <2>1, <2>2
<1>7. QED
  BY <1>2, <1>4, <1>5, <1>6 DEF Shape, TypeOK, QInv

(* The task number is stored and push() is called.                          *)
LEMMA NumberShape ==
  ASSUME NEW t \in Threads, Shape, Number(t)
  PROVE  Shape'
<1>1. (num[t] + 1) % 256 \in Elems
  BY ElemsAssumption DEF Shape, TypeOK, CallTypes
<1>2. QInv'
  BY <1>1, PushCallInv DEF Number, QInv, Shape, TypeOK
<1>3. LoopTypes' /\ HistoryTypes'
  BY DEF Number, Shape, TypeOK, LoopTypes, HistoryTypes, loopvars, histvars
<1>4. ObjectTypes' /\ CallTypes'
  BY DEF Number, Goto, Shape, TypeOK, ObjectTypes, CallTypes, PcValues
<1>5. PlaceInv' /\ ReadyInv'
  BY DEF Number, PushCall, Goto, Shape, TypeOK, QTypeOK, CallTypes, PlaceInv, ReadyInv, Returned
<1>6. QED
  BY <1>2, <1>3, <1>4, <1>5 DEF Shape, TypeOK, QInv

(* Inside send() there is a frame length and a message.                     *)
LEMMA SendIsReady ==
  ASSUME NEW t \in Threads, Shape, pc[t] \in {"number", "push", "chunk", "whole", "pop"}
  PROVE  maxLength \in Nat \ {0} /\ size[t] \in Nat \ {0} /\ size[t] \in Sizes
<1>1. maxLength > 0 /\ size[t] \in Sizes
  BY DEF Shape, ReadyInv
<1>2. maxLength \in Int
  BY MaxLengthsAssumption DEF Shape, TypeOK, ObjectTypes
<1>3. maxLength \in Nat \ {0}
  BY <1>1, <1>2
<1>4. size[t] \in Nat \ {0}
  BY <1>1, PayloadsAssumption DEF Sizes, HeaderSize
<1>5. QED
  BY <1>1, <1>3, <1>4

(* push() has returned: the loop of send() is set up.                       *)
LEMMA SendStartShape ==
  ASSUME NEW t \in Threads, Shape, SendStart(t)
  PROVE  Shape'
<1>1. QInv'
  BY QStutterInv DEF SendStart, QInv, Shape, TypeOK
<1>2. maxLength \in Nat \ {0} /\ size[t] \in Nat
  BY SendIsReady DEF SendStart
<1>3. ObjectTypes' /\ CallTypes'
  BY DEF SendStart, Goto, Shape, TypeOK, ObjectTypes, CallTypes, PcValues, objvars
<1>4. size[t] \div maxLength \in Int
  BY <1>2
<1>5. LoopTypes'
  <2>1. errorCount' \in [Threads -> 0..ERROR_RETURN_TIMES]
    BY RetriesAssumption DEF SendStart, Shape, TypeOK, LoopTypes
  <2>2. offset' \in [Threads -> Nat] /\ sendLength' \in [Threads -> Nat]
    BY <1>2 DEF SendStart, Shape, TypeOK, LoopTypes
  <2>3. ncount' \in [Threads -> Int]
    BY <1>4 DEF SendStart, Shape, TypeOK, LoopTypes
  <2>4. QED
    BY <2>1, <2>2, <2>3 DEF LoopTypes
<1>6. HistoryTypes'
  BY DEF SendStart, Shape, TypeOK, HistoryTypes
<1>7. PlaceInv' /\ ReadyInv'
  BY DEF SendStart, Goto, Shape, TypeOK, QTypeOK, CallTypes, PlaceInv, ReadyInv,
         Returned, qvars, objvars
<1>8. QED
  BY <1>1, <1>3, <1>5, <1>6, <1>7 DEF Shape, TypeOK, QInv

(* What is left of a message after its full frames is a length.             *)
LEMMA Remainder ==
  ASSUME NEW n \in Nat, NEW m \in Nat \ {0}
  PROVE  /\ n \div m \in Nat
         /\ n - (n \div m) * m \in 0..(m - 1)
         /\ n > m => n \div m >= 1
OBVIOUS

(* Concatenating consecutive places.                                        *)
LEMMA BytesConcat ==
  ASSUME NEW n \in Nat, NEW len \in Nat
  PROVE  /\ Bytes(0, n) \in Seq(Nat)
         /\ Bytes(n, len) \in Seq(Nat)
         /\ Len(Bytes(0, n)) = n
         /\ Bytes(0, n) \o Bytes(n, len) = Bytes(0, n + len)
BY DEF Bytes

(* The socket calls of send(): they move the locals of the loop and end, or *)
(* go on, with pop().                                                       *)
LEMMA TryShape ==
  ASSUME NEW t \in Threads, Shape, NEW full \in BOOLEAN,
         FrameSent(t, full) \/ WholeSent(t, full) \/ SendRetry(t) \/ SendGiveUp(t)
         \/ FramesDone(t)
  PROVE  Shape'
<1>1. /\ maxLength \in Nat \ {0} /\ size[t] \in Nat \ {0} /\ size[t] \in Sizes
      /\ pc[t] \in {"chunk", "whole"}
  BY SendIsReady DEF FrameSent, WholeSent, SendRetry, SendGiveUp, FramesDone, Trying
<1>2. QInv'
  BY QStutterInv, PopCallInv
  DEF FrameSent, WholeSent, SendRetry, SendGiveUp, FramesDone, Finish, QInv, Shape, TypeOK
<1>3. ObjectTypes'
  BY DEF FrameSent, WholeSent, SendRetry, SendGiveUp, FramesDone, Shape, TypeOK,
         ObjectTypes, objvars
<1>4. CallTypes'
  BY <1>1 DEF FrameSent, WholeSent, SendRetry, SendGiveUp, FramesDone, Finish, Goto,
         Return, Shape, TypeOK, CallTypes, PcValues
<1>5. LoopTypes'
  <2> USE DEF Shape, TypeOK, LoopTypes
  <2>1. CASE WholeSent(t, full) \/ SendGiveUp(t) \/ FramesDone(t)
    BY <2>1 DEF WholeSent, SendGiveUp, FramesDone, loopvars
  <2>2. CASE SendRetry(t)
    BY <2>2, RetriesAssumption DEF SendRetry
  <2>3. CASE FrameSent(t, full)
    <3>1. NextLength(t) \in Nat
      BY <1>1, Remainder DEF NextLength
    <3>2. QED
      BY <2>3, <3>1 DEF FrameSent
  <2>4. QED
    BY <2>1, <2>2, <2>3
<1>6. HistoryTypes'
  <2> USE DEF Shape, TypeOK, HistoryTypes
  <2>1. CASE SendRetry(t) \/ SendGiveUp(t)
    <3>1. fails' = [fails EXCEPT ![t] = @ + 1] /\ UNCHANGED <<offered, short, slot, seen, leaked>>
      BY <2>1 DEF SendRetry, SendGiveUp
    <3>2. QED
      BY <3>1
  <2>2. CASE FramesDone(t)
    BY <2>2 DEF FramesDone, histvars
  <2>3. CASE FrameSent(t, full) \/ WholeSent(t, full)
    <3>1. offset[t] \in Nat /\ sendLength[t] \in Nat
      BY DEF LoopTypes
    <3>2. Bytes(offset[t], sendLength[t]) \in Seq(Nat)
      BY <3>1, BytesConcat
    <3>3. offered[t] \o Bytes(offset[t], sendLength[t]) \in Seq(Nat)
      BY <3>2
    <3>4. offered' \in [Threads -> Seq(Nat)] /\ short' \in [Threads -> BOOLEAN]
      BY <2>3, <3>3 DEF FrameSent, WholeSent, KernelTakes
    <3>5. QED
      BY <2>3, <3>4 DEF FrameSent, WholeSent
  <2>4. QED
    BY <2>1, <2>2, <2>3
<1>7. PlaceInv' /\ ReadyInv'
  <2> USE <1>1 DEF Shape, TypeOK, QTypeOK, CallTypes, PlaceInv, ReadyInv, Returned, QPc
  <2>1. CASE FrameSent(t, full) \/ SendRetry(t)
    BY <2>1 DEF FrameSent, SendRetry, qvars, objvars
  <2>2. CASE WholeSent(t, full) \/ SendGiveUp(t) \/ FramesDone(t)
    BY <2>2 DEF WholeSent, SendGiveUp, FramesDone, Finish, PopCall, Goto, objvars
  <2>3. QED
    BY <2>1, <2>2
<1>8. QED
  BY <1>2, <1>3, <1>4, <1>5, <1>6, <1>7 DEF Shape, TypeOK, QInv

(* Returns, and the steps of disconnect().                                  *)
LEMMA LeaveShape ==
  ASSUME NEW t \in Threads, Shape,
         \/ SendReturn(t) \/ SendThrow(t) \/ \E v \in {-1, 0} : RecvEnd(t, v)
         \/ DisconnectStep(t)
  PROVE  Shape'
<1> USE DEF SendReturn, SendThrow, RecvEnd, DisconnectStep, DrainSeen, CloseNothing, CloseFd
<1>1. UNCHANGED qvars /\ UNCHANGED loopvars
  OBVIOUS
<1>2. QInv'
  BY <1>1, QStutterInv DEF QInv, Shape, TypeOK
<1>3. ObjectTypes' /\ LoopTypes'
  BY <1>1 DEF Shape, TypeOK, ObjectTypes, LoopTypes, objvars, loopvars
<1>4. HistoryTypes'
  <2>1. Len(store) \in Nat
    BY DEF Shape, TypeOK, QTypeOK
  <2> USE DEF Shape, TypeOK, HistoryTypes, histvars
  <2>2. CASE SendReturn(t) \/ CloseNothing(t) \/ \E ok \in BOOLEAN : CloseFd(t, ok)
    BY <2>2
  <2>3. CASE SendThrow(t) \/ \E v \in {-1, 0} : RecvEnd(t, v)
    BY <2>3
  <2>4. CASE DrainSeen(t)
    BY <2>1, <2>4
  <2>5. QED
    BY <2>2, <2>3, <2>4
<1>5. CallTypes'
  <2> USE DEF Shape, TypeOK, CallTypes
  <2>1. pc' \in [Threads -> PcValues]
    BY DEF Goto, PcValues
  <2>2. ret' \in [Threads -> Int]
    BY DEF Return, Threw
  <2>3. UNCHANGED <<calls, num, size>>
    OBVIOUS
  <2>4. QED
    BY <2>1, <2>2, <2>3
<1>6. PlaceInv' /\ ReadyInv'
  BY <1>1 DEF Shape, TypeOK, CallTypes, QTypeOK, PlaceInv, ReadyInv, Goto, Returned,
              qvars, objvars
<1>7. QED
  BY <1>2, <1>3, <1>4, <1>5, <1>6 DEF Shape, TypeOK, QInv

(* A ::send that never returns changes nothing but what is known of it.     *)
LEMMA StallShape ==
  ASSUME NEW t \in Threads, Shape, Stall(t)
  PROVE  Shape'
<1>1. /\ UNCHANGED <<qvars, maxLength, sockfd, taskNum, fdOpen, pc, calls, ret, num, size>>
      /\ UNCHANGED loopvars /\ UNCHANGED histvars /\ stalled' = stalled \cup {t}
  BY DEF Stall
<1>2. QInv'
  BY <1>1, QStutterInv DEF QInv, Shape, TypeOK
<1>3. ObjectTypes' /\ CallTypes' /\ LoopTypes' /\ HistoryTypes'
  BY <1>1 DEF Shape, TypeOK, ObjectTypes, CallTypes, LoopTypes, HistoryTypes,
              loopvars, histvars
<1>4. PlaceInv' /\ ReadyInv'
  BY <1>1 DEF Shape, PlaceInv, ReadyInv, qvars
<1>5. QED
  BY <1>2, <1>3, <1>4 DEF Shape, TypeOK, QInv

(* Every step of the client keeps the places and the types.                *)
LEMMA NextShape == Shape /\ [Next]_vars => Shape'
<1> SUFFICES ASSUME Shape, [Next]_vars PROVE Shape'
  OBVIOUS
<1>1. CASE \E fd \in SockFds, len \in MaxLengths : ClientInit(fd, len)
  BY <1>1, ClientInitShape
<1>2. CASE (\E t \in Senders : Enter(t)) \/ (\E t \in Closers : DisconnectBegin(t))
  BY <1>2, EnterShape, UsersAssumption
<1>3. ASSUME NEW t \in Threads, Step(t)
      PROVE  Shape'
  <2>1. CASE InQueue(t) \/ TaskStored(t) \/ Number(t)
    BY <2>1, QueueShape, NumberShape
  <2>2. CASE SendStep(t)
    BY <2>2, SendStartShape, TryShape, LeaveShape DEF SendStep
  <2>3. CASE (\E v \in {-1, 0} : RecvEnd(t, v)) \/ DisconnectStep(t)
    BY <2>3, LeaveShape
  <2>4. QED
    BY <1>3, <2>1, <2>2, <2>3 DEF Step
<1>6. CASE \E t \in Threads : Stall(t)
  BY <1>6, StallShape
<1>4. CASE UNCHANGED vars
  <2>1. QInv'
    BY <1>4, QStutterInv DEF vars, QInv, Shape, TypeOK
  <2>2. ObjectTypes' /\ CallTypes' /\ LoopTypes' /\ HistoryTypes'
    BY <1>4 DEF vars, objvars, loopvars, histvars, Shape, TypeOK, ObjectTypes,
                CallTypes, LoopTypes, HistoryTypes
  <2>3. PlaceInv' /\ ReadyInv'
    BY <1>4 DEF vars, qvars, objvars, Shape, PlaceInv, ReadyInv
  <2>4. QED
    BY <2>1, <2>2, <2>3 DEF QInv, Shape, TypeOK
<1>5. QED
  BY <1>1, <1>2, <1>3, <1>4, <1>6 DEF Next

(* The places of the calls and all types are as declared.                   *)
THEOREM ShapeCorrect == Spec => []Shape
<1>1. QED
  BY InitShape, NextShape, PTL DEF Spec

(* Every variable of the client and its queue keeps its type, whatever the  *)
(* threads do.                                                              *)
THEOREM TypeCorrect == Spec => []TypeOK
<1>1. Shape => TypeOK
  BY DEF Shape
<1>2. QED
  BY <1>1, ShapeCorrect, PTL

-----------------------------------------------------------------------------
(* The set of calls in progress is finite, and adding or removing a call    *)
(* changes its size by one.                                                 *)
LEMMA InFlightSize ==
  ASSUME NEW t \in Threads
  PROVE  /\ IsFiniteSet(InFlight)
         /\ Cardinality(InFlight) \in Nat
         /\ t \notin InFlight =>
              Cardinality(InFlight \cup {t}) = Cardinality(InFlight) + 1
         /\ t \in InFlight =>
              Cardinality(InFlight \ {t}) = Cardinality(InFlight) - 1
<1>1. IsFiniteSet(InFlight)
  BY ThreadsAssumption, FS_Subset DEF InFlight
<1>2. QED
  BY <1>1, FS_CardinalityType, FS_AddElement, FS_RemoveElement

(* Only these four steps change the set of calls in progress, the queue or  *)
(* the number of tasks left behind.                                         *)
LEMMA BalanceSteps ==
  ASSUME NEW t \in Threads, Shape
  PROVE  /\ TaskStored(t) =>
              /\ t \notin InFlight /\ InFlight' = InFlight \cup {t}
              /\ Len(store') = Len(store) + 1 /\ UNCHANGED <<start, leaked>>
         /\ InQueue(t) /\ PopDrop(t) =>
              /\ t \in InFlight /\ InFlight' = InFlight \ {t}
              /\ start' = start + 1 /\ UNCHANGED <<store, leaked>>
         /\ SendThrow(t) \/ (\E v \in {-1, 0} : RecvEnd(t, v)) =>
              /\ t \in InFlight /\ InFlight' = InFlight \ {t}
              /\ leaked' = leaked + 1 /\ UNCHANGED <<store, start>>
<1> USE DEF Shape, TypeOK, QTypeOK, CallTypes, PlaceInv, InFlight, HasTask
<1>1. ASSUME TaskStored(t)
      PROVE  /\ t \notin InFlight /\ InFlight' = InFlight \cup {t}
             /\ Len(store') = Len(store) + 1 /\ UNCHANGED <<start, leaked>>
  <2>1. /\ pc[t] \in {"push", "rpush"} /\ qpc[t] = "pushing"
        /\ qpc' = [qpc EXCEPT ![t] = "out"] /\ pc' = pc
    BY <1>1 DEF TaskStored, PushStore, Returned
  <2>2. t \notin InFlight /\ InFlight' = InFlight \cup {t}
    BY <2>1
  <2>3. task[t] \in Elems
    BY <2>1 DEF TaskInv
  <2>4. Len(store') = Len(store) + 1 /\ UNCHANGED <<start, leaked>>
    BY <1>1, <2>3 DEF TaskStored, PushStore
  <2>5. QED
    BY <2>2, <2>4
<1>2. ASSUME InQueue(t), PopDrop(t)
      PROVE  /\ t \in InFlight /\ InFlight' = InFlight \ {t}
             /\ start' = start + 1 /\ UNCHANGED <<store, leaked>>
  BY <1>2 DEF InQueue, PopDrop, Returned, histvars
<1>3. ASSUME SendThrow(t) \/ \E v \in {-1, 0} : RecvEnd(t, v)
      PROVE  /\ t \in InFlight /\ InFlight' = InFlight \ {t}
             /\ leaked' = leaked + 1 /\ UNCHANGED <<store, start>>
  BY <1>3 DEF SendThrow, RecvEnd, Goto, qvars
<1>4. QED
  BY <1>1, <1>2, <1>3

Calm == InFlight' = InFlight /\ UNCHANGED <<store, start, leaked>>

(* The steps a thread takes inside a call, those four apart.                *)
LEMMA CalmSteps ==
  ASSUME NEW t \in Threads, Shape
  PROVE  /\ InQueue(t) /\ ~PopDrop(t) => Calm
         /\ Number(t) \/ SendStart(t) \/ SendReturn(t) => Calm
         /\ (\E full \in BOOLEAN : FrameSent(t, full) \/ WholeSent(t, full)) => Calm
         /\ FramesDone(t) \/ SendRetry(t) \/ SendGiveUp(t) => Calm
         /\ DisconnectStep(t) => Calm
<1> USE DEF Shape, TypeOK, QTypeOK, CallTypes, PlaceInv, Calm, InFlight, HasTask
<1>1. ASSUME InQueue(t), ~PopDrop(t)
      PROVE  Calm
  <2>1. QuietStep(t) /\ UNCHANGED <<pc, leaked>>
    BY <1>1 DEF InQueue, histvars
  <2>2. UNCHANGED <<store, start>>
    BY <2>1 DEF QuietStep, PushLock, EmptyLoadFinish, EmptyLoadStart, PopThrow, PopGoOn,
                PopLock, PopFront
  <2>3. ASSUME NEW u \in Threads
        PROVE  (qpc'[u] = "out" <=> qpc[u] = "out") /\ (qpc'[u] = "took" <=> qpc[u] = "took")
    BY <2>1 DEF QuietStep, PushLock, EmptyLoadFinish, EmptyLoadStart, PopThrow, PopGoOn,
                PopLock, PopFront, SaysEmpty
  <2>4. InFlight' = InFlight
    BY <2>1, <2>3
  <2>5. QED
    BY <2>1, <2>2, <2>4
<1>2. ASSUME Number(t) \/ SendStart(t) \/ SendReturn(t)
      PROVE  Calm
  BY <1>2 DEF Number, PushCall, SendStart, SendReturn, Goto, Returned, qvars, histvars
<1>3. ASSUME NEW full \in BOOLEAN, FrameSent(t, full) \/ WholeSent(t, full)
      PROVE  Calm
  <2>1. CASE FrameSent(t, full)
    <3>1. UNCHANGED <<store, start, leaked, pc, qpc>>
      BY <2>1 DEF FrameSent, qvars
    <3>2. QED
      BY <3>1
  <2>2. CASE WholeSent(t, full)
    <3>1. /\ UNCHANGED <<store, start, leaked>> /\ pc[t] = "whole" /\ pc' = [pc EXCEPT ![t] = "pop"]
          /\ qpc'[t] # "took" /\ \A u \in Threads \ {t} : qpc'[u] = qpc[u]
      BY <2>2 DEF WholeSent, Finish, PopCall, Goto
    <3>2. QED
      BY <3>1
  <2>3. QED
    BY <1>3, <2>1, <2>2
<1>4. ASSUME FramesDone(t) \/ SendRetry(t) \/ SendGiveUp(t)
      PROVE  Calm
  BY <1>4 DEF FramesDone, SendRetry, SendGiveUp, Trying, Finish, PopCall, Goto, Returned,
              qvars, histvars
<1>5. ASSUME DisconnectStep(t)
      PROVE  Calm
  BY <1>5 DEF DisconnectStep, DrainSeen, CloseNothing, CloseFd, Goto, qvars, histvars
<1>6. QED
  BY <1>1, <1>2, <1>3, <1>4, <1>5

(* The steps taken outside of a call, and the kernel's.                     *)
LEMMA CalmEntries ==
  ASSUME Shape,
         \/ \E fd \in SockFds, len \in MaxLengths : ClientInit(fd, len)
         \/ \E t \in Senders : Enter(t)
         \/ \E t \in Closers : DisconnectBegin(t)
         \/ \E t \in Threads : Stall(t)
         \/ UNCHANGED vars
  PROVE  Calm
<1> USE DEF Calm, InFlight, HasTask, qvars, histvars
<1>1. CASE \E fd \in SockFds, len \in MaxLengths : ClientInit(fd, len)
  BY <1>1 DEF ClientInit
<1>2. ASSUME NEW t \in Threads, Enter(t) \/ DisconnectBegin(t)
      PROVE  Calm
  BY <1>2 DEF Shape, TypeOK, CallTypes, Enter, Connect, SendRefuse, RecvRefuse, RecvBegin,
              SendBegin, DisconnectBegin, Call, Goto
<1>3. CASE UNCHANGED vars
  BY <1>3 DEF vars
<1>4. ASSUME NEW t \in Threads, Stall(t)
      PROVE  Calm
  BY <1>4 DEF Stall
<1>5. QED
  BY <1>1, <1>2, <1>3, <1>4, UsersAssumption

(* Every step keeps the count of tasks equal to the calls that own one.    *)
LEMMA TasksBalanceSteps == Shape /\ TasksBalance /\ [Next]_vars => TasksBalance'
<1> SUFFICES ASSUME Shape, TasksBalance, [Next]_vars PROVE TasksBalance'
  OBVIOUS
<1>0. Len(store) \in Nat /\ start \in Nat /\ leaked \in Nat
  BY DEF Shape, TypeOK, QTypeOK, HistoryTypes
<1>1. CASE Calm
  BY <1>1 DEF Calm, TasksBalance
<1>2. ASSUME NEW t \in Threads, Step(t)
      PROVE  TasksBalance'
  <2>1. CASE TaskStored(t)
    BY <2>1, <1>0, BalanceSteps, InFlightSize DEF TasksBalance
  <2>2. CASE InQueue(t) /\ PopDrop(t)
    BY <2>2, <1>0, BalanceSteps, InFlightSize DEF TasksBalance
  <2>3. CASE SendThrow(t) \/ \E v \in {-1, 0} : RecvEnd(t, v)
    BY <2>3, <1>0, BalanceSteps, InFlightSize DEF TasksBalance
  <2>4. QED
    BY <1>1, <1>2, <2>1, <2>2, <2>3, CalmSteps DEF Step, SendStep
<1>3. QED
  BY <1>1, <1>2, CalmEntries DEF Next

(* The queue counts the calls in progress, although they pop one another's  *)
(* tasks and some end with an exception.                                    *)
THEOREM TasksBalanceCorrect == Spec => []TasksBalance
<1>1. Init => TasksBalance
  <2> SUFFICES ASSUME Init PROVE TasksBalance
    OBVIOUS
  <2>1. InFlight = {}
    BY DEF Init, InFlight, HasTask
  <2>2. Cardinality(InFlight) = 0
    BY <2>1, FS_EmptySet
  <2>3. QED
    BY <2>2 DEF Init, QInit, TasksBalance
<1>2. QED
  BY <1>1, TasksBalanceSteps, ShapeCorrect, PTL DEF Spec

(* No element is taken from an empty queue, whoever pops whose task: the    *)
(* check of empty() is made without the lock, but a call that gets past it  *)
(* still has its own task, or another's, in the queue.                      *)
THEOREM NoUnderflowCorrect == Spec => []NoUnderflow
<1>1. Shape /\ TasksBalance => NoUnderflow
  <2> SUFFICES ASSUME Shape, TasksBalance, NEW t \in Threads, qpc[t] \in {"front", "drop"}
               PROVE  start < Len(store)
    BY DEF NoUnderflow
  <2>1. t \in InFlight
    BY DEF Shape, PlaceInv, InFlight, HasTask, Returned
  <2>2. Cardinality(InFlight \ {t}) \in Nat
    <3>1. IsFiniteSet(InFlight \ {t})
      BY InFlightSize, FS_Subset
    <3>2. QED
      BY <3>1, FS_CardinalityType
  <2>3. Cardinality(InFlight) >= 1
    BY <2>1, <2>2, InFlightSize
  <2>4. Len(store) \in Nat /\ start \in Nat /\ leaked \in Nat
    BY DEF Shape, TypeOK, QTypeOK, HistoryTypes
  <2>5. Cardinality(InFlight) \in Nat
    BY InFlightSize
  <2>6. Len(store) - start = Cardinality(InFlight) + leaked
    BY DEF TasksBalance
  <2>7. QED
    BY <2>3, <2>4, <2>5, <2>6
<1>2. QED
  BY <1>1, ShapeCorrect, TasksBalanceCorrect, PTL

-----------------------------------------------------------------------------
(* Apart from TaskStored and DrainSeen, no step gives a call a place in the *)
(* queue, starts a call, or lets disconnect() go on to close.               *)
Settled == /\ UNCHANGED <<slot, seen>>
           /\ Len(store') >= Len(store)
           /\ InFlight' \subseteq InFlight
           /\ \A d \in Threads : pc'[d] = "close" => pc[d] = "close"

(* Every step is settled, but for those two.                                *)
LEMMA SettledSteps ==
  ASSUME Shape, [Next]_vars
  PROVE  Settled \/ \E t \in Threads : TaskStored(t) \/ DrainSeen(t)
<1>0. Len(store) \in Nat
  BY DEF Shape, TypeOK, QTypeOK
<1>1. ASSUME \/ \E fd \in SockFds, len \in MaxLengths : ClientInit(fd, len)
             \/ \E t \in Senders : Enter(t)
             \/ \E t \in Closers : DisconnectBegin(t)
             \/ \E t \in Threads : Stall(t)
             \/ UNCHANGED vars
      PROVE  Settled
  <2>1. Calm
    BY <1>1, CalmEntries
  <2>2. UNCHANGED <<slot, seen>>
    BY <1>1 DEF ClientInit, Enter, Connect, SendRefuse, RecvRefuse, RecvBegin, SendBegin,
                DisconnectBegin, Stall, vars, histvars
  <2>3. ASSUME NEW d \in Threads, pc'[d] = "close"
        PROVE  pc[d] = "close"
    BY <1>1, <2>3, UsersAssumption
    DEF Shape, TypeOK, CallTypes, ClientInit, Enter, Connect, SendRefuse, RecvRefuse,
        RecvBegin, SendBegin, DisconnectBegin, Stall, Goto, vars
  <2>4. QED
    BY <1>0, <2>1, <2>2, <2>3 DEF Settled, Calm
<1>2. ASSUME NEW t \in Threads, Step(t), ~TaskStored(t), ~DrainSeen(t)
      PROVE  Settled
  <2>1. UNCHANGED <<slot, seen>>
    BY <1>2 DEF Step, InQueue, Number, SendStep, SendStart, FrameSent, WholeSent, FramesDone,
       SendRetry, SendGiveUp, SendReturn, SendThrow, RecvEnd, DisconnectStep, CloseNothing,
       CloseFd, histvars
  <2>2. UNCHANGED store
    BY <1>2 DEF Step, InQueue, QuietStep, PushLock, EmptyLoadFinish, EmptyLoadStart,
       PopThrow, PopGoOn, PopLock, PopFront, PopDrop, Number, PushCall, SendStep, SendStart,
       FrameSent, WholeSent, FramesDone, SendRetry, SendGiveUp, Finish, PopCall, SendReturn,
       SendThrow, RecvEnd, DisconnectStep, CloseNothing, CloseFd, qvars
  <2>3. ASSUME NEW d \in Threads, pc'[d] = "close"
        PROVE  pc[d] = "close"
    BY <1>2, <2>3
    DEF Shape, TypeOK, CallTypes, Step, InQueue, Number, SendStep, SendStart, FrameSent,
        WholeSent, FramesDone, SendRetry, SendGiveUp, Finish, SendReturn, SendThrow,
        RecvEnd, DisconnectStep, CloseNothing, CloseFd, Goto
  <2>4. InFlight' \subseteq InFlight
    <3>1. CASE InQueue(t) /\ PopDrop(t)
      BY <3>1, BalanceSteps
    <3>2. CASE SendThrow(t) \/ \E v \in {-1, 0} : RecvEnd(t, v)
      BY <3>2, BalanceSteps
    <3>3. CASE Calm
      BY <3>3 DEF Calm
    <3>4. QED
      BY <1>2, <3>1, <3>2, <3>3, CalmSteps DEF Step, SendStep
  <2>5. QED
    BY <1>0, <2>1, <2>2, <2>3, <2>4 DEF Settled
<1>3. QED
  BY <1>1, <1>2 DEF Next

(* An empty queue means that no call is in progress.                        *)
LEMMA EmptyMeansIdle ==
  ASSUME Shape, TasksBalance, QueueSize = 0
  PROVE  InFlight = {}
<1> USE DEF Shape, TypeOK, QTypeOK, HistoryTypes
<1>1. \E n \in Nat : Cardinality(InFlight) = n
  <2>1. CASE Threads = {}
    BY <2>1, FS_EmptySet DEF InFlight
  <2>2. CASE Threads # {}
    BY <2>2, InFlightSize
  <2>3. QED
    BY <2>1, <2>2
<1>2. 0 = Cardinality(InFlight) + leaked
  BY DEF TasksBalance, QueueSize
<1>3. Cardinality(InFlight) = 0
  BY <1>1, <1>2
<1>4. IsFiniteSet(InFlight)
  BY ThreadsAssumption, FS_Subset DEF InFlight
<1>5. QED
  BY <1>3, <1>4, FS_EmptySet

DrainInv == SeenInv /\ ClosesAfterDrain

(* Every step keeps what disconnect() relies on when it closes.             *)
LEMMA DrainSteps == Shape /\ TasksBalance /\ DrainInv /\ [Next]_vars => DrainInv'
<1> SUFFICES ASSUME Shape, TasksBalance, DrainInv, [Next]_vars PROVE DrainInv'
  OBVIOUS
<1> USE DEF DrainInv, SeenInv, ClosesAfterDrain
<1>1. Len(store) \in Nat /\ seen \in [Threads -> Nat] /\ slot \in [Threads -> Nat]
  BY DEF Shape, TypeOK, QTypeOK, HistoryTypes
<1>2. CASE Settled
  <2>1. Len(store') \in Nat
    BY NextShape DEF Shape, TypeOK, QTypeOK
  <2>2. SeenInv'
    BY <1>1, <1>2, <2>1 DEF Settled
  <2>3. ClosesAfterDrain'
    BY <1>2 DEF Settled
  <2>4. QED
    BY <2>2, <2>3
<1>3. ASSUME NEW t \in Threads, TaskStored(t)
      PROVE  DrainInv'
  <2>1. /\ InFlight' = InFlight \cup {t} /\ Len(store') = Len(store) + 1
        /\ slot' = [slot EXCEPT ![t] = Len(store) + 1] /\ UNCHANGED <<pc, seen>>
    BY <1>3, BalanceSteps DEF TaskStored
  <2>2. SeenInv'
    BY <1>1, <2>1
  <2>3. ASSUME NEW d \in Threads, pc'[d] = "close", NEW u \in InFlight'
        PROVE  slot'[u] > seen'[d]
    <3>1. CASE u = t
      BY <1>1, <2>1, <3>1
    <3>2. CASE u # t
      <4>1. u \in InFlight /\ slot'[u] = slot[u]
        BY <1>1, <2>1, <3>2
      <4>2. QED
        BY <2>1, <2>3, <4>1
    <3>3. QED
      BY <3>1, <3>2
  <2>4. QED
    BY <2>2, <2>3
<1>4. ASSUME NEW t \in Threads, DrainSeen(t)
      PROVE  DrainInv'
  <2>1. InFlight = {}
    BY <1>4, EmptyMeansIdle DEF DrainSeen
  <2>2. Calm
    BY <1>4, CalmSteps DEF DisconnectStep
  <2>3. seen' = [seen EXCEPT ![t] = Len(store)]
    BY <1>4 DEF DrainSeen
  <2>4. QED
    BY <1>1, <2>1, <2>2, <2>3 DEF Calm
<1>5. QED
  BY <1>2, <1>3, <1>4, SettledSteps

(* disconnect() never closes the descriptor under a call that was already   *)
(* running when it found the queue empty, not even under one whose task     *)
(* another call has popped.                                                 *)
THEOREM ClosesAfterDrainCorrect == Spec => []ClosesAfterDrain
<1>1. Init => DrainInv
  <2> SUFFICES ASSUME Init PROVE DrainInv
    OBVIOUS
  <2>1. \A t \in Threads : pc[t] = "idle" /\ seen[t] = 0
    BY DEF Init
  <2>2. Len(store) = 0
    BY DEF Init, QInit
  <2>3. QED
    BY <2>1, <2>2 DEF DrainInv, SeenInv, ClosesAfterDrain
<1>2. DrainInv => ClosesAfterDrain
  BY DEF DrainInv
<1>3. QED
  BY <1>1, <1>2, DrainSteps, ShapeCorrect, TasksBalanceCorrect, PTL DEF Spec

-----------------------------------------------------------------------------
(* A call in or past the loop of send() is left alone by every step but the *)
(* six of its own.                                                          *)
Untouched(u) ==
  /\ pc'[u] = pc[u] /\ ret'[u] = ret[u] /\ size'[u] = size[u]
  /\ ncount'[u] = ncount[u] /\ offset'[u] = offset[u]
  /\ sendLength'[u] = sendLength[u] /\ errorCount'[u] = errorCount[u]
  /\ offered'[u] = offered[u] /\ fails'[u] = fails[u]
  /\ maxLength' = maxLength

Try(u) ==
  \/ SendStart(u)
  \/ \E full \in BOOLEAN : FrameSent(u, full) \/ WholeSent(u, full)
  \/ FramesDone(u) \/ SendRetry(u) \/ SendGiveUp(u)

(* Only a thread's own attempts to send change the counters of its loop.    *)
LEMMA LocalSteps ==
  ASSUME Shape, [Next]_vars, NEW u \in Threads, pc'[u] \in {"chunk", "whole", "pop"}
  PROVE  Untouched(u) \/ Try(u)
<1>0. /\ pc \in [Threads -> PcValues] /\ ret \in [Threads -> Int]
      /\ size \in [Threads -> Sizes \cup {0}] /\ ncount \in [Threads -> Int]
      /\ offset \in [Threads -> Nat] /\ sendLength \in [Threads -> Nat]
      /\ errorCount \in [Threads -> 0..ERROR_RETURN_TIMES]
      /\ offered \in [Threads -> Seq(Nat)] /\ fails \in [Threads -> Nat]
  BY DEF Shape, TypeOK, CallTypes, LoopTypes, HistoryTypes
<1>1. CASE UNCHANGED vars
  BY <1>1 DEF vars, objvars, loopvars, histvars, Untouched
<1>2. CASE \E fd \in SockFds, len \in MaxLengths : ClientInit(fd, len)
  BY <1>2 DEF ClientInit
<1>3. ASSUME NEW t \in Threads, Enter(t) \/ DisconnectBegin(t)
      PROVE  Untouched(u)
  BY <1>0, <1>3 DEF Enter, Connect, SendRefuse, RecvRefuse, RecvBegin, SendBegin,
     DisconnectBegin, Call, Goto, Return, objvars, loopvars, histvars, Untouched
<1>4. ASSUME NEW t \in Threads, InQueue(t) \/ TaskStored(t) \/ Number(t)
      PROVE  Untouched(u)
  BY <1>0, <1>4 DEF InQueue, TaskStored, Number, Goto, objvars, loopvars, histvars, Untouched
<1>5. ASSUME NEW t \in Threads,
             \/ SendReturn(t) \/ SendThrow(t) \/ \E v \in {-1, 0} : RecvEnd(t, v)
             \/ DisconnectStep(t)
      PROVE  Untouched(u)
  BY <1>0, <1>5 DEF SendReturn, SendThrow, RecvEnd, DisconnectStep, DrainSeen, CloseFd,
     CloseNothing, Goto, Return, objvars, loopvars, histvars, Untouched
<1>6. ASSUME NEW t \in Threads, t # u, Try(t)
      PROVE  Untouched(u)
  <2> USE <1>0, <1>6 DEF Untouched
  <2>1. CASE SendStart(t)
    BY <2>1 DEF SendStart, Goto, objvars
  <2>2. ASSUME NEW full \in BOOLEAN, FrameSent(t, full) \/ WholeSent(t, full)
        PROVE  Untouched(u)
    BY <2>2 DEF FrameSent, WholeSent, KernelTakes, Finish, Goto, Return, objvars, loopvars
  <2>3. CASE FramesDone(t) \/ SendRetry(t) \/ SendGiveUp(t)
    BY <2>3 DEF FramesDone, SendRetry, SendGiveUp, Finish, Goto, Return, objvars, loopvars,
                histvars
  <2>4. QED
    BY <2>1, <2>2, <2>3 DEF Try
<1>7. ASSUME NEW t \in Threads, Step(t)
      PROVE  Untouched(u) \/ Try(u)
  <2>1. \/ InQueue(t) \/ TaskStored(t) \/ Number(t)
        \/ SendReturn(t) \/ SendThrow(t) \/ (\E v \in {-1, 0} : RecvEnd(t, v))
        \/ DisconnectStep(t) \/ Try(t)
    BY <1>7 DEF Step, SendStep, Try
  <2>2. QED
    BY <1>4, <1>5, <1>6, <2>1
<1>8. ASSUME NEW t \in Threads, Stall(t)
      PROVE  Untouched(u)
  BY <1>8 DEF Stall, loopvars, histvars, Untouched
<1>9. QED
  BY <1>1, <1>2, <1>3, <1>7, <1>8, UsersAssumption DEF Next

(* Every step keeps failures and retries left in balance.                  *)
LEMMA RetrySteps == Shape /\ RetryInv /\ [Next]_vars => RetryInv'
<1> SUFFICES ASSUME Shape, RetryInv, [Next]_vars, NEW u \in Threads
             PROVE  /\ pc'[u] \in {"chunk", "whole"} =>
                         fails'[u] + errorCount'[u] = ERROR_RETURN_TIMES
                    /\ pc'[u] = "pop" =>
                         (ret'[u] = -1 <=> fails'[u] = ERROR_RETURN_TIMES + 1)
  BY DEF RetryInv
<1>1. CASE pc'[u] \notin {"chunk", "whole", "pop"}
  BY <1>1
<1>2. CASE Untouched(u)
  BY <1>2 DEF Untouched, RetryInv
<1>3. CASE Try(u)
  <2>0. /\ fails \in [Threads -> Nat] /\ errorCount \in [Threads -> 0..ERROR_RETURN_TIMES]
        /\ ret \in [Threads -> Int] /\ pc \in [Threads -> PcValues]
        /\ size[u] \in Nat \ {0} /\ ERROR_RETURN_TIMES \in Nat
    <3>1. pc[u] \in {"push", "chunk", "whole"}
      BY <1>3 DEF Try, SendStart, FrameSent, WholeSent, FramesDone, SendRetry, SendGiveUp,
                  Trying
    <3>2. QED
      BY <3>1, SendIsReady, RetriesAssumption DEF Shape, TypeOK, CallTypes, LoopTypes,
         HistoryTypes
  <2> USE <2>0
  <2>1. CASE SendStart(u)
    BY <2>1 DEF SendStart, Goto
  <2>2. ASSUME NEW full \in BOOLEAN, FrameSent(u, full)
        PROVE  pc'[u] = "chunk" /\ fails'[u] + errorCount'[u] = ERROR_RETURN_TIMES
    BY <2>2 DEF FrameSent, RetryInv
  <2>3. ASSUME NEW full \in BOOLEAN, WholeSent(u, full)
        PROVE  /\ pc'[u] = "pop" /\ ret'[u] # -1
               /\ fails'[u] # ERROR_RETURN_TIMES + 1
    BY <2>3 DEF WholeSent, Finish, Goto, Return, RetryInv
  <2>4. CASE FramesDone(u)
    BY <2>4 DEF FramesDone, Finish, Goto, Return, histvars, RetryInv
  <2>5. CASE SendRetry(u)
    BY <2>5 DEF SendRetry, Trying, RetryInv
  <2>6. CASE SendGiveUp(u)
    BY <2>6 DEF SendGiveUp, Trying, Finish, Goto, Return, RetryInv
  <2>7. QED
    BY <1>3, <2>1, <2>2, <2>3, <2>4, <2>5, <2>6 DEF Try
<1>4. QED
  BY <1>1, <1>2, <1>3, LocalSteps

(* A send() survives ERROR_RETURN_TIMES failures, all frames of its message *)
(* together, and gives up on exactly the next one.                          *)
THEOREM RetryBudgetCorrect == Spec => []RetryBudget
<1>1. Init => RetryInv
  <2> SUFFICES ASSUME Init PROVE RetryInv
    OBVIOUS
  <2>1. \A t \in Threads : pc[t] = "idle"
    BY DEF Init
  <2>2. QED
    BY <2>1 DEF RetryInv
<1>2. Shape /\ RetryInv => RetryBudget
  BY RetriesAssumption DEF Shape, TypeOK, LoopTypes, HistoryTypes, RetryInv, RetryBudget
<1>3. QED
  BY <1>1, <1>2, RetrySteps, ShapeCorrect, PTL DEF Spec

-----------------------------------------------------------------------------
(* Arithmetic of the frames: one more frame, and never beyond data.size().  *)
LEMMA FrameArithmetic ==
  ASSUME NEW f \in Nat, NEW n \in 0..f, NEW m \in Nat \ {0}
  PROVE  /\ (f - n) * m + m = (f - (n - 1)) * m
         /\ (f - n) * m \in Nat
         /\ (f - n) * m <= f * m
<1>1. (f - n) * m = f * m - n * m
  OBVIOUS
<1>2. n * m \in Nat /\ f * m \in Nat
  OBVIOUS
<1>3. (f - (n - 1)) * m = (f - n) * m + m
  OBVIOUS
<1>4. (f - n) \in Nat
  OBVIOUS
<1>5. (f - n) * m \in Nat
  BY <1>4
<1>6. QED
  BY <1>1, <1>2, <1>3, <1>5

(* What the loop invariant says of one frame: it ends within data.size().   *)
LEMMA FrameInside ==
  ASSUME NEW u \in Threads, Shape, LoopInv, pc[u] = "chunk"
  PROVE  /\ offset[u] <= size[u]
         /\ ncount[u] >= 0 => offset[u] + sendLength[u] <= size[u]
<1> DEFINE frames == size[u] \div maxLength
<1>1. maxLength \in Nat \ {0} /\ size[u] \in Nat
  BY SendIsReady
<1>2. frames \in Nat /\ frames * maxLength <= size[u] /\ frames * maxLength \in Nat
  <2>1. frames \in Nat /\ size[u] - frames * maxLength \in 0..(maxLength - 1)
    BY <1>1, Remainder
  <2>2. frames * maxLength \in Nat
    BY <1>1, <2>1
  <2>3. QED
    BY <1>1, <2>1, <2>2
<1>3. /\ ncount[u] \in -1..frames
      /\ ncount[u] >= 0 => offset[u] = (frames - ncount[u]) * maxLength
      /\ ncount[u] > 0 => sendLength[u] = maxLength
      /\ ncount[u] = 0 => sendLength[u] = size[u] - frames * maxLength
      /\ ncount[u] = -1 => offset[u] = size[u]
  BY DEF LoopInv
<1> HIDE DEF frames
<1>4. CASE ncount[u] = -1
  BY <1>1, <1>3, <1>4
<1>5. CASE ncount[u] = 0
  BY <1>1, <1>2, <1>3, <1>5
<1>6. CASE ncount[u] > 0
  <2>1. ncount[u] \in 0..frames /\ ncount[u] - 1 \in 0..frames
    BY <1>2, <1>3, <1>6
  <2>2. offset[u] = (frames - ncount[u]) * maxLength /\ sendLength[u] = maxLength
    BY <1>3, <1>6
  <2>3. (frames - ncount[u]) * maxLength + maxLength = (frames - (ncount[u] - 1)) * maxLength
    BY <1>1, <1>2, <2>1, FrameArithmetic
  <2>4. (frames - (ncount[u] - 1)) * maxLength <= frames * maxLength
    BY <1>1, <1>2, <2>1, FrameArithmetic
  <2>5. (frames - ncount[u]) * maxLength <= frames * maxLength
    BY <1>1, <1>2, <2>1, FrameArithmetic
  <2>6. (frames - ncount[u]) * maxLength \in Nat
    BY <1>1, <1>2, <2>1, FrameArithmetic
  <2>7. offset[u] <= size[u] /\ offset[u] + sendLength[u] <= size[u]
    BY <1>1, <1>2, <2>2, <2>3, <2>4, <2>5, <2>6
  <2>8. QED
    BY <2>7
<1>7. QED
  BY <1>2, <1>3, <1>4, <1>5, <1>6

(* The steps of LoopInv, for a call in the loop: where it starts, ...       *)
LEMMA LoopStart ==
  ASSUME NEW u \in Threads, Shape, SendStart(u)
  PROVE  /\ offered'[u] = Bytes(0, 0) /\ offset'[u] = 0 /\ size'[u] = size[u]
         /\ maxLength' = maxLength
         /\ \/ /\ pc'[u] = "chunk" /\ size[u] > maxLength /\ sendLength'[u] = maxLength
               /\ ncount'[u] = size[u] \div maxLength
               /\ size[u] \div maxLength \in Nat \ {0}
               /\ (size[u] \div maxLength - size[u] \div maxLength) * maxLength = 0
            \/ pc'[u] = "whole" /\ sendLength'[u] = size[u]
<1>1. /\ offered \in [Threads -> Seq(Nat)] /\ offset \in [Threads -> Nat]
      /\ sendLength \in [Threads -> Nat] /\ ncount \in [Threads -> Int]
      /\ pc \in [Threads -> PcValues]
  BY DEF Shape, TypeOK, CallTypes, LoopTypes, HistoryTypes
<1>2. maxLength \in Nat \ {0} /\ size[u] \in Nat
  BY SendIsReady DEF SendStart
<1>3. Bytes(0, 0) = <<>>
  BY DEF Bytes
<1>4. offered'[u] = Bytes(0, 0) /\ offset'[u] = 0 /\ size'[u] = size[u] /\ maxLength' = maxLength
  BY <1>1, <1>3 DEF SendStart, objvars
<1>5. CASE size[u] > maxLength
  <2>1. size[u] \div maxLength \in Nat \ {0}
    BY <1>2, <1>5, Remainder
  <2>2. (size[u] \div maxLength - size[u] \div maxLength) * maxLength = 0
    BY <1>2, <2>1
  <2>3. pc'[u] = "chunk" /\ sendLength'[u] = maxLength /\ ncount'[u] = size[u] \div maxLength
    BY <1>1, <1>2, <1>5 DEF SendStart, Goto
  <2>4. QED
    BY <1>4, <1>5, <2>1, <2>2, <2>3
<1>6. CASE size[u] <= maxLength
  BY <1>1, <1>2, <1>4, <1>6 DEF SendStart, Goto
<1>7. QED
  BY <1>2, <1>5, <1>6

(* ... and from frame to frame.                                             *)
LEMMA LoopFrame ==
  ASSUME NEW u \in Threads, Shape, LoopInv, NEW full \in BOOLEAN, FrameSent(u, full)
  PROVE  /\ size[u] > maxLength /\ size'[u] = size[u] /\ maxLength' = maxLength
         /\ pc'[u] = "chunk"
         /\ ncount'[u] \in -1..(size[u] \div maxLength)
         /\ ncount'[u] >= 0 =>
              offset'[u] = (size[u] \div maxLength - ncount'[u]) * maxLength
         /\ ncount'[u] > 0 => sendLength'[u] = maxLength
         /\ ncount'[u] = 0 =>
              sendLength'[u] = size[u] - (size[u] \div maxLength) * maxLength
         /\ ncount'[u] = -1 => offset'[u] = size[u]
         /\ offered'[u] = Bytes(0, offset'[u])
<1> DEFINE frames == size[u] \div maxLength
<1>0. pc[u] = "chunk" /\ ncount[u] >= 0
  BY DEF FrameSent
<1>1. maxLength \in Nat \ {0} /\ size[u] \in Nat
  BY <1>0, SendIsReady
<1>2. frames \in Nat
  BY <1>1, Remainder
<1>3. /\ size[u] > maxLength
      /\ ncount[u] \in 0..frames
      /\ offset[u] = (frames - ncount[u]) * maxLength
      /\ ncount[u] > 0 => sendLength[u] = maxLength
      /\ ncount[u] = 0 => sendLength[u] = size[u] - frames * maxLength
      /\ offered[u] = Bytes(0, offset[u])
  BY <1>0, <1>2 DEF LoopInv
<1>4. /\ offered \in [Threads -> Seq(Nat)] /\ offset \in [Threads -> Nat]
      /\ sendLength \in [Threads -> Nat] /\ ncount \in [Threads -> Int]
  BY DEF Shape, TypeOK, LoopTypes, HistoryTypes
<1>5. /\ ncount'[u] = ncount[u] - 1
      /\ offset'[u] = offset[u] + sendLength[u]
      /\ sendLength'[u] = NextLength(u)
      /\ offered'[u] = offered[u] \o Bytes(offset[u], sendLength[u])
      /\ size'[u] = size[u] /\ pc'[u] = "chunk" /\ maxLength' = maxLength
  BY <1>0, <1>4 DEF FrameSent, KernelTakes, objvars
<1>6. /\ ncount[u] - 1 > 0 => NextLength(u) = maxLength
      /\ ncount[u] - 1 <= 0 => NextLength(u) = size[u] - frames * maxLength
  BY <1>3 DEF NextLength
<1>7. offered'[u] = Bytes(0, offset'[u])
  <2>1. offset[u] \in Nat /\ sendLength[u] \in Nat
    BY <1>4
  <2>2. Bytes(0, offset[u]) \o Bytes(offset[u], sendLength[u]) = Bytes(0, offset[u] + sendLength[u])
    BY <2>1, BytesConcat
  <2>3. offered[u] = Bytes(0, offset[u])
    BY <1>3
  <2>4. QED
    BY <1>5, <2>2, <2>3
<1> HIDE DEF frames
<1>8. ncount'[u] >= 0 => offset'[u] = (frames - ncount'[u]) * maxLength
  <2>1. (frames - ncount[u]) * maxLength + maxLength = (frames - (ncount[u] - 1)) * maxLength
    BY <1>1, <1>2, <1>3, FrameArithmetic
  <2>2. ASSUME ncount'[u] >= 0 PROVE ncount[u] > 0
    BY <2>2, <1>2, <1>3, <1>5
  <2>3. QED
    BY <1>3, <1>5, <2>1, <2>2
<1>9. ncount'[u] = -1 => offset'[u] = size[u]
  <2>1. SUFFICES ASSUME ncount[u] = 0 PROVE offset[u] + sendLength[u] = size[u]
    BY <1>2, <1>3, <1>5
  <2>2. offset[u] = frames * maxLength /\ sendLength[u] = size[u] - frames * maxLength
    BY <1>2, <1>3, <2>1
  <2>3. frames * maxLength \in Nat
    BY <1>1, <1>2
  <2>4. QED
    BY <1>1, <2>2, <2>3
<1>10. ncount'[u] \in -1..frames
  BY <1>2, <1>3, <1>5
<1>11. /\ ncount'[u] > 0 => sendLength'[u] = maxLength
       /\ ncount'[u] = 0 => sendLength'[u] = size[u] - frames * maxLength
  BY <1>2, <1>3, <1>5, <1>6
<1>12. QED
  BY <1>3, <1>5, <1>7, <1>8, <1>9, <1>10, <1>11 DEF frames

(* After the loop: what the kernel was handed when the call goes to pop().  *)
PopInv ==
  \A t \in Threads : pc[t] = "pop" =>
    /\ offered[t] = Bytes(0, Len(offered[t]))
    /\ Len(offered[t]) <= size[t]
    /\ ret[t] # -1 => ret[t] = size[t] /\ Len(offered[t]) = size[t]

(* ... to the call of pop(), with data.size() places handed over.          *)
LEMMA LoopEnd ==
  ASSUME NEW u \in Threads, Shape, LoopInv, NEW full \in BOOLEAN,
         WholeSent(u, full) \/ FramesDone(u) \/ SendGiveUp(u)
  PROVE  /\ pc'[u] = "pop"
         /\ offered'[u] = Bytes(0, Len(offered'[u]))
         /\ Len(offered'[u]) <= size'[u]
         /\ ret'[u] # -1 => ret'[u] = size'[u] /\ Len(offered'[u]) = size'[u]
<1>0. /\ offered \in [Threads -> Seq(Nat)] /\ offset \in [Threads -> Nat]
      /\ sendLength \in [Threads -> Nat] /\ ncount \in [Threads -> Int]
      /\ pc \in [Threads -> PcValues] /\ ret \in [Threads -> Int]
  BY DEF Shape, TypeOK, CallTypes, LoopTypes, HistoryTypes
<1>1. pc'[u] = "pop" /\ size'[u] = size[u]
  BY <1>0 DEF WholeSent, FramesDone, SendGiveUp, Finish, Goto
<1>2. pc[u] \in {"chunk", "whole"} /\ size[u] \in Nat \ {0} /\ maxLength \in Nat \ {0}
  BY SendIsReady DEF WholeSent, FramesDone, SendGiveUp, Trying
<1>3. CASE WholeSent(u, full)
  <2>1. offset[u] = 0 /\ sendLength[u] = size[u] /\ offered[u] = Bytes(0, 0)
    BY <1>3 DEF WholeSent, LoopInv
  <2>2. offered'[u] = offered[u] \o Bytes(offset[u], sendLength[u]) /\ ret'[u] = size[u]
    BY <1>0, <1>3 DEF WholeSent, KernelTakes, Finish, Return
  <2>3. offered'[u] = Bytes(0, size[u])
    <3>1. Bytes(0, 0) \o Bytes(0, size[u]) = Bytes(0, 0 + size[u])
      BY <1>2, BytesConcat
    <3>2. 0 + size[u] = size[u]
      BY <1>2
    <3>3. offered'[u] = Bytes(0, 0) \o Bytes(0, size[u])
      BY <2>1, <2>2
    <3>4. QED
      BY <3>1, <3>2, <3>3
  <2>4. Len(Bytes(0, size[u])) = size[u]
    BY <1>2, BytesConcat
  <2>5. QED
    BY <1>1, <1>2, <2>2, <2>3, <2>4
<1>4. CASE FramesDone(u)
  <2>1. pc[u] = "chunk" /\ ncount[u] < 0 /\ ret'[u] = size[u] /\ offered'[u] = offered[u]
    BY <1>0, <1>4 DEF FramesDone, Finish, Return, histvars
  <2>2. size[u] \div maxLength \in Nat
    BY <1>2, Remainder
  <2>3. ncount[u] = -1
    BY <2>1, <2>2 DEF LoopInv
  <2>4. offered[u] = Bytes(0, size[u])
    BY <2>1, <2>3 DEF LoopInv
  <2>5. Len(Bytes(0, size[u])) = size[u]
    BY <1>2, BytesConcat
  <2>6. QED
    BY <1>1, <1>2, <2>1, <2>4, <2>5
<1>5. CASE SendGiveUp(u)
  <2>1. ret'[u] = -1 /\ offered'[u] = offered[u]
    BY <1>0, <1>5 DEF SendGiveUp, Finish, Return
  <2>2. offered[u] = Bytes(0, offset[u])
    BY <1>2 DEF LoopInv
  <2>3. offset[u] <= size[u]
    BY <1>2, FrameInside DEF LoopInv
  <2>4. Len(Bytes(0, offset[u])) = offset[u]
    BY <1>0, BytesConcat
  <2>5. QED
    BY <1>1, <2>1, <2>2, <2>3, <2>4
<1>6. QED
  BY <1>3, <1>4, <1>5

(* Every step keeps the invariants of the frame loops and of finished ones.*)
LEMMA LoopSteps == Shape /\ LoopInv /\ PopInv /\ [Next]_vars => LoopInv' /\ PopInv'
<1> SUFFICES ASSUME Shape, LoopInv, PopInv, [Next]_vars PROVE LoopInv' /\ PopInv'
  OBVIOUS
<1> DEFINE Loop(u) ==
      LET frames == size[u] \div maxLength IN
      /\ pc[u] = "chunk" =>
           /\ size[u] > maxLength
           /\ ncount[u] \in -1..frames
           /\ ncount[u] >= 0 => offset[u] = (frames - ncount[u]) * maxLength
           /\ ncount[u] > 0 => sendLength[u] = maxLength
           /\ ncount[u] = 0 => sendLength[u] = size[u] - frames * maxLength
           /\ ncount[u] = -1 => offset[u] = size[u]
           /\ offered[u] = Bytes(0, offset[u])
      /\ pc[u] = "whole" =>
           offset[u] = 0 /\ sendLength[u] = size[u] /\ offered[u] = Bytes(0, 0)
    Pop(u) ==
      pc[u] = "pop" =>
        /\ offered[u] = Bytes(0, Len(offered[u]))
        /\ Len(offered[u]) <= size[u]
        /\ ret[u] # -1 => ret[u] = size[u] /\ Len(offered[u]) = size[u]
<1>1. ASSUME NEW u \in Threads
      PROVE  Loop(u)' /\ Pop(u)'
  <2>1. CASE pc'[u] \notin {"chunk", "whole", "pop"}
    BY <2>1
  <2>2. CASE Untouched(u)
    <3>1. Loop(u) /\ Pop(u)
      BY DEF LoopInv, PopInv
    <3>2. QED
      BY <2>2, <3>1 DEF Untouched, Bytes
  <2>3. CASE SendStart(u)
    BY <2>3, LoopStart
  <2>4. ASSUME NEW full \in BOOLEAN, FrameSent(u, full)
        PROVE  Loop(u)' /\ Pop(u)'
    BY <2>4, LoopFrame
  <2>5. ASSUME NEW full \in BOOLEAN, WholeSent(u, full) \/ FramesDone(u) \/ SendGiveUp(u)
        PROVE  Loop(u)' /\ Pop(u)'
    BY <2>5, LoopEnd
  <2>6. CASE SendRetry(u)
    <3>1. Loop(u) /\ pc[u] \in {"chunk", "whole"}
      BY <2>6 DEF LoopInv, SendRetry, Trying
    <3>2. QED
      BY <2>6, <3>1 DEF SendRetry, objvars, Bytes
  <2>7. QED
    BY <2>1, <2>2, <2>3, <2>4, <2>5, <2>6, LocalSteps DEF Try
<1>2. QED
  BY <1>1 DEF LoopInv, PopInv

(* Through every retry, whatever the frame length, the kernel is handed the *)
(* memory from const_data() on in order, each place once, and data.size()   *)
(* places when send() returns the length.                                   *)
THEOREM OffersEachOnceCorrect == Spec => []OffersEachOnce
<1>1. Init => LoopInv /\ PopInv
  <2> SUFFICES ASSUME Init PROVE LoopInv /\ PopInv
    OBVIOUS
  <2>1. \A t \in Threads : pc[t] = "idle"
    BY DEF Init
  <2>2. QED
    BY <2>1 DEF LoopInv, PopInv
<1>2. Shape /\ LoopInv /\ PopInv => OffersEachOnce
  <2> SUFFICES ASSUME Shape, LoopInv, PopInv, NEW t \in Threads,
                      pc[t] \in {"chunk", "whole"}
               PROVE  /\ offered[t] = Bytes(0, Len(offered[t]))
                      /\ Len(offered[t]) <= size[t]
    BY DEF OffersEachOnce, PopInv
  <2>1. offered[t] = Bytes(0, offset[t])
    BY DEF LoopInv
  <2>2. size[t] \in Nat /\ offset[t] \in Nat
    BY SendIsReady DEF Shape, TypeOK, LoopTypes
  <2>3. offset[t] <= size[t]
    BY <2>2, FrameInside DEF LoopInv
  <2>4. Len(Bytes(0, offset[t])) = offset[t]
    BY <2>2, BytesConcat
  <2>5. QED
    BY <2>1, <2>3, <2>4
<1>3. QED
  BY <1>1, <1>2, LoopSteps, ShapeCorrect, PTL DEF Spec
=============================================================================
