---------------------------- MODULE DevBase_proofs ----------------------------
(***************************************************************************)
(* For any devices, descriptors and steps their classes mark: the types of *)
(* DevBase, that a worker reads from an open descriptor, that a device     *)
(* closes its own descriptor only, and that only started devices are       *)
(* listed.                                                                 *)
(***************************************************************************)
EXTENDS DevBase, TLAPS

(* What start() has forgotten stays open, because nobody can close it: a    *)
(* descriptor under a ::read is held by the device itself or by nobody.     *)
ReadsUndisturbed ==
  \A d, e \in Devices :
    worker[d] = "reading" /\ rfd[d] >= 0 /\ e # d => dfd[e] # rfd[d]

Safe ==
  /\ OwnDescriptor
  /\ ReadsOpenDescriptor
  /\ ReadsUndisturbed
  /\ ListedStarted

IInv == TypeOK /\ Safe

-----------------------------------------------------------------------------
(* At the start nothing is open, read or listed.                            *)
LEMMA InitInv == Init => IInv
<1> SUFFICES ASSUME Init PROVE IInv
  OBVIOUS
<1>1. TypeOK
  BY ClassStepsAssumption, CallsAssumption DEF Init, TypeOK, Keys, Answers, Places
<1>2. Safe
  BY NobodyAssumption
  DEF Init, Safe, OwnDescriptor, ReadsOpenDescriptor, ReadsUndisturbed, ListedStarted
<1>3. QED
  BY <1>1, <1>2 DEF IInv

-----------------------------------------------------------------------------
(* init() tells a device its steps, and changes no more.                    *)
LEMMA DevInitInv ==
  ASSUME IInv, NEW d \in Devices, NEW knownMode \in BOOLEAN, NEW exists \in BOOLEAN,
         DevInit(d, knownMode, exists)
  PROVE  IInv'
<1> USE DEF IInv, DevInit
<1>1. TypeOK'
  BY CallsAssumption DEF TypeOK, Call, workvars
<1>2. Safe'
  BY DEF Safe, OwnDescriptor, ReadsOpenDescriptor, ReadsUndisturbed, ListedStarted, workvars
<1>3. QED
  BY <1>1, <1>2

(* Calls that are refused, or have nothing to do.                           *)
LEMMA RefusedInv ==
  ASSUME IInv, NEW d \in Devices,
         StartNotReady(d) \/ StopNothing(d) \/ StopThrows(d) \/ StopBegin(d)
  PROVE  IInv'
<1> USE DEF IInv, StartNotReady, StopNothing, StopThrows, StopBegin, basevars, workvars
<1>1. TypeOK'
  <2>1. run' \in [Devices -> BOOLEAN]
    BY Zenon DEF TypeOK
  <2>2. answer' \in [Devices -> Answers] /\ joining' \in Devices \cup {Nobody}
    BY DEF TypeOK, Answer, Answers
  <2>3. calls' \in 0..MaxCalls
    BY CallsAssumption DEF TypeOK, Call
  <2>4. QED
    BY <2>1, <2>2, <2>3 DEF TypeOK, Call
<1>2. Safe'
  BY DEF Safe, OwnDescriptor, ReadsOpenDescriptor, ReadsUndisturbed, ListedStarted
<1>3. QED
  BY <1>1, <1>2

(* The kernel returns a number that is not open, so nobody holds or reads   *)
(* it.                                                                      *)
LEMMA StartOpenedInv ==
  ASSUME IInv, NEW d \in Devices, NEW f \in Fds, StartOpened(d, f)
  PROVE  IInv'
<1> USE DEF IInv, StartOpened, basevars, workvars
<1>1. TypeOK'
  BY CallsAssumption DEF TypeOK, Call, Answer, Answers, Keys
<1>2. OwnDescriptor'
  BY FdsAssumption DEF TypeOK, Safe, OwnDescriptor
<1>3. ReadsOpenDescriptor' /\ ReadsUndisturbed'
  BY DEF TypeOK, Safe, ReadsOpenDescriptor, ReadsUndisturbed
<1>4. ListedStarted'
  BY DEF Safe, ListedStarted
<1>5. QED
  BY <1>1, <1>2, <1>3, <1>4 DEF Safe

(* A new worker reads nothing yet; what _serial_fd held is forgotten, and   *)
(* stays open.                                                              *)
LEMMA StartUnopenedInv ==
  ASSUME IInv, NEW d \in Devices, StartUnopened(d)
  PROVE  IInv'
<1> USE DEF IInv, StartUnopened, basevars
<1>1. TypeOK'
  BY CallsAssumption DEF TypeOK, Call, Answer, Answers, Keys, Places
<1>2. OwnDescriptor'
  BY DEF TypeOK, Safe, OwnDescriptor
<1>3. ReadsOpenDescriptor' /\ ReadsUndisturbed'
  BY DEF TypeOK, Safe, ReadsOpenDescriptor, ReadsUndisturbed
<1>4. ListedStarted'
  BY NobodyAssumption DEF TypeOK, Safe, ListedStarted
<1>5. QED
  BY <1>1, <1>2, <1>3, <1>4 DEF Safe

(* The process ends with its descriptors as they are.                       *)
LEMMA StartTerminatesInv ==
  ASSUME IInv, NEW d \in Devices, StartTerminates(d)
  PROVE  IInv'
<1> USE DEF IInv, StartTerminates, basevars, workvars
<1>1. TypeOK'
  <2>1. up' \in BOOLEAN
    BY Zenon
  <2>2. dfd' \in [Devices -> Keys] /\ calls' \in 0..MaxCalls
    BY CallsAssumption DEF TypeOK, Call, Keys
  <2>3. QED
    BY <2>1, <2>2 DEF TypeOK, Call
<1>2. Safe'
  BY DEF TypeOK, Safe, OwnDescriptor, ReadsOpenDescriptor, ReadsUndisturbed, ListedStarted
<1>3. QED
  BY <1>1, <1>2

(* After join() the device's worker reads no more, and no other worker reads *)
(* from what nfclose() closes.                                              *)
LEMMA StopJoinedInv ==
  ASSUME IInv, NEW d \in Devices, StopJoined(d)
  PROVE  IInv'
<1> USE DEF IInv, StopJoined, basevars, workvars
<1>1. TypeOK'
  BY DEF TypeOK, Answer, Answers, Keys
<1>2. OwnDescriptor'
  <2> SUFFICES ASSUME NEW e \in Devices, dfd'[e] >= 0
               PROVE  dfd'[e] \in open' /\ \A o \in Devices \ {e} : dfd'[o] # dfd'[e]
    BY DEF OwnDescriptor
  <2>1. e # d /\ dfd'[e] = dfd[e]
    BY DEF TypeOK
  <2>2. dfd[e] \in open /\ \A o \in Devices \ {e} : dfd[o] # dfd[e]
    BY <2>1 DEF Safe, OwnDescriptor
  <2>3. QED
    BY <2>1, <2>2 DEF TypeOK
<1>3. ReadsOpenDescriptor'
  <2> SUFFICES ASSUME NEW e \in Devices, worker[e] = "reading", rfd[e] >= 0
               PROVE  rfd[e] \in open'
    BY DEF ReadsOpenDescriptor
  <2>1. e # d
    OBVIOUS
  <2>2. rfd[e] \in open /\ dfd[d] # rfd[e]
    BY <2>1 DEF Safe, ReadsOpenDescriptor, ReadsUndisturbed
  <2>3. QED
    BY <2>2
<1>4. ReadsUndisturbed'
  BY DEF TypeOK, Safe, ReadsUndisturbed
<1>5. ListedStarted'
  BY NobodyAssumption DEF TypeOK, Safe, ListedStarted
<1>6. QED
  BY <1>2, <1>1, <1>3, <1>4, <1>5 DEF Safe

(* A worker reads from what its own device holds at the call.               *)
LEMMA WorkerInv ==
  ASSUME IInv, NEW d \in Devices, WorkerStep(d) \/ ReadData(d)
  PROVE  IInv'
<1> USE DEF IInv, Elsewhere, basevars, At, Goto
<1>1. UNCHANGED <<basevars, fd, dfd, run, thread, tree, answer, joining, open, up, calls>>
  BY DEF WorkerStep, ReadData, TaskCheck, ReadReady, ReadCall, Execute
<1>2. /\ worker' \in [Devices -> Places] /\ rfd' \in [Devices -> Keys]
      /\ \A e \in Devices : worker'[e] = "reading" =>
           \/ worker[e] = "reading" /\ rfd'[e] = rfd[e]
           \/ rfd'[e] = dfd[e]
  BY DEF TypeOK, WorkerStep, ReadData, TaskCheck, ReadReady, ReadCall, Execute, Keys, Places
<1>3. TypeOK'
  BY <1>1, <1>2 DEF TypeOK
<1>4. OwnDescriptor' /\ ListedStarted'
  BY <1>1 DEF Safe, OwnDescriptor, ListedStarted
<1>5. ReadsOpenDescriptor'
  BY <1>1, <1>2 DEF Safe, ReadsOpenDescriptor, OwnDescriptor
<1>6. ReadsUndisturbed'
  BY <1>1, <1>2 DEF Safe, ReadsUndisturbed, OwnDescriptor
<1>7. QED
  BY <1>3, <1>4, <1>5, <1>6 DEF Safe

-----------------------------------------------------------------------------
(* IInv is inductive.                                                       *)
LEMMA NextInv == IInv /\ [Next]_vars => IInv'
<1> SUFFICES ASSUME IInv, [Next]_vars PROVE IInv'
  OBVIOUS
<1>1. CASE UNCHANGED vars
  BY <1>1 DEF IInv, TypeOK, Safe, OwnDescriptor, ReadsOpenDescriptor, ReadsUndisturbed,
     ListedStarted, vars, basevars, workvars
<1>2. ASSUME NEW d \in Devices, Control(d) PROVE IInv'
  BY <1>2, DevInitInv, RefusedInv, StartOpenedInv, StartUnopenedInv, StartTerminatesInv
  DEF Control
<1>3. ASSUME NEW d \in Devices, StopJoined(d) PROVE IInv'
  BY <1>3, StopJoinedInv
<1>4. ASSUME NEW d \in Devices, WorkerStep(d) \/ ReadData(d) PROVE IInv'
  BY <1>4, WorkerInv
<1>5. QED
  BY <1>1, <1>2, <1>3, <1>4 DEF Next

(* IInv holds of every state.                                               *)
THEOREM Invariant == Spec => []IInv
<1>1. QED
  BY InitInv, NextInv, PTL DEF Spec

(* Types, whatever order devices are called in.                             *)
THEOREM TypeCorrect == Spec => []TypeOK
BY Invariant, PTL DEF IInv

(* The descriptor a worker waits on stays open: start() forgets descriptors *)
(* but closes none, and stop() closes one that no running worker was given. *)
THEOREM ReadsOpenDescriptorCorrect == Spec => []ReadsOpenDescriptor
BY Invariant, PTL DEF IInv, Safe

(* No two devices hold one descriptor, and what a device holds is open.     *)
THEOREM OwnDescriptorCorrect == Spec => []OwnDescriptor
BY Invariant, PTL DEF IInv, Safe

(* Only started devices are listed.                                         *)
THEOREM ListedStartedCorrect == Spec => []ListedStarted
BY Invariant, PTL DEF IInv, Safe
=============================================================================
