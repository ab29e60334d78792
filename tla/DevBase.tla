------------------------------- MODULE DevBase -------------------------------
(***************************************************************************)
(* The life of the devices of LibNPDDevDriver: NPDDevBase with the virtual *)
(* functions of NPDSerial (nfopen, nfclose, readfromIO).  One control      *)
(* thread calls init(), start() and stop() of any device; each device has  *)
(* a worker thread that runs NPD_run_task().  The control thread is in     *)
(* stop() while joining names a device; init() and start() do not wait.    *)
(***************************************************************************)
EXTENDS Integers, FiniteSets

CONSTANTS
  Devices,
  Fds,          \* descriptors open() may return
  ClassSteps,   \* per device: steps 2..8 its class marks done by itself ({} for NPDSerial)
  Nobody,       \* no device
  MaxCalls      \* bound: calls of the control thread

ASSUME FdsAssumption == Fds \subseteq Nat
ASSUME ClassStepsAssumption == ClassSteps \in [Devices -> SUBSET (2..8)]
ASSUME NobodyAssumption == Nobody \notin Devices
ASSUME CallsAssumption == MaxCalls \in Nat

VARIABLES
  fullinit, initflag,   \* steps required, steps done
  path,                 \* is _dev_path set?
  fd,                   \* _fd of the base class
  dfd,                  \* _serial_fd of the derived class
  run,                  \* _run; start() never sets it
  thread,               \* _NPDpthread: null, joinable or joined
  tree,                 \* _npd_dev_tree_list
  answer,               \* what the last start() or stop() of a device answered
  worker, rfd,          \* place of the worker, and the argument of its ::read
  joining,              \* device whose stop() waits for its worker
  open,                 \* kernel: open descriptors
  up,                   \* the process has not been terminated
  calls

basevars == <<fullinit, initflag, path>>
workvars == <<worker, rfd>>
vars == <<basevars, fd, dfd, run, thread, tree, answer, workvars, joining, open, up, calls>>

Keys == Fds \cup {-1}
Answers == {"none", "notready", "openfail", "started", "stopped", "threw"}
Places == {"none", "check", "ready", "call", "reading", "exec", "ended"}

TypeOK ==
  /\ fullinit \in [Devices -> {{}, 1..8}]
  /\ initflag \in [Devices -> SUBSET (1..8)]
  /\ path \in [Devices -> BOOLEAN]
  /\ fd \in [Devices -> Keys] /\ dfd \in [Devices -> Keys] /\ rfd \in [Devices -> Keys]
  /\ run \in [Devices -> BOOLEAN]
  /\ thread \in [Devices -> {"null", "joinable", "joined"}]
  /\ tree \in [Keys -> Devices \cup {Nobody}]
  /\ answer \in [Devices -> Answers]
  /\ worker \in [Devices -> Places]
  /\ joining \in Devices \cup {Nobody}
  /\ open \subseteq Fds
  /\ up \in BOOLEAN
  /\ calls \in 0..MaxCalls

(* Nothing gives _run a value before stop() does. *)
Init ==
  /\ fullinit = [d \in Devices |-> {}]
  /\ initflag = ClassSteps
  /\ path = [d \in Devices |-> FALSE]
  /\ fd = [d \in Devices |-> -1] /\ dfd = [d \in Devices |-> -1]
  /\ run \in [Devices -> BOOLEAN]
  /\ thread = [d \in Devices |-> "null"]
  /\ tree = [k \in Keys |-> Nobody]
  /\ answer = [d \in Devices |-> "none"]
  /\ worker = [d \in Devices |-> "none"] /\ rfd = [d \in Devices |-> -1]
  /\ joining = Nobody
  /\ open = {}
  /\ up = TRUE
  /\ calls = 0

Call ==
  /\ up
  /\ joining = Nobody
  /\ calls < MaxCalls
  /\ calls' = calls + 1

Answer(d, a) == answer' = [answer EXCEPT ![d] = a]

-----------------------------------------------------------------------------
MutDevInit(d, knownMode, exists) ==     \* the bits of _initflag counted from 0
  /\ Call
  /\ fullinit' = [fullinit EXCEPT ![d] = IF knownMode THEN 1..8 ELSE @]
  /\ initflag' = [initflag EXCEPT ![d] = IF exists THEN @ \cup {0} ELSE @ \ {0}]
  /\ path' = [path EXCEPT ![d] = @ \/ exists]
  /\ UNCHANGED <<fd, dfd, run, thread, tree, answer, workvars, joining, open, up>>

(* init(mode, deviceID): a mode it does not know is only logged, and leaves *)
(* the steps required as they were; a file that is not there undoes step 1. *)
DevInit(d, knownMode, exists) ==
  /\ Call
  /\ fullinit' = [fullinit EXCEPT ![d] = IF knownMode THEN 1..8 ELSE @]
  /\ initflag' = [initflag EXCEPT ![d] = IF exists THEN @ \cup {1} ELSE @ \ {1}]
  /\ path' = [path EXCEPT ![d] = @ \/ exists]
  /\ UNCHANGED <<fd, dfd, run, thread, tree, answer, workvars, joining, open, up>>

(* check_init(): every required step is done.  None is required of a device *)
(* that has not been told a known mode.                                     *)
CheckInit(d) == fullinit[d] \subseteq initflag[d]

-----------------------------------------------------------------------------
(* start() *)

StartNotReady(d) ==
  /\ Call
  /\ ~CheckInit(d)
  /\ Answer(d, "notready")
  /\ UNCHANGED <<basevars, fd, dfd, run, thread, tree, workvars, joining, open, up>>

MutStartOpened(d, f) ==       \* lists the device although it does not start it
  /\ Call
  /\ CheckInit(d)
  /\ path[d] /\ f \notin open
  /\ open' = open \cup {f}
  /\ dfd' = [dfd EXCEPT ![d] = f]
  /\ fd' = [fd EXCEPT ![d] = f]
  /\ tree' = [tree EXCEPT ![f] = IF @ = Nobody THEN d ELSE @]
  /\ Answer(d, "openfail")
  /\ UNCHANGED <<basevars, run, thread, workvars, joining, up>>

(* nfopen() succeeds, and start() takes the branch of the failed open.  What *)
(* _serial_fd held before is forgotten.                                     *)
StartOpened(d, f) ==
  /\ Call
  /\ CheckInit(d)
  /\ path[d] /\ f \notin open
  /\ open' = open \cup {f}
  /\ dfd' = [dfd EXCEPT ![d] = f]
  /\ fd' = [fd EXCEPT ![d] = f]
  /\ Answer(d, "openfail")
  /\ UNCHANGED <<basevars, run, thread, tree, workvars, joining, up>>

(* nfopen() fails and start() goes on: dev_init_setting() turns the bad     *)
(* descriptor down, unheard; the worker is created; the map keeps an entry  *)
(* it already has under the key _fd, which is still that of an earlier open.*)
StartUnopened(d) ==
  /\ Call
  /\ CheckInit(d)
  /\ thread[d] # "joinable"
  /\ dfd' = [dfd EXCEPT ![d] = -1]
  /\ thread' = [thread EXCEPT ![d] = "joinable"]
  /\ worker' = [worker EXCEPT ![d] = "check"]
  /\ tree' = [tree EXCEPT ![fd[d]] = IF @ = Nobody THEN d ELSE @]
  /\ Answer(d, "started")
  /\ UNCHANGED <<basevars, fd, run, rfd, joining, open, up>>

(* The same while a worker exists: its std::thread is destroyed joinable.   *)
StartTerminates(d) ==
  /\ Call
  /\ CheckInit(d)
  /\ thread[d] = "joinable"
  /\ dfd' = [dfd EXCEPT ![d] = -1]
  /\ up' = FALSE
  /\ UNCHANGED <<basevars, fd, run, thread, tree, answer, workvars, joining, open>>

-----------------------------------------------------------------------------
(* stop() *)

(* Without a thread there is nothing to do: what start() opened stays open. *)
StopNothing(d) ==
  /\ Call
  /\ thread[d] = "null"
  /\ run' = [run EXCEPT ![d] = FALSE]
  /\ Answer(d, "stopped")
  /\ UNCHANGED <<basevars, fd, dfd, thread, tree, workvars, joining, open, up>>

(* join() of a thread that has been joined throws; nothing more is done.    *)
StopThrows(d) ==
  /\ Call
  /\ thread[d] = "joined"
  /\ run' = [run EXCEPT ![d] = FALSE]
  /\ Answer(d, "threw")
  /\ UNCHANGED <<basevars, fd, dfd, thread, tree, workvars, joining, open, up>>

MutStopBegin(d) ==            \* the worker is not told
  /\ Call
  /\ thread[d] = "joinable"
  /\ joining' = d
  /\ UNCHANGED <<basevars, fd, dfd, run, thread, tree, answer, workvars, open, up>>

StopBegin(d) ==
  /\ Call
  /\ thread[d] = "joinable"
  /\ run' = [run EXCEPT ![d] = FALSE]
  /\ joining' = d
  /\ UNCHANGED <<basevars, fd, dfd, thread, tree, answer, workvars, open, up>>

MutStopJoined(d) ==           \* closes before the worker has ended
  /\ up
  /\ joining = d
  /\ thread' = [thread EXCEPT ![d] = "joined"]
  /\ open' = open \ {dfd[d]}
  /\ dfd' = [dfd EXCEPT ![d] = -1]
  /\ tree' = [tree EXCEPT ![fd[d]] = Nobody]
  /\ joining' = Nobody
  /\ Answer(d, "stopped")
  /\ UNCHANGED <<basevars, fd, run, workvars, up, calls>>

MutForgetReset(d) ==          \* nfclose() leaves _serial_fd as it is
  /\ up
  /\ joining = d /\ worker[d] = "ended"
  /\ thread' = [thread EXCEPT ![d] = "joined"]
  /\ open' = open \ {dfd[d]}
  /\ tree' = [tree EXCEPT ![fd[d]] = Nobody]
  /\ joining' = Nobody
  /\ Answer(d, "stopped")
  /\ UNCHANGED <<basevars, fd, dfd, run, workvars, up, calls>>

(* The worker has ended: nfclose(), and the entry under _fd is removed,     *)
(* whichever device it is for.                                              *)
StopJoined(d) ==
  /\ up
  /\ joining = d /\ worker[d] = "ended"
  /\ thread' = [thread EXCEPT ![d] = "joined"]
  /\ open' = open \ {dfd[d]}
  /\ dfd' = [dfd EXCEPT ![d] = -1]
  /\ tree' = [tree EXCEPT ![fd[d]] = Nobody]
  /\ joining' = Nobody
  /\ Answer(d, "stopped")
  /\ UNCHANGED <<basevars, fd, run, workvars, up, calls>>

-----------------------------------------------------------------------------
(* NPD_run_task(), with readfromIO() and read() of NPDSerial. *)

At(d, place) == up /\ worker[d] = place
Goto(d, place) == worker' = [worker EXCEPT ![d] = place]
Elsewhere == <<basevars, fd, dfd, run, thread, tree, answer, joining, open, up, calls>>

TaskCheck(d) ==
  /\ At(d, "check")
  /\ Goto(d, IF run[d] THEN "ready" ELSE "ended")
  /\ UNCHANGED <<Elsewhere, rfd>>

(* FD_IS_READY, and then, the lock taken, ::read of what _serial_fd holds   *)
(* by now.                                                                  *)
ReadReady(d) ==
  /\ At(d, "ready")
  /\ Goto(d, IF dfd[d] < 0 THEN "check" ELSE "call")
  /\ UNCHANGED <<Elsewhere, rfd>>

ReadCall(d) ==
  /\ At(d, "call")
  /\ Goto(d, "reading")
  /\ rfd' = [rfd EXCEPT ![d] = dfd[d]]
  /\ UNCHANGED Elsewhere

(* ::read waits for the device, and brings data, none or an error; without  *)
(* data the worker goes on with its loop.                                   *)
ReadData(d) ==
  /\ At(d, "reading")
  /\ \E place \in {"exec", "check"} : Goto(d, place)
  /\ rfd' = [rfd EXCEPT ![d] = -1]
  /\ UNCHANGED Elsewhere

Execute(d) ==
  /\ At(d, "exec")
  /\ Goto(d, "check")
  /\ UNCHANGED <<Elsewhere, rfd>>

WorkerStep(d) ==
  TaskCheck(d) \/ ReadReady(d) \/ ReadCall(d) \/ Execute(d)

Control(d) ==
  \/ \E knownMode, exists \in BOOLEAN : DevInit(d, knownMode, exists)
  \/ StartNotReady(d) \/ StartUnopened(d) \/ StartTerminates(d)
  \/ \E f \in Fds : StartOpened(d, f)
  \/ StopNothing(d) \/ StopThrows(d) \/ StopBegin(d)

Next == \E d \in Devices : Control(d) \/ StopJoined(d) \/ WorkerStep(d) \/ ReadData(d)

(* The threads keep being scheduled; a device need not send anything.       *)
Spec == Init /\ [][Next]_vars
FairSpec == Spec /\ \A d \in Devices : WF_vars(WorkerStep(d)) /\ WF_vars(StopJoined(d))

-----------------------------------------------------------------------------
(* The descriptor a worker waits on stays open, although start() and stop() *)
(* of its own device and of others open and close descriptors meanwhile:    *)
(* stop() closes only after join() (NPDDevBase.cpp:85-88).                  *)
ReadsOpenDescriptor ==
  \A d \in Devices : worker[d] = "reading" /\ rfd[d] >= 0 => rfd[d] \in open

(* A device's _serial_fd is -1 or an open descriptor that no other device   *)
(* holds, so that no stop() closes another device's file.                   *)
OwnDescriptor ==
  \A d \in Devices : dfd[d] >= 0 =>
    dfd[d] \in open /\ \A e \in Devices \ {d} : dfd[e] # dfd[d]

(* Whatever get_device_tree() shows has been started.                       *)
ListedStarted == \A k \in Keys : tree[k] # Nobody => thread[tree[k]] # "null"

(* stop() comes back, unless the worker waits for its device for ever.      *)
StopReturns ==
  \A d \in Devices : joining = d ~> (joining # d \/ [](worker[d] = "reading"))
=============================================================================
