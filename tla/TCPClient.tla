------------------------------ MODULE TCPClient ------------------------------
(***************************************************************************)
(* NPDTCPClient (LibNPDNet/NPDTCP.cpp) with the NPDMessageQueue it counts  *)
(* its calls in: send() pushes a task, writes the message to the socket,   *)
(* in frames of _maxLength bytes when it is longer, and pops A task, not   *)
(* necessarily its own; disconnect() waits for the queue to be empty and   *)
(* closes.  No lock is held from one of these steps to the next.           *)
(*                                                                         *)
(* What ::send is given is memory, counted here in places from             *)
(* const_data() on.  const_data() is the payload alone, and data.size() is *)
(* its length and that of the structure sProtocol, which is not in front   *)
(* of it: the last places of every message lie behind the payload.         *)
(*                                                                         *)
(* The kernel's send() is the environment: on an open descriptor it may    *)
(* fail, or take the frame, or take a part of it, or, when the peer does   *)
(* not read, never return.                                                 *)
(***************************************************************************)
EXTENDS MessageQueue

CONSTANTS
  Senders,            \* threads that call send(), recv() and connect()
  Closers,            \* threads that call disconnect()
  Payloads,           \* lengths of the payloads of the messages
  MaxLengths,         \* results of GetMaxRxTxLength()
  SockFds,            \* results of socket()
  ERROR_RETURN_TIMES, \* NPDTCP.cpp:27
  MaxCalls            \* bound: calls made by each thread

ASSUME UsersAssumption == Senders \subseteq Threads /\ Closers \subseteq Threads
ASSUME PayloadsAssumption == Payloads \subseteq Nat
ASSUME MaxLengthsAssumption == MaxLengths \subseteq Int \ {0}
ASSUME SockFdsAssumption == SockFds \subseteq Int
ASSUME RetriesAssumption == ERROR_RETURN_TIMES \in Nat
ASSUME CallsAssumption == MaxCalls \in Nat
ASSUME ElemsAssumption == Elems = 0..255      \* NPDMessageQueue<uint8_t>

VARIABLES
  maxLength, sockfd, taskNum,    \* _maxLength, _sockfd, _task_queue_num
  fdOpen,                        \* is _sockfd an open descriptor?
  stalled,                       \* threads inside a ::send that never returns
  pc, calls, ret,                \* per thread: place, calls made, return value
  num,                           \* the value ++ has loaded from _task_queue_num
  size, ncount, offset, sendLength, errorCount,     \* locals of send()
  offered,    \* history: the places the kernel was handed, in order
  short,      \* history: the kernel took only a part of the last frame it was handed
  fails,      \* history: failures of the kernel's send() in this call
  slot,       \* history: position in the queue of the thread's own task
  seen,       \* history: end of the queue when disconnect() saw it empty
  leaked      \* history: tasks whose call is over and that nobody will pop

objvars == <<maxLength, sockfd, taskNum, fdOpen, stalled>>
loopvars == <<ncount, offset, sendLength, errorCount>>
histvars == <<offered, short, fails, slot, seen, leaked>>
vars == <<qvars, objvars, pc, calls, ret, num, size, loopvars, histvars>>

Threw == -2       \* a call that ended with an exception

PcValues == {"idle", "number", "push", "chunk", "whole", "pop",
             "rnumber", "rpush", "drain", "close"}

(* data.size(): the structure is counted although it is never sent. *)
HeaderSize == 20
Sizes == {HeaderSize + n : n \in Payloads}

(* The places n .. n+len-1 from const_data() on. *)
Bytes(n, len) == [i \in 1..len |-> n + i - 1]

ObjectTypes ==
  /\ maxLength \in MaxLengths \cup {-1}
  /\ sockfd \in SockFds \cup {-1}
  /\ taskNum \in Nat
  /\ fdOpen \in BOOLEAN
  /\ stalled \subseteq Threads

CallTypes ==
  /\ pc \in [Threads -> PcValues]
  /\ calls \in [Threads -> 0..MaxCalls]
  /\ ret \in [Threads -> Int]
  /\ num \in [Threads -> Nat]
  /\ size \in [Threads -> Sizes \cup {0}]

LoopTypes ==
  /\ ncount \in [Threads -> Int]
  /\ offset \in [Threads -> Nat]
  /\ sendLength \in [Threads -> Nat]
  /\ errorCount \in [Threads -> 0..ERROR_RETURN_TIMES]

HistoryTypes ==
  /\ offered \in [Threads -> Seq(Nat)]
  /\ short \in [Threads -> BOOLEAN]
  /\ fails \in [Threads -> Nat]
  /\ slot \in [Threads -> Nat]
  /\ seen \in [Threads -> Nat]
  /\ leaked \in Nat

TypeOK == QTypeOK /\ ObjectTypes /\ CallTypes /\ LoopTypes /\ HistoryTypes

Init ==
  /\ QInit
  /\ maxLength = -1 /\ sockfd = -1 /\ taskNum = 0 /\ fdOpen = FALSE /\ stalled = {}
  /\ pc = [t \in Threads |-> "idle"]
  /\ calls = [t \in Threads |-> 0]
  /\ ret = [t \in Threads |-> 0]
  /\ num = [t \in Threads |-> 0]
  /\ size = [t \in Threads |-> 0]
  /\ ncount = [t \in Threads |-> 0]
  /\ offset = [t \in Threads |-> 0]
  /\ sendLength = [t \in Threads |-> 0]
  /\ errorCount = [t \in Threads |-> 0]
  /\ offered = [t \in Threads |-> <<>>]
  /\ short = [t \in Threads |-> FALSE]
  /\ fails = [t \in Threads |-> 0]
  /\ slot = [t \in Threads |-> 0]
  /\ seen = [t \in Threads |-> 0]
  /\ leaked = 0

Goto(t, place) == pc' = [pc EXCEPT ![t] = place]
Return(t, v) == ret' = [ret EXCEPT ![t] = v]

(* A thread that is in none of the object's functions enters one. *)
Call(t) ==
  /\ pc[t] = "idle"
  /\ calls[t] < MaxCalls
  /\ calls' = [calls EXCEPT ![t] = @ + 1]

-----------------------------------------------------------------------------
(* init(): the owner runs it while no other thread uses the object.  The    *)
(* address and the port are not kept.                                       *)
ClientInit(fd, len) ==
  /\ \A t \in Threads : pc[t] = "idle"
  /\ sockfd' = fd
  /\ fdOpen' = (fd >= 0)
  /\ maxLength' = IF fd < 0 THEN maxLength ELSE len
  /\ UNCHANGED <<qvars, taskNum, stalled, pc, calls, ret, num, size, loopvars, histvars>>

(* connect(): _ip is still empty and _port -1, whatever init() was told, so *)
(* the error handler answers and ::connect is never reached.                *)
Connect(t) ==
  /\ Call(t)
  /\ Return(t, 0)
  /\ UNCHANGED <<qvars, objvars, pc, num, size, loopvars, histvars>>

-----------------------------------------------------------------------------
(* send() *)

SendRefuse(t) ==
  /\ Call(t)
  /\ sockfd < 0 \/ maxLength < 0
  /\ Return(t, -1)
  /\ UNCHANGED <<qvars, objvars, pc, num, size, loopvars, histvars>>

(* ++_task_queue_num is a load and a store, with nothing between the        *)
(* threads that do it.                                                      *)
SendBegin(t, n) ==
  /\ Call(t)
  /\ sockfd >= 0 /\ maxLength >= 0
  /\ size' = [size EXCEPT ![t] = n]
  /\ num' = [num EXCEPT ![t] = taskNum]
  /\ Goto(t, "number")
  /\ UNCHANGED <<qvars, objvars, ret, loopvars, histvars>>

Number(t) ==
  /\ pc[t] \in {"number", "rnumber"}
  /\ taskNum' = num[t] + 1
  /\ PushCall(t, (num[t] + 1) % 256)
  /\ Goto(t, IF pc[t] = "number" THEN "push" ELSE "rpush")
  /\ UNCHANGED <<maxLength, sockfd, fdOpen, stalled, calls, ret, num, size,
                 loopvars, histvars>>

(* push() has returned: choose between frames and a single write. *)
SendStart(t) ==
  /\ pc[t] = "push" /\ qpc[t] = "out"
  /\ errorCount' = [errorCount EXCEPT ![t] = ERROR_RETURN_TIMES]
  /\ offset' = [offset EXCEPT ![t] = 0]
  /\ \/ /\ size[t] > maxLength
        /\ ncount' = [ncount EXCEPT ![t] = size[t] \div maxLength]
        /\ sendLength' = [sendLength EXCEPT ![t] = maxLength]
        /\ Goto(t, "chunk")
     \/ /\ size[t] <= maxLength
        /\ sendLength' = [sendLength EXCEPT ![t] = size[t]]
        /\ Goto(t, "whole")
        /\ UNCHANGED ncount
  /\ offered' = [offered EXCEPT ![t] = <<>>]
  /\ short' = [short EXCEPT ![t] = FALSE]
  /\ fails' = [fails EXCEPT ![t] = 0]
  /\ UNCHANGED <<qvars, objvars, calls, ret, num, size, slot, seen, leaked>>

(* The kernel's send() returned a length, which the code does not look at. *)
KernelTakes(t, full) ==
  /\ fdOpen /\ t \notin stalled
  /\ full \/ sendLength[t] > 1
  /\ offered' = [offered EXCEPT ![t] = @ \o Bytes(offset[t], sendLength[t])]
  /\ short' = [short EXCEPT ![t] = ~full]

Finish(t, v) ==
  /\ PopCall(t)
  /\ Return(t, v)
  /\ Goto(t, "pop")

(* A thread in ::send, which will get an answer. *)
Trying(t) ==
  /\ pc[t] = "whole" \/ (pc[t] = "chunk" /\ ncount[t] >= 0)
  /\ t \notin stalled

(* ::send waits for room in the socket's buffer, and a peer that does not   *)
(* read never makes any.                                                    *)
Stall(t) ==
  /\ Trying(t)
  /\ fdOpen
  /\ stalled' = stalled \cup {t}
  /\ UNCHANGED <<qvars, maxLength, sockfd, taskNum, fdOpen, pc, calls, ret, num, size,
                 loopvars, histvars>>

MutNextLength(t) == IF ncount[t] - 1 >= 0 THEN maxLength
                    ELSE size[t] - (size[t] \div maxLength) * maxLength

(* The length of the next frame: a full one, or what remains. *)
NextLength(t) == IF ncount[t] - 1 > 0 THEN maxLength
                 ELSE size[t] - (size[t] \div maxLength) * maxLength

MutFreshBudget(t, full) ==    \* every frame gets the full number of retries
  /\ pc[t] = "chunk" /\ ncount[t] >= 0
  /\ KernelTakes(t, full)
  /\ ncount' = [ncount EXCEPT ![t] = @ - 1]
  /\ offset' = [offset EXCEPT ![t] = @ + sendLength[t]]
  /\ sendLength' = [sendLength EXCEPT ![t] = NextLength(t)]
  /\ errorCount' = [errorCount EXCEPT ![t] = ERROR_RETURN_TIMES]
  /\ UNCHANGED <<qvars, objvars, pc, calls, ret, num, size, fails, slot, seen, leaked>>

FrameSent(t, full) ==
  /\ pc[t] = "chunk" /\ ncount[t] >= 0
  /\ KernelTakes(t, full)
  /\ ncount' = [ncount EXCEPT ![t] = @ - 1]
  /\ offset' = [offset EXCEPT ![t] = @ + sendLength[t]]
  /\ sendLength' = [sendLength EXCEPT ![t] = NextLength(t)]
  /\ UNCHANGED <<qvars, objvars, pc, calls, ret, num, size, errorCount,
                 fails, slot, seen, leaked>>

FramesDone(t) ==
  /\ pc[t] = "chunk" /\ ncount[t] < 0
  /\ Finish(t, size[t])
  /\ UNCHANGED <<objvars, calls, num, size, loopvars, histvars>>

WholeSent(t, full) ==
  /\ pc[t] = "whole"
  /\ KernelTakes(t, full)
  /\ Finish(t, size[t])
  /\ UNCHANGED <<objvars, calls, num, size, loopvars, fails, slot, seen, leaked>>

MutRetry(t) ==                \* one retry too many
  /\ Trying(t)
  /\ errorCount[t] >= 0
  /\ errorCount' = [errorCount EXCEPT ![t] = @ - 1]
  /\ fails' = [fails EXCEPT ![t] = @ + 1]
  /\ UNCHANGED <<qvars, objvars, pc, calls, ret, num, size, ncount, offset,
                 sendLength, offered, short, slot, seen, leaked>>

SendRetry(t) ==
  /\ Trying(t)
  /\ errorCount[t] > 0
  /\ errorCount' = [errorCount EXCEPT ![t] = @ - 1]
  /\ fails' = [fails EXCEPT ![t] = @ + 1]
  /\ UNCHANGED <<qvars, objvars, pc, calls, ret, num, size, ncount, offset,
                 sendLength, offered, short, slot, seen, leaked>>

MutGiveUp(t) ==               \* the error path returns without pop()
  /\ Trying(t)
  /\ errorCount[t] <= 0
  /\ fails' = [fails EXCEPT ![t] = @ + 1]
  /\ Return(t, -1)
  /\ Goto(t, "idle")
  /\ UNCHANGED <<qvars, objvars, calls, num, size, loopvars, offered, short,
                 slot, seen, leaked>>

SendGiveUp(t) ==
  /\ Trying(t)
  /\ errorCount[t] <= 0
  /\ fails' = [fails EXCEPT ![t] = @ + 1]
  /\ Finish(t, -1)
  /\ UNCHANGED <<objvars, calls, num, size, loopvars, offered, short, slot, seen, leaked>>

SendReturn(t) ==
  /\ pc[t] = "pop" /\ qpc[t] = "took"
  /\ Goto(t, "idle")
  /\ UNCHANGED <<qvars, objvars, calls, ret, num, size, loopvars, histvars>>

(* The exception of pop() leaves send(); the task stays in the queue. *)
SendThrow(t) ==
  /\ pc[t] = "pop" /\ qpc[t] = "thrown"
  /\ Goto(t, "idle")
  /\ Return(t, Threw)
  /\ leaked' = leaked + 1
  /\ UNCHANGED <<qvars, objvars, calls, num, size, loopvars,
                 offered, short, fails, slot, seen>>
-----------------------------------------------------------------------------
(* recv(): the guard is inverted, so only descriptor 0 gets past it; the    *)
(* task it pushes is never popped, and control flows off the end.           *)

RecvRefuse(t) ==
  /\ Call(t)
  /\ maxLength < 0 \/ sockfd # 0
  /\ Return(t, -1)
  /\ UNCHANGED <<qvars, objvars, pc, num, size, loopvars, histvars>>

RecvBegin(t) ==
  /\ Call(t)
  /\ maxLength >= 0 /\ sockfd = 0
  /\ num' = [num EXCEPT ![t] = taskNum]
  /\ Goto(t, "rnumber")
  /\ UNCHANGED <<qvars, objvars, ret, size, loopvars, histvars>>

RecvEnd(t, v) ==
  /\ pc[t] = "rpush" /\ qpc[t] = "out"
  /\ Goto(t, "idle")
  /\ Return(t, v)
  /\ leaked' = leaked + 1
  /\ UNCHANGED <<qvars, objvars, calls, num, size, loopvars,
                 offered, short, fails, slot, seen>>

-----------------------------------------------------------------------------
(* disconnect(): spin on size(), then close without another look; neither   *)
(* _sockfd nor _maxLength is reset.                                         *)

DisconnectBegin(t) ==
  /\ Call(t)
  /\ Goto(t, "drain")
  /\ UNCHANGED <<qvars, objvars, ret, num, size, loopvars, histvars>>

MutDrainSeen(t) ==            \* one task in the queue counts as none
  /\ pc[t] = "drain"
  /\ lock = Free
  /\ QueueSize <= 1
  /\ Goto(t, "close")
  /\ seen' = [seen EXCEPT ![t] = Len(store)]
  /\ UNCHANGED <<qvars, objvars, calls, ret, num, size, loopvars,
                 offered, short, fails, slot, leaked>>

DrainSeen(t) ==
  /\ pc[t] = "drain"
  /\ lock = Free
  /\ QueueSize = 0
  /\ Goto(t, "close")
  /\ seen' = [seen EXCEPT ![t] = Len(store)]
  /\ UNCHANGED <<qvars, objvars, calls, ret, num, size, loopvars,
                 offered, short, fails, slot, leaked>>

(* close() of an open descriptor may report an error and has released it    *)
(* all the same; of a closed one it fails.                                  *)
CloseFd(t, ok) ==
  /\ pc[t] = "close"
  /\ sockfd > 0
  /\ ok => fdOpen
  /\ fdOpen' = FALSE
  /\ Return(t, IF ok THEN 1 ELSE 0)
  /\ Goto(t, "idle")
  /\ UNCHANGED <<qvars, maxLength, sockfd, taskNum, stalled, calls, num, size,
                 loopvars, histvars>>

CloseNothing(t) ==
  /\ pc[t] = "close"
  /\ sockfd <= 0
  /\ Return(t, 0)
  /\ Goto(t, "idle")
  /\ UNCHANGED <<qvars, objvars, calls, num, size, loopvars, histvars>>

-----------------------------------------------------------------------------
(* The queue's own steps. *)
InQueue(t) ==
  /\ QuietStep(t) \/ PopDrop(t)
  /\ UNCHANGED <<objvars, pc, calls, ret, num, size, loopvars, histvars>>

TaskStored(t) ==
  /\ PushStore(t)
  /\ slot' = [slot EXCEPT ![t] = Len(store) + 1]
  /\ UNCHANGED <<objvars, pc, calls, ret, num, size, loopvars,
                 offered, short, fails, seen, leaked>>

SendStep(t) ==
  \/ SendStart(t)
  \/ \E full \in BOOLEAN : FrameSent(t, full) \/ WholeSent(t, full)
  \/ FramesDone(t) \/ SendRetry(t) \/ SendGiveUp(t)
  \/ SendReturn(t) \/ SendThrow(t)

DisconnectStep(t) ==
  DrainSeen(t) \/ CloseNothing(t) \/ \E ok \in BOOLEAN : CloseFd(t, ok)

(* What a thread does inside a call. *)
Step(t) ==
  \/ InQueue(t) \/ TaskStored(t) \/ Number(t)
  \/ SendStep(t)
  \/ \E v \in {-1, 0} : RecvEnd(t, v)
  \/ DisconnectStep(t)

Enter(t) ==
  \/ Connect(t) \/ SendRefuse(t) \/ RecvRefuse(t) \/ RecvBegin(t)
  \/ \E n \in Sizes : SendBegin(t, n)

Next ==
  \/ \E fd \in SockFds, len \in MaxLengths : ClientInit(fd, len)
  \/ \E t \in Senders : Enter(t)
  \/ \E t \in Closers : DisconnectBegin(t)
  \/ \E t \in Threads : Step(t) \/ Stall(t)

(* A thread inside a call keeps being scheduled, and the kernel answers the *)
(* calls it can answer; nobody has to call, and no peer has to read.        *)
Spec == Init /\ [][Next]_vars
FairSpec == Spec /\ \A t \in Threads : WF_vars(Step(t))

-----------------------------------------------------------------------------
(* A call that has pushed a task and not popped one. *)
HasTask(t) ==
  \/ pc[t] \in {"push", "rpush"} /\ qpc[t] = "out"
  \/ pc[t] \in {"chunk", "whole"}
  \/ pc[t] = "pop" /\ qpc[t] # "took"

InFlight == {t \in Threads : HasTask(t)}

(* The queue counts the calls in progress although they pop each other's    *)
(* tasks: its length is the number of calls between their push() and their  *)
(* pop(), plus what exceptions and recv() have left behind.                 *)
TasksBalance == Len(store) - start = Cardinality(InFlight) + leaked

(* When disconnect() is about to close, the calls in progress have all      *)
(* started after it saw the queue empty: none that was running when it      *)
(* looked is cut off (NPDTCP.cpp:342-345).                                  *)
ClosesAfterDrain ==
  \A d \in Threads : pc[d] = "close" =>
    \A t \in InFlight : slot[t] > seen[d]

(* Through every retry the kernel is handed the memory from const_data() on *)
(* in order, each place once, and data.size() places when the length is     *)
(* returned (NPDTCP.cpp:216-275): the payload whole, and HeaderSize places  *)
(* behind it, but never more.                                               *)
OffersEachOnce ==
  \A t \in Threads : pc[t] \in {"chunk", "whole", "pop"} =>
    /\ offered[t] = Bytes(0, Len(offered[t]))
    /\ Len(offered[t]) <= size[t]
    /\ (pc[t] = "pop" /\ ret[t] # -1) => ret[t] = size[t] /\ Len(offered[t]) = size[t]

(* The retries are shared by all frames of a message: a call survives       *)
(* ERROR_RETURN_TIMES failures, and gives up on exactly the next one.       *)
RetryBudget ==
  \A t \in Threads :
    /\ pc[t] \in {"chunk", "whole"} => fails[t] <= ERROR_RETURN_TIMES
    /\ pc[t] = "pop" => (ret[t] = -1 <=> fails[t] = ERROR_RETURN_TIMES + 1)

(* Every send() comes back, unless the kernel never answers it: no wait in  *)
(* the queue and no loop of its own keeps it.                               *)
SendReturns ==
  \A t \in Threads : pc[t] = "number" ~> pc[t] = "idle" \/ t \in stalled

(* disconnect() comes back, unless an exception or recv() left a task in    *)
(* the queue, or a send() that never returns keeps its own there.           *)
DisconnectReturns ==
  \A t \in Threads : pc[t] = "drain" ~> pc[t] = "idle" \/ leaked > 0 \/ stalled # {}

-----------------------------------------------------------------------------
(* What the proofs need besides: where a call is, in the client and in the  *)
(* queue; ...                                                               *)
PlaceInv ==
  \A t \in Threads :
    /\ pc[t] \in {"push", "rpush"} => qpc[t] \in {"push", "pushing", "out"}
    /\ pc[t] = "pop" => qpc[t] \in QPc \ {"push", "pushing", "out"}
    /\ pc[t] \notin {"push", "rpush", "pop"} => qpc[t] \in Returned

(* ... that a call in progress has found the object initialised; ...        *)
ReadyInv ==
  \A t \in Threads : pc[t] \in {"number", "push", "chunk", "whole", "pop"} =>
    maxLength > 0 /\ size[t] \in Sizes

(* ... that what disconnect() saw is in the past; ...                       *)
SeenInv == \A t \in Threads : seen[t] <= Len(store)

(* ... the counters of the frame loop: ncount frames are left, the last one *)
(* with the remainder; ...                                                  *)
LoopInv ==
  \A t \in Threads :
    LET frames == size[t] \div maxLength IN
    /\ pc[t] = "chunk" =>
         /\ size[t] > maxLength
         /\ ncount[t] \in -1..frames
         /\ ncount[t] >= 0 => offset[t] = (frames - ncount[t]) * maxLength
         /\ ncount[t] > 0 => sendLength[t] = maxLength
         /\ ncount[t] = 0 => sendLength[t] = size[t] - frames * maxLength
         /\ ncount[t] = -1 => offset[t] = size[t]
         /\ offered[t] = Bytes(0, offset[t])
    /\ pc[t] = "whole" =>
         offset[t] = 0 /\ sendLength[t] = size[t] /\ offered[t] = Bytes(0, 0)

(* ... and of its retries.                                                  *)
RetryInv ==
  \A t \in Threads :
    /\ pc[t] \in {"chunk", "whole"} => fails[t] + errorCount[t] = ERROR_RETURN_TIMES
    /\ pc[t] = "pop" => (ret[t] = -1 <=> fails[t] = ERROR_RETURN_TIMES + 1)

-----------------------------------------------------------------------------
(* NPDTCP.cpp:229: when the counter falls below 0 the last frame is sent.   *)
LastFrameSent == \A t \in Threads : pc[t] = "chunk" /\ ncount[t] < 0 => ~short[t]
=============================================================================
