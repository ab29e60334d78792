----------------------------- MODULE SPITransfer -----------------------------
(***************************************************************************)
(* NPDSPI (src/LibNPDDevDriver/NPDSPI.cpp, half duplex as the header sets  *)
(* it): read() and write() of several threads on one device.  A transfer   *)
(* longer than SPI_MAX_TRANS_LENGTN goes over the bus in parts, through    *)
(* one buffer per direction, under one lock per direction.  The place in   *)
(* the caller's memory is a uint8_t.                                       *)
(***************************************************************************)
EXTENDS Integers, Sequences

CONSTANTS
  Threads,    \* the threads that call read() and write()
  Sizes,      \* lengths they ask for
  Params,     \* 0: no register; positive: the register's address
  CHUNK,      \* SPI_MAX_TRANS_LENGTN: 4096 in the code
  WIDTH,      \* the values of a uint8_t: 256 in the code
  MaxCalls,   \* bound: calls per thread
  Free,       \* a lock nobody holds
  Zero,       \* a byte cleared by memset()
  Untouched   \* a byte of the caller's memory before read()

ASSUME SizesAssumption == Sizes \subseteq Nat /\ Params \subseteq Int
ASSUME ChunkAssumption ==
  CHUNK \in Nat \ {0} /\ WIDTH \in Nat \ {0, 1} /\ CHUNK % WIDTH = 0
ASSUME CallsAssumption == MaxCalls \in Nat
ASSUME FreeAssumption == Free \notin Threads

VARIABLES
  ready,      \* _SPI_fd >= 0
  lock,       \* _lock_RX and _lock_TX, by the operation they protect
  RX_Buffer, TX_Buffer,
  pc,         \* where each thread is in its call
  call,       \* the arguments and locals of its call, the last one if idle
  memory,     \* what read() has put into the caller's memory
  wire,       \* history: what write() has put on the bus
  calls       \* history: calls so far

buffers == <<RX_Buffer, TX_Buffer>>
vars == <<ready, lock, RX_Buffer, TX_Buffer, pc, call, memory, wire, calls>>

Operations == {"read", "write"}
Index == 0..CHUNK - 1

(* Byte number n of what the call of t is about: of what the device answers *)
(* to a read(), of the caller's memory in a write().                        *)
Bytes == (Threads \X Nat) \cup {Zero, Untouched}

(* addr is addrflag, skip is addroffset, len is SPI_Transfer.len; moved     *)
(* counts the bytes of the call that went over the bus.                     *)
Calls == [op : Operations, size : Nat, param : Int, addr : BOOLEAN,
          total : Int, offset : 0..WIDTH - 1, skip : {0, 1}, len : Nat,
          promised : Nat, moved : Nat, ret : Int]

(* The total with the byte for the register's address; a read() with a      *)
(* negative one has nothing to do.                                          *)
TotalLen(size, param) ==
  IF param > 0 THEN size + 1 ELSE IF param = 0 THEN size ELSE 0

NewCall(op, size, param) ==
  [op |-> op, size |-> size, param |-> param, addr |-> param > 0,
   total |-> TotalLen(size, param), promised |-> TotalLen(size, param),
   offset |-> IF op = "write" /\ param > 0 THEN 1 % WIDTH ELSE 0,
   skip |-> 0, len |-> 0, moved |-> 0, ret |-> -1]

TypeOK ==
  /\ ready \in BOOLEAN
  /\ lock \in [Operations -> Threads \cup {Free}]
  /\ RX_Buffer \in [Index -> Bytes] /\ TX_Buffer \in [Index -> Bytes]
  /\ pc \in [Threads -> {"idle", "lock", "loop", "copy", "part", "last", "crashed"}]
  /\ call \in [Threads -> Calls]
  /\ DOMAIN memory = Threads
  /\ \A t \in Threads : memory[t] \in [0..call[t].size - 1 -> Bytes]
  /\ wire \in [Threads -> Seq(Bytes)]
  /\ calls \in [Threads -> 0..MaxCalls]

Cleared == [i \in Index |-> Zero]

Init ==
  /\ ready \in BOOLEAN
  /\ lock = [op \in Operations |-> Free]
  /\ RX_Buffer = Cleared /\ TX_Buffer = Cleared
  /\ pc = [t \in Threads |-> "idle"]
  /\ call = [t \in Threads |-> NewCall("read", 0, 0)]
  /\ memory = [t \in Threads |-> [i \in 0..-1 |-> Untouched]]
  /\ wire = [t \in Threads |-> <<>>]
  /\ calls = [t \in Threads |-> 0]

Goto(t, place) == pc' = [pc EXCEPT ![t] = place]

(* What must hold while the process has not been ended by a memcpy(). *)
Alive == \A t \in Threads : pc[t] # "crashed"

-----------------------------------------------------------------------------
(* nfopen() and nfclose(), from the thread that starts and stops the device. *)
Open == ready' = TRUE /\ UNCHANGED <<lock, buffers, pc, call, memory, wire, calls>>
Close == ready' = FALSE /\ UNCHANGED <<lock, buffers, pc, call, memory, wire, calls>>

MayCall(t) ==
  /\ pc[t] = "idle" /\ calls[t] < MaxCalls
  /\ calls' = [calls EXCEPT ![t] = @ + 1]

(* FD_IS_READY, and the addresses write() refuses. *)
Refuse(t) ==
  /\ MayCall(t)
  /\ ~ready \/ \E p \in Params : p < 0
  /\ UNCHANGED <<ready, lock, buffers, pc, call, memory, wire>>

Call(t, op, size, param) ==
  /\ MayCall(t) /\ ready
  /\ op = "write" => param >= 0
  /\ call' = [call EXCEPT ![t] = NewCall(op, size, param)]
  /\ memory' = [memory EXCEPT ![t] = [i \in 0..size - 1 |-> Untouched]]
  /\ wire' = [wire EXCEPT ![t] = <<>>]
  /\ Goto(t, "lock")
  /\ UNCHANGED <<ready, lock, buffers>>

(* Negative control: no lock_guard. *)
MutLock(t) ==
  /\ pc[t] = "lock"
  /\ Goto(t, "loop")
  /\ UNCHANGED <<ready, lock, buffers, call, memory, wire, calls>>

Lock(t) ==
  /\ pc[t] = "lock" /\ lock[call[t].op] = Free
  /\ lock' = [lock EXCEPT ![call[t].op] = t]
  /\ Goto(t, "loop")
  /\ UNCHANGED <<ready, buffers, call, memory, wire, calls>>

(* Negative control: a lock taken by hand, and not given back. *)
MutLeave(t, ret) ==
  /\ call' = [call EXCEPT ![t].ret = ret]
  /\ Goto(t, "idle")
  /\ UNCHANGED <<ready, lock, buffers, memory, wire, calls>>

(* The end of the lock_guard's scope, on every way out. *)
Leave(t, ret) ==
  /\ lock' = [lock EXCEPT ![call[t].op] = Free]
  /\ call' = [call EXCEPT ![t].ret = ret]
  /\ Goto(t, "idle")
  /\ UNCHANGED <<ready, buffers, memory, wire, calls>>

Return(t) ==
  /\ pc[t] = "loop" /\ call[t].total = 0
  /\ Leave(t, call[t].promised)

(* Negative control: the loop is left, and the length returned. *)
MutFail(t) ==
  /\ \/ pc[t] = "loop" /\ call[t].op = "read" /\ call[t].total # 0
     \/ pc[t] \in {"part", "last"}
  /\ Leave(t, call[t].promised)

(* ioctl() fails: for its own reasons, or because the device was closed     *)
(* after FD_IS_READY.                                                       *)
Fail(t) ==
  /\ \/ pc[t] = "loop" /\ call[t].op = "read" /\ call[t].total # 0
     \/ pc[t] \in {"part", "last"}
  /\ Leave(t, -1)

-----------------------------------------------------------------------------
(* read(): a part comes over the bus. *)
Least(m, n) == IF m < n THEN m ELSE n

ReadClock(t) ==
  LET n == Least(call[t].total, CHUNK) IN
  /\ pc[t] = "loop" /\ call[t].op = "read" /\ call[t].total # 0 /\ ready
  /\ RX_Buffer' = [i \in Index |-> IF i < n THEN <<t, call[t].moved + i>> ELSE Zero]
  /\ call' = [call EXCEPT ![t].moved = @ + n]
  /\ Goto(t, "copy")
  /\ UNCHANGED <<ready, lock, TX_Buffer, memory, wire, calls>>

(* Negative control: the whole buffer is copied. *)
MutCopyCount(c) == IF c.addr THEN CHUNK - 1 ELSE CHUNK

(* How many bytes of it go to the caller: the first byte of the first part  *)
(* is the register's address; of a single part with an address, one byte    *)
(* less than there is.                                                      *)
CopyCount(c) ==
  IF c.addr THEN (IF c.total > CHUNK THEN CHUNK ELSE c.size) - 1
            ELSE Least(c.total, CHUNK)

(* memcpy() of a negative length ends the process. *)
ReadCopy(t) ==
  LET c == call[t]
      n == CopyCount(c)
      from == IF c.addr THEN 1 ELSE 0 IN
  /\ pc[t] = "copy" /\ n >= 0
  /\ memory' = [memory EXCEPT ![t] = [i \in DOMAIN memory[t] |->
       IF i \in c.offset..c.offset + n - 1 THEN RX_Buffer[from + i - c.offset]
                                            ELSE memory[t][i]]]
  /\ call' = [call EXCEPT ![t].addr = FALSE,
                          ![t].offset = (c.offset + n) % WIDTH,
                          ![t].total = IF c.total > CHUNK THEN c.total - CHUNK ELSE 0]
  /\ Goto(t, "loop")
  /\ UNCHANGED <<ready, lock, buffers, wire, calls>>

ReadCrash(t) ==
  /\ pc[t] = "copy" /\ CopyCount(call[t]) < 0
  /\ Goto(t, "crashed")
  /\ UNCHANGED <<ready, lock, buffers, call, memory, wire, calls>>

-----------------------------------------------------------------------------
(* write(): the buffer gets the caller's first byte where the address       *)
(* should be, then n bytes from offset on.                                  *)
Fill(t, skip, n) ==
  TX_Buffer' = [i \in Index |->
    IF i < skip THEN <<t, 0>>
    ELSE IF i < skip + n THEN <<t, call[t].offset + i - skip>> ELSE Zero]

(* Negative control: sizeof(param) instead of sizeof(addr). *)
MutSkip(c) == IF c.addr THEN 4 ELSE c.skip

Skip(c) == IF c.addr THEN 1 ELSE c.skip

(* More than fits into one transfer.  The byte of the address is taken from *)
(* the total here and once more after the transfer.                         *)
WriteFillPart(t) ==
  LET c == call[t] IN
  /\ pc[t] = "loop" /\ c.op = "write" /\ c.total > CHUNK
  /\ Fill(t, Skip(c), CHUNK - Skip(c))
  /\ call' = [call EXCEPT ![t].skip = Skip(c), ![t].len = CHUNK,
                          ![t].total = @ - Skip(c)]
  /\ Goto(t, "part")
  /\ UNCHANGED <<ready, lock, RX_Buffer, memory, wire, calls>>

(* Negative control: the byte of the address is not taken off.  *)
MutLastLength(c) == c.total

LastLength(c) == c.total - Skip(c)

WriteFillLast(t) ==
  LET c == call[t] IN
  /\ pc[t] = "loop" /\ c.op = "write" /\ c.total \in 1..CHUNK
  /\ Fill(t, Skip(c), LastLength(c))
  /\ call' = [call EXCEPT ![t].skip = Skip(c), ![t].addr = FALSE,
                          ![t].len = LastLength(c), ![t].total = LastLength(c)]
  /\ Goto(t, "last")
  /\ UNCHANGED <<ready, lock, RX_Buffer, memory, wire, calls>>

(* The total is -1 after the first part of CHUNK bytes with an address. *)
WriteCrash(t) ==
  /\ pc[t] = "loop" /\ call[t].op = "write" /\ call[t].total < 0
  /\ Goto(t, "crashed")
  /\ UNCHANGED <<ready, lock, buffers, call, memory, wire, calls>>

Clock(t) ==
  /\ ready
  /\ wire' = [wire EXCEPT ![t] = @ \o [i \in 1..call[t].len |-> TX_Buffer[i - 1]]]
  /\ Goto(t, "loop")
  /\ UNCHANGED <<ready, lock, buffers, memory, calls>>

WriteClockPart(t) ==
  /\ pc[t] = "part" /\ Clock(t)
  /\ call' = [call EXCEPT ![t].moved = @ + CHUNK,
                          ![t].offset = (@ + CHUNK) % WIDTH,
                          ![t].total = @ - CHUNK - call[t].skip,
                          ![t].skip = 0, ![t].addr = FALSE]

WriteClockLast(t) ==
  /\ pc[t] = "last" /\ Clock(t)
  /\ call' = [call EXCEPT ![t].moved = @ + call[t].len,
                          ![t].offset = (@ + call[t].total) % WIDTH,
                          ![t].total = 0]

-----------------------------------------------------------------------------
Step(t) ==
  \/ Lock(t) \/ Return(t) \/ Fail(t)
  \/ ReadClock(t) \/ ReadCopy(t) \/ ReadCrash(t)
  \/ WriteFillPart(t) \/ WriteFillLast(t) \/ WriteCrash(t)
  \/ WriteClockPart(t) \/ WriteClockLast(t)

Next ==
  /\ Alive
  /\ \/ Open \/ Close
     \/ \E t \in Threads :
          \/ Refuse(t) \/ Step(t)
          \/ \E op \in Operations, size \in Sizes, param \in Params :
               Call(t, op, size, param)

Spec == Init /\ [][Next]_vars

(* A thread inside a call keeps running; nobody has to call. *)
FairSpec == Spec /\ \A t \in Threads : WF_vars(Step(t))

-----------------------------------------------------------------------------
(* Although the place in the caller's memory is kept modulo 256, no read()  *)
(* of any length, with a register or without, in one part or in many,       *)
(* copies to outside of the size bytes it was given - except that a length  *)
(* of 0 with a register gives memcpy() a negative length.                   *)
ReadsInside ==
  \A t \in Threads :
    LET c == call[t] IN
    pc[t] = "copy" /\ c.size > 0 =>
      CopyCount(c) >= 0 /\ c.offset + CopyCount(c) <= c.size

Succeeded(t) == pc[t] = "idle" /\ call[t].ret >= 0

(* What a write() puts into the buffer is its own caller's, in every part   *)
(* and whoever else uses the buffer; the place kept modulo 256 never leads  *)
(* it out of the caller's memory - except that with a register it takes the *)
(* byte behind it as well (NPDSPI.cpp:248).                                 *)
WritesInside ==
  \A t \in Threads :
    LET c == call[t]
        echo == IF c.param > 0 THEN 1 ELSE 0 IN
    pc[t] \in {"part", "last"} =>
      \A i \in Index : TX_Buffer[i] \in {Zero} \cup ({t} \X (0..c.size - 1 + echo))

(* A transfer without a register that fits into one part is whole, whoever  *)
(* else uses the buffers: write() puts the caller's own bytes on the bus,   *)
(* each once and in order, and read() hands over what the device answered   *)
(* to this call.                                                            *)
OnePartWhole ==
  \A t \in Threads :
    LET c == call[t] IN
    Succeeded(t) /\ c.param = 0 /\ c.size <= CHUNK =>
      IF c.op = "read"
      THEN \A i \in 0..c.size - 1 : memory[t][i] = <<t, i>>
      ELSE wire[t] = [i \in 1..c.size |-> <<t, i - 1>>]

(* The answer of a read(), and of a write() without a register, is the      *)
(* number of bytes that went over the bus, over all the parts; a failure in *)
(* any of them, or a close behind FD_IS_READY, is not reported as success.  *)
ReturnsMoved ==
  \A t \in Threads :
    LET c == call[t] IN
    Succeeded(t) /\ (c.op = "read" \/ c.param = 0) => c.ret = c.moved

(* Every call comes back, with the device closed at any point, unless a     *)
(* memcpy() has ended the process.                                          *)
CallsReturn ==
  \A t \in Threads : pc[t] # "idle" ~> pc[t] = "idle" \/ ~Alive
=============================================================================
