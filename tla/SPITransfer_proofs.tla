------------------------- MODULE SPITransfer_proofs --------------------------
(***************************************************************************)
(* For every length of a part and every width of the offset that divides   *)
(* it, any threads, lengths and registers: the types of SPITransfer, that  *)
(* no read() copies outside of the caller's memory, that a call answers    *)
(* with what went over the bus (all three from Shape, about single calls), *)
(* that no write() copies from outside of it, but for the byte a register  *)
(* costs (from SourceInv), and that transfers of one part without a        *)
(* register are whole (from PartInv); these two add what the lock keeps    *)
(* away from a call: the other ones.                                       *)
(***************************************************************************)
EXTENDS SPITransfer, TLAPS

(* Loop of read(): what is left and where it goes.  With a register, the    *)
(* first part leaves a byte less to copy than was clocked, and by then a    *)
(* whole CHUNK is behind; without one, the offset is back at 0 after every  *)
(* part, because WIDTH divides CHUNK.                                       *)
ReadShape(c, p) ==
  /\ p \in {"lock", "loop", "copy"}
  /\ c.total >= 0
  /\ c.addr => c.param > 0 /\ c.total = c.size + 1 /\ c.offset = 0
  /\ c.param > 0 /\ ~c.addr /\ c.total > 0 => c.total + CHUNK <= c.size + 1
  /\ c.param <= 0 /\ c.total > 0 => c.total <= c.size /\ c.offset = 0
  /\ p # "copy" => c.moved + c.total = c.promised
  /\ p = "copy" => c.total > 0 /\ c.moved + c.total = c.promised + Least(c.total, CHUNK)

(* Loop of write(): the part that is about to be sent fits into the buffer, *)
(* and without a register nothing is counted twice.                         *)
WriteShape(c, p) ==
  /\ p \in {"lock", "loop", "part", "last"}
  /\ p \in {"part", "last"} => c.len <= CHUNK
  /\ p = "last" => c.len = c.total
  /\ c.param = 0 => /\ ~c.addr /\ c.skip = 0 /\ c.total >= 0
                    /\ c.moved + c.total = c.promised
                    /\ p = "part" => c.total > CHUNK

Answered(c) == c.ret >= 0 /\ (c.op = "read" \/ c.param = 0) => c.ret = c.moved

CallShape(c, p) ==
  CASE p = "idle" -> Answered(c)
    [] p = "crashed" -> TRUE
    [] OTHER -> /\ c.op = "read" => ReadShape(c, p)
                /\ c.op = "write" => WriteShape(c, p)

Shape == TypeOK /\ \A t \in Threads : CallShape(call[t], pc[t])

-----------------------------------------------------------------------------
(* The offset cannot be past the first part.                                *)
LEMMA WidthFits == WIDTH <= CHUNK
  BY ChunkAssumption

(* What is the same for every action of one thread: if its new record and   *)
(* place fit, and the others have not moved, then all fit.                  *)
LEMMA OneMoves ==
  ASSUME Shape, NEW t \in Threads, TypeOK',
         call' = [call EXCEPT ![t] = call'[t]],
         pc' = [pc EXCEPT ![t] = pc'[t]],
         CallShape(call'[t], pc'[t])
  PROVE  Shape'
<1>1. ASSUME NEW u \in Threads PROVE CallShape(call'[u], pc'[u])
  <2>1. CASE u = t
    BY <2>1
  <2>2. CASE u # t
    <3>1. call'[u] = call[u] /\ pc'[u] = pc[u]
      BY <2>2 DEF Shape, TypeOK
    <3> QED
      BY <3>1 DEF Shape
  <2> QED
    BY <2>1, <2>2
<1> QED
  BY <1>1 DEF Shape

-----------------------------------------------------------------------------
(* Actions that begin or end a call.                                        *)
LEMMA CallShapely ==
  ASSUME Shape, NEW t \in Threads, NEW op \in Operations,
         NEW size \in Sizes, NEW param \in Params, Call(t, op, size, param)
  PROVE  Shape'
<1> DEFINE begun == NewCall(op, size, param)
<1>1. size \in Nat /\ param \in Int /\ TotalLen(size, param) \in Nat
  BY SizesAssumption DEF TotalLen
<1>2. (IF op = "write" /\ param > 0 THEN 1 % WIDTH ELSE 0) \in 0..WIDTH - 1
  BY ChunkAssumption
<1>4. begun \in Calls
  BY <1>1, <1>2 DEF Calls, NewCall, Operations
<1>5. call' = [call EXCEPT ![t] = begun]
  BY DEF Call
<1>6. call'[t] = begun /\ call' \in [Threads -> Calls]
  <2> HIDE DEF begun
  <2> QED
    BY <1>4, <1>5 DEF Shape, TypeOK
<1>7. \A u \in Threads : memory'[u] \in [0..call'[u].size - 1 -> Bytes]
  <2>1. memory' = [memory EXCEPT ![t] = [i \in 0..size - 1 |-> Untouched]]
    BY DEF Call
  <2>2. begun.size = size
    BY DEF NewCall
  <2> HIDE DEF begun
  <2>3. ASSUME NEW u \in Threads PROVE memory'[u] \in [0..call'[u].size - 1 -> Bytes]
    <3>1. CASE u = t
      BY <2>1, <2>2, <1>6, <3>1 DEF Shape, TypeOK, Bytes
    <3>2. CASE u # t
      BY <2>1, <1>5, <3>2 DEF Shape, TypeOK
    <3> QED
      BY <3>1, <3>2
  <2> QED
    BY <2>3
<1>8. TypeOK'
  <2>1. DOMAIN memory' = Threads
    BY DEF Call, Shape, TypeOK
  <2>2. wire' \in [Threads -> Seq(Bytes)] /\ calls' \in [Threads -> 0..MaxCalls]
    <3>1. <<>> \in Seq(Bytes)
      OBVIOUS
    <3>2. calls[t] + 1 \in 0..MaxCalls
      BY CallsAssumption DEF Call, MayCall, Shape, TypeOK
    <3> QED
      BY <3>1, <3>2 DEF Call, MayCall, Shape, TypeOK
  <2> HIDE DEF begun
  <2> QED
    BY <1>6, <1>7, <2>1, <2>2 DEF Call, Goto, Shape, TypeOK, buffers
<1>9. pc'[t] = "lock" /\ pc' = [pc EXCEPT ![t] = pc'[t]]
  BY DEF Call, Goto, Shape, TypeOK
<1>10. CallShape(begun, "lock")
  <2>1. /\ begun.op = op /\ begun.size = size /\ begun.param = param
        /\ begun.addr <=> param > 0
        /\ begun.skip = 0 /\ begun.moved = 0
        /\ begun.total = TotalLen(size, param) /\ begun.promised = begun.total
        /\ op = "read" => begun.offset = 0
    BY DEF NewCall
  <2> HIDE DEF begun
  <2>2. op = "read" => ReadShape(begun, "lock")
    BY <1>1, <2>1 DEF ReadShape, TotalLen
  <2>3. op = "write" => WriteShape(begun, "lock")
    BY <1>1, <2>1 DEF WriteShape, TotalLen
  <2> QED
    BY <2>1, <2>2, <2>3 DEF CallShape
<1> QED
  <2> HIDE DEF begun
  <2> QED
    BY <1>5, <1>6, <1>8, <1>9, <1>10, OneMoves

(* The records that the loops make of a call's record are records again:    *)
(* after ReadCopy, WriteFillPart, WriteFillLast, WriteClockPart and         *)
(* WriteClockLast.                                                          *)
LEMMA CopyRecord ==
  ASSUME NEW c \in Calls, NEW offset \in 0..WIDTH - 1, NEW total \in Int
  PROVE  [c EXCEPT !.addr = FALSE, !.offset = offset, !.total = total] \in Calls
  BY DEF Calls

LEMMA FillPartRecord ==
  ASSUME NEW c \in Calls, NEW skip \in {0, 1}, NEW len \in Nat, NEW total \in Int
  PROVE  [c EXCEPT !.skip = skip, !.len = len, !.total = total] \in Calls
  BY DEF Calls

LEMMA FillLastRecord ==
  ASSUME NEW c \in Calls, NEW skip \in {0, 1}, NEW len \in Nat, NEW total \in Int
  PROVE  [c EXCEPT !.skip = skip, !.addr = FALSE, !.len = len, !.total = total] \in Calls
  BY DEF Calls

LEMMA ClockPartRecord ==
  ASSUME NEW c \in Calls, NEW moved \in Nat, NEW offset \in 0..WIDTH - 1, NEW total \in Int
  PROVE  [c EXCEPT !.moved = moved, !.offset = offset, !.total = total,
                   !.skip = 0, !.addr = FALSE] \in Calls
  BY DEF Calls

LEMMA ClockLastRecord ==
  ASSUME NEW c \in Calls, NEW moved \in Nat, NEW offset \in 0..WIDTH - 1, NEW total \in Int
  PROVE  [c EXCEPT !.moved = moved, !.offset = offset, !.total = total] \in Calls
  BY DEF Calls

(* The record of one thread changes, and not its size: the types of what    *)
(* belongs to the calls.                                                    *)
LEMMA RecordChanges ==
  ASSUME Shape, NEW t \in Threads, NEW c \in Calls,
         call' = [call EXCEPT ![t] = c], c.size = call[t].size,
         \/ memory' = memory
         \/ /\ memory' = [memory EXCEPT ![t] = memory'[t]]
            /\ memory'[t] \in [0..call[t].size - 1 -> Bytes]
  PROVE  /\ call' \in [Threads -> Calls]
         /\ call'[t] = c /\ call' = [call EXCEPT ![t] = call'[t]]
         /\ \A u \in Threads : memory'[u] \in [0..call'[u].size - 1 -> Bytes]
<1>1. call \in [Threads -> Calls] /\ \A u \in Threads : memory[u] \in [0..call[u].size - 1 -> Bytes]
  BY DEF Shape, TypeOK
<1>2. call' \in [Threads -> Calls] /\ call'[t] = c /\ \A u \in Threads \ {t} : call'[u] = call[u]
  BY <1>1
<1>3. ASSUME NEW u \in Threads PROVE memory'[u] \in [0..call'[u].size - 1 -> Bytes]
  <2>1. CASE u = t
    BY <1>1, <1>2, <2>1
  <2>2. CASE u # t
    <3>1. memory'[u] = memory[u] /\ call'[u] = call[u]
      BY <1>2, <2>2 DEF Shape, TypeOK
    <3> QED
      BY <1>1, <3>1
  <2> QED
    BY <2>1, <2>2
<1> QED
  BY <1>2, <1>3

LEMMA LeaveShapely ==
  ASSUME Shape, NEW t \in Threads, NEW ret \in Int, Leave(t, ret),
         Answered([call[t] EXCEPT !.ret = ret])
  PROVE  Shape'
<1> DEFINE c == [call[t] EXCEPT !.ret = ret]
<1>1. call[t] \in Calls
  BY DEF Shape, TypeOK
<1>2. c \in Calls /\ c.size = call[t].size
  BY <1>1 DEF Calls
<1>3. call' = [call EXCEPT ![t] = c] /\ memory' = memory
  BY <1>1 DEF Leave, Shape, TypeOK
<1>4. pc'[t] = "idle" /\ pc' = [pc EXCEPT ![t] = pc'[t]]
  BY DEF Leave, Goto, Shape, TypeOK
<1> HIDE DEF c
<1>5. /\ call' \in [Threads -> Calls]
      /\ call'[t] = c /\ call' = [call EXCEPT ![t] = call'[t]]
      /\ \A u \in Threads : memory'[u] \in [0..call'[u].size - 1 -> Bytes]
  BY <1>2, <1>3, RecordChanges
<1>6. TypeOK'
  BY <1>5 DEF Leave, Goto, Shape, TypeOK, buffers, Operations, Calls
<1>7. CallShape(c, "idle")
  BY DEF CallShape, c
<1> QED
  BY <1>4, <1>5, <1>6, <1>7, OneMoves

LEMMA ReturnShapely ==
  ASSUME Shape, NEW t \in Threads, Return(t) PROVE Shape'
<1>1. call[t] \in Calls
  BY DEF Shape, TypeOK
<1>2. CallShape(call[t], "loop")
  BY DEF Shape, Return
<1>3. Answered([call[t] EXCEPT !.ret = call[t].promised])
  BY <1>1, <1>2, SMT DEF Return, CallShape, ReadShape, WriteShape, Answered, Calls, Operations
<1> QED
  BY <1>1, <1>3, LeaveShapely DEF Return, Calls

LEMMA FailShapely ==
  ASSUME Shape, NEW t \in Threads, Fail(t) PROVE Shape'
<1>1. Answered([call[t] EXCEPT !.ret = -1])
  BY SMT DEF Shape, TypeOK, Answered, Calls
<1> QED
  BY <1>1, LeaveShapely DEF Fail

-----------------------------------------------------------------------------
(* Actions that leave every record as it is.                                *)
LEMMA QuietShapely ==
  ASSUME Shape, UNCHANGED <<call, pc, memory>>, TypeOK'
  PROVE  Shape'
  BY DEF Shape

LEMMA OpenCloseShapely ==
  ASSUME Shape, Open \/ Close PROVE Shape'
  BY QuietShapely DEF Open, Close, Shape, TypeOK, buffers

LEMMA RefuseShapely ==
  ASSUME Shape, NEW t \in Threads, Refuse(t) PROVE Shape'
<1>1. calls' \in [Threads -> 0..MaxCalls]
  <2>1. calls[t] + 1 \in 0..MaxCalls
    BY CallsAssumption DEF Refuse, MayCall, Shape, TypeOK
  <2> QED
    BY <2>1 DEF Refuse, MayCall, Shape, TypeOK
<1>2. TypeOK'
  BY <1>1 DEF Refuse, Shape, TypeOK, buffers
<1> QED
  BY <1>2, QuietShapely DEF Refuse

LEMMA LockShapely ==
  ASSUME Shape, NEW t \in Threads, Lock(t) PROVE Shape'
<1>1. call[t] \in Calls /\ CallShape(call[t], "lock")
  BY DEF Lock, Shape, TypeOK
<1>2. TypeOK'
  BY <1>1 DEF Lock, Goto, Shape, TypeOK, buffers, Calls
<1>3. pc'[t] = "loop" /\ pc' = [pc EXCEPT ![t] = pc'[t]] /\ call' = [call EXCEPT ![t] = call'[t]]
      /\ call'[t] = call[t]
  BY DEF Lock, Goto, Shape, TypeOK
<1>4. CallShape(call[t], "loop")
  BY <1>1 DEF CallShape, ReadShape, WriteShape
<1> QED
  BY <1>2, <1>3, <1>4, OneMoves

LEMMA CrashShapely ==
  ASSUME Shape, NEW t \in Threads, ReadCrash(t) \/ WriteCrash(t) PROVE Shape'
<1>1. TypeOK'
  BY DEF ReadCrash, WriteCrash, Goto, Shape, TypeOK, buffers
<1>2. pc'[t] = "crashed" /\ pc' = [pc EXCEPT ![t] = pc'[t]] /\ call' = [call EXCEPT ![t] = call'[t]]
  BY DEF ReadCrash, WriteCrash, Goto, Shape, TypeOK
<1>3. CallShape(call'[t], "crashed")
  BY DEF CallShape
<1> QED
  BY <1>1, <1>2, <1>3, OneMoves

-----------------------------------------------------------------------------
(* read() *)
LEMMA ReadClockShapely ==
  ASSUME Shape, NEW t \in Threads, ReadClock(t) PROVE Shape'
<1> DEFINE n == Least(call[t].total, CHUNK)
           c == [call[t] EXCEPT !.moved = @ + n]
<1>1. call[t] \in Calls /\ CallShape(call[t], "loop") /\ call[t].op = "read"
  BY DEF ReadClock, Shape, TypeOK
<1>2. ReadShape(call[t], "loop") /\ call[t].total # 0
  BY <1>1 DEF CallShape, ReadClock
<1>3. n \in Nat
  BY <1>1, <1>2, ChunkAssumption DEF ReadShape, Least, Calls
<1>4. c \in Calls /\ c.size = call[t].size
  <2> HIDE DEF n
  <2> QED
    BY <1>1, <1>3 DEF Calls
<1>5. call' = [call EXCEPT ![t] = c] /\ memory' = memory
  BY DEF ReadClock, Shape, TypeOK
<1>6. ReadShape(c, "copy")
  <2>1. /\ c.total = call[t].total /\ c.addr = call[t].addr /\ c.param = call[t].param
        /\ c.size = call[t].size /\ c.offset = call[t].offset
        /\ c.promised = call[t].promised /\ c.moved = call[t].moved + n
    BY <1>1 DEF Calls
  <2> HIDE DEF c
  <2> QED
    BY <1>1, <1>2, <1>3, <2>1 DEF ReadShape, Calls
<1>7. c.op = "read"
  BY <1>1 DEF Calls
<1> HIDE DEF c
<1>8. /\ call' \in [Threads -> Calls]
      /\ call'[t] = c /\ call' = [call EXCEPT ![t] = call'[t]]
      /\ \A u \in Threads : memory'[u] \in [0..call'[u].size - 1 -> Bytes]
  BY <1>4, <1>5, RecordChanges
<1>9. RX_Buffer' \in [Index -> Bytes]
  <2>1. ASSUME NEW i \in Index PROVE <<t, call[t].moved + i>> \in Bytes /\ Zero \in Bytes
    BY <1>1, ChunkAssumption DEF Bytes, Index, Calls
  <2> QED
    BY <2>1 DEF ReadClock
<1>10. TypeOK'
  BY <1>8, <1>9 DEF ReadClock, Goto, Shape, TypeOK
<1>11. pc'[t] = "copy" /\ pc' = [pc EXCEPT ![t] = pc'[t]]
  BY DEF ReadClock, Goto, Shape, TypeOK
<1>12. CallShape(c, "copy")
  BY <1>6, <1>7 DEF CallShape
<1> QED
  BY <1>8, <1>10, <1>11, <1>12, OneMoves

(* What is copied lies in the part that came, and in the caller's memory.   *)
LEMMA CopyInside ==
  ASSUME NEW c \in Calls, ReadShape(c, "copy"), c.size > 0
  PROVE  /\ CopyCount(c) \in Nat
         /\ c.offset + CopyCount(c) <= c.size
         /\ CopyCount(c) + (IF c.addr THEN 1 ELSE 0) <= CHUNK
<1>1. /\ c.total \in Nat \ {0} /\ c.size \in Nat /\ c.param \in Int /\ c.addr \in BOOLEAN
      /\ c.offset \in Nat /\ c.offset < WIDTH /\ CHUNK \in Nat \ {0} /\ WIDTH \in Nat
  BY ChunkAssumption DEF Calls, ReadShape
<1>2. CASE c.addr
  BY <1>1, <1>2 DEF ReadShape, CopyCount
<1>3. CASE ~c.addr /\ c.param > 0
  BY <1>1, <1>3, WidthFits DEF ReadShape, CopyCount, Least
<1>4. CASE ~c.addr /\ c.param <= 0
  BY <1>1, <1>4 DEF ReadShape, CopyCount, Least
<1> QED
  BY <1>1, <1>2, <1>3, <1>4

LEMMA ReadCopyShapely ==
  ASSUME Shape, NEW t \in Threads, ReadCopy(t) PROVE Shape'
<1> DEFINE old == call[t]
           n == CopyCount(old)
           from == IF old.addr THEN 1 ELSE 0
           left == IF old.total > CHUNK THEN old.total - CHUNK ELSE 0
           place == (old.offset + n) % WIDTH
           c == [old EXCEPT !.addr = FALSE, !.offset = place, !.total = left]
<1>1. old \in Calls /\ CallShape(old, "copy") /\ n >= 0
  BY DEF ReadCopy, Shape, TypeOK
<1>2. old.op = "read" /\ ReadShape(old, "copy")
  BY <1>1, SMT DEF CallShape, WriteShape, Calls, Operations
<1>3. old.size > 0
  BY <1>1, <1>2, ChunkAssumption DEF ReadShape, CopyCount, Calls
<1>4. /\ n \in Nat /\ old.offset + n <= old.size /\ n + from <= CHUNK
      /\ old.offset \in Nat /\ old.total \in Nat \ {0} /\ old.size \in Nat /\ CHUNK \in Nat \ {0}
  BY <1>1, <1>2, <1>3, CopyInside, ChunkAssumption DEF ReadShape, Calls
<1>5. place \in 0..WIDTH - 1 /\ left \in Nat
  <2> HIDE DEF n, old
  <2> QED
    BY <1>4, ChunkAssumption
<1>6. c \in Calls /\ c.size = old.size
  <2>1. left \in Int
    BY <1>5
  <2>2. c.size = old.size
    BY <1>1 DEF Calls
  <2> HIDE DEF n, left, place, old
  <2> QED
    BY <1>1, <1>5, <2>1, <2>2, CopyRecord
<1>7. ReadShape(c, "loop") /\ c.op = "read"
  <2>1. /\ c.total = left /\ ~c.addr /\ c.param = old.param /\ c.size = old.size
        /\ c.offset = place /\ c.promised = old.promised /\ c.moved = old.moved /\ c.op = "read"
    BY <1>1, <1>2 DEF Calls
  <2>2. c.moved + c.total = c.promised
    <3> HIDE DEF c
    <3> QED
      BY <1>1, <1>2, <1>4, <2>1 DEF ReadShape, Least, Calls
  <2>3. old.param > 0 /\ left > 0 => left + CHUNK <= old.size + 1
    BY <1>1, <1>2, <1>4 DEF ReadShape, Calls
  <2>4. old.param <= 0 /\ left > 0 => left <= old.size /\ place = 0
    <3>1. SUFFICES ASSUME old.param <= 0, left > 0 PROVE left <= old.size /\ place = 0
      BY <1>1 DEF Calls
    <3>2. old.total > CHUNK /\ ~old.addr /\ old.offset = 0 /\ old.total <= old.size
      BY <1>1, <1>2, <3>1 DEF ReadShape, Calls
    <3>3. n = CHUNK
      BY <1>4, <3>2 DEF CopyCount, Least
    <3>4. place = 0
      BY <1>4, <3>2, <3>3, ChunkAssumption
    <3> QED
      BY <1>4, <3>2, <3>4
  <2> HIDE DEF c, left, place
  <2> QED
    BY <1>5, <2>1, <2>2, <2>3, <2>4 DEF ReadShape
<1>8. memory'[t] \in [0..old.size - 1 -> Bytes] /\ memory' = [memory EXCEPT ![t] = memory'[t]]
  <2>1. memory[t] \in [0..old.size - 1 -> Bytes] /\ DOMAIN memory = Threads
    BY DEF Shape, TypeOK
  <2>2. memory' = [memory EXCEPT ![t] = [i \in DOMAIN memory[t] |->
          IF i \in old.offset..old.offset + n - 1 THEN RX_Buffer[from + i - old.offset]
                                                  ELSE memory[t][i]]]
    BY DEF ReadCopy
  <2>3. ASSUME NEW i \in old.offset..old.offset + n - 1
        PROVE RX_Buffer[from + i - old.offset] \in Bytes
    <3>1. from + i - old.offset \in Index
      <4> HIDE DEF n, old
      <4> QED
        BY <1>4 DEF Index
    <3> QED
      BY <3>1 DEF Shape, TypeOK
  <2>4. [i \in DOMAIN memory[t] |->
          IF i \in old.offset..old.offset + n - 1 THEN RX_Buffer[from + i - old.offset]
                                                  ELSE memory[t][i]] \in [0..old.size - 1 -> Bytes]
    <3> HIDE DEF n, old, from
    <3> QED
      BY <2>1, <2>3
  <2> HIDE DEF n, old, from
  <2> QED
    BY <2>1, <2>2, <2>4
<1>9. call' = [call EXCEPT ![t] = c]
  BY DEF ReadCopy, Shape, TypeOK
<1> HIDE DEF c
<1>10. /\ call' \in [Threads -> Calls]
       /\ call'[t] = c /\ call' = [call EXCEPT ![t] = call'[t]]
       /\ \A u \in Threads : memory'[u] \in [0..call'[u].size - 1 -> Bytes]
  BY <1>6, <1>8, <1>9, RecordChanges
<1>11. TypeOK'
  <2>1. DOMAIN memory' = Threads
    BY <1>8 DEF Shape, TypeOK
  <2> QED
    BY <1>10, <2>1 DEF ReadCopy, Goto, Shape, TypeOK, buffers
<1>12. pc'[t] = "loop" /\ pc' = [pc EXCEPT ![t] = pc'[t]]
  BY DEF ReadCopy, Goto, Shape, TypeOK
<1>13. CallShape(c, "loop")
  BY <1>7 DEF CallShape
<1> QED
  BY <1>10, <1>11, <1>12, <1>13, OneMoves

-----------------------------------------------------------------------------
(* write() *)
LEMMA FillTypes ==
  ASSUME Shape, NEW t \in Threads, NEW skip \in {0, 1}, NEW n \in Int, Fill(t, skip, n)
  PROVE  TX_Buffer' \in [Index -> Bytes]
<1>1. call[t].offset \in Nat
  BY ChunkAssumption DEF Shape, TypeOK, Calls
<1>2. ASSUME NEW i \in Index
      PROVE (IF i < skip THEN <<t, 0>>
             ELSE IF i < skip + n THEN <<t, call[t].offset + i - skip>> ELSE Zero) \in Bytes
  <2>1. i \in Nat
    BY ChunkAssumption DEF Index
  <2>2. ~(i < skip) => call[t].offset + i - skip \in Nat
    BY <1>1, <2>1
  <2> QED
    BY <2>2 DEF Bytes
<1> QED
  BY <1>2 DEF Fill

(* A step of write(): its record and place change, and one buffer or the    *)
(* bus.                                                                     *)
LEMMA WriterMoves ==
  ASSUME Shape, NEW t \in Threads, NEW c \in Calls, NEW p \in {"loop", "part", "last"},
         call' = [call EXCEPT ![t] = c], c.size = call[t].size, c.op = "write",
         pc' = [pc EXCEPT ![t] = p], WriteShape(c, p),
         UNCHANGED <<ready, lock, RX_Buffer, memory, calls>>,
         TX_Buffer' \in [Index -> Bytes], wire' \in [Threads -> Seq(Bytes)]
  PROVE  Shape'
<1>1. /\ call' \in [Threads -> Calls]
      /\ call'[t] = c /\ call' = [call EXCEPT ![t] = call'[t]]
      /\ \A u \in Threads : memory'[u] \in [0..call'[u].size - 1 -> Bytes]
  BY RecordChanges
<1>2. TypeOK'
  BY <1>1 DEF Shape, TypeOK
<1>3. pc'[t] = p /\ pc' = [pc EXCEPT ![t] = pc'[t]]
  BY DEF Shape, TypeOK
<1>4. CallShape(c, p)
  BY DEF CallShape
<1> QED
  BY <1>1, <1>2, <1>3, <1>4, OneMoves

LEMMA WriteFillPartShapely ==
  ASSUME Shape, NEW t \in Threads, WriteFillPart(t) PROVE Shape'
<1> DEFINE old == call[t]
           skip == Skip(old)
           left == old.total - skip
           c == [old EXCEPT !.skip = skip, !.len = CHUNK, !.total = left]
<1>1. /\ old \in Calls /\ WriteShape(old, "loop") /\ old.op = "write" /\ old.total > CHUNK
  BY DEF WriteFillPart, CallShape, Shape, TypeOK
<1>2. skip \in {0, 1} /\ CHUNK \in Nat \ {0} /\ old.total \in Int /\ CHUNK - skip \in Int
  BY <1>1, ChunkAssumption DEF Calls, Skip
<1>3. c \in Calls /\ c.size = old.size
  <2>1. left \in Int /\ CHUNK \in Nat
    BY <1>2
  <2>2. c.size = old.size
    BY <1>1 DEF Calls
  <2> HIDE DEF old, skip, left
  <2> QED
    BY <1>1, <1>2, <2>1, <2>2, FillPartRecord
<1>4. call' = [call EXCEPT ![t] = c]
  BY DEF WriteFillPart, Shape, TypeOK
<1>5. c.op = "write" /\ WriteShape(c, "part")
  BY <1>1, <1>2, SMT DEF WriteShape, Calls, Skip
<1>6. TX_Buffer' \in [Index -> Bytes]
  BY <1>2, FillTypes DEF WriteFillPart
<1> HIDE DEF c
<1> QED
  BY <1>3, <1>4, <1>5, <1>6, WriterMoves DEF WriteFillPart, Goto, Shape, TypeOK

LEMMA WriteFillLastShapely ==
  ASSUME Shape, NEW t \in Threads, WriteFillLast(t) PROVE Shape'
<1> DEFINE old == call[t]
           skip == Skip(old)
           left == old.total - skip
           c == [old EXCEPT !.skip = skip, !.addr = FALSE, !.len = left, !.total = left]
<1>1. /\ old \in Calls /\ WriteShape(old, "loop") /\ old.op = "write" /\ old.total \in 1..CHUNK
  BY DEF WriteFillLast, CallShape, Shape, TypeOK
<1>2. skip \in {0, 1} /\ CHUNK \in Nat \ {0} /\ old.total \in Int /\ left \in Nat /\ left <= CHUNK
  BY <1>1, ChunkAssumption DEF Calls, Skip
<1>3. c \in Calls /\ c.size = old.size
  <2>1. left \in Int
    BY <1>2
  <2>2. c.size = old.size
    BY <1>1 DEF Calls
  <2> HIDE DEF old, skip, left
  <2> QED
    BY <1>1, <1>2, <2>1, <2>2, FillLastRecord
<1>4. call' = [call EXCEPT ![t] = c]
  BY DEF WriteFillLast, LastLength, Shape, TypeOK
<1>5. c.op = "write" /\ WriteShape(c, "last")
  BY <1>1, <1>2, SMT DEF WriteShape, Calls, Skip
<1>6. TX_Buffer' \in [Index -> Bytes]
  BY <1>2, FillTypes DEF WriteFillLast, LastLength
<1> HIDE DEF c
<1> QED
  BY <1>3, <1>4, <1>5, <1>6, WriterMoves DEF WriteFillLast, Goto, Shape, TypeOK

LEMMA ClockTypes ==
  ASSUME Shape, NEW t \in Threads, pc[t] \in {"part", "last"}, Clock(t)
  PROVE  wire' \in [Threads -> Seq(Bytes)]
<1> DEFINE sent == [i \in 1..call[t].len |-> TX_Buffer[i - 1]]
<1>1. CallShape(call[t], pc[t]) /\ call[t] \in Calls
  BY DEF Shape, TypeOK
<1>2. call[t].op = "write" /\ WriteShape(call[t], pc[t])
  BY <1>1 DEF CallShape, ReadShape, Calls, Operations
<1>3. call[t].len \in Nat /\ call[t].len <= CHUNK
  BY <1>1, <1>2 DEF WriteShape, Calls
<1>4. ASSUME NEW i \in 1..call[t].len PROVE TX_Buffer[i - 1] \in Bytes
  BY <1>3, ChunkAssumption DEF Shape, TypeOK, Index
<1>5. sent \in Seq(Bytes)
  BY <1>3, <1>4
<1>6. wire' = [wire EXCEPT ![t] = @ \o sent]
  BY DEF Clock
<1> HIDE DEF sent
<1>7. wire[t] \o sent \in Seq(Bytes)
  BY <1>5 DEF Shape, TypeOK
<1> QED
  BY <1>6, <1>7 DEF Shape, TypeOK

LEMMA WriteClockPartShapely ==
  ASSUME Shape, NEW t \in Threads, WriteClockPart(t) PROVE Shape'
<1> DEFINE old == call[t]
           left == old.total - CHUNK - old.skip
           place == (old.offset + CHUNK) % WIDTH
           gone == old.moved + CHUNK
           c == [old EXCEPT !.moved = gone, !.offset = place, !.total = left,
                            !.skip = 0, !.addr = FALSE]
<1>1. pc[t] = "part" /\ old \in Calls /\ CallShape(old, "part")
  BY DEF WriteClockPart, Shape, TypeOK
<1>2. old.op = "write" /\ WriteShape(old, "part")
  BY <1>1 DEF CallShape, ReadShape, Calls, Operations
<1>3. left \in Int /\ gone \in Nat /\ place \in 0..WIDTH - 1 /\ CHUNK \in Nat \ {0}
  BY <1>1, ChunkAssumption DEF Calls
<1>4. c \in Calls /\ c.size = old.size
  <2>1. c.size = old.size
    BY <1>1 DEF Calls
  <2> HIDE DEF old, left, place, gone
  <2> QED
    BY <1>1, <1>3, <2>1, ClockPartRecord
<1>5. call' = [call EXCEPT ![t] = c]
  BY DEF WriteClockPart, Shape, TypeOK
<1>6. c.op = "write" /\ WriteShape(c, "loop")
  BY <1>1, <1>2, <1>3, SMT DEF WriteShape, Calls
<1>7. wire' \in [Threads -> Seq(Bytes)]
  BY <1>1, ClockTypes DEF WriteClockPart
<1> HIDE DEF c
<1> QED
  BY <1>4, <1>5, <1>6, <1>7, WriterMoves DEF WriteClockPart, Clock, Goto, Shape, TypeOK, buffers

LEMMA WriteClockLastShapely ==
  ASSUME Shape, NEW t \in Threads, WriteClockLast(t) PROVE Shape'
<1> DEFINE old == call[t]
           gone == old.moved + old.len
           place == (old.offset + old.total) % WIDTH
           left == 0
           c == [old EXCEPT !.moved = gone, !.offset = place, !.total = left]
<1>1. pc[t] = "last" /\ old \in Calls /\ CallShape(old, "last")
  BY DEF WriteClockLast, Shape, TypeOK
<1>2. old.op = "write" /\ WriteShape(old, "last")
  BY <1>1 DEF CallShape, ReadShape, Calls, Operations
<1>3. left \in Int /\ gone \in Nat /\ place \in 0..WIDTH - 1 /\ CHUNK \in Nat \ {0}
  BY <1>1, ChunkAssumption DEF Calls
<1>4. c \in Calls /\ c.size = old.size
  <2>1. c.size = old.size
    BY <1>1 DEF Calls
  <2> HIDE DEF old, gone, place, left
  <2> QED
    BY <1>1, <1>3, <2>1, ClockLastRecord
<1>5. call' = [call EXCEPT ![t] = c]
  BY DEF WriteClockLast, Shape, TypeOK
<1>6. c.op = "write" /\ WriteShape(c, "loop")
  BY <1>1, <1>2, <1>3, SMT DEF WriteShape, Calls
<1>7. wire' \in [Threads -> Seq(Bytes)]
  BY <1>1, ClockTypes DEF WriteClockLast
<1> HIDE DEF c
<1> QED
  BY <1>4, <1>5, <1>6, <1>7, WriterMoves DEF WriteClockLast, Clock, Goto, Shape, TypeOK, buffers

-----------------------------------------------------------------------------
LEMMA InitShapely == Init => Shape
<1> SUFFICES ASSUME Init PROVE Shape
  OBVIOUS
<1>1. NewCall("read", 0, 0) \in Calls
  <2>1. 0 \in 0..WIDTH - 1 /\ TotalLen(0, 0) = 0
    BY ChunkAssumption DEF TotalLen
  <2> QED
    BY <2>1 DEF NewCall, Calls, Operations
<1>2. NewCall("read", 0, 0).size = 0 /\ NewCall("read", 0, 0).ret = -1
  BY DEF NewCall
<1>3. TypeOK
  BY <1>1, <1>2, CallsAssumption DEF Init, TypeOK, Cleared, Bytes, Operations
<1>4. ASSUME NEW t \in Threads PROVE CallShape(call[t], pc[t])
  BY <1>2 DEF Init, CallShape, Answered
<1> QED
  BY <1>3, <1>4 DEF Shape

LEMMA NextShapely == Shape /\ [Next]_vars => Shape'
<1> SUFFICES ASSUME Shape, [Next]_vars PROVE Shape'
  OBVIOUS
<1>1. CASE Open \/ Close
  BY <1>1, OpenCloseShapely
<1>2. ASSUME NEW t \in Threads, Refuse(t) PROVE Shape'
  BY <1>2, RefuseShapely
<1>3. ASSUME NEW t \in Threads, Step(t) PROVE Shape'
  BY <1>3, LockShapely, ReturnShapely, FailShapely, ReadClockShapely, ReadCopyShapely,
     CrashShapely, WriteFillPartShapely, WriteFillLastShapely, WriteClockPartShapely,
     WriteClockLastShapely DEF Step
<1>4. ASSUME NEW t \in Threads, NEW op \in Operations, NEW size \in Sizes, NEW param \in Params,
             Call(t, op, size, param)
      PROVE Shape'
  BY <1>4, CallShapely
<1>5. CASE UNCHANGED vars
  BY <1>5 DEF vars, Shape, TypeOK
<1> QED
  BY <1>1, <1>2, <1>3, <1>4, <1>5 DEF Next

(* SPITransfer's inductive invariant: types, and for every call the         *)
(* relation between what is left, what has gone over the bus, what was      *)
(* asked for, and the wrapped offset.                                       *)
THEOREM ShapeCorrect == Spec => []Shape
  BY InitShapely, NextShapely, PTL DEF Spec

(* The buffers, counters and results keep their types; in particular the    *)
(* index into a buffer stays inside it, and the offset inside a uint8_t.    *)
THEOREM TypeCorrect == Spec => []TypeOK
<1>1. Shape => TypeOK
  BY DEF Shape
<1> QED
  BY <1>1, ShapeCorrect, PTL

(* No read(), of any length, copies outside of the caller's memory, as long *)
(* as the range of the offset divides the length of a part.                 *)
THEOREM ReadsInsideCorrect == Spec => []ReadsInside
<1>1. ASSUME Shape, NEW t \in Threads, pc[t] = "copy", call[t].size > 0
      PROVE  CopyCount(call[t]) >= 0 /\ call[t].offset + CopyCount(call[t]) <= call[t].size
  <2>1. call[t] \in Calls /\ CallShape(call[t], "copy")
    BY <1>1 DEF Shape, TypeOK
  <2>2. ReadShape(call[t], "copy")
    BY <2>1 DEF CallShape, WriteShape, Calls, Operations
  <2> QED
    BY <1>1, <2>1, <2>2, CopyInside
<1>2. Shape => ReadsInside
  BY <1>1 DEF ReadsInside
<1> QED
  BY <1>2, ShapeCorrect, PTL

(* A read(), and a write() without a register, never answers with another   *)
(* number than that of the bytes that went over the bus.                    *)
THEOREM ReturnsMovedCorrect == Spec => []ReturnsMoved
<1>1. Shape => ReturnsMoved
  BY DEF Shape, CallShape, Answered, ReturnsMoved, Succeeded
<1> QED
  BY <1>1, ShapeCorrect, PTL

-----------------------------------------------------------------------------
(* Transfers that fit into one part.  Echo: the byte of the register.       *)
Echo(c) == IF c.param > 0 THEN 1 ELSE 0
Small(c) == c.param >= 0 /\ c.size + Echo(c) <= CHUNK

(* The locals before the part. *)
Begun(c) ==
  /\ c.total = c.size + Echo(c)
  /\ c.addr <=> c.param > 0
  /\ c.skip = 0
  /\ c.offset = IF c.op = "write" THEN Echo(c) ELSE 0

(* What OnePartWhole promises, with m in the caller's memory and w on the   *)
(* bus.                                                                     *)
Delivered(t, c, m, w) ==
  IF c.op = "read"
  THEN \A i \in 0..c.size - 1 - Echo(c) : m[i] = <<t, i + Echo(c)>>
  ELSE w = [i \in 1..c.size |-> <<t, i - 1>>]

(* The part at each place of the call, rx and tx being the buffers.         *)
PartShape(t, c, p, m, w, rx, tx) ==
  CASE p = "idle" -> c.ret >= 0 => Delivered(t, c, m, w)
    [] p = "lock" -> Begun(c) /\ c.moved = 0 /\ w = <<>>
    [] p = "loop" -> IF c.total = 0 THEN Delivered(t, c, m, w)
                                    ELSE Begun(c) /\ c.moved = 0 /\ w = <<>>
    [] p = "copy" -> /\ Begun(c) /\ c.op = "read"
                     /\ \A i \in 0..c.total - 1 : rx[i] = <<t, i>>
    [] p = "last" -> /\ c.op = "write" /\ w = <<>> /\ c.len = c.size
                     /\ \A i \in 0..c.size - 1 : tx[i] = <<t, i>>
    [] p = "part" -> FALSE
    [] OTHER -> TRUE

Part(t) ==
  Small(call[t]) =>
    PartShape(t, call[t], pc[t], memory[t], wire[t], RX_Buffer, TX_Buffer)

(* Who is in the loop holds the lock of the operation.                      *)
Holds(t) == pc[t] \in {"loop", "copy", "part", "last"} => lock[call[t].op] = t

PartInv == Shape /\ \A t \in Threads : Holds(t) /\ Part(t)

(* A step of one thread leaves the others' transfers alone: it writes to a  *)
(* buffer, and gives a lock back, only while it holds the lock.             *)
LEMMA OthersKept ==
  ASSUME PartInv, NEW t \in Threads, NEW u \in Threads, u # t,
         call'[u] = call[u], pc'[u] = pc[u], memory'[u] = memory[u], wire'[u] = wire[u],
         RX_Buffer' = RX_Buffer \/ lock["read"] = t,
         TX_Buffer' = TX_Buffer \/ lock["write"] = t,
         \A op \in Operations : lock'[op] = lock[op] \/ lock[op] \in {t, Free}
  PROVE  Holds(u)' /\ Part(u)'
<1>1. call[u] \in Calls /\ call[u].op \in Operations /\ Holds(u) /\ Part(u)
  BY DEF PartInv, Shape, TypeOK, Calls
<1>2. Holds(u)'
  <2>1. SUFFICES ASSUME pc[u] \in {"loop", "copy", "part", "last"} PROVE lock'[call[u].op] = u
    BY DEF Holds
  <2>2. lock[call[u].op] = u
    BY <1>1, <2>1 DEF Holds
  <2>3. QED
    BY <1>1, <2>2, FreeAssumption
<1>3. Part(u)'
  <2>1. SUFFICES ASSUME Small(call[u])
                 PROVE  PartShape(u, call[u], pc[u], memory[u], wire[u], RX_Buffer', TX_Buffer')
    BY DEF Part
  <2>2. PartShape(u, call[u], pc[u], memory[u], wire[u], RX_Buffer, TX_Buffer)
    BY <1>1, <2>1 DEF Part
  <2>3. CASE pc[u] = "copy"
    <3>1. call[u].op = "read" /\ RX_Buffer' = RX_Buffer
      BY <1>1, <2>2, <2>3 DEF PartShape, Holds
    <3>2. QED
      BY <2>2, <2>3, <3>1 DEF PartShape
  <2>4. CASE pc[u] = "last"
    <3>1. call[u].op = "write" /\ TX_Buffer' = TX_Buffer
      BY <1>1, <2>2, <2>4 DEF PartShape, Holds
    <3>2. QED
      BY <2>2, <2>4, <3>1 DEF PartShape
  <2>5. CASE pc[u] \notin {"copy", "last"}
    BY <2>2, <2>5 DEF PartShape
  <2>6. QED
    BY <2>3, <2>4, <2>5
<1>4. QED
  BY <1>2, <1>3

(* One thread moves, and fits again.                                        *)
LEMMA PartMoves ==
  ASSUME PartInv, Shape', NEW t \in Threads,
         \A u \in Threads \ {t} :
           /\ call'[u] = call[u] /\ pc'[u] = pc[u]
           /\ memory'[u] = memory[u] /\ wire'[u] = wire[u],
         RX_Buffer' = RX_Buffer \/ lock["read"] = t,
         TX_Buffer' = TX_Buffer \/ lock["write"] = t,
         \A op \in Operations : lock'[op] = lock[op] \/ lock[op] \in {t, Free},
         Holds(t)', Part(t)'
  PROVE  PartInv'
<1>1. ASSUME NEW u \in Threads \ {t} PROVE Holds(u)' /\ Part(u)'
  BY <1>1, OthersKept
<1>2. QED
  BY <1>1 DEF PartInv

(* The record of the thread and what belongs to it, out of the functions.   *)
LEMMA Own ==
  ASSUME Shape, NEW t \in Threads
  PROVE  /\ call[t] \in Calls /\ call[t].op \in Operations
         /\ call[t].size \in Nat /\ call[t].param \in Int /\ call[t].total \in Int
         /\ call[t].addr \in BOOLEAN /\ CHUNK \in Nat \ {0}
         /\ DOMAIN call = Threads /\ DOMAIN pc = Threads
         /\ DOMAIN memory = Threads /\ DOMAIN wire = Threads /\ DOMAIN lock = Operations
         /\ memory[t] \in [0..call[t].size - 1 -> Bytes]
BY ChunkAssumption DEF Shape, TypeOK, Calls

(* Steps that touch no transfer.                                            *)
LEMMA QuietPart ==
  ASSUME PartInv, Shape', UNCHANGED <<lock, buffers, pc, call, memory, wire>>
  PROVE  PartInv'
BY DEF PartInv, Holds, Part, buffers

LEMMA CallPart ==
  ASSUME PartInv, Shape', NEW t \in Threads, NEW op \in Operations,
         NEW size \in Sizes, NEW param \in Params, Call(t, op, size, param)
  PROVE  PartInv'
<1> DEFINE begun == NewCall(op, size, param)
<1>1. size \in Nat /\ param \in Int /\ Shape
  BY SizesAssumption DEF PartInv
<1>2. call'[t] = begun /\ pc'[t] = "lock" /\ wire'[t] = <<>>
  BY <1>1, Own DEF Call, Goto
<1>3. Small(begun) => Begun(begun) /\ begun.moved = 0
  <2>1. /\ begun.op = op /\ begun.size = size /\ begun.param = param
        /\ begun.addr <=> param > 0
        /\ begun.skip = 0 /\ begun.moved = 0
        /\ begun.total = TotalLen(size, param)
        /\ begun.offset = IF op = "write" /\ param > 0 THEN 1 % WIDTH ELSE 0
    BY DEF NewCall
  <2>2. 1 % WIDTH = 1
    BY ChunkAssumption
  <2> HIDE DEF begun
  <2>3. QED
    BY <1>1, <2>1, <2>2 DEF Small, Begun, Echo, TotalLen
<1> HIDE DEF begun
<1>4. Holds(t)' /\ Part(t)'
  BY <1>2, <1>3 DEF Holds, Part, PartShape
<1>5. \A u \in Threads \ {t} : /\ call'[u] = call[u] /\ pc'[u] = pc[u]
                                /\ memory'[u] = memory[u] /\ wire'[u] = wire[u]
  BY <1>1, Own DEF Call, Goto
<1>6. QED
  BY <1>4, <1>5, PartMoves DEF Call, buffers

LEMMA LockPart ==
  ASSUME PartInv, Shape', NEW t \in Threads, Lock(t)
  PROVE  PartInv'
<1>1. Shape /\ Part(t)
  BY DEF PartInv
<1>2. call' = call /\ pc'[t] = "loop" /\ wire' = wire /\ memory' = memory
  BY <1>1, Own DEF Lock, Goto
<1>3. Holds(t)'
  BY <1>1, <1>2, Own DEF Lock, Holds
<1>4. Part(t)'
  <2>1. SUFFICES ASSUME Small(call[t])
                 PROVE  PartShape(t, call[t], "loop", memory[t], wire[t], RX_Buffer', TX_Buffer')
    BY <1>2 DEF Part
  <2>2. Begun(call[t]) /\ call[t].moved = 0 /\ wire[t] = <<>>
    BY <1>1, <2>1 DEF Part, PartShape, Lock
  <2>3. call[t].total = 0 => Delivered(t, call[t], memory[t], wire[t])
    <3>1. SUFFICES ASSUME call[t].total = 0 PROVE Delivered(t, call[t], memory[t], wire[t])
      OBVIOUS
    <3>2. call[t].size = 0 /\ Echo(call[t]) = 0
      BY <1>1, <2>2, <3>1, Own DEF Begun, Echo
    <3>3. 0..call[t].size - 1 - Echo(call[t]) = {} /\ 1..call[t].size = {}
      BY <3>2
    <3>4. wire[t] = [i \in 1..call[t].size |-> <<t, i - 1>>]
      BY <2>2, <3>3
    <3>5. QED
      BY <3>3, <3>4 DEF Delivered
  <2>4. QED
    BY <2>2, <2>3 DEF PartShape
<1>5. \A u \in Threads \ {t} : pc'[u] = pc[u]
  BY <1>1, Own DEF Lock, Goto
<1>6. \A op \in Operations : lock'[op] = lock[op] \/ lock[op] \in {t, Free}
  BY <1>1, Own DEF Lock
<1>7. QED
  BY <1>2, <1>3, <1>4, <1>5, <1>6, PartMoves DEF Lock, buffers

(* The way out: with a result, only when everything has been delivered.     *)
LEMMA LeavePart ==
  ASSUME PartInv, Shape', NEW t \in Threads, NEW ret \in Int, Leave(t, ret), Holds(t),
         pc[t] \in {"loop", "part", "last"},
         Small(call[t]) /\ ret >= 0 => Delivered(t, call[t], memory[t], wire[t])
  PROVE  PartInv'
<1> DEFINE c == [call[t] EXCEPT !.ret = ret]
<1>1. Shape /\ call[t] \in Calls
  BY Own DEF PartInv
<1>2. call'[t] = c /\ pc'[t] = "idle" /\ wire' = wire /\ memory' = memory
  BY <1>1, Own DEF Leave, Goto
<1>3. /\ c.size = call[t].size /\ c.param = call[t].param /\ c.op = call[t].op
      /\ c.ret = ret
  BY <1>1 DEF Calls
<1> HIDE DEF c
<1>4. Holds(t)' /\ Part(t)'
  BY <1>2, <1>3 DEF Holds, Part, PartShape, Small, Echo, Delivered
<1>5. \A u \in Threads \ {t} : call'[u] = call[u] /\ pc'[u] = pc[u]
  BY <1>1, Own DEF Leave, Goto
<1>6. \A op \in Operations : lock'[op] = lock[op] \/ lock[op] \in {t, Free}
  BY <1>1, Own DEF Leave, Holds
<1>7. QED
  BY <1>2, <1>4, <1>5, <1>6, PartMoves DEF Leave, buffers

LEMMA ReturnPart ==
  ASSUME PartInv, Shape', NEW t \in Threads, Return(t)
  PROVE  PartInv'
<1>1. Shape /\ Part(t) /\ Holds(t)
  BY DEF PartInv
<1>2. Small(call[t]) => Delivered(t, call[t], memory[t], wire[t])
  BY <1>1 DEF Return, Part, PartShape
<1>3. call[t].promised \in Int
  BY <1>1, Own DEF Calls
<1>4. QED
  BY <1>1, <1>2, <1>3, LeavePart DEF Return

LEMMA FailPart ==
  ASSUME PartInv, Shape', NEW t \in Threads, Fail(t)
  PROVE  PartInv'
<1>1. Holds(t) /\ Leave(t, -1) /\ pc[t] \in {"loop", "part", "last"}
  BY DEF PartInv, Fail
<1>2. QED
  BY <1>1, LeavePart

LEMMA CrashPart ==
  ASSUME PartInv, Shape', NEW t \in Threads, ReadCrash(t) \/ WriteCrash(t)
  PROVE  PartInv'
<1>1. Shape
  BY DEF PartInv
<1>2. /\ UNCHANGED <<lock, buffers, call, memory, wire>>
      /\ pc'[t] = "crashed" /\ \A u \in Threads \ {t} : pc'[u] = pc[u]
  BY <1>1, Own DEF ReadCrash, WriteCrash, Goto
<1>3. Holds(t)' /\ Part(t)'
  BY <1>2 DEF Holds, Part, PartShape
<1>4. QED
  BY <1>2, <1>3, PartMoves DEF buffers

LEMMA ReadClockPart ==
  ASSUME PartInv, Shape', NEW t \in Threads, ReadClock(t)
  PROVE  PartInv'
<1> DEFINE n == Least(call[t].total, CHUNK)
           c == [call[t] EXCEPT !.moved = @ + n]
<1>1. Shape /\ Part(t) /\ Holds(t) /\ call[t] \in Calls /\ call[t].op = "read"
  BY Own DEF PartInv, ReadClock
<1>2. call'[t] = c /\ pc'[t] = "copy"
  BY <1>1, Own DEF ReadClock, Goto
<1>3. /\ c.size = call[t].size /\ c.param = call[t].param /\ c.op = call[t].op
      /\ c.total = call[t].total /\ c.addr = call[t].addr /\ c.skip = call[t].skip
      /\ c.offset = call[t].offset
  BY <1>1 DEF Calls
<1> HIDE DEF c
<1>4. lock["read"] = t
  BY <1>1 DEF Holds, ReadClock
<1>5. Holds(t)'
  BY <1>1, <1>2, <1>3, <1>4 DEF Holds, ReadClock
<1>6. Part(t)'
  <2>1. SUFFICES ASSUME Small(call[t])
                 PROVE  PartShape(t, c, "copy", memory'[t], wire'[t], RX_Buffer', TX_Buffer')
    BY <1>2, <1>3 DEF Part, Small, Echo
  <2>2. Begun(call[t]) /\ call[t].moved = 0
    BY <1>1, <2>1 DEF Part, PartShape, ReadClock
  <2>3. call[t].total \in Nat /\ call[t].total <= CHUNK /\ n = call[t].total
    BY <1>1, <2>1, <2>2, Own DEF Begun, Small, Echo, Least
  <2>4. RX_Buffer' = [i \in Index |-> IF i < n THEN <<t, call[t].moved + i>> ELSE Zero]
    BY DEF ReadClock
  <2>5. ASSUME NEW i \in 0..c.total - 1 PROVE RX_Buffer'[i] = <<t, i>>
    <3>1. i \in Index /\ i < n /\ call[t].moved + i = i
      BY <1>1, <1>3, <2>2, <2>3, Own DEF Index
    <3> HIDE DEF n
    <3>2. QED
      BY <2>4, <3>1
  <2>6. Begun(c)
    BY <1>3, <2>2 DEF Begun, Echo
  <2>7. QED
    BY <1>1, <1>3, <2>5, <2>6 DEF PartShape
<1>7. \A u \in Threads \ {t} : call'[u] = call[u] /\ pc'[u] = pc[u]
  BY <1>1, Own DEF ReadClock, Goto
<1>8. QED
  BY <1>4, <1>5, <1>6, <1>7, PartMoves DEF ReadClock

LEMMA ReadCopyPart ==
  ASSUME PartInv, Shape', NEW t \in Threads, ReadCopy(t)
  PROVE  PartInv'
<1> DEFINE old == call[t]
           n == CopyCount(old)
           from == IF old.addr THEN 1 ELSE 0
           c == [old EXCEPT !.addr = FALSE, !.offset = (old.offset + n) % WIDTH,
                            !.total = IF old.total > CHUNK THEN old.total - CHUNK ELSE 0]
<1>1. Shape /\ Part(t) /\ Holds(t) /\ old \in Calls
  BY Own DEF PartInv
<1>2. call'[t] = c /\ pc'[t] = "loop"
  BY <1>1, Own DEF ReadCopy, Goto
<1>3. /\ c.size = old.size /\ c.param = old.param /\ c.op = old.op
      /\ c.total = IF old.total > CHUNK THEN old.total - CHUNK ELSE 0
  BY <1>1 DEF Calls
<1> HIDE DEF c
<1>4. Holds(t)'
  BY <1>1, <1>2, <1>3 DEF Holds, ReadCopy
<1>5. Part(t)'
  <2>1. SUFFICES ASSUME Small(old)
                 PROVE  PartShape(t, c, "loop", memory'[t], wire'[t], RX_Buffer', TX_Buffer')
    BY <1>2, <1>3 DEF Part, Small, Echo
  <2>2. /\ Begun(old) /\ old.op = "read"
        /\ \A i \in 0..old.total - 1 : RX_Buffer[i] = <<t, i>>
    BY <1>1, <2>1 DEF Part, PartShape, ReadCopy
  <2>3. /\ old.size \in Nat /\ old.total = old.size + Echo(old) /\ old.total <= CHUNK
        /\ old.offset = 0 /\ from = Echo(old) /\ Echo(old) \in {0, 1} /\ CHUNK \in Nat
        /\ n = old.size - Echo(old)
    BY <1>1, <2>1, <2>2, Own DEF Begun, Small, Echo, CopyCount, Least
  <2>4. c.total = 0
    BY <1>3, <2>3
  <2>5. memory'[t] = [i \in DOMAIN memory[t] |->
          IF i \in old.offset..old.offset + n - 1 THEN RX_Buffer[from + i - old.offset]
                                                  ELSE memory[t][i]]
    BY <1>1, Own DEF ReadCopy
  <2>6. DOMAIN memory[t] = 0..old.size - 1
    BY <1>1, Own
  <2>7. ASSUME NEW i \in 0..c.size - 1 - Echo(c) PROVE memory'[t][i] = <<t, i + Echo(c)>>
    <3>1. Echo(c) = Echo(old)
      BY <1>3 DEF Echo
    <3>2. /\ i \in 0..old.size - 1 /\ i \in 0..0 + n - 1
          /\ from + i - 0 \in 0..old.total - 1 /\ from + i - 0 = i + Echo(c)
      <4> HIDE DEF old, n, from
      <4>1. QED
        BY <1>3, <2>3, <3>1
    <3> HIDE DEF old, n, from
    <3>3. memory'[t][i] = RX_Buffer[from + i - 0]
      BY <2>3, <2>5, <2>6, <3>2
    <3>4. QED
      BY <2>2, <3>2, <3>3
  <2>8. QED
    BY <1>3, <2>2, <2>4, <2>7 DEF PartShape, Delivered
<1>6. \A u \in Threads \ {t} : call'[u] = call[u] /\ pc'[u] = pc[u] /\ memory'[u] = memory[u]
  BY <1>1, Own DEF ReadCopy, Goto
<1>7. QED
  BY <1>4, <1>5, <1>6, PartMoves DEF ReadCopy, buffers

(* A small transfer is not sent in more than one part.                      *)
LEMMA WriteFillPartPart ==
  ASSUME PartInv, Shape', NEW t \in Threads, WriteFillPart(t)
  PROVE  PartInv'
<1> DEFINE old == call[t]
           c == [old EXCEPT !.skip = Skip(old), !.len = CHUNK, !.total = @ - Skip(old)]
<1>1. Shape /\ Part(t) /\ Holds(t) /\ old \in Calls /\ old.op = "write"
  BY Own DEF PartInv, WriteFillPart
<1>2. call'[t] = c /\ pc'[t] = "part"
  BY <1>1, Own DEF WriteFillPart, Goto
<1>3. c.size = old.size /\ c.param = old.param /\ c.op = old.op
  BY <1>1 DEF Calls
<1> HIDE DEF c
<1>4. Holds(t)' /\ lock["write"] = t
  BY <1>1, <1>2, <1>3 DEF Holds, WriteFillPart
<1>5. ~Small(old)
  <2>1. SUFFICES ASSUME Small(old) PROVE FALSE
    OBVIOUS
  <2>2. old.total > CHUNK /\ pc[t] = "loop"
    BY DEF WriteFillPart
  <2>3. old.total # 0
    BY <1>1, <2>2, Own
  <2>4. Begun(old)
    BY <1>1, <2>1, <2>2, <2>3 DEF Part, PartShape
  <2>5. QED
    BY <1>1, <2>1, <2>2, <2>4, Own DEF Begun, Small, Echo
<1>6. Part(t)'
  BY <1>2, <1>3, <1>5 DEF Part, Small, Echo
<1>7. \A u \in Threads \ {t} : call'[u] = call[u] /\ pc'[u] = pc[u]
  BY <1>1, Own DEF WriteFillPart, Goto
<1>8. QED
  BY <1>4, <1>6, <1>7, PartMoves DEF WriteFillPart

LEMMA WriteClockPartPart ==
  ASSUME PartInv, Shape', NEW t \in Threads, WriteClockPart(t)
  PROVE  PartInv'
<1> DEFINE old == call[t]
           c == [old EXCEPT !.moved = @ + CHUNK, !.offset = (@ + CHUNK) % WIDTH,
                            !.total = @ - CHUNK - old.skip, !.skip = 0, !.addr = FALSE]
<1>1. Shape /\ Part(t) /\ Holds(t) /\ old \in Calls
  BY Own DEF PartInv
<1>2. call'[t] = c /\ pc'[t] = "loop"
  BY <1>1, Own DEF WriteClockPart, Clock, Goto
<1>3. c.size = old.size /\ c.param = old.param /\ c.op = old.op
  BY <1>1 DEF Calls
<1> HIDE DEF c
<1>4. Holds(t)'
  BY <1>1, <1>2, <1>3 DEF Holds, WriteClockPart, Clock
<1>5. ~Small(old)
  BY <1>1 DEF Part, PartShape, WriteClockPart
<1>6. Part(t)'
  BY <1>2, <1>3, <1>5 DEF Part, Small, Echo
<1>7. \A u \in Threads \ {t} : call'[u] = call[u] /\ pc'[u] = pc[u] /\ wire'[u] = wire[u]
  BY <1>1, Own DEF WriteClockPart, Clock, Goto
<1>8. QED
  BY <1>4, <1>6, <1>7, PartMoves DEF WriteClockPart, Clock, buffers

LEMMA WriteFillLastPart ==
  ASSUME PartInv, Shape', NEW t \in Threads, WriteFillLast(t)
  PROVE  PartInv'
<1> DEFINE old == call[t]
           skip == Skip(old)
           c == [old EXCEPT !.skip = skip, !.addr = FALSE,
                            !.len = old.total - skip, !.total = @ - skip]
<1>1. Shape /\ Part(t) /\ Holds(t) /\ old \in Calls /\ old.op = "write"
  BY Own DEF PartInv, WriteFillLast
<1>2. call'[t] = c /\ pc'[t] = "last"
  BY <1>1, Own DEF WriteFillLast, LastLength, Goto
<1>3. /\ c.size = old.size /\ c.param = old.param /\ c.op = old.op
      /\ c.len = old.total - skip
  BY <1>1 DEF Calls
<1> HIDE DEF c
<1>4. Holds(t)' /\ lock["write"] = t
  BY <1>1, <1>2, <1>3 DEF Holds, WriteFillLast
<1>5. Part(t)'
  <2>1. SUFFICES ASSUME Small(old)
                 PROVE  PartShape(t, c, "last", memory'[t], wire'[t], RX_Buffer', TX_Buffer')
    BY <1>2, <1>3 DEF Part, Small, Echo
  <2>2. Begun(old) /\ wire[t] = <<>>
    BY <1>1, <2>1, Own DEF Part, PartShape, WriteFillLast
  <2>3. /\ old.size \in Nat /\ old.total = old.size + Echo(old) /\ old.total <= CHUNK
        /\ skip = Echo(old) /\ old.offset = skip /\ skip \in {0, 1} /\ CHUNK \in Nat
        /\ old.total - skip = old.size
    BY <1>1, <2>1, <2>2, Own DEF Begun, Small, Echo, Skip
  <2>4. TX_Buffer' = [i \in Index |->
          IF i < skip THEN <<t, 0>>
          ELSE IF i < skip + (old.total - skip) THEN <<t, old.offset + i - skip>> ELSE Zero]
    BY DEF WriteFillLast, LastLength, Fill
  <2>5. ASSUME NEW i \in 0..c.size - 1 PROVE TX_Buffer'[i] = <<t, i>>
    <3> HIDE DEF old, skip
    <3>1. i \in Index /\ i \in Nat /\ i < skip + (old.total - skip)
      BY <1>3, <2>3 DEF Index
    <3>2. CASE i < skip
      <4>1. i = 0
        BY <2>3, <3>1, <3>2
      <4>2. QED
        BY <2>4, <3>1, <3>2, <4>1
    <3>3. CASE ~(i < skip)
      <4>1. old.offset + i - skip = i
        BY <2>3, <3>1
      <4>2. TX_Buffer'[i] = <<t, old.offset + i - skip>>
        BY <2>4, <3>1, <3>3
      <4>3. QED
        BY <4>1, <4>2
    <3>4. QED
      BY <3>2, <3>3
  <2>6. c.len = c.size /\ c.op = "write" /\ wire' = wire
    BY <1>1, <1>3, <2>3 DEF WriteFillLast
  <2>7. QED
    BY <2>2, <2>5, <2>6 DEF PartShape
<1>6. \A u \in Threads \ {t} : call'[u] = call[u] /\ pc'[u] = pc[u]
  BY <1>1, Own DEF WriteFillLast, Goto
<1>7. QED
  BY <1>4, <1>5, <1>6, PartMoves DEF WriteFillLast

LEMMA WriteClockLastPart ==
  ASSUME PartInv, Shape', NEW t \in Threads, WriteClockLast(t)
  PROVE  PartInv'
<1> DEFINE old == call[t]
           c == [old EXCEPT !.moved = @ + old.len, !.offset = (@ + old.total) % WIDTH,
                            !.total = 0]
<1>1. Shape /\ Part(t) /\ Holds(t) /\ old \in Calls /\ pc[t] = "last"
  BY Own DEF PartInv, WriteClockLast
<1>2. call'[t] = c /\ pc'[t] = "loop"
  BY <1>1, Own DEF WriteClockLast, Clock, Goto
<1>3. c.size = old.size /\ c.param = old.param /\ c.op = old.op /\ c.total = 0
  BY <1>1 DEF Calls
<1> HIDE DEF c
<1>4. Holds(t)'
  BY <1>1, <1>2, <1>3 DEF Holds, Clock, WriteClockLast
<1>5. Part(t)'
  <2>1. SUFFICES ASSUME Small(old)
                 PROVE  PartShape(t, c, "loop", memory'[t], wire'[t], RX_Buffer', TX_Buffer')
    BY <1>2, <1>3 DEF Part, Small, Echo
  <2>2. /\ old.op = "write" /\ wire[t] = <<>> /\ old.len = old.size
        /\ \A i \in 0..old.size - 1 : TX_Buffer[i] = <<t, i>>
    BY <1>1, <2>1 DEF Part, PartShape
  <2>3. wire'[t] = wire[t] \o [i \in 1..old.len |-> TX_Buffer[i - 1]]
    BY <1>1, Own DEF WriteClockLast, Clock
  <2>4. old.size \in Nat
    BY <1>1, Own
  <2>5. [i \in 1..old.size |-> TX_Buffer[i - 1]] = [i \in 1..old.size |-> <<t, i - 1>>]
    <3> HIDE DEF old
    <3>1. ASSUME NEW i \in 1..old.size PROVE TX_Buffer[i - 1] = <<t, i - 1>>
      <4>1. i - 1 \in 0..old.size - 1
        BY <2>4
      <4>2. QED
        BY <2>2, <4>1
    <3>2. QED
      BY <3>1
  <2>6. <<>> \o [i \in 1..old.size |-> <<t, i - 1>>] = [i \in 1..old.size |-> <<t, i - 1>>]
    <3> DEFINE w == [i \in 1..old.size |-> <<t, i - 1>>]
    <3>1. w \in Seq(Threads \X Int)
      BY <2>4
    <3> HIDE DEF w
    <3>2. <<>> \o w = w
      BY <3>1
    <3>3. QED
      BY <3>2 DEF w
  <2>7. wire'[t] = [i \in 1..c.size |-> <<t, i - 1>>]
    BY <1>3, <2>2, <2>3, <2>5, <2>6
  <2>8. QED
    BY <1>3, <2>2, <2>7 DEF PartShape, Delivered
<1>6. \A u \in Threads \ {t} : call'[u] = call[u] /\ pc'[u] = pc[u] /\ wire'[u] = wire[u]
  BY <1>1, Own DEF WriteClockLast, Clock, Goto
<1>7. QED
  BY <1>4, <1>5, <1>6, PartMoves DEF WriteClockLast, Clock, buffers

-----------------------------------------------------------------------------
LEMMA InitPart == Init => PartInv
<1> SUFFICES ASSUME Init PROVE PartInv
  OBVIOUS
<1>1. Shape
  BY InitShapely
<1>2. ASSUME NEW t \in Threads PROVE pc[t] = "idle" /\ call[t].ret = -1
  BY DEF Init, NewCall
<1>3. QED
  BY <1>1, <1>2 DEF PartInv, Holds, Part, PartShape

LEMMA NextPart == PartInv /\ [Next]_vars => PartInv'
<1> SUFFICES ASSUME PartInv, [Next]_vars PROVE PartInv'
  OBVIOUS
<1>1. Shape'
  BY NextShapely DEF PartInv
<1>2. CASE Open \/ Close \/ UNCHANGED vars
  BY <1>1, <1>2, QuietPart DEF Open, Close, vars, buffers
<1>3. ASSUME NEW t \in Threads, Refuse(t) PROVE PartInv'
  BY <1>1, <1>3, QuietPart DEF Refuse
<1>4. ASSUME NEW t \in Threads, Step(t) PROVE PartInv'
  BY <1>1, <1>4, LockPart, ReturnPart, FailPart, ReadClockPart, ReadCopyPart, CrashPart,
     WriteFillPartPart, WriteFillLastPart, WriteClockPartPart, WriteClockLastPart DEF Step
<1>5. ASSUME NEW t \in Threads, NEW op \in Operations, NEW size \in Sizes, NEW param \in Params,
             Call(t, op, size, param)
      PROVE PartInv'
  BY <1>1, <1>5, CallPart
<1>6. QED
  BY <1>2, <1>3, <1>4, <1>5 DEF Next

(* However many threads read and write, a transfer without a register that  *)
(* fits into one part is whole: its bytes, each once, in order, and no      *)
(* other call's.                                                            *)
THEOREM OnePartWholeCorrect == Spec => []OnePartWhole
<1>1. ASSUME PartInv, NEW t \in Threads, Succeeded(t), call[t].param = 0, call[t].size <= CHUNK
      PROVE  IF call[t].op = "read"
             THEN \A i \in 0..call[t].size - 1 : memory[t][i] = <<t, i>>
             ELSE wire[t] = [i \in 1..call[t].size |-> <<t, i - 1>>]
  <2>1. call[t].size \in Nat /\ Part(t)
    BY <1>1, Own DEF PartInv
  <2>2. Echo(call[t]) = 0
    BY <1>1 DEF Echo
  <2>3. Small(call[t])
    BY <1>1, <2>1, <2>2 DEF Small
  <2>4. Delivered(t, call[t], memory[t], wire[t])
    BY <1>1, <2>1, <2>3 DEF Part, PartShape, Succeeded
  <2>5. /\ call[t].size - 1 - Echo(call[t]) = call[t].size - 1
        /\ \A i \in 0..call[t].size - 1 : i + Echo(call[t]) = i
    BY <2>1, <2>2
  <2>6. QED
    BY <2>4, <2>5 DEF Delivered
<1>2. PartInv => OnePartWhole
  BY <1>1 DEF OnePartWhole
<1>3. QED
  BY <1>2, InitPart, NextPart, PTL DEF Spec

-----------------------------------------------------------------------------
(* What write() takes from the caller's memory, in transfers of any length. *)

(* What is left and where it is taken from.  With a register, whole parts   *)
(* lie behind the first one, more than the offset can reach.                *)
Place(c, p) ==
  /\ c.param >= 0
  /\ c.param = 0 => ~c.addr /\ c.skip = 0
  /\ c.param = 0 /\ c.total > 0 => c.offset = 0 /\ c.total <= c.size
  /\ c.param > 0 /\ c.addr =>
       /\ c.offset = 1
       /\ IF p = "part" THEN c.total = c.size /\ c.skip = 1 /\ c.size >= CHUNK
                        ELSE c.total = c.size + 1 /\ c.skip = 0
  /\ c.param > 0 /\ ~c.addr /\ c.total > 0 /\ p # "last" =>
       c.skip = 0 /\ c.total + CHUNK <= c.size
  /\ p = "last" => ~c.addr

(* The bytes a write() of t with the record c may take.                     *)
Owns(t, c) == {Zero} \cup ({t} \X (0..c.size - 1 + Echo(c)))

SourceShape(t, c, p, tx) ==
  /\ c.op = "write" /\ p \in {"lock", "loop", "part", "last"} => Place(c, p)
  /\ p \in {"part", "last"} => /\ c.op = "write"
                              /\ \A i \in Index : tx[i] \in Owns(t, c)

Source(t) == SourceShape(t, call[t], pc[t], TX_Buffer)

SourceInv == PartInv /\ \A t \in Threads : Source(t)

(* One thread moves; the buffer is only written to under the lock.          *)
LEMMA SourceMoves ==
  ASSUME SourceInv, PartInv', NEW t \in Threads,
         \A u \in Threads \ {t} : call'[u] = call[u] /\ pc'[u] = pc[u],
         TX_Buffer' = TX_Buffer \/ lock["write"] = t,
         Source(t)'
  PROVE  SourceInv'
<1>1. ASSUME NEW u \in Threads \ {t} PROVE Source(u)'
  <2>1. Source(u) /\ Holds(u) /\ call'[u] = call[u] /\ pc'[u] = pc[u]
    BY DEF SourceInv, PartInv
  <2>2. CASE TX_Buffer' = TX_Buffer
    BY <2>1, <2>2 DEF Source
  <2>3. CASE lock["write"] = t
    <3>1. pc[u] \notin {"part", "last"}
      BY <2>1, <2>3 DEF Source, SourceShape, Holds
    <3>2. QED
      BY <2>1, <3>1 DEF Source, SourceShape
  <2>4. QED
    BY <2>2, <2>3
<1>2. QED
  BY <1>1 DEF SourceInv

(* Outside of write(), and outside of its loop, there is nothing to show.   *)
LEMMA SourceOutside ==
  ASSUME NEW t, NEW c, NEW tx, NEW p,
         p \in {"idle", "copy", "crashed"} \/ (c.op = "read" /\ p \in {"lock", "loop"})
  PROVE  SourceShape(t, c, p, tx)
<1>1. c.op = "read" => c.op # "write"
  OBVIOUS
<1>2. QED
  BY <1>1 DEF SourceShape

LEMMA SourceQuiet ==
  ASSUME SourceInv, PartInv', UNCHANGED <<TX_Buffer, pc, call>>
  PROVE  SourceInv'
BY DEF SourceInv, Source

LEMMA CallSource ==
  ASSUME SourceInv, PartInv', NEW t \in Threads, NEW op \in Operations,
         NEW size \in Sizes, NEW param \in Params, Call(t, op, size, param)
  PROVE  SourceInv'
<1> DEFINE c == NewCall(op, size, param)
<1>1. Shape /\ size \in Nat /\ param \in Int /\ 1 % WIDTH = 1
  BY SizesAssumption, ChunkAssumption DEF SourceInv, PartInv
<1>2. call'[t] = c /\ pc'[t] = "lock" /\ \A u \in Threads \ {t} : call'[u] = call[u] /\ pc'[u] = pc[u]
  BY <1>1, Own DEF Call, Goto
<1>3. op = "write" => param >= 0
  BY DEF Call
<1>4. /\ c.op = op /\ c.size = size /\ c.param = param /\ c.skip = 0
      /\ c.addr <=> param > 0
      /\ c.total = TotalLen(size, param)
      /\ c.offset = IF op = "write" /\ param > 0 THEN 1 % WIDTH ELSE 0
  BY DEF NewCall
<1> HIDE DEF c
<1>5. op = "write" => Place(c, "lock")
  BY <1>1, <1>3, <1>4 DEF Place, TotalLen
<1>6. Source(t)'
  BY <1>2, <1>4, <1>5 DEF Source, SourceShape
<1>7. QED
  BY <1>2, <1>6, SourceMoves DEF Call, buffers

(* The lock, the ways out, and the steps of read().                         *)
LEMMA OtherSource ==
  ASSUME SourceInv, PartInv', NEW t \in Threads,
         \/ Lock(t) \/ Return(t) \/ Fail(t)
         \/ ReadClock(t) \/ ReadCopy(t) \/ ReadCrash(t) \/ WriteCrash(t)
  PROVE  SourceInv'
<1>1. Shape /\ Source(t) /\ TX_Buffer' = TX_Buffer
  BY DEF SourceInv, PartInv, Lock, Return, Fail, Leave, ReadClock, ReadCopy, ReadCrash,
     WriteCrash, buffers
<1>2. \A u \in Threads \ {t} : call'[u] = call[u] /\ pc'[u] = pc[u]
  BY <1>1, Own DEF Lock, Return, Fail, Leave, ReadClock, ReadCopy, ReadCrash, WriteCrash, Goto
<1>3. CASE Lock(t)
  <2>1. call' = call /\ pc[t] = "lock" /\ pc'[t] = "loop"
    BY <1>1, <1>3, Own DEF Lock, Goto
  <2>2. call[t].op = "write" => Place(call[t], "lock")
    BY <1>1, <2>1 DEF Source, SourceShape
  <2>3. call[t].op = "write" => Place(call[t], "loop")
    BY <2>2 DEF Place
  <2>4. Source(t)'
    BY <2>1, <2>3 DEF Source, SourceShape
  <2>5. QED
    BY <1>1, <1>2, <2>4, SourceMoves
<1>4. CASE Return(t) \/ Fail(t) \/ ReadCrash(t) \/ WriteCrash(t)
  <2>1. pc'[t] \in {"idle", "crashed"}
    BY <1>1, <1>4, Own DEF Return, Fail, Leave, ReadCrash, WriteCrash, Goto
  <2>2. Source(t)'
    BY <2>1, SourceOutside DEF Source
  <2>3. QED
    BY <1>1, <1>2, <2>2, SourceMoves
<1>5. CASE ReadClock(t)
  <2>1. pc'[t] = "copy"
    BY <1>1, <1>5, Own DEF ReadClock, Goto
  <2>2. Source(t)'
    BY <2>1, SourceOutside DEF Source
  <2>3. QED
    BY <1>1, <1>2, <2>2, SourceMoves
<1>6. CASE ReadCopy(t)
  <2>1. pc'[t] = "loop" /\ pc[t] = "copy"
    BY <1>1, <1>6, Own DEF ReadCopy, Goto
  <2>2. call[t].op = "read"
    BY <1>1, <2>1, Own DEF Shape, CallShape, WriteShape, Operations
  <2>3. call'[t].op = call[t].op
    BY <1>1, <1>6, Own DEF ReadCopy, Calls
  <2>4. Source(t)'
    BY <2>1, <2>2, <2>3, SourceOutside DEF Source
  <2>5. QED
    BY <1>1, <1>2, <2>4, SourceMoves
<1>7. QED
  BY <1>3, <1>4, <1>5, <1>6

(* n bytes from the place of t on, behind skip, as far as its memory goes.  *)
LEMMA FillOwns ==
  ASSUME Shape, NEW t \in Threads, NEW skip \in {0, 1}, NEW n \in Int, Fill(t, skip, n),
         NEW c, c.size = call[t].size, c.param = call[t].param,
         skip = 1 => c.param > 0,
         n > 0 => call[t].offset + n <= c.size + Echo(c)
  PROVE  \A i \in Index : TX_Buffer'[i] \in Owns(t, c)
<1> DEFINE bound == c.size - 1 + Echo(c)
           offset == call[t].offset
<1>1. /\ c.size \in Nat /\ offset \in Nat /\ Echo(c) \in {0, 1} /\ bound \in Int
      /\ skip = 1 => 0 <= bound
  <2>1. call[t].size \in Nat /\ call[t].offset \in Nat /\ call[t].param \in Int
    BY Own, ChunkAssumption DEF Calls
  <2>2. Echo(c) \in {0, 1} /\ (c.param > 0 => Echo(c) = 1)
    BY DEF Echo
  <2>3. QED
    BY <2>1, <2>2
<1>2. n > 0 => offset + n <= bound + 1
  BY <1>1
<1>3. TX_Buffer' = [i \in Index |-> IF i < skip THEN <<t, 0>>
                     ELSE IF i < skip + n THEN <<t, offset + i - skip>> ELSE Zero]
  BY DEF Fill
<1>4. Owns(t, c) = {Zero} \cup ({t} \X (0..bound))
  BY DEF Owns
<1> HIDE DEF bound, offset
<1>5. ASSUME NEW i \in Index PROVE TX_Buffer'[i] \in Owns(t, c)
  <2>1. i \in Nat
    BY ChunkAssumption DEF Index
  <2>2. CASE i < skip
    <3>1. TX_Buffer'[i] = <<t, 0>> /\ 0 \in 0..bound
      BY <1>1, <1>3, <2>1, <2>2
    <3>2. QED
      BY <1>4, <3>1
  <2>3. CASE ~(i < skip) /\ i < skip + n
    <3>1. offset + i - skip \in 0..bound
      BY <1>1, <1>2, <2>1, <2>3
    <3>2. TX_Buffer'[i] = <<t, offset + i - skip>>
      BY <1>3, <2>3
    <3>3. QED
      BY <1>4, <3>1, <3>2
  <2>4. CASE ~(i < skip) /\ ~(i < skip + n)
    BY <1>3, <1>4, <2>4
  <2>5. QED
    BY <2>2, <2>3, <2>4
<1>6. QED
  BY <1>5

LEMMA WriteFillPartSource ==
  ASSUME SourceInv, PartInv', NEW t \in Threads, WriteFillPart(t)
  PROVE  SourceInv'
<1> DEFINE old == call[t]
           skip == Skip(old)
           c == [old EXCEPT !.skip = skip, !.len = CHUNK, !.total = old.total - skip]
<1>1. Shape /\ Holds(t) /\ Source(t) /\ old \in Calls /\ old.op = "write" /\ old.total > CHUNK
      /\ pc[t] = "loop"
  BY Own DEF SourceInv, PartInv, WriteFillPart
<1>2. call'[t] = c /\ pc'[t] = "part" /\ \A u \in Threads \ {t} : call'[u] = call[u] /\ pc'[u] = pc[u]
  BY <1>1, Own DEF WriteFillPart, Goto
<1>3. /\ c.size = old.size /\ c.param = old.param /\ c.op = old.op /\ c.addr = old.addr
      /\ c.skip = skip /\ c.total = old.total - skip /\ c.offset = old.offset
  BY <1>1 DEF Calls
<1>4. /\ old.size \in Nat /\ old.total \in Int /\ old.param \in Int /\ old.addr \in BOOLEAN
      /\ CHUNK \in Nat \ {0} /\ old.skip \in {0, 1} /\ old.offset \in Nat /\ old.offset < CHUNK
  BY <1>1, Own, WidthFits, ChunkAssumption DEF Calls
<1>5. Place(old, "loop")
  BY <1>1 DEF Source, SourceShape
<1>6. skip = (IF old.addr THEN 1 ELSE old.skip) /\ Fill(t, skip, CHUNK - skip)
  BY DEF Skip, WriteFillPart
<1> HIDE DEF c, skip
<1>7. skip \in {0, 1} /\ (skip = 1 => c.param > 0) /\ Place(c, "part")
  BY <1>1, <1>3, <1>4, <1>5, <1>6 DEF Place
<1>8. old.offset + (CHUNK - skip) <= c.size + Echo(c)
  BY <1>1, <1>3, <1>4, <1>5, <1>6 DEF Place, Echo
<1>9. \A i \in Index : TX_Buffer'[i] \in Owns(t, c)
  BY <1>1, <1>3, <1>4, <1>6, <1>7, <1>8, FillOwns
<1>10. Source(t)'
  BY <1>1, <1>2, <1>3, <1>7, <1>9 DEF Source, SourceShape
<1>11. lock["write"] = t
  BY <1>1 DEF Holds
<1>12. QED
  BY <1>2, <1>10, <1>11, SourceMoves

LEMMA WriteFillLastSource ==
  ASSUME SourceInv, PartInv', NEW t \in Threads, WriteFillLast(t)
  PROVE  SourceInv'
<1> DEFINE old == call[t]
           skip == Skip(old)
           n == old.total - skip
           c == [old EXCEPT !.skip = skip, !.addr = FALSE, !.len = n, !.total = n]
<1>1. Shape /\ Holds(t) /\ Source(t) /\ old \in Calls /\ old.op = "write"
      /\ old.total \in 1..CHUNK /\ pc[t] = "loop"
  BY Own DEF SourceInv, PartInv, WriteFillLast
<1>2. call'[t] = c /\ pc'[t] = "last" /\ \A u \in Threads \ {t} : call'[u] = call[u] /\ pc'[u] = pc[u]
  BY <1>1, Own DEF WriteFillLast, LastLength, Goto
<1>3. /\ c.size = old.size /\ c.param = old.param /\ c.op = old.op /\ c.addr = FALSE
      /\ c.skip = skip /\ c.total = n /\ c.offset = old.offset
  BY <1>1 DEF Calls
<1>4. /\ old.size \in Nat /\ old.total \in Int /\ old.param \in Int /\ old.addr \in BOOLEAN
      /\ CHUNK \in Nat \ {0} /\ old.skip \in {0, 1} /\ old.offset \in Nat /\ old.offset < CHUNK
  BY <1>1, Own, WidthFits, ChunkAssumption DEF Calls
<1>5. Place(old, "loop")
  BY <1>1 DEF Source, SourceShape
<1>6. /\ skip = (IF old.addr THEN 1 ELSE old.skip) /\ n = old.total - skip
      /\ Fill(t, skip, n)
  BY DEF Skip, WriteFillLast, LastLength
<1> HIDE DEF c, skip, n
<1>7. skip \in {0, 1} /\ (skip = 1 => c.param > 0) /\ n \in Int /\ Place(c, "last")
  BY <1>1, <1>3, <1>4, <1>5, <1>6 DEF Place
<1>8. old.offset + n <= c.size + Echo(c)
  BY <1>1, <1>3, <1>4, <1>5, <1>6 DEF Place, Echo
<1>9. \A i \in Index : TX_Buffer'[i] \in Owns(t, c)
  BY <1>1, <1>3, <1>4, <1>6, <1>7, <1>8, FillOwns
<1>10. Source(t)'
  BY <1>1, <1>2, <1>3, <1>7, <1>9 DEF Source, SourceShape
<1>11. lock["write"] = t
  BY <1>1 DEF Holds
<1>12. QED
  BY <1>2, <1>10, <1>11, SourceMoves

LEMMA WriteClockSource ==
  ASSUME SourceInv, PartInv', NEW t \in Threads, WriteClockPart(t) \/ WriteClockLast(t)
  PROVE  SourceInv'
<1> DEFINE old == call[t]
<1>1. Shape /\ Source(t) /\ old \in Calls /\ TX_Buffer' = TX_Buffer /\ pc[t] \in {"part", "last"}
  BY Own DEF SourceInv, PartInv, WriteClockPart, WriteClockLast, Clock, buffers
<1>2. pc'[t] = "loop" /\ \A u \in Threads \ {t} : call'[u] = call[u] /\ pc'[u] = pc[u]
  BY <1>1, Own DEF WriteClockPart, WriteClockLast, Clock, Goto
<1>3. /\ old.size \in Nat /\ old.total \in Int /\ old.param \in Int /\ old.addr \in BOOLEAN
      /\ CHUNK \in Nat \ {0} /\ old.skip \in {0, 1} /\ old.offset \in Nat
  BY <1>1, Own, ChunkAssumption DEF Calls
<1>4. old.op = "write" /\ Place(old, pc[t]) /\ WriteShape(old, pc[t])
  BY <1>1 DEF Source, SourceShape, Shape, CallShape
<1>5. SUFFICES Place(call'[t], "loop")
  <2>1. ASSUME Place(call'[t], "loop") PROVE Source(t)'
    BY <1>2, <2>1 DEF Source, SourceShape
  <2>2. QED
    BY <1>1, <1>2, <2>1, SourceMoves
<1>6. CASE WriteClockPart(t)
  <2> DEFINE c == [old EXCEPT !.moved = @ + CHUNK, !.offset = (@ + CHUNK) % WIDTH,
                              !.total = @ - CHUNK - old.skip, !.skip = 0, !.addr = FALSE]
  <2>1. call'[t] = c /\ pc[t] = "part"
    BY <1>1, <1>6, Own DEF WriteClockPart
  <2>2. /\ c.op = old.op /\ c.size = old.size /\ c.param = old.param /\ c.skip = 0
        /\ c.offset = (old.offset + CHUNK) % WIDTH /\ c.addr = FALSE
        /\ c.total = old.total - CHUNK - old.skip
    BY <1>1 DEF Calls
  <2>3. old.offset = 0 => c.offset = 0
    BY <2>2, ChunkAssumption
  <2> HIDE DEF c, old
  <2>4. Place(c, "loop")
    BY <1>3, <1>4, <2>1, <2>2, <2>3 DEF Place, WriteShape
  <2>5. QED
    BY <2>1, <2>4
<1>7. CASE WriteClockLast(t)
  <2> DEFINE c == [old EXCEPT !.moved = @ + old.len, !.offset = (@ + old.total) % WIDTH,
                              !.total = 0]
  <2>1. call'[t] = c /\ pc[t] = "last"
    BY <1>1, <1>7, Own DEF WriteClockLast
  <2>2. /\ c.op = old.op /\ c.size = old.size /\ c.param = old.param /\ c.skip = old.skip
        /\ c.addr = old.addr /\ c.total = 0
    BY <1>1 DEF Calls
  <2> HIDE DEF c, old
  <2>3. Place(c, "loop")
    BY <1>3, <1>4, <2>1, <2>2 DEF Place
  <2>4. QED
    BY <2>1, <2>3
<1>8. QED
  BY <1>6, <1>7

LEMMA NextSource == SourceInv /\ [Next]_vars => SourceInv'
<1> SUFFICES ASSUME SourceInv, [Next]_vars PROVE SourceInv'
  OBVIOUS
<1>1. PartInv'
  BY NextPart DEF SourceInv
<1>2. CASE Open \/ Close \/ UNCHANGED vars
  BY <1>1, <1>2, SourceQuiet DEF Open, Close, vars, buffers
<1>3. ASSUME NEW t \in Threads, Refuse(t) PROVE SourceInv'
  BY <1>1, <1>3, SourceQuiet DEF Refuse, buffers
<1>4. ASSUME NEW t \in Threads, Step(t) PROVE SourceInv'
  BY <1>1, <1>4, OtherSource, WriteFillPartSource, WriteFillLastSource, WriteClockSource DEF Step
<1>5. ASSUME NEW t \in Threads, NEW op \in Operations, NEW size \in Sizes, NEW param \in Params,
             Call(t, op, size, param)
      PROVE SourceInv'
  BY <1>1, <1>5, CallSource
<1>6. QED
  BY <1>2, <1>3, <1>4, <1>5 DEF Next

(* However many threads write, and however many parts a write() takes, it   *)
(* sends no other call's bytes and takes none from behind its caller's      *)
(* memory, with a register one.                                             *)
THEOREM WritesInsideCorrect == Spec => []WritesInside
<1>1. Init => SourceInv
  <2>1. ASSUME Init, NEW t \in Threads PROVE Source(t)
    BY <2>1, SourceOutside DEF Init, Source
  <2>2. QED
    BY <2>1, InitPart DEF SourceInv
<1>2. SourceInv => WritesInside
  BY DEF SourceInv, Source, SourceShape, Owns, Echo, WritesInside
<1>3. QED
  BY <1>1, <1>2, NextSource, PTL DEF Spec
=============================================================================
