---------------------------- MODULE TCPServer_proofs ----------------------------
(***************************************************************************)
(* For any connections, bodies and bounds: the types of TCPServer; the     *)
(* memory of a server that has one connection, whatever its client sends   *)
(* or leaves out; and the bodies it hands to unpack(), as long as nothing  *)
(* goes wrong around it.                                                   *)
(***************************************************************************)
EXTENDS TCPServer, SequenceTheorems, FiniteSetTheorems, TLAPS

Cells == Byte \cup {Garbage}
Places == {"none", "header", "check", "new", "body", "unpack", "delete", "clear", "return"}

-----------------------------------------------------------------------------
(* Sequences.                                                               *)

LEMMA FunctionIsSeq ==
  ASSUME NEW S, NEW n \in Nat, NEW f \in [1..n -> S]
  PROVE  f \in Seq(S) /\ Len(f) = n
OBVIOUS

LEMMA PartIs ==
  ASSUME NEW S, NEW s \in Seq(S), NEW m \in Nat, NEW n \in Nat, m >= 1, n <= Len(s)
  PROVE  SubSeq(s, m, n) \in Seq(S) /\ Len(SubSeq(s, m, n)) = IF m <= n THEN n - m + 1 ELSE 0
<1>1. \A i \in m..n : i \in 1..Len(s)
  BY LenProperties
<1>2. \A i \in m..n : s[i] \in S
  BY <1>1, ElementOfSeq
<1>3. QED
  BY <1>2, SubSeqProperties

(* recv() does not change the length of the buffer it is given.             *)
LEMMA FilledIs ==
  ASSUME TypeOK, NEW c \in Conns, NEW S, Byte \subseteq S, NEW buffer \in Seq(S),
         NEW k \in Nat, k <= Len(buffer), k <= Len(net[c])
  PROVE  Filled(buffer, c, k) \in Seq(S) /\ Len(Filled(buffer, c, k)) = Len(buffer)
<1> DEFINE read == SubSeq(net[c], 1, k)
           rest == SubSeq(buffer, k + 1, Len(buffer))
<1>1. net[c] \in Seq(S) /\ Len(buffer) \in Nat
  <2>1. net[c] \in Seq(Byte)
    BY DEF TypeOK
  <2>2. QED
    BY <2>1, SeqMonotonic, LenProperties
<1>2. read \in Seq(S) /\ Len(read) = k
  <2>1. read \in Seq(S) /\ Len(read) = IF 1 <= k THEN k - 1 + 1 ELSE 0
    BY <1>1, PartIs
  <2> HIDE DEF read
  <2>2. QED
    BY <2>1
<1>3. rest \in Seq(S) /\ Len(rest) = Len(buffer) - k
  <2>1. k + 1 \in Nat /\ k + 1 >= 1
    OBVIOUS
  <2>2. rest \in Seq(S)
        /\ Len(rest) = IF k + 1 <= Len(buffer) THEN Len(buffer) - (k + 1) + 1 ELSE 0
    BY <1>1, <2>1, PartIs
  <2> HIDE DEF rest
  <2>3. QED
    BY <1>1, <2>2
<1> HIDE DEF read, rest
<1>4. read \o rest \in Seq(S) /\ Len(read \o rest) = Len(read) + Len(rest)
  BY <1>2, <1>3, ConcatProperties
<1>5. Len(read \o rest) = Len(buffer)
  BY <1>1, <1>2, <1>3, <1>4
<1>6. QED
  BY <1>4, <1>5 DEF Filled, read, rest

(* The bytes recv() may put into a buffer of n.                             *)
LEMMA GotIs ==
  ASSUME TypeOK, NEW c \in Conns, NEW n \in Nat, NEW k \in Got(c, n)
  PROVE  k \in Nat /\ k <= n /\ k <= Len(net[c])
<1>1. Len(net[c]) \in Nat
  BY LenProperties DEF TypeOK
<1>2. QED
  BY <1>1 DEF Got, Most

LEMMA TakenIs ==
  ASSUME TypeOK, NEW c \in Conns, NEW n \in Nat, NEW k \in Got(c, n), Taken(c, n, k)
  PROVE  net' \in [Conns -> Seq(Byte)] /\ faults \subseteq faults' /\ faults' \subseteq FaultKinds
         /\ faults' \subseteq faults \cup {"short"}
<1>1. net[c] \in Seq(Byte) /\ Len(net[c]) \in Nat /\ k \in Nat /\ k <= Len(net[c])
  BY GotIs, LenProperties DEF TypeOK
<1>2. SubSeq(net[c], k + 1, Len(net[c])) \in Seq(Byte)
  BY <1>1, PartIs
<1>3. QED
  BY <1>2 DEF TypeOK, Taken, Fault, FaultKinds

-----------------------------------------------------------------------------
(* Types.                                                                   *)

(* Functions of connections and blocks, which TypeOK leaves open.           *)
Typed ==
  /\ TypeOK
  /\ heap = [b \in Blocks |-> heap[b]]
  /\ body = [c \in Conns |-> body[c]]
  /\ sent = [c \in Conns |-> sent[c]]
  /\ writes = [c \in Conns |-> writes[c]]

(* A header of the client.                                                  *)
LEMMA HeaderWritten ==
  ASSUME TypeOK, NEW c \in Conns, NEW w, NEW x, NEW y, NEW z,
         w \in Byte, x \in Byte, y \in Byte, z \in Byte
  PROVE  net[c] \o <<w, x, y, z>> \in Seq(Byte)
<1>1. <<w, x, y, z>> \in Seq(Byte)
  OBVIOUS
<1>2. QED
  BY <1>1, ConcatProperties DEF TypeOK

LEMMA WriteTyped ==
  ASSUME Typed, NEW c \in Conns, NEW bytes, Write(c, bytes), net[c] \o bytes \in Seq(Byte)
  PROVE  /\ net' \in [Conns -> Seq(Byte)]
         /\ writes' = [d \in Conns |-> writes'[d]]
         /\ \A d \in Conns : writes'[d] \in 0..MaxSends[d]
<1>1. net' \in [Conns -> Seq(Byte)]
  BY DEF Typed, TypeOK, Write
<1>2. writes' = [d \in Conns |-> IF d = c THEN writes[c] + 1 ELSE writes[d]]
  BY DEF Typed, Write
<1>3. ASSUME NEW d \in Conns PROVE writes'[d] \in 0..MaxSends[d]
  <2>1. writes[d] \in 0..MaxSends[d] /\ MaxSends[d] \in Nat
    BY BoundsAssumption DEF Typed, TypeOK
  <2>2. d = c => writes[d] < MaxSends[d]
    BY DEF Write
  <2>3. QED
    BY <1>2, <2>1, <2>2
<1>4. QED
  BY <1>1, <1>2, <1>3

(* A step of the server that leaves links and clients alone.                *)
LEMMA TypesKept ==
  ASSUME Typed, UNCHANGED <<forkvars, link, body, sent, writes>>,
         net' \in [Conns -> Seq(Byte)],
         pc' \in [Conns -> Places],
         prerecv' \in [1..4 -> Byte], recvsec' \in Blocks \cup {Null},
         heap' = [b \in Blocks |-> heap'[b]],
         \A b \in Blocks : heap'[b] # Unused => heap'[b] \in Seq(Cells),
         unpacked' \in [Conns -> Seq(Seq(Cells))],
         faults' \subseteq FaultKinds, outside' \subseteq Accesses, up' \in BOOLEAN
  PROVE  Typed'
BY DEF Typed, TypeOK, Cells, Live, forkvars, Places

LEMMA ForkTyped ==
  ASSUME Typed, NEW c \in Conns, Accept(c) \/ AcceptFails(c) \/ AcceptOnGarbage(c)
  PROVE  Typed'
<1>1. PICK state \in {"open", "bad"} : Serve(c, state)
  BY DEF Accept, AcceptFails, AcceptOnGarbage
<1>2. faults' \subseteq FaultKinds /\ outside' \subseteq Accesses /\ up' \in BOOLEAN
  BY DEF Typed, TypeOK, Accept, AcceptFails, AcceptOnGarbage, Fault, FaultKinds, Wild, Accesses
<1>3. count + 1 \in Nat /\ list' \in Seq(Nat \X Conns)
  <2>1. <<count + 1, c>> \in Nat \X Conns /\ list \in Seq(Nat \X Conns) /\ count + 1 \in Nat
    BY DEF Typed, TypeOK
  <2>2. QED
    BY <1>1, <2>1, AppendProperties DEF Serve
<1>4. link' \in [Conns -> {"none", "open", "closed", "bad"}]
      /\ pc' \in [Conns -> Places]
  BY <1>1 DEF Typed, TypeOK, Serve, Goto, Places
<1>5. QED
  BY <1>1, <1>2, <1>3, <1>4 DEF Typed, TypeOK, Serve, memvars, Live, Places

LEMMA ControlTyped ==
  ASSUME Typed, Start \/ \E ok \in BOOLEAN : ServerInit(ok)
  PROVE  Typed'
<1>1. CASE Start
  <2>0. faults \subseteq FaultKinds /\ up \in BOOLEAN
    BY DEF Typed, TypeOK
  <2>1. faults' \subseteq FaultKinds /\ up' \in BOOLEAN
    BY <1>1, <2>0 DEF Start, Fault, FaultKinds
  <2>2. forks' \in 0..MaxStarts
    BY <1>1, BoundsAssumption DEF Typed, TypeOK, Start
  <2>3. QED
    BY <1>1, <2>1, <2>2 DEF Typed, TypeOK, Start, clientvars, memvars, Live
<1>2. ASSUME NEW ok \in BOOLEAN, ServerInit(ok) PROVE Typed'
  BY <1>2 DEF Typed, TypeOK, ServerInit, clientvars, memvars, Live
<1>3. QED
  BY <1>1, <1>2

LEMMA ClientTyped ==
  ASSUME Typed, NEW c \in Conns, ClientStep(c)
  PROVE  Typed'
<1>0. /\ RECV \in Byte /\ ACK \in Byte /\ HEAD \in Byte /\ END \in Byte /\ 0 \in Byte
      /\ TypeOK /\ body[c] \in Bodies[c] \cup {NoBody} /\ sent[c] \in Seq(Bodies[c])
      /\ body = [d \in Conns |-> body[d]] /\ sent = [d \in Conns |-> sent[d]]
  <2>1. RECV \in Byte /\ ACK \in Byte /\ HEAD \in Byte /\ END \in Byte /\ 0 \in Byte
    BY DEF RECV, ACK, HEAD, END, Byte
  <2>2. QED
    BY <2>1 DEF Typed, TypeOK
<1>1. ASSUME NEW b \in Bodies[c], WriteHeader(c, b) PROVE Typed'
  <2>1. Len(b) \in Byte /\ Write(c, <<HEAD, RECV, Len(b), END>>)
    BY <1>1, BodiesAssumption DEF WriteHeader
  <2>2. net[c] \o <<HEAD, RECV, Len(b), END>> \in Seq(Byte)
    BY <1>0, <2>1, HeaderWritten
  <2>3. /\ net' \in [Conns -> Seq(Byte)]
        /\ writes' = [d \in Conns |-> writes'[d]]
        /\ \A d \in Conns : writes'[d] \in 0..MaxSends[d]
    BY <1>0, <2>1, <2>2, WriteTyped
  <2>4. body' = [d \in Conns |-> body'[d]] /\ \A d \in Conns : body'[d] \in Bodies[d] \cup {NoBody}
    <3>1. body' = [d \in Conns |-> IF d = c THEN b ELSE body[d]]
      BY <1>0, <1>1 DEF WriteHeader
    <3>2. body' = [d \in Conns |-> body'[d]]
          /\ \A d \in Conns : body'[d] = body[d] \/ (d = c /\ body'[d] = b)
      BY <3>1
    <3>3. QED
      BY <3>2 DEF Typed, TypeOK
  <2>5. QED
    BY <1>1, <2>3, <2>4 DEF Typed, TypeOK, WriteHeader, forkvars, memvars, Live
<1>2. CASE WriteEmpty(c) \/ WriteBody(c)
  <2>1. PICK b \in Bodies[c] : sent' = [sent EXCEPT ![c] = Append(@, b)]
    BY <1>0, <1>2 DEF WriteEmpty, WriteBody
  <2>2. sent' = [d \in Conns |-> sent'[d]] /\ \A d \in Conns : sent'[d] \in Seq(Bodies[d])
    <3>1. Append(sent[c], b) \in Seq(Bodies[c])
      BY <1>0, AppendProperties
    <3>2. sent' = [d \in Conns |-> IF d = c THEN Append(sent[c], b) ELSE sent[d]]
      BY <1>0, <2>1
    <3>3. QED
      BY <3>1, <3>2 DEF Typed, TypeOK
  <2>3. /\ net' \in [Conns -> Seq(Byte)]
        /\ writes' = [d \in Conns |-> writes'[d]]
        /\ \A d \in Conns : writes'[d] \in 0..MaxSends[d]
    <3>1. CASE WriteEmpty(c)
      <4>1. Write(c, <<HEAD, RECV, 0, END>>) /\ net[c] \o <<HEAD, RECV, 0, END>> \in Seq(Byte)
        BY <1>0, <3>1, HeaderWritten DEF WriteEmpty
      <4>2. QED
        BY <1>0, <4>1, WriteTyped
    <3>2. CASE WriteBody(c)
      <4>1. body[c] \in Seq(Byte) /\ net[c] \in Seq(Byte) /\ Write(c, body[c])
        BY <1>0, <3>2, BodiesAssumption DEF WriteBody, TypeOK
      <4>2. net[c] \o body[c] \in Seq(Byte)
        BY <4>1, ConcatProperties
      <4>3. QED
        BY <1>0, <4>1, <4>2, WriteTyped
    <3>3. QED
      BY <1>2, <3>1, <3>2
  <2>4. body' = [d \in Conns |-> body'[d]] /\ \A d \in Conns : body'[d] \in Bodies[d] \cup {NoBody}
    <3>1. body' = body \/ body' = [body EXCEPT ![c] = NoBody]
      BY <1>2 DEF WriteEmpty, WriteBody
    <3>2. body' = [d \in Conns |-> body'[d]]
          /\ \A d \in Conns : body'[d] = body[d] \/ (d = c /\ body'[d] = NoBody)
      <4>1. CASE body' = body
        BY <1>0, <4>1
      <4>2. CASE body' = [body EXCEPT ![c] = NoBody]
        <5>1. body' = [d \in Conns |-> IF d = c THEN NoBody ELSE body[d]]
          BY <1>0, <4>2
        <5>2. QED
          BY <5>1
      <4>3. QED
        BY <3>1, <4>1, <4>2
    <3>3. QED
      BY <3>2 DEF Typed, TypeOK
  <2>5. /\ UNCHANGED <<forkvars, link, pc, memvars, unpacked, faults, outside, up>>
    BY <1>2 DEF WriteEmpty, WriteBody
  <2>6. QED
    BY <2>2, <2>3, <2>4, <2>5 DEF Typed, TypeOK, forkvars, memvars, Live
<1>3. ASSUME NEW head \in {HEAD, 0}, WriteOther(c, head) PROVE Typed'
  <2>1. Write(c, <<head, ACK, 0, END>>) /\ net[c] \o <<head, ACK, 0, END>> \in Seq(Byte)
    BY <1>0, <1>3, HeaderWritten DEF WriteOther
  <2>2. /\ net' \in [Conns -> Seq(Byte)]
        /\ writes' = [d \in Conns |-> writes'[d]]
        /\ \A d \in Conns : writes'[d] \in 0..MaxSends[d]
    BY <1>0, <2>1, WriteTyped
  <2>3. QED
    BY <1>3, <2>2 DEF Typed, TypeOK, WriteOther, forkvars, memvars, Live
<1>4. CASE ClientCloses(c)
  <2>1. faults' \subseteq FaultKinds
    BY <1>4 DEF Typed, TypeOK, ClientCloses, Fault, FaultKinds
  <2>2. QED
    BY <1>4, <2>1 DEF Typed, TypeOK, ClientCloses, forkvars, memvars, Live
<1>5. QED
  BY <1>1, <1>2, <1>3, <1>4 DEF ClientStep

LEMMA ServerTyped ==
  ASSUME Typed, NEW c \in Conns, ServerStep(c)
  PROVE  Typed'
<1>0. /\ TypeOK /\ pc \in [Conns -> Places] /\ prerecv \in [1..4 -> Byte] /\ BodySize \in Byte
      /\ recvsec \in Blocks \cup {Null} /\ heap = [b \in Blocks |-> heap[b]]
      /\ \A b \in Blocks : heap[b] # Unused => heap[b] \in Seq(Cells)
      /\ unpacked \in [Conns -> Seq(Seq(Cells))] /\ faults \subseteq FaultKinds /\ up \in BOOLEAN
      /\ outside \subseteq Accesses
      /\ net \in [Conns -> Seq(Byte)]
  <2>1. BodySize \in Byte
    <3>1. prerecv \in [1..4 -> Byte]
      BY DEF Typed, TypeOK
    <3>2. QED
      BY <3>1 DEF BodySize
  <2>2. \A b \in Blocks : heap[b] # Unused => heap[b] \in Seq(Cells)
    BY DEF Typed, TypeOK, Cells, Live
  <2>3. QED
    BY <2>1, <2>2 DEF Typed, TypeOK, Cells, Places
<1>1. BodySize \in Nat /\ HeaderSize \in Nat
  <2>1. BodySize \in 0..255
    BY <1>0 DEF Byte
  <2>2. QED
    BY <2>1 DEF HeaderSize
<1>2. CASE RecvHeader(c)
  <2>1. PICK k \in Got(c, HeaderSize) :
          Taken(c, HeaderSize, k) /\ prerecv' = Filled(prerecv, c, k)
    BY <1>2 DEF RecvHeader
  <2>2. prerecv \in Seq(Byte) /\ Len(prerecv) = 4
    <3>1. prerecv \in [1..4 -> Byte]
      BY <1>0
    <3>2. QED
      BY <3>1, FunctionIsSeq
  <2>3. k \in Nat /\ k <= 4 /\ k <= Len(net[c])
    BY <1>0, <1>1, GotIs DEF HeaderSize
  <2>4. Filled(prerecv, c, k) \in Seq(Byte) /\ Len(Filled(prerecv, c, k)) = 4
    BY <1>0, <2>2, <2>3, FilledIs
  <2>5. prerecv' \in [1..4 -> Byte]
    BY <2>1, <2>4, LenProperties
  <2>6. net' \in [Conns -> Seq(Byte)] /\ faults' \subseteq FaultKinds
    BY <1>0, <1>1, <2>1, TakenIs
  <2>7. pc' \in [Conns -> Places]
    BY <1>0, <1>2 DEF RecvHeader, Goto, Places
  <2>8. QED
    BY <1>0, <1>2, <2>5, <2>6, <2>7, TypesKept DEF RecvHeader
<1>3. CASE Check(c)
  <2>1. pc' \in [Conns -> Places]
    BY <1>0, <1>3 DEF Check, Goto, Places
  <2>2. QED
    BY <1>0, <1>3, <2>1, TypesKept DEF Check, clientvars, memvars
<1>4. CASE New(c)
  <2>1. PICK b \in Blocks \ Live : recvsec' = b /\ heap' = [heap EXCEPT ![b] = NewBlock]
    BY <1>4 DEF New
  <2>2. NewBlock \in Seq(Cells)
    <3>1. NewBlock \in [1..BodySize -> Cells]
      BY DEF NewBlock, Cells
    <3>2. QED
      BY <1>1, <3>1, FunctionIsSeq
  <2>3. pc' \in [Conns -> Places]
    BY <1>0, <1>4 DEF New, Goto, Places
  <2>4. heap' = [a \in Blocks |-> heap'[a]] /\ \A a \in Blocks : heap'[a] # Unused => heap'[a] \in Seq(Cells)
    BY <1>0, <2>1, <2>2
  <2>5. QED
    BY <1>0, <1>4, <2>1, <2>3, <2>4, TypesKept DEF New, clientvars
<1>5. CASE RecvBody(c)
  <2>1. PICK k \in Got(c, BodySize) : /\ k <= Len(heap[recvsec])
                                      /\ Taken(c, BodySize, k)
                                      /\ heap' = [heap EXCEPT ![recvsec] = Filled(@, c, k)]
    BY <1>5 DEF RecvBody
  <2>2. recvsec \in Blocks /\ heap[recvsec] \in Seq(Cells)
    BY <1>0, <1>5 DEF RecvBody, Live
  <2>3. k \in Nat /\ k <= Len(net[c])
    BY <1>0, <1>1, GotIs
  <2>4. Filled(heap[recvsec], c, k) \in Seq(Cells)
    BY <1>0, <2>1, <2>2, <2>3, FilledIs DEF Cells
  <2>5. heap' = [a \in Blocks |-> heap'[a]] /\ \A a \in Blocks : heap'[a] # Unused => heap'[a] \in Seq(Cells)
    BY <1>0, <2>1, <2>2, <2>4
  <2>6. net' \in [Conns -> Seq(Byte)] /\ faults' \subseteq FaultKinds
    BY <1>0, <1>1, <2>1, TakenIs
  <2>7. pc' \in [Conns -> Places]
    BY <1>0, <1>5 DEF RecvBody, Goto, Places
  <2>8. QED
    BY <1>0, <1>5, <2>5, <2>6, <2>7, TypesKept DEF RecvBody
<1>6. CASE RecvNowhere(c)
  <2>1. pc' \in [Conns -> Places]
    BY <1>0, <1>6 DEF RecvNowhere, Goto, Places
  <2>2. QED
    BY <1>0, <1>6, <2>1, TypesKept DEF RecvNowhere, clientvars, memvars
<1>7. CASE RecvOutside(c) \/ UnpackNothing(c) \/ DeleteTwice(c) \/ ReturnCopy(c)
  <2>1. outside' \subseteq Accesses /\ up' \in BOOLEAN
    BY <1>0, <1>7 DEF RecvOutside, UnpackNothing, DeleteTwice, ReturnCopy, Wild, Accesses
  <2>2. QED
    BY <1>0, <1>7, <2>1, TypesKept
    DEF RecvOutside, UnpackNothing, DeleteTwice, ReturnCopy, clientvars, memvars
<1>8. CASE Unpack(c)
  <2> DEFINE block == heap[recvsec]
             bytes == [i \in 1..BodySize |-> IF i <= Len(block) THEN block[i] ELSE Garbage]
  <2>1. recvsec \in Blocks /\ block \in Seq(Cells)
    BY <1>0, <1>8 DEF Unpack, Live
  <2>2. bytes \in Seq(Cells)
    <3>1. Len(block) \in Nat /\ \A i \in 1..Len(block) : block[i] \in Cells
      BY <2>1, LenProperties, ElementOfSeq
    <3> HIDE DEF block
    <3>2. Garbage \in Cells
      BY DEF Cells
    <3>3. bytes \in [1..BodySize -> Cells]
      BY <1>1, <3>1, <3>2
    <3> HIDE DEF bytes
    <3>4. QED
      BY <1>1, <3>3, FunctionIsSeq
  <2>3. unpacked' = [unpacked EXCEPT ![c] = IF Len(@) > MaxSends[c] THEN @ ELSE Append(@, bytes)]
    BY <1>8 DEF Unpack
  <2> HIDE DEF bytes
  <2>4. unpacked[c] \in Seq(Seq(Cells)) /\ Append(unpacked[c], bytes) \in Seq(Seq(Cells))
    BY <1>0, <2>2, AppendProperties
  <2>5. unpacked' \in [Conns -> Seq(Seq(Cells))]
    BY <1>0, <2>3, <2>4
  <2>6. pc' \in [Conns -> Places]
    BY <1>0, <1>8 DEF Unpack, Goto, Places
  <2>7. outside' \subseteq Accesses /\ up' \in BOOLEAN
    BY <1>0, <1>8 DEF Unpack, Accesses
  <2>8. UNCHANGED <<forkvars, clientvars, memvars, faults>>
    BY <1>8 DEF Unpack
  <2>9. QED
    BY <1>0, <2>5, <2>6, <2>7, <2>8, TypesKept DEF clientvars, memvars
<1>9. CASE Delete(c)
  <2>1. pc' \in [Conns -> Places]
    BY <1>0, <1>9 DEF Delete, Goto, Places
  <2>2. heap' = [a \in Blocks |-> heap'[a]] /\ \A a \in Blocks : heap'[a] # Unused => heap'[a] \in Seq(Cells)
    BY <1>0, <1>9 DEF Delete
  <2>3. QED
    BY <1>0, <1>9, <2>1, <2>2, TypesKept DEF Delete, clientvars
<1>10. CASE Clear(c) \/ ReturnInPlace(c)
  <2>1. pc' \in [Conns -> Places]
    BY <1>0, <1>10 DEF Clear, ReturnInPlace, Goto, Places
  <2>2. QED
    BY <1>0, <1>10, <2>1, TypesKept DEF Clear, ReturnInPlace, clientvars, memvars
<1>11. QED
  BY <1>2, <1>3, <1>4, <1>5, <1>6, <1>7, <1>8, <1>9, <1>10 DEF ServerStep

LEMMA InitTyped == ASSUME Init PROVE Typed
<1>1. <<>> \in Seq(Nat \X Conns) /\ <<>> \in Seq(Byte) /\ <<>> \in Seq(Seq(Cells))
  OBVIOUS
<1>2. ASSUME NEW c \in Conns
      PROVE  body[c] \in Bodies[c] \cup {NoBody} /\ sent[c] \in Seq(Bodies[c])
             /\ writes[c] \in 0..MaxSends[c]
  <2>1. <<>> \in Seq(Bodies[c])
    OBVIOUS
  <2>2. 0 \in 0..MaxSends[c]
    BY BoundsAssumption
  <2>3. QED
    BY <2>1, <2>2 DEF Init
<1>3. prerecv \in [1..4 -> Byte]
  <2>1. PICK cmd \in {ACK, RECV}, size \in {0, 1} : prerecv = <<HEAD, cmd, size, END>>
    BY DEF Init
  <2>2. HEAD \in Byte /\ cmd \in Byte /\ size \in Byte /\ END \in Byte
    BY DEF HEAD, END, ACK, RECV, Byte
  <2>3. QED
    BY <2>1, <2>2
<1>4. forks \in 0..MaxStarts
  BY BoundsAssumption DEF Init
<1>5. heap = [b \in Blocks |-> heap[b]] /\ Live = {}
  BY DEF Init, Live
<1>6. QED
  BY <1>1, <1>2, <1>3, <1>4, <1>5 DEF Init, Typed, TypeOK, Cells, Places

(* Types, whatever the clients and their network do.                        *)
THEOREM TypeCorrect == Spec => []TypeOK
<1>1. Init => Typed
  BY InitTyped
<1>2. Typed /\ [Next]_vars => Typed'
  <2>1. Typed /\ UNCHANGED vars => Typed'
    BY DEF Typed, TypeOK, vars, forkvars, clientvars, memvars, Live
  <2>2. QED
    BY <2>1, ControlTyped, ForkTyped, ClientTyped, ServerTyped DEF Next
<1>3. Typed => TypeOK
  BY DEF Typed
<1>4. QED
  BY <1>1, <1>2, <1>3, PTL DEF Spec

-----------------------------------------------------------------------------
(* Memory.                                                                  *)

(* No fault that ends the process, and one connection at most.              *)
Alone ==
  /\ faults \cap {"malloc", "restart"} = {}
  /\ \A c, d \in Conns : link[c] # "none" /\ link[d] # "none" => c = d

Holding == {"body", "unpack", "delete"}

(* Between new and delete[] the one block in use is recvsec, of the size    *)
(* that is in the header; otherwise none is.                                *)
OneBlock ==
  /\ \A c \in Conns : pc[c] \in Holding =>
       /\ recvsec \in Blocks /\ Live = {recvsec}
       /\ pc[c] = "body" => Len(heap[recvsec]) = BodySize
  /\ (\A c \in Conns : pc[c] \notin Holding) => Live = {}

(* The accesses outside that a server with one connection makes; nothing    *)
(* else ends it.                                                            *)
Expected == outside \subseteq {"tail", "return"} /\ (up \/ outside # {})

(* A connection has a thread as soon as it is accepted.                     *)
Threaded == \A c \in Conns : link[c] = "none" => pc[c] = "none"

IInv ==
  /\ Typed
  /\ IsFiniteSet(Served)
  /\ Threaded
  /\ Alone => OneBlock /\ Expected

(* Nothing that matters to the memory happens.                              *)
LEMMA MemoryKept ==
  ASSUME IInv, Typed', UNCHANGED <<link, pc, memvars>>, faults \subseteq faults',
         UNCHANGED <<outside, up>> \/ ~ Alone'
  PROVE  IInv'
<1>1. Alone' => Alone
  BY DEF Alone
<1>2. Served' = Served /\ Threaded'
  BY DEF IInv, Served, Threaded
<1>3. OneBlock => OneBlock'
  BY DEF OneBlock, Live, memvars, BodySize
<1>4. Alone' /\ Expected => Expected'
  BY DEF Expected
<1>5. QED
  BY <1>1, <1>2, <1>3, <1>4 DEF IInv

LEMMA ForkMemory ==
  ASSUME IInv, NEW c \in Conns, Accept(c) \/ AcceptFails(c) \/ AcceptOnGarbage(c)
  PROVE  IInv'
<1>1. Typed'
  BY ForkTyped DEF IInv
<1>2. PICK state \in {"open", "bad"} : Serve(c, state)
  BY DEF Accept, AcceptFails, AcceptOnGarbage
<1>3. /\ link[c] = "none" /\ pc[c] = "none" /\ UNCHANGED memvars
      /\ link' = [link EXCEPT ![c] = state] /\ pc' = [pc EXCEPT ![c] = "header"]
      /\ \A d \in Conns : link'[d] = IF d = c THEN state ELSE link[d]
      /\ \A d \in Conns : pc'[d] = IF d = c THEN "header" ELSE pc[d]
  BY <1>2 DEF Serve, Goto, IInv, Threaded, Typed, TypeOK
<1>4. IsFiniteSet(Served')
  <2>1. Served' = Served \cup {c}
    BY <1>3 DEF Served
  <2>2. QED
    BY <2>1, FS_AddElement DEF IInv
<1>5. Threaded'
  BY <1>3 DEF IInv, Threaded
<1>6. faults \subseteq faults' /\ (Alone' => up' = up /\ outside' = outside)
  BY DEF Accept, AcceptFails, AcceptOnGarbage, Fault, Alone
<1>7. Alone' => Alone
  BY <1>3, <1>6 DEF Alone
<1>8. OneBlock => OneBlock'
  <2>1. (pc[c] \notin Holding) /\ (pc'[c] \notin Holding)
    BY <1>3 DEF Holding
  <2>2. \A d \in Conns : (pc'[d] \in Holding <=> pc[d] \in Holding) /\ (pc'[d] = "body" => pc[d] = "body")
    BY <1>3, <2>1
  <2>3. Live' = Live /\ BodySize' = BodySize /\ recvsec' = recvsec /\ heap' = heap
    BY <1>3 DEF Live, memvars, BodySize
  <2>4. QED
    BY <2>2, <2>3 DEF OneBlock
<1>9. QED
  BY <1>1, <1>4, <1>5, <1>6, <1>7, <1>8 DEF IInv, Expected

LEMMA OtherMemory ==
  ASSUME IInv, Start \/ \E ok \in BOOLEAN : ServerInit(ok)
  PROVE  Typed' => IInv'
<1>1. CASE Start
  <2>1. UNCHANGED <<link, pc, memvars>> /\ faults \subseteq faults' /\ (UNCHANGED <<outside, up>> \/ ~ Alone')
    BY <1>1 DEF Start, Fault, Alone, clientvars
  <2>2. QED
    BY <2>1, MemoryKept
<1>2. CASE \E ok \in BOOLEAN : ServerInit(ok)
  <2>1. UNCHANGED <<link, pc, memvars, faults, outside, up>>
    BY <1>2 DEF ServerInit, clientvars
  <2>2. QED
    BY <2>1, MemoryKept
<1>3. QED
  BY <1>1, <1>2

LEMMA ClientMemory ==
  ASSUME IInv, NEW c \in Conns, ClientStep(c)
  PROVE  IInv'
<1>1. Typed'
  BY ClientTyped DEF IInv
<1>2. CASE ClientCloses(c)
  <2>1. /\ UNCHANGED <<pc, memvars, outside, up>> /\ faults \subseteq faults' /\ link[c] = "open"
        /\ \A d \in Conns : link'[d] = IF d = c THEN "closed" ELSE link[d]
    BY <1>2 DEF ClientCloses, Fault, IInv, Typed, TypeOK
  <2>2. Served' = Served
    BY <2>1 DEF Served
  <2>3. Threaded' /\ (Alone' => Alone)
    BY <2>1 DEF IInv, Threaded, Alone
  <2>4. OneBlock => OneBlock'
    BY <2>1 DEF OneBlock, Live, memvars, BodySize
  <2>5. QED
    BY <1>1, <2>1, <2>2, <2>3, <2>4 DEF IInv, Expected
<1>3. CASE ~ ClientCloses(c)
  <2>1. UNCHANGED <<link, pc, memvars, faults, outside, up>>
    BY <1>3 DEF ClientStep, WriteHeader, WriteEmpty, WriteBody, WriteOther
  <2>2. QED
    BY <1>1, <2>1, MemoryKept
<1>4. QED
  BY <1>2, <1>3

(* While the block in use is the server's one, of the size that is in the   *)
(* header, the thread of c neither writes nor deletes outside it.           *)
LEMMA NothingAmiss ==
  ASSUME TypeOK, BodySize \in Nat, NEW c \in Conns,
         pc[c] \in Holding => recvsec \in Blocks /\ Live = {recvsec},
         pc[c] = "body" => Len(heap[recvsec]) = BodySize,
         RecvNowhere(c) \/ RecvOutside(c) \/ UnpackNothing(c) \/ DeleteTwice(c)
  PROVE  FALSE
<1>1. CASE RecvNowhere(c)
  BY <1>1, NullAssumption DEF RecvNowhere, Holding
<1>2. CASE RecvOutside(c)
  <2>1. pc[c] = "body" /\ recvsec \in Live
    BY <1>2 DEF RecvOutside, Holding
  <2>2. PICK k \in Got(c, BodySize) : k > Len(heap[recvsec])
    BY <1>2, <2>1 DEF RecvOutside
  <2>3. k <= BodySize /\ k \in Nat /\ Len(heap[recvsec]) = BodySize
    BY <2>1, GotIs
  <2>4. QED
    BY <2>2, <2>3
<1>3. CASE UnpackNothing(c) \/ DeleteTwice(c)
  BY <1>3 DEF UnpackNothing, DeleteTwice, Holding
<1>4. QED
  BY <1>1, <1>2, <1>3

(* A step of the thread of c, when it is the only one.                      *)
LEMMA ServerMemory ==
  ASSUME IInv, NEW c \in Conns, ServerStep(c)
  PROVE  IInv'
<1>1. Typed' /\ TypeOK /\ BodySize \in Nat
  <2>1. prerecv \in [1..4 -> Byte]
    BY DEF IInv, Typed, TypeOK
  <2>2. BodySize \in 0..255
    BY <2>1 DEF BodySize, Byte
  <2>3. QED
    BY <2>2, ServerTyped DEF IInv, Typed
<1>2. /\ link' = link /\ pc[c] # "none" /\ faults \subseteq faults'
      /\ \A d \in Conns \ {c} : pc'[d] = pc[d]
  BY DEF ServerStep, RecvHeader, Check, New, RecvBody, RecvNowhere, RecvOutside, Unpack,
     UnpackNothing, Delete, DeleteTwice, Clear, ReturnInPlace, ReturnCopy, Goto, clientvars,
     Taken, Fault, IInv, Typed, TypeOK
<1>3. IsFiniteSet(Served')
  BY <1>2 DEF Served, IInv
<1>4. link[c] # "none" /\ Threaded'
  BY <1>2 DEF IInv, Threaded
<1>5. ASSUME Alone' PROVE OneBlock' /\ Expected'
  <2>1. /\ Alone /\ OneBlock /\ Expected
        /\ \A d \in Conns \ {c} : link[d] = "none" /\ pc[d] = "none" /\ pc'[d] = "none"
    BY <1>2, <1>4, <1>5 DEF Alone, IInv, Threaded
  <2>2. UNCHANGED <<outside, up>> => Expected'
    BY <2>1 DEF Expected
  <2>3. /\ pc[c] \in Holding => recvsec \in Blocks /\ Live = {recvsec}
        /\ pc[c] = "body" => Len(heap[recvsec]) = BodySize
        /\ pc[c] \notin Holding => Live = {}
    BY <2>1 DEF OneBlock, Holding
  <2>4. ASSUME pc'[c] \in Holding =>
                 /\ recvsec' \in Blocks /\ Live' = {recvsec'}
                 /\ pc'[c] = "body" => Len(heap'[recvsec']) = BodySize',
               pc'[c] \notin Holding => Live' = {}
        PROVE  OneBlock'
    BY <2>1, <2>4 DEF OneBlock, Holding
  <2>5. pc \in [Conns -> Places] /\ heap = [b \in Blocks |-> heap[b]] /\ recvsec \in Blocks \cup {Null}
    BY DEF IInv, Typed, TypeOK, Places
  <2>6. CASE RecvHeader(c)
    <3>1. pc[c] = "header" /\ pc' = [pc EXCEPT ![c] = "check"] /\ heap' = heap /\ UNCHANGED <<outside, up>>
      BY <2>6 DEF RecvHeader, Goto, Places
    <3>2. pc'[c] \notin Holding /\ Live' = {}
      BY <2>3, <2>5, <3>1 DEF Holding, Live
    <3>3. QED
      BY <2>2, <2>4, <3>1, <3>2
  <2>7. CASE Check(c)
    <3>1. pc[c] = "check" /\ pc'[c] \in {"new", "header"} /\ heap' = heap /\ UNCHANGED <<outside, up>>
      BY <2>5, <2>7 DEF Check, Goto, memvars
    <3>2. pc'[c] \notin Holding /\ Live' = {}
      BY <2>3, <3>1 DEF Holding, Live
    <3>3. QED
      BY <2>2, <2>4, <3>1, <3>2
  <2>8. CASE New(c)
    <3>1. PICK b \in Blocks \ Live : recvsec' = b /\ heap' = [heap EXCEPT ![b] = NewBlock]
      BY <2>8 DEF New
    <3>2. pc[c] = "new" /\ pc'[c] = "body" /\ UNCHANGED <<outside, up>> /\ prerecv' = prerecv
      BY <2>5, <2>8 DEF New, Goto
    <3>3. NewBlock \in [1..BodySize -> Cells] /\ NewBlock \in Seq(Cells) /\ Len(NewBlock) = BodySize
      <4>1. NewBlock \in [1..BodySize -> Cells]
        BY DEF NewBlock, Cells
      <4>2. QED
        BY <1>1, <4>1, FunctionIsSeq
    <3>4. NewBlock # Unused
      BY <3>3, NullAssumption DEF Unused, Cells
    <3>5. Live' = {b}
      <4>1. Live = {}
        BY <2>3, <3>2 DEF Holding
      <4>2. \A a \in Blocks : heap'[a] # Unused <=> a = b
        BY <2>5, <3>1, <3>4, <4>1 DEF Live
      <4>3. QED
        BY <3>1, <4>2 DEF Live
    <3>6. Len(heap'[recvsec']) = BodySize'
      BY <2>5, <3>1, <3>2, <3>3 DEF BodySize
    <3>7. QED
      BY <2>2, <2>4, <3>1, <3>2, <3>5, <3>6 DEF Holding
  <2>9. CASE RecvBody(c)
    <3>1. PICK k \in Got(c, BodySize) : /\ k <= Len(heap[recvsec])
                                        /\ heap' = [heap EXCEPT ![recvsec] = Filled(@, c, k)]
      BY <2>9 DEF RecvBody
    <3>2. /\ pc[c] = "body" /\ pc'[c] = "unpack" /\ UNCHANGED <<outside, up, recvsec>>
          /\ recvsec \in Live
      BY <2>5, <2>9 DEF RecvBody, Goto
    <3>3. recvsec \in Blocks /\ heap[recvsec] \in Seq(Cells)
      BY <1>1, <3>2 DEF TypeOK, Live, Cells
    <3>4. k \in Nat /\ k <= Len(net[c])
      BY <1>1, GotIs
    <3>5. Filled(heap[recvsec], c, k) \in Seq(Cells)
      BY <1>1, <3>1, <3>3, <3>4, FilledIs DEF Cells
    <3>6. Filled(heap[recvsec], c, k) # Unused
      <4>1. Unused \notin Seq(Cells)
        <5>1. ASSUME Unused \in Seq(Cells) PROVE FALSE
          <6>1. Len(Unused) = 1 /\ Unused[1] = Null
            BY DEF Unused
          <6>2. Null \in Cells
            BY <5>1, <6>1, ElementOfSeq
          <6>3. QED
            BY <6>2, NullAssumption DEF Cells
        <5>2. QED
          BY <5>1
      <4>2. QED
        BY <3>5, <4>1
    <3>7. Live' = Live
      BY <2>5, <3>1, <3>2, <3>3, <3>6 DEF Live
    <3>8. QED
      BY <2>2, <2>3, <2>4, <3>2, <3>7 DEF Holding
  <2>10. CASE RecvNowhere(c) \/ RecvOutside(c) \/ UnpackNothing(c) \/ DeleteTwice(c)
    BY <1>1, <2>3, <2>10, NothingAmiss
  <2>11. CASE Unpack(c)
    <3>1. pc[c] = "unpack" /\ pc'[c] = "delete" /\ recvsec' = recvsec /\ heap' = heap
      BY <2>5, <2>11 DEF Unpack, Goto, memvars
    <3>2. Live' = Live
      BY <3>1 DEF Live
    <3>3. Expected'
      BY <2>1, <2>11 DEF Unpack, Expected
    <3>4. QED
      BY <2>3, <2>4, <3>1, <3>2, <3>3 DEF Holding
  <2>12. CASE Delete(c)
    <3>1. /\ pc[c] = "delete" /\ pc'[c] = "clear" /\ UNCHANGED <<outside, up>>
          /\ heap' = [b \in Blocks |-> IF b = recvsec THEN Unused ELSE heap[b]]
      BY <2>5, <2>12 DEF Delete, Goto
    <3>2. Live' = {}
      BY <2>3, <3>1 DEF Live, Holding
    <3>3. QED
      BY <2>2, <2>4, <3>1, <3>2 DEF Holding
  <2>13. CASE Clear(c)
    <3>1. pc[c] = "clear" /\ pc'[c] = "return" /\ heap' = heap /\ UNCHANGED <<outside, up>>
      BY <2>5, <2>13 DEF Clear, Goto
    <3>2. Live' = {}
      BY <2>3, <3>1 DEF Live, Holding
    <3>3. QED
      BY <2>2, <2>4, <3>1, <3>2 DEF Holding
  <2>14. CASE ReturnInPlace(c)
    <3>1. pc[c] = "return" /\ pc'[c] = "header" /\ heap' = heap /\ UNCHANGED <<outside, up>>
      BY <2>5, <2>14 DEF ReturnInPlace, Goto, memvars
    <3>2. Live' = {}
      BY <2>3, <3>1 DEF Live, Holding
    <3>3. QED
      BY <2>2, <2>4, <3>1, <3>2 DEF Holding
  <2>15. CASE ReturnCopy(c)
    <3>1. pc[c] = "return" /\ UNCHANGED <<pc, memvars>>
      BY <2>15 DEF ReturnCopy
    <3>2. OneBlock'
      BY <2>1, <3>1 DEF OneBlock, Live, memvars, BodySize
    <3>3. Expected'
      BY <2>1, <2>15 DEF ReturnCopy, Wild, Expected
    <3>4. QED
      BY <3>2, <3>3
  <2>16. QED
    BY <2>6, <2>7, <2>8, <2>9, <2>10, <2>11, <2>12, <2>13, <2>14, <2>15 DEF ServerStep
<1>6. QED
  BY <1>1, <1>3, <1>4, <1>5 DEF IInv

(* IInv holds of every state.                                               *)
THEOREM Invariant == Spec => []IInv
<1>1. ASSUME Init PROVE IInv
  <2>1. Served = {} /\ Threaded /\ Expected
    BY <1>1 DEF Init, Served, Threaded, Expected
  <2>2. OneBlock
    BY <1>1 DEF Init, OneBlock, Holding, Live
  <2>3. QED
    BY <1>1, <2>1, <2>2, InitTyped, FS_EmptySet DEF IInv
<1>2. IInv /\ [Next]_vars => IInv'
  <2>1. ASSUME IInv, UNCHANGED vars PROVE IInv'
    <3>1. Typed'
      BY <2>1 DEF IInv, Typed, TypeOK, vars, forkvars, clientvars, memvars, Live
    <3>2. UNCHANGED <<link, pc, memvars, faults, outside, up>>
      BY <2>1 DEF vars, clientvars
    <3>3. QED
      BY <2>1, <3>1, <3>2, MemoryKept
  <2>2. ASSUME IInv, Start \/ \E ok \in BOOLEAN : ServerInit(ok) PROVE IInv'
    <3>1. Typed'
      BY <2>2, ControlTyped DEF IInv
    <3>2. QED
      BY <2>2, <3>1, OtherMemory
  <2>3. QED
    BY <2>1, <2>2, ForkMemory, ClientMemory, ServerMemory DEF Next
<1>3. QED
  BY <1>1, <1>2, PTL DEF Spec

(* What the properties say of the number of connections.                    *)
LEMMA OneIsAlone ==
  ASSUME IsFiniteSet(Served), faults \cap {"malloc", "restart"} = {}, Cardinality(Served) <= 1
  PROVE  Alone
<1>1. ASSUME NEW c \in Served, NEW d \in Served, c # d PROVE FALSE
  <2>1. IsFiniteSet({c}) /\ Cardinality({c}) = 1
    BY FS_Singleton
  <2>2. IsFiniteSet({c} \cup {d}) /\ Cardinality({c} \cup {d}) = 2
    <3>1. d \notin {c}
      BY <1>1
    <3>2. IsFiniteSet({c} \cup {d}) /\ Cardinality({c} \cup {d}) = Cardinality({c}) + 1
      BY <2>1, <3>1, FS_AddElement
    <3>3. QED
      BY <2>1, <3>2
  <2>3. {c} \cup {d} \in SUBSET Served
    OBVIOUS
  <2>4. Cardinality({c} \cup {d}) <= Cardinality(Served) /\ Cardinality(Served) \in Nat
    BY <2>3, FS_Subset, FS_CardinalityType
  <2>5. QED
    BY <2>2, <2>4
<1>2. QED
  BY <1>1 DEF Alone, Served

(* With one connection, whatever the client sends, leaves out or closes:    *)
(* nothing is accessed outside but what unpack() reads behind the block and *)
(* the header of a returned copy, and nothing else ends the server; no      *)
(* block of a body is deleted twice, and none is lost.                      *)
THEOREM MemorySafeAloneCorrect == Spec => []MemorySafeAlone
<1>1. ASSUME IInv PROVE MemorySafeAlone
  <2>1. faults \cap {"malloc", "restart"} = {} /\ Cardinality(Served) <= 1 => Alone
    BY <1>1, OneIsAlone DEF IInv
  <2>2. ASSUME Alone
        PROVE  Expected /\ Live = IF \E c \in Conns : pc[c] \in {"body", "unpack", "delete"}
                                 THEN {recvsec} ELSE {}
    BY <1>1, <2>2 DEF IInv, OneBlock, Holding
  <2>3. QED
    BY <2>1, <2>2 DEF MemorySafeAlone, Expected
<1>2. QED
  BY <1>1, Invariant, PTL

-----------------------------------------------------------------------------
(* The stream.                                                              *)

(* From a bytes read, d bodies read and a body of o bytes owed to a2, d2    *)
(* and o2: a header, or a body.                                             *)
Part(s, snt, a, d, o, a2, d2, o2) ==
  \/ /\ o = 0 /\ a2 = a + 4
     /\ IF s[a + 1] = HEAD /\ s[a + 4] = END /\ s[a + 2] = RECV
        THEN /\ o2 = s[a + 3]
             /\ IF o2 = 0 THEN d2 = d + 1 /\ snt[d2] = <<>> ELSE d2 = d
        ELSE o2 = 0 /\ d2 = d
  \/ /\ o > 0 /\ a2 = a + o /\ d2 = d + 1 /\ o2 = 0
     /\ Len(snt[d2]) = o /\ \A i \in 1..o : s[a + i] = snt[d2][i]

(* The bytes s take a reader who has read d bodies and is owed one of o     *)
(* bytes to the last body of snt, with one of owed bytes to come: there are *)
(* n parts, and at, done and due say where each begins.                     *)
Splits(s, snt, owed, d, o, n, at, done, due) ==
  /\ at \in [0..n -> 0..Len(s)] /\ done \in [0..n -> 0..Len(snt)] /\ due \in [0..n -> Byte]
  /\ at[0] = 0 /\ done[0] = d /\ due[0] = o
  /\ at[n] = Len(s) /\ done[n] = Len(snt) /\ due[n] = owed
  /\ \A i \in 0..n : \A j \in 0..i : at[j] <= at[i]
  /\ \A i \in 0..(n - 1) : Part(s, snt, at[i], done[i], due[i], at[i + 1], done[i + 1], due[i + 1])

Reads(s, snt, owed, d, o) ==
  \E n \in Nat : \E at, done, due : Splits(s, snt, owed, d, o, n, at, done, due)

(* A part stays one when more is written.                                   *)
LEMMA PartKept ==
  ASSUME NEW s \in Seq(Byte), NEW more \in Seq(Byte), NEW snt \in Seq(Seq(Byte)), NEW snt2,
         \A i \in 1..Len(snt) : snt2[i] = snt[i],
         NEW a \in 0..Len(s), NEW d \in 0..Len(snt), NEW o \in Byte,
         NEW a2 \in 0..Len(s), NEW d2 \in 0..Len(snt), NEW o2 \in Byte,
         Part(s, snt, a, d, o, a2, d2, o2)
  PROVE  Part(s \o more, snt2, a, d, o, a2, d2, o2)
<1> DEFINE t == s \o more
<1>1. Len(s) \in Nat /\ Len(snt) \in Nat
  BY LenProperties
<1>2. o \in 0..255 /\ a \in Nat /\ a2 <= Len(s)
  BY <1>1 DEF Byte
<1>3. ASSUME NEW i \in Nat, i >= 1, a + i <= a2 PROVE t[a + i] = s[a + i]
  <2>1. a + i \in 1..Len(s)
    BY <1>1, <1>2, <1>3
  <2>2. a + i \in 1..(Len(s) + Len(more)) /\ a + i <= Len(s)
    BY <1>1, <2>1, LenProperties
  <2>3. QED
    BY <2>2, ConcatProperties
<1>4. d2 = d + 1 => snt2[d2] = snt[d2]
  BY <1>1
<1> HIDE DEF t
<1>5. CASE o = 0
  <2>1. a2 = a + 4
    BY <1>5 DEF Part
  <2>2. t[a + 1] = s[a + 1] /\ t[a + 2] = s[a + 2] /\ t[a + 3] = s[a + 3] /\ t[a + 4] = s[a + 4]
    <3>1. \A i \in 1..4 : i \in Nat /\ i >= 1 /\ a + i <= a2
      BY <1>2, <2>1
    <3>2. \A i \in 1..4 : t[a + i] = s[a + i]
      BY <1>3, <3>1
    <3>3. QED
      BY <3>2
  <2>3. CASE s[a + 1] = HEAD /\ s[a + 4] = END /\ s[a + 2] = RECV
    <3>1. o2 = s[a + 3] /\ IF o2 = 0 THEN d2 = d + 1 /\ snt[d2] = <<>> ELSE d2 = d
      BY <1>5, <2>3 DEF Part
    <3>2. Part(t, snt2, a, d, o, a2, d2, o2)
      BY <1>4, <1>5, <2>1, <2>2, <2>3, <3>1 DEF Part
    <3>3. QED
      BY <3>2 DEF t
  <2>4. CASE ~ (s[a + 1] = HEAD /\ s[a + 4] = END /\ s[a + 2] = RECV)
    <3>1. o2 = 0 /\ d2 = d
      BY <1>5, <2>4 DEF Part
    <3>2. Part(t, snt2, a, d, o, a2, d2, o2)
      BY <1>5, <2>1, <2>2, <2>4, <3>1 DEF Part
    <3>3. QED
      BY <3>2 DEF t
  <2>5. QED
    BY <2>3, <2>4
<1>6. CASE o > 0
  <2>0. o # 0
    BY <1>2, <1>6
  <2>1. /\ a2 = a + o /\ d2 = d + 1 /\ o2 = 0 /\ Len(snt[d2]) = o
        /\ \A i \in 1..o : s[a + i] = snt[d2][i]
    BY <2>0, Zenon DEF Part
  <2>2. \A i \in 1..o : i \in Nat /\ i >= 1 /\ a + i <= a2
    BY <1>2, <2>1
  <2>3. \A i \in 1..o : t[a + i] = snt2[d2][i]
    BY <1>3, <1>4, <2>1, <2>2
  <2>4. Part(t, snt2, a, d, o, a2, d2, o2)
    BY <1>4, <1>6, <2>1, <2>3 DEF Part
  <2>5. QED
    BY <2>4 DEF t
<1>7. o = 0 \/ o > 0
  BY <1>2
<1>8. QED
  BY <1>5, <1>6, <1>7

(* One more part at the end.                                                *)
LEMMA ReadsMore ==
  ASSUME NEW s \in Seq(Byte), NEW more \in Seq(Byte),
         NEW snt \in Seq(Seq(Byte)), NEW snt2 \in Seq(Seq(Byte)),
         Len(snt) <= Len(snt2), \A i \in 1..Len(snt) : snt2[i] = snt[i],
         NEW owed, NEW owed2 \in Byte, NEW d, NEW o,
         Reads(s, snt, owed, d, o),
         Part(s \o more, snt2, Len(s), Len(snt), owed, Len(s \o more), Len(snt2), owed2)
  PROVE  Reads(s \o more, snt2, owed2, d, o)
<1>0. PICK n \in Nat : \E at, done, due : Splits(s, snt, owed, d, o, n, at, done, due)
  BY DEF Reads
<1>1. PICK at, done, due : Splits(s, snt, owed, d, o, n, at, done, due)
  BY <1>0
<1> DEFINE t == s \o more
           at2 == [i \in 0..(n + 1) |-> IF i <= n THEN at[i] ELSE Len(t)]
           done2 == [i \in 0..(n + 1) |-> IF i <= n THEN done[i] ELSE Len(snt2)]
           due2 == [i \in 0..(n + 1) |-> IF i <= n THEN due[i] ELSE owed2]
<1>2. /\ Len(s) \in Nat /\ Len(snt) \in Nat /\ Len(snt2) \in Nat /\ Len(t) \in Nat
      /\ Len(s) <= Len(t) /\ n + 1 \in Nat
  <2>1. Len(t) = Len(s) + Len(more)
    BY ConcatProperties
  <2>2. QED
    BY <2>1, LenProperties
<1>3. /\ \A i \in 0..n : at[i] \in 0..Len(s) /\ done[i] \in 0..Len(snt) /\ due[i] \in Byte
      /\ at[n] = Len(s) /\ done[n] = Len(snt) /\ due[n] = owed
  BY <1>1 DEF Splits
<1>4. at2 \in [0..(n + 1) -> 0..Len(t)] /\ done2 \in [0..(n + 1) -> 0..Len(snt2)]
      /\ due2 \in [0..(n + 1) -> Byte]
  <2>1. \A i \in 0..(n + 1) : i <= n => i \in 0..n
    OBVIOUS
  <2>2. \A i \in 0..(n + 1) : (IF i <= n THEN at[i] ELSE Len(t)) \in 0..Len(t)
    BY <1>2, <1>3, <2>1
  <2>3. \A i \in 0..(n + 1) : (IF i <= n THEN done[i] ELSE Len(snt2)) \in 0..Len(snt2)
    BY <1>2, <1>3, <2>1
  <2>4. \A i \in 0..(n + 1) : (IF i <= n THEN due[i] ELSE owed2) \in Byte
    BY <1>3, <2>1
  <2>5. QED
    BY <2>2, <2>3, <2>4
<1>5. /\ at2[0] = 0 /\ done2[0] = d /\ due2[0] = o
      /\ at2[n + 1] = Len(t) /\ done2[n + 1] = Len(snt2) /\ due2[n + 1] = owed2
  BY <1>1, <1>2 DEF Splits
<1>6. \A i \in 0..(n + 1) : \A j \in 0..i : at2[j] <= at2[i]
  <2>1. ASSUME NEW i \in 0..(n + 1), NEW j \in 0..i PROVE at2[j] <= at2[i]
    <3>1. j \in 0..(n + 1) /\ at2[j] \in 0..Len(t)
      BY <1>4
    <3>2. CASE i <= n
      BY <1>1, <3>1, <3>2 DEF Splits
    <3>3. CASE i > n
      <4>1. at2[i] = Len(t)
        BY <3>3
      <4>2. QED
        BY <1>2, <3>1, <4>1
    <3>4. QED
      BY <3>2, <3>3
  <2>2. QED
    BY <2>1
<1>7. ASSUME NEW i \in 0..n
      PROVE  Part(t, snt2, at2[i], done2[i], due2[i], at2[i + 1], done2[i + 1], due2[i + 1])
  <2>1. at2[i] = at[i] /\ done2[i] = done[i] /\ due2[i] = due[i]
    OBVIOUS
  <2>2. CASE i = n
    BY <1>3, <1>5, <2>1, <2>2
  <2>3. CASE i # n
    <3>1. i \in 0..(n - 1) /\ i + 1 \in 0..n
      BY <2>3
    <3>2. at2[i + 1] = at[i + 1] /\ done2[i + 1] = done[i + 1] /\ due2[i + 1] = due[i + 1]
      BY <3>1
    <3>3. Part(s, snt, at[i], done[i], due[i], at[i + 1], done[i + 1], due[i + 1])
      BY <1>1, <3>1 DEF Splits
    <3>4. Part(t, snt2, at[i], done[i], due[i], at[i + 1], done[i + 1], due[i + 1])
      BY <1>3, <3>1, <3>3, PartKept
    <3>5. QED
      BY <2>1, <3>2, <3>4
  <2>4. QED
    BY <2>2, <2>3
<1>8. (n + 1) - 1 = n
  OBVIOUS
<1> HIDE DEF at2, done2, due2, t
<1>9. Splits(t, snt2, owed2, d, o, n + 1, at2, done2, due2)
  BY <1>4, <1>5, <1>6, <1>7, <1>8 DEF Splits
<1>10. Reads(t, snt2, owed2, d, o)
  BY <1>2, <1>9 DEF Reads
<1>11. QED
  BY <1>10 DEF t

(* The first part is read.                                                  *)
LEMMA ReadsFirst ==
  ASSUME NEW s \in Seq(Byte), Len(s) > 0, NEW snt \in Seq(Seq(Byte)), NEW owed, NEW d, NEW o,
         Reads(s, snt, owed, d, o)
  PROVE  \E a \in 1..Len(s), d2 \in 0..Len(snt), o2 \in Byte :
           /\ Part(s, snt, 0, d, o, a, d2, o2)
           /\ Reads(SubSeq(s, a + 1, Len(s)), snt, owed, d2, o2)
<1>0. PICK n \in Nat : \E at, done, due : Splits(s, snt, owed, d, o, n, at, done, due)
  BY DEF Reads
<1>1. PICK at, done, due : Splits(s, snt, owed, d, o, n, at, done, due)
  BY <1>0
<1>2. Len(s) \in Nat /\ Len(snt) \in Nat
  BY LenProperties
<1>3. n >= 1
  <2>1. n # 0
    BY <1>1 DEF Splits
  <2>2. QED
    BY <2>1
<1> DEFINE a == at[1]
           t == SubSeq(s, a + 1, Len(s))
           m == n - 1
           at2 == [i \in 0..m |-> at[i + 1] - a]
           done2 == [i \in 0..m |-> done[i + 1]]
           due2 == [i \in 0..m |-> due[i + 1]]
<1>4. /\ \A i \in 0..n : at[i] \in 0..Len(s) /\ done[i] \in 0..Len(snt) /\ due[i] \in Byte
      /\ at[0] = 0 /\ done[0] = d /\ due[0] = o
      /\ \A i \in 0..(n - 1) : Part(s, snt, at[i], done[i], due[i], at[i + 1], done[i + 1], due[i + 1])
      /\ \A i \in 0..n : \A j \in 0..i : at[j] <= at[i]
  BY <1>1 DEF Splits
<1>5. Part(s, snt, 0, d, o, a, done[1], due[1])
  <2>1. 0 \in 0..(n - 1) /\ 0 + 1 = 1
    BY <1>3
  <2>2. QED
    BY <1>4, <2>1
<1>6. a \in 1..Len(s) /\ done[1] \in 0..Len(snt) /\ due[1] \in Byte /\ o \in Byte
  <2>1. at[1] \in 0..Len(s) /\ done[1] \in 0..Len(snt) /\ due[1] \in Byte /\ o \in Byte
    BY <1>3, <1>4
  <2>2. a # 0
    BY <1>5, <2>1 DEF Part, Byte
  <2>3. QED
    BY <1>2, <2>1, <2>2
<1>7. /\ t \in Seq(Byte) /\ Len(t) = Len(s) - a
      /\ \A i \in 1..Len(t) : t[i] = s[a + i]
  <2>1. a + 1 \in Nat /\ a + 1 >= 1 /\ a + 1 \in Int /\ Len(s) \in Int
    BY <1>2, <1>6
  <2>2. t \in Seq(Byte) /\ Len(t) = IF a + 1 <= Len(s) THEN Len(s) - (a + 1) + 1 ELSE 0
    BY <1>2, <2>1, PartIs
  <2>3. Len(t) = Len(s) - a
    BY <1>2, <1>6, <2>2
  <2>4. \A i \in (a + 1)..Len(s) : s[i] \in Byte
    BY <1>2, <1>6, ElementOfSeq
  <2>5. \A i \in 1..(Len(s) - (a + 1) + 1) : SubSeq(s, a + 1, Len(s))[i] = s[(a + 1) + i - 1]
    BY <2>1, <2>4, SubSeqProperties
  <2>6. ASSUME NEW i \in 1..(Len(s) - a) PROVE t[i] = s[a + i]
    <3>1. i \in 1..(Len(s) - (a + 1) + 1) /\ (a + 1) + i - 1 = a + i
      BY <1>2, <1>6
    <3>2. QED
      BY <2>5, <3>1
  <2>7. QED
    BY <2>2, <2>3, <2>6
<1> HIDE DEF a, t
<1>8. /\ at2 \in [0..m -> 0..Len(t)] /\ done2 \in [0..m -> 0..Len(snt)] /\ due2 \in [0..m -> Byte]
  <2>1. ASSUME NEW i \in 0..m
        PROVE  at[i + 1] - a \in 0..Len(t) /\ done[i + 1] \in 0..Len(snt) /\ due[i + 1] \in Byte
    <3>1. i + 1 \in 0..n /\ 1 \in 0..(i + 1)
      BY <1>3
    <3>2. at[i + 1] \in 0..Len(s) /\ a <= at[i + 1] /\ done[i + 1] \in 0..Len(snt)
          /\ due[i + 1] \in Byte
      BY <1>4, <3>1 DEF a
    <3>3. QED
      BY <1>2, <1>6, <1>7, <3>2
  <2>2. QED
    BY <2>1
<1>9. /\ at2[0] = 0 /\ done2[0] = done[1] /\ due2[0] = due[1]
      /\ at2[m] = Len(t) /\ done2[m] = Len(snt) /\ due2[m] = owed /\ m \in Nat
  <2>1. m \in Nat /\ 0 \in 0..m /\ m \in 0..m /\ m + 1 = n /\ 0 + 1 = 1
    BY <1>3
  <2>2. a - a = 0 /\ at[1] = a
    BY <1>6 DEF a
  <2>3. at[n] = Len(s) /\ done[n] = Len(snt) /\ due[n] = owed
    BY <1>1 DEF Splits
  <2>4. QED
    BY <1>7, <2>1, <2>2, <2>3
<1>10. ASSUME NEW i \in 0..m, NEW j \in 0..i PROVE at2[j] <= at2[i]
  <2>1. i + 1 \in 0..n /\ j + 1 \in 0..(i + 1) /\ j \in 0..m /\ j + 1 \in 0..n
    BY <1>3
  <2>2. at[j + 1] <= at[i + 1] /\ at[j + 1] \in Int /\ at[i + 1] \in Int /\ a \in Int
    BY <1>4, <1>6, <2>1
  <2>3. QED
    BY <2>1, <2>2
<1>11. ASSUME NEW i \in 0..(m - 1)
       PROVE  Part(t, snt, at2[i], done2[i], due2[i], at2[i + 1], done2[i + 1], due2[i + 1])
  <2> DEFINE x == at[i + 1]  y == at[i + 1 + 1]
             e == done[i + 1]  e2 == done[i + 1 + 1]
             p == due[i + 1]  p2 == due[i + 1 + 1]
  <2>1. /\ at2[i] = x - a /\ done2[i] = e /\ due2[i] = p
        /\ at2[i + 1] = y - a /\ done2[i + 1] = e2 /\ due2[i + 1] = p2
    <3>1. i \in 0..m /\ i + 1 \in 0..m
      BY <1>3
    <3>2. QED
      BY <3>1
  <2>2. x \in a..Len(s) /\ y \in a..Len(s) /\ e \in 0..Len(snt) /\ e2 \in 0..Len(snt) /\ p \in Byte
    <3>1. i + 1 \in 0..n /\ i + 1 + 1 \in 0..n /\ 1 \in 0..(i + 1) /\ 1 \in 0..(i + 1 + 1)
      BY <1>3
    <3>2. a <= x /\ a <= y
      BY <1>4, <3>1 DEF a
    <3>3. QED
      BY <1>2, <1>4, <1>6, <3>1, <3>2
  <2>3. Part(s, snt, x, e, p, y, e2, p2)
    <3>1. i + 1 \in 0..(n - 1)
      BY <1>3
    <3>2. QED
      BY <1>4, <3>1
  <2>0. Len(t) \in Nat /\ Len(t) = Len(s) - a /\ a \in Nat /\ Len(s) \in Nat
    BY <1>2, <1>6, <1>7
  <2> HIDE DEF x, y, e, e2, p, p2
  <2>4. CASE p = 0
    <3>1. y = x + 4
      BY <2>2, <2>3, <2>4 DEF Part
    <3>2. \A k \in 1..4 : (x - a) + k \in 1..Len(t) /\ a + ((x - a) + k) = x + k
      BY <2>0, <2>2, <3>1
    <3>3. \A k \in 1..4 : t[(x - a) + k] = s[x + k]
      BY <1>7, <3>2
    <3>4. /\ t[(x - a) + 1] = s[x + 1] /\ t[(x - a) + 2] = s[x + 2] /\ t[(x - a) + 3] = s[x + 3]
          /\ t[(x - a) + 4] = s[x + 4] /\ y - a = (x - a) + 4
      BY <1>6, <2>2, <3>1, <3>3
    <3>5. Part(t, snt, x - a, e, p, y - a, e2, p2)
      BY <2>3, <2>4, <3>4 DEF Part
    <3>6. QED
      BY <2>1, <3>5
  <2>5. CASE p > 0
    <3>1. y = x + p /\ p \in Nat
      BY <2>2, <2>3, <2>5 DEF Part, Byte
    <3>2. \A k \in 1..p : (x - a) + k \in 1..Len(t) /\ a + ((x - a) + k) = x + k
      BY <2>0, <2>2, <3>1
    <3>3. \A k \in 1..p : t[(x - a) + k] = s[x + k]
      BY <1>7, <3>2
    <3>4. y - a = (x - a) + p
      BY <1>6, <2>2, <3>1
    <3>5. Part(t, snt, x - a, e, p, y - a, e2, p2)
      BY <2>3, <2>5, <3>1, <3>3, <3>4 DEF Part
    <3>6. QED
      BY <2>1, <3>5
  <2>6. p \in 0..255
    BY <2>2 DEF Byte
  <2>7. QED
    BY <2>4, <2>5, <2>6
<1> HIDE DEF at2, done2, due2, m
<1>12. Splits(t, snt, owed, done[1], due[1], m, at2, done2, due2)
  BY <1>8, <1>9, <1>10, <1>11 DEF Splits
<1>13. Reads(t, snt, owed, done[1], due[1])
  BY <1>9, <1>12 DEF Reads
<1>14. QED
  BY <1>5, <1>6, <1>13 DEF t

LEMMA ReadsIs ==
  ASSUME NEW s, NEW snt, NEW owed, NEW d, NEW o, Reads(s, snt, owed, d, o)
  PROVE  d \in 0..Len(snt) /\ o \in Byte
BY DEF Reads, Splits

-----------------------------------------------------------------------------
(* The server reads what its client has written.                            *)

Owed(c) == IF body[c] = NoBody THEN 0 ELSE Len(body[c])

Ahead(c, d, o) == Reads(net[c], sent[c], Owed(c), d, o)

Read(c) == Len(unpacked[c])

(* The header has asked for the next body.                                  *)
Asked(c) ==
  IF BodySize = 0
  THEN Read(c) < Len(sent[c]) /\ sent[c][Read(c) + 1] = <<>> /\ Ahead(c, Read(c) + 1, 0)
  ELSE Ahead(c, Read(c), BodySize)

Understood(c) ==
  /\ link[c] \in {"none", "open"} /\ body[c] # <<>> /\ Len(sent[c]) <= writes[c]
  /\ Read(c) <= Len(sent[c])
  /\ \A i \in 1..Read(c) : unpacked[c][i] = sent[c][i]
  /\ pc[c] \in {"none", "header", "delete", "clear", "return"} => Ahead(c, Read(c), 0)
  /\ pc[c] = "check" => IF AsksForBody THEN Asked(c) ELSE Ahead(c, Read(c), 0)
  /\ pc[c] \in {"new", "body"} => Asked(c)
  /\ pc[c] = "unpack" =>
       /\ Read(c) < Len(sent[c]) /\ heap[recvsec] = sent[c][Read(c) + 1]
       /\ BodySize = Len(sent[c][Read(c) + 1]) /\ Ahead(c, Read(c) + 1, 0)

AllUnderstood == Alone /\ faults = {} => \A c \in Conns : Understood(c)

LEMMA WrittenIs ==
  ASSUME TypeOK, NEW c \in Conns
  PROVE  /\ net[c] \in Seq(Byte) /\ sent[c] \in Seq(Seq(Byte)) /\ Owed(c) \in Byte
         /\ writes[c] \in Nat /\ Len(sent[c]) \in Nat
         /\ body[c] # NoBody => body[c] \in Bodies[c] /\ body[c] \in Seq(Byte)
<1>1. net[c] \in Seq(Byte) /\ sent[c] \in Seq(Bodies[c]) /\ body[c] \in Bodies[c] \cup {NoBody}
      /\ writes[c] \in 0..MaxSends[c] /\ MaxSends[c] \in Nat
  BY BoundsAssumption DEF TypeOK
<1>2. Bodies[c] \subseteq Seq(Byte) /\ \A b \in Bodies[c] : Len(b) \in Byte
  BY BodiesAssumption
<1>3. sent[c] \in Seq(Seq(Byte)) /\ Len(sent[c]) \in Nat
  BY <1>1, <1>2, SeqMonotonic, LenProperties
<1>4. Owed(c) \in Byte
  <2>1. 0 \in Byte
    BY DEF Byte
  <2>2. QED
    BY <1>1, <1>2, <2>1 DEF Owed
<1>5. QED
  BY <1>1, <1>2, <1>3, <1>4

(* Every write is one part more.                                            *)
LEMMA WriteReads ==
  ASSUME Typed, NEW c \in Conns, ClientStep(c), ~ ClientCloses(c),
         body[c] # <<>>, Len(sent[c]) <= writes[c]
  PROVE  /\ \A d, o : Reads(net[c], sent[c], Owed(c), d, o) =>
                        Reads(net'[c], sent'[c], Owed(c)', d, o)
         /\ Len(sent[c]) <= Len(sent'[c]) /\ \A i \in 1..Len(sent[c]) : sent'[c][i] = sent[c][i]
         /\ body'[c] # <<>> /\ Len(sent'[c]) <= writes'[c]
<1> DEFINE Kept ==
             /\ \A d, o : Reads(net[c], sent[c], Owed(c), d, o) =>
                          Reads(net'[c], sent'[c], Owed(c)', d, o)
             /\ Len(sent[c]) <= Len(sent'[c])
             /\ \A i \in 1..Len(sent[c]) : sent'[c][i] = sent[c][i]
             /\ body'[c] # <<>> /\ Len(sent'[c]) <= writes'[c]
<1> SUFFICES Kept
  OBVIOUS
<1>0. /\ TypeOK /\ net[c] \in Seq(Byte) /\ sent[c] \in Seq(Seq(Byte)) /\ Owed(c) \in Byte
      /\ writes[c] \in Nat /\ Len(sent[c]) \in Nat /\ Len(net[c]) \in Nat
      /\ body[c] # NoBody => body[c] \in Bodies[c] /\ body[c] \in Seq(Byte)
      /\ net \in [Conns -> Seq(Byte)] /\ body = [e \in Conns |-> body[e]]
      /\ sent = [e \in Conns |-> sent[e]] /\ writes = [e \in Conns |-> writes[e]]
  BY WrittenIs, LenProperties DEF Typed, TypeOK
<1>1. /\ RECV \in Byte /\ ACK \in Byte /\ HEAD \in Byte /\ END \in Byte /\ 0 \in Byte
      /\ ACK # RECV
  BY DEF RECV, ACK, HEAD, END, Byte
<1>2. \A b \in Bodies[c] : Len(b) \in Byte /\ b \in Seq(Byte) /\ b # NoBody
  <2>1. \A b \in Bodies[c] : Len(b) \in Byte /\ b \in Seq(Byte)
    BY BodiesAssumption
  <2>2. NoBody \notin Seq(Byte)
    <3>1. ASSUME NoBody \in Seq(Byte) PROVE FALSE
      <4>1. Len(NoBody) = 1 /\ NoBody[1] = Garbage
        BY DEF NoBody
      <4>2. Garbage \in Byte
        BY <3>1, <4>1, ElementOfSeq
      <4>3. QED
        BY <4>2 DEF Garbage, Byte
    <3>2. QED
      BY <3>1
  <2>3. QED
    BY <2>1, <2>2
<1>3. ASSUME NEW bytes \in Seq(Byte), Write(c, bytes),
             sent'[c] \in Seq(Seq(Byte)), Owed(c)' \in Byte,
             Len(sent[c]) <= Len(sent'[c]), Len(sent'[c]) <= Len(sent[c]) + 1,
             \A i \in 1..Len(sent[c]) : sent'[c][i] = sent[c][i],
             body'[c] # <<>>,
             Part(net[c] \o bytes, sent'[c], Len(net[c]), Len(sent[c]), Owed(c),
                  Len(net[c] \o bytes), Len(sent'[c]), Owed(c)')
      PROVE  Kept
  <2>1. net'[c] = net[c] \o bytes /\ writes'[c] = writes[c] + 1
    BY <1>0, <1>3 DEF Write
  <2>2. ASSUME NEW d, NEW o, Reads(net[c], sent[c], Owed(c), d, o)
        PROVE  Reads(net'[c], sent'[c], Owed(c)', d, o)
    <3>1. Reads(net[c] \o bytes, sent'[c], Owed(c)', d, o)
      BY <1>0, <1>3, <2>2, ReadsMore
    <3>2. QED
      BY <2>1, <3>1
  <2>3. Len(sent'[c]) <= writes'[c]
    BY <1>0, <1>3, <2>1, LenProperties
  <2>4. QED
    BY <1>3, <2>2, <2>3
(* A header of four bytes, behind what is there.                            *)
<1>4. ASSUME NEW w \in Byte, NEW x \in Byte, NEW y \in Byte, NEW z \in Byte
      PROVE  LET t == net[c] \o <<w, x, y, z>>
             IN  /\ <<w, x, y, z>> \in Seq(Byte) /\ Len(t) = Len(net[c]) + 4
                 /\ t[Len(net[c]) + 1] = w /\ t[Len(net[c]) + 2] = x
                 /\ t[Len(net[c]) + 3] = y /\ t[Len(net[c]) + 4] = z
  <2> DEFINE h == <<w, x, y, z>>
             t == net[c] \o h
  <2>1. h \in Seq(Byte) /\ Len(h) = 4 /\ h[1] = w /\ h[2] = x /\ h[3] = y /\ h[4] = z
    OBVIOUS
  <2> HIDE DEF h
  <2>2. /\ Len(t) = Len(net[c]) + Len(h)
        /\ \A i \in 1..(Len(net[c]) + Len(h)) :
             t[i] = IF i <= Len(net[c]) THEN net[c][i] ELSE h[i - Len(net[c])]
    BY <1>0, <2>1, ConcatProperties
  <2> HIDE DEF t
  <2>3. \A i \in 1..4 : t[Len(net[c]) + i] = h[i]
    <3>1. \A i \in 1..4 : /\ Len(net[c]) + i \in 1..(Len(net[c]) + Len(h))
                          /\ ~ (Len(net[c]) + i <= Len(net[c]))
                          /\ (Len(net[c]) + i) - Len(net[c]) = i
      BY <1>0, <2>1
    <3>2. QED
      BY <2>2, <3>1
  <2>4. t[Len(net[c]) + 1] = h[1] /\ t[Len(net[c]) + 2] = h[2] /\ t[Len(net[c]) + 3] = h[3]
        /\ t[Len(net[c]) + 4] = h[4]
    BY <2>3
  <2>5. QED
    BY <2>1, <2>2, <2>4 DEF t, h
<1> HIDE DEF Kept
<1>5. ASSUME NEW b \in Bodies[c], WriteHeader(c, b) PROVE Kept
  <2>1. /\ sent' = sent /\ body'[c] = b /\ body[c] = NoBody /\ b # <<>>
        /\ Write(c, <<HEAD, RECV, Len(b), END>>)
    BY <1>0, <1>5 DEF WriteHeader
  <2>2. Owed(c) = 0 /\ Owed(c)' = Len(b) /\ Len(b) # 0 /\ Len(b) \in Byte
    BY <1>2, <2>1, EmptySeq DEF Owed
  <2> DEFINE h == <<HEAD, RECV, Len(b), END>>
             t == net[c] \o h
  <2>3. /\ h \in Seq(Byte) /\ Len(t) = Len(net[c]) + 4
        /\ t[Len(net[c]) + 1] = HEAD /\ t[Len(net[c]) + 2] = RECV
        /\ t[Len(net[c]) + 3] = Len(b) /\ t[Len(net[c]) + 4] = END
    BY <1>1, <1>4, <2>2
  <2>4. Write(c, h)
    BY <2>1
  <2> HIDE DEF h, t
  <2>5. Part(t, sent'[c], Len(net[c]), Len(sent[c]), Owed(c), Len(t), Len(sent'[c]), Owed(c)')
    BY <2>1, <2>2, <2>3 DEF Part
  <2>6. QED
    BY <1>0, <1>3, <2>1, <2>2, <2>3, <2>4, <2>5 DEF t
<1>6. CASE WriteEmpty(c)
  <2>1. /\ sent'[c] = Append(sent[c], <<>>) /\ body' = body /\ body[c] = NoBody
        /\ Write(c, <<HEAD, RECV, 0, END>>)
    BY <1>0, <1>6 DEF WriteEmpty
  <2>2. Owed(c) = 0 /\ Owed(c)' = 0 /\ body'[c] # <<>>
    BY <2>1 DEF Owed
  <2> DEFINE h == <<HEAD, RECV, 0, END>>
             t == net[c] \o h
  <2>3. /\ h \in Seq(Byte) /\ Len(t) = Len(net[c]) + 4
        /\ t[Len(net[c]) + 1] = HEAD /\ t[Len(net[c]) + 2] = RECV
        /\ t[Len(net[c]) + 3] = 0 /\ t[Len(net[c]) + 4] = END
    BY <1>1, <1>4
  <2>4. Write(c, h)
    BY <2>1
  <2> HIDE DEF h, t
  <2>5. /\ sent'[c] \in Seq(Seq(Byte)) /\ Len(sent'[c]) = Len(sent[c]) + 1
        /\ \A i \in 1..Len(sent[c]) : sent'[c][i] = sent[c][i]
        /\ sent'[c][Len(sent[c]) + 1] = <<>>
    <3>1. <<>> \in Seq(Byte)
      OBVIOUS
    <3>2. QED
      BY <1>0, <2>1, <3>1, AppendProperties
  <2>6. Part(t, sent'[c], Len(net[c]), Len(sent[c]), Owed(c), Len(t), Len(sent'[c]), Owed(c)')
    BY <2>2, <2>3, <2>5 DEF Part
  <2>7. Len(sent[c]) <= Len(sent'[c]) /\ Len(sent'[c]) <= Len(sent[c]) + 1 /\ Owed(c)' \in Byte
    BY <1>0, <1>1, <2>2, <2>5
  <2>8. QED
    BY <1>3, <2>2, <2>3, <2>4, <2>5, <2>6, <2>7 DEF t
<1>7. CASE WriteBody(c)
  <2> DEFINE b == body[c]
             t == net[c] \o b
  <2>1. /\ sent'[c] = Append(sent[c], b) /\ body'[c] = NoBody /\ b # NoBody /\ Write(c, b)
    BY <1>0, <1>7 DEF WriteBody
  <2>2. b \in Seq(Byte) /\ b # <<>> /\ Len(b) \in Byte /\ Len(b) > 0
    BY <1>0, <1>2, <2>1, EmptySeq
  <2>3. Owed(c) = Len(b) /\ Owed(c)' = 0 /\ body'[c] # <<>>
    <3>1. NoBody # <<>>
      BY DEF NoBody
    <3>2. QED
      BY <2>1, <3>1 DEF Owed
  <2>4. /\ Len(t) = Len(net[c]) + Len(b)
        /\ \A i \in 1..(Len(net[c]) + Len(b)) :
             t[i] = IF i <= Len(net[c]) THEN net[c][i] ELSE b[i - Len(net[c])]
    BY <1>0, <2>2, ConcatProperties
  <2> HIDE DEF b, t
  <2>5. \A i \in 1..Len(b) : t[Len(net[c]) + i] = b[i]
    <3>0. Len(b) \in Nat
      BY <2>2, LenProperties
    <3>1. \A i \in 1..Len(b) : /\ Len(net[c]) + i \in 1..(Len(net[c]) + Len(b))
                               /\ ~ (Len(net[c]) + i <= Len(net[c]))
                               /\ (Len(net[c]) + i) - Len(net[c]) = i
      BY <1>0, <3>0
    <3>2. QED
      BY <2>4, <3>1
  <2>6. /\ sent'[c] \in Seq(Seq(Byte)) /\ Len(sent'[c]) = Len(sent[c]) + 1
        /\ \A i \in 1..Len(sent[c]) : sent'[c][i] = sent[c][i]
        /\ sent'[c][Len(sent[c]) + 1] = b
    BY <1>0, <2>1, <2>2, AppendProperties
  <2>7. Part(t, sent'[c], Len(net[c]), Len(sent[c]), Owed(c), Len(t), Len(sent'[c]), Owed(c)')
    BY <2>2, <2>3, <2>4, <2>5, <2>6 DEF Part
  <2>8. Len(sent[c]) <= Len(sent'[c]) /\ Len(sent'[c]) <= Len(sent[c]) + 1 /\ Owed(c)' \in Byte
    BY <1>0, <1>1, <2>3, <2>6
  <2>9. QED
    BY <1>3, <2>1, <2>2, <2>3, <2>6, <2>7, <2>8 DEF t
<1>8. ASSUME NEW head \in {HEAD, 0}, WriteOther(c, head) PROVE Kept
  <2>1. /\ sent' = sent /\ body' = body /\ body[c] = NoBody
        /\ Write(c, <<head, ACK, 0, END>>)
    BY <1>8 DEF WriteOther
  <2>2. Owed(c) = 0 /\ Owed(c)' = 0 /\ body'[c] # <<>>
    BY <2>1 DEF Owed
  <2> DEFINE h == <<head, ACK, 0, END>>
             t == net[c] \o h
  <2>3. /\ h \in Seq(Byte) /\ Len(t) = Len(net[c]) + 4
        /\ t[Len(net[c]) + 2] = ACK
    BY <1>1, <1>4
  <2>4. Write(c, h)
    BY <2>1
  <2> HIDE DEF h, t
  <2>5. Part(t, sent'[c], Len(net[c]), Len(sent[c]), Owed(c), Len(t), Len(sent'[c]), Owed(c)')
    BY <1>1, <2>1, <2>2, <2>3 DEF Part
  <2>6. QED
    BY <1>0, <1>1, <1>3, <2>1, <2>2, <2>3, <2>4, <2>5 DEF t
<1>9. \/ \E b \in Bodies[c] : WriteHeader(c, b)
      \/ WriteEmpty(c) \/ WriteBody(c)
      \/ \E head \in {HEAD, 0} : WriteOther(c, head)
  BY DEF ClientStep
<1>10. QED
  BY <1>5, <1>6, <1>7, <1>8, <1>9

(* Nothing of a connection changes, but more may have been written.         *)
LEMMA UnderstoodKept ==
  ASSUME NEW c, Understood(c), UNCHANGED <<link[c], pc[c], unpacked[c]>>,
         pc[c] = "none" \/ UNCHANGED memvars,
         \A d, o : Reads(net[c], sent[c], Owed(c), d, o) =>
                  Reads(net'[c], sent'[c], Owed(c)', d, o),
         Len(sent[c]) \in Nat, Len(sent'[c]) \in Nat, Read(c) \in Nat,
         Len(sent[c]) <= Len(sent'[c]), \A i \in 1..Len(sent[c]) : sent'[c][i] = sent[c][i],
         body'[c] # <<>>, Len(sent'[c]) <= writes'[c]
  PROVE  Understood(c)'
<1>1. Read(c)' = Read(c) /\ (pc[c] # "none" => BodySize' = BodySize /\ AsksForBody' = AsksForBody)
  BY DEF Read, memvars, BodySize, AsksForBody
<1>2. Read(c) <= Len(sent[c]) /\ Read(c) <= Len(sent'[c])
  BY DEF Understood
<1>3. \A d : /\ Ahead(c, d, 0) => Reads(net'[c], sent'[c], Owed(c)', d, 0)
            /\ Ahead(c, d, BodySize) => Reads(net'[c], sent'[c], Owed(c)', d, BodySize)
  BY DEF Ahead
<1>4. /\ Ahead(c, Read(c), 0) => Ahead(c, Read(c), 0)'
      /\ Ahead(c, Read(c) + 1, 0) => Ahead(c, Read(c) + 1, 0)'
      /\ pc[c] # "none" /\ Ahead(c, Read(c), BodySize) => Ahead(c, Read(c), BodySize)'
  BY <1>1, <1>3 DEF Ahead
<1>5. Read(c) < Len(sent[c]) =>
        Read(c) < Len(sent'[c]) /\ sent'[c][Read(c) + 1] = sent[c][Read(c) + 1]
  BY <1>1
<1>6. pc[c] # "none" /\ Asked(c) => Asked(c)'
  BY <1>1, <1>4, <1>5 DEF Asked
<1>7. \A i \in 1..Read(c) : unpacked'[c][i] = sent'[c][i]
  BY <1>2 DEF Understood
<1>8. QED
  BY <1>1, <1>2, <1>4, <1>5, <1>6, <1>7 DEF Understood, memvars

LEMMA ReadIs ==
  ASSUME TypeOK, NEW c \in Conns
  PROVE  /\ Read(c) \in Nat /\ unpacked[c] \in Seq(Seq(Cells))
         /\ Len(sent[c]) \in Nat /\ MaxSends[c] \in Nat /\ writes[c] \in 0..MaxSends[c]
<1>1. unpacked[c] \in Seq(Seq(Cells)) /\ writes[c] \in 0..MaxSends[c]
  BY DEF TypeOK, Cells
<1>2. QED
  BY <1>1, WrittenIs, LenProperties, BoundsAssumption DEF Read

(* The other connections of a step.                                         *)
LEMMA OthersUnderstood ==
  ASSUME Typed, NEW c \in Conns, Understood(c),
         UNCHANGED <<link[c], pc[c], unpacked[c], net[c], sent[c], body[c], writes[c]>>,
         pc[c] = "none" \/ UNCHANGED memvars
  PROVE  Understood(c)'
<1>1. /\ Len(sent[c]) \in Nat /\ Len(sent'[c]) \in Nat /\ Read(c) \in Nat
      /\ body'[c] # <<>> /\ Len(sent'[c]) <= writes'[c]
  BY ReadIs DEF Understood, Typed
<1>2. \A d, o : Reads(net[c], sent[c], Owed(c), d, o) =>
               Reads(net'[c], sent'[c], Owed(c)', d, o)
  BY DEF Owed
<1>3. QED
  BY <1>1, <1>2, UnderstoodKept

LEMMA ClientUnderstood ==
  ASSUME IInv, AllUnderstood, NEW c \in Conns, ClientStep(c)
  PROVE  AllUnderstood'
<1>1. CASE ClientCloses(c)
  BY <1>1 DEF ClientCloses, Fault, AllUnderstood
<1>2. CASE ~ ClientCloses(c)
  <2>1. /\ UNCHANGED <<link, pc, memvars, unpacked, faults, up>>
        /\ \A e \in Conns \ {c} : UNCHANGED <<net[e], sent[e], body[e], writes[e]>>
    BY <1>2 DEF ClientStep, WriteHeader, WriteEmpty, WriteBody, WriteOther, Write, IInv, Typed, TypeOK
  <2>2. Alone' => Alone
    BY <2>1 DEF Alone
  <2>3. ASSUME Alone', faults' = {}, NEW e \in Conns PROVE Understood(e)'
    <3>1. Understood(e) /\ Typed /\ TypeOK
      BY <2>1, <2>2, <2>3 DEF AllUnderstood, IInv, Typed
    <3>2. CASE e # c
      <4>1. UNCHANGED <<link[e], pc[e], unpacked[e], net[e], sent[e], body[e], writes[e]>>
        BY <2>1, <3>2
      <4>2. QED
        BY <2>1, <3>1, <4>1, OthersUnderstood
    <3>3. CASE e = c
      <4>1. body[c] # <<>> /\ Len(sent[c]) <= writes[c]
        BY <3>1, <3>3 DEF Understood
      <4>2. /\ \A d, o : Reads(net[c], sent[c], Owed(c), d, o) =>
                         Reads(net'[c], sent'[c], Owed(c)', d, o)
            /\ Len(sent[c]) <= Len(sent'[c]) /\ \A i \in 1..Len(sent[c]) : sent'[c][i] = sent[c][i]
            /\ body'[c] # <<>> /\ Len(sent'[c]) <= writes'[c]
        BY <1>2, <3>1, <4>1, WriteReads
      <4>3. Len(sent[c]) \in Nat /\ Len(sent'[c]) \in Nat /\ Read(c) \in Nat
        <5>1. Typed' /\ sent'[c] \in Seq(Bodies[c])
          BY <3>1, ClientTyped DEF Typed, TypeOK
        <5>2. QED
          BY <3>1, <5>1, ReadIs, LenProperties
      <4>4. UNCHANGED <<link[c], pc[c], unpacked[c]>>
        BY <2>1
      <4>5. QED
        BY <2>1, <3>1, <3>3, <4>2, <4>3, <4>4, UnderstoodKept
    <3>4. QED
      BY <3>2, <3>3
  <2>4. QED
    BY <2>3 DEF AllUnderstood
<1>3. QED
  BY <1>1, <1>2

LEMMA ForkUnderstood ==
  ASSUME IInv, AllUnderstood, NEW c \in Conns, Accept(c) \/ AcceptFails(c) \/ AcceptOnGarbage(c)
  PROVE  AllUnderstood'
<1>1. CASE AcceptFails(c) \/ AcceptOnGarbage(c)
  BY <1>1 DEF AcceptFails, AcceptOnGarbage, Fault, AllUnderstood
<1>2. CASE Accept(c)
  <2>1. /\ link[c] = "none" /\ pc[c] = "none"
        /\ UNCHANGED <<memvars, net, sent, body, writes, unpacked, faults>>
        /\ \A d \in Conns : link'[d] = IF d = c THEN "open" ELSE link[d]
        /\ \A d \in Conns : pc'[d] = IF d = c THEN "header" ELSE pc[d]
    BY <1>2 DEF Accept, Serve, Goto, IInv, Threaded, Typed, TypeOK
  <2>2. Alone' => Alone
    BY <2>1 DEF Alone
  <2>3. ASSUME Alone', faults' = {}, NEW e \in Conns PROVE Understood(e)'
    <3>1. Understood(e) /\ Typed /\ TypeOK
      BY <2>1, <2>2, <2>3 DEF AllUnderstood, IInv, Typed
    <3>2. CASE e # c
      <4>1. UNCHANGED <<link[e], pc[e], unpacked[e], net[e], sent[e], body[e], writes[e]>>
        BY <2>1, <3>2
      <4>2. QED
        BY <2>1, <3>1, <4>1, OthersUnderstood
    <3>3. CASE e = c
      <4>1. Ahead(c, Read(c), 0) /\ Read(c)' = Read(c) /\ Ahead(c, Read(c), 0)' /\ pc'[c] = "header"
        BY <2>1, <3>1, <3>3 DEF Understood, Read, Ahead, Owed
      <4>2. /\ body'[c] # <<>> /\ Len(sent'[c]) <= writes'[c] /\ Read(c)' <= Len(sent'[c])
            /\ \A i \in 1..Read(c)' : unpacked'[c][i] = sent'[c][i]
            /\ link'[c] = "open"
        BY <2>1, <3>1, <3>3, <4>1 DEF Understood
      <4>3. QED
        BY <3>3, <4>1, <4>2 DEF Understood
    <3>4. QED
      BY <3>2, <3>3
  <2>4. QED
    BY <2>3 DEF AllUnderstood
<1>3. QED
  BY <1>1, <1>2

LEMMA ControlUnderstood ==
  ASSUME IInv, AllUnderstood,
         Start \/ (\E ok \in BOOLEAN : ServerInit(ok)) \/ UNCHANGED vars
  PROVE  AllUnderstood'
<1>1. UNCHANGED <<clientvars, pc, memvars, unpacked>> /\ faults \subseteq faults'
  BY DEF Start, ServerInit, Fault, vars
<1>2. Alone' => Alone
  BY <1>1 DEF Alone, clientvars
<1>3. ASSUME Alone', faults' = {}, NEW e \in Conns PROVE Understood(e)'
  <2>1. Understood(e) /\ Typed
    BY <1>1, <1>2, <1>3 DEF AllUnderstood, IInv
  <2>2. QED
    BY <1>1, <2>1, OthersUnderstood DEF clientvars
<1>4. QED
  BY <1>3 DEF AllUnderstood

(* What recv() puts into the buffer are the first bytes there are.          *)
LEMMA FilledAt ==
  ASSUME TypeOK, NEW c \in Conns, NEW S, Byte \subseteq S, NEW buffer \in Seq(S),
         NEW k \in Nat, k <= Len(buffer), k <= Len(net[c])
  PROVE  \A i \in 1..k : Filled(buffer, c, k)[i] = net[c][i]
<1> DEFINE read == SubSeq(net[c], 1, k)
           rest == SubSeq(buffer, k + 1, Len(buffer))
<1>1. net[c] \in Seq(Byte) /\ net[c] \in Seq(S) /\ Len(buffer) \in Nat /\ Len(net[c]) \in Nat
  <2>1. net[c] \in Seq(Byte)
    BY DEF TypeOK
  <2>2. QED
    BY <2>1, SeqMonotonic, LenProperties
<1>2. read \in Seq(S) /\ Len(read) = k /\ \A i \in 1..k : read[i] = net[c][i]
  <2>1. \A i \in 1..k : net[c][i] \in S
    BY <1>1, ElementOfSeq
  <2>2. /\ read \in Seq(S) /\ Len(read) = IF 1 <= k THEN k - 1 + 1 ELSE 0
        /\ \A i \in 1..(k - 1 + 1) : read[i] = net[c][1 + i - 1]
    BY <2>1, SubSeqProperties
  <2> HIDE DEF read
  <2>3. k - 1 + 1 = k /\ \A i \in 1..k : 1 + i - 1 = i
    OBVIOUS
  <2>4. QED
    BY <2>2, <2>3
<1>3. rest \in Seq(S)
  BY <1>1, PartIs
<1> HIDE DEF read, rest
<1>4. \A i \in 1..(Len(read) + Len(rest)) : (read \o rest)[i] =
        IF i <= Len(read) THEN read[i] ELSE rest[i - Len(read)]
  BY <1>2, <1>3, ConcatProperties
<1>5. Len(rest) \in Nat
  BY <1>3, LenProperties
<1>6. \A i \in 1..k : (read \o rest)[i] = net[c][i]
  BY <1>2, <1>4, <1>5
<1>7. QED
  BY <1>6 DEF Filled, read, rest

(* recv() without a fault waits for a byte, and takes all it can.           *)
LEMMA TakesAll ==
  ASSUME TypeOK, NEW c \in Conns, NEW n \in Nat, NEW k \in Got(c, n), Taken(c, n, k),
         faults' = {}, link[c] = "open"
  PROVE  /\ k = Most(c, n) /\ k \in Nat /\ Len(net[c]) > 0 /\ (n <= Len(net[c]) => k = n)
         /\ net'[c] = SubSeq(net[c], k + 1, Len(net[c]))
<1>1. k \in 0..Most(c, n) /\ (k = 0 => n = 0 /\ net[c] # <<>>)
  BY DEF Got
<1>2. net \in [Conns -> Seq(Byte)] /\ Len(net[c]) \in Nat /\ Most(c, n) \in Nat
  BY LenProperties DEF TypeOK, Most
<1>3. ~ (k < Most(c, n))
  BY DEF Taken, Fault
<1>4. Len(net[c]) > 0
  <2>1. k = 0 => Len(net[c]) > 0
    BY <1>1, <1>2, EmptySeq
  <2>2. QED
    BY <1>1, <1>2, <2>1 DEF Most
<1>5. k = Most(c, n) /\ k \in Nat
  BY <1>1, <1>2, <1>3
<1>6. n <= Len(net[c]) => k = n
  BY <1>2, <1>5 DEF Most
<1>7. QED
  BY <1>2, <1>4, <1>5, <1>6 DEF Taken

LEMMA ServerUnderstood ==
  ASSUME IInv, AllUnderstood, NEW c \in Conns, ServerStep(c)
  PROVE  AllUnderstood'
<1> SUFFICES ASSUME Alone', faults' = {}
             PROVE  \A e \in Conns : Understood(e)'
  BY DEF AllUnderstood
<1>1. /\ Typed /\ TypeOK
      /\ pc \in [Conns -> Places]
      /\ net \in [Conns -> Seq(Byte)] /\ heap = [b \in Blocks |-> heap[b]]
      /\ unpacked \in [Conns -> Seq(Seq(Cells))] /\ prerecv \in [1..4 -> Byte]
  BY DEF IInv, Typed, TypeOK, Cells, Places
<1>2. /\ UNCHANGED <<link, sent, body, writes>> /\ pc[c] # "none" /\ faults \subseteq faults'
      /\ \A e \in Conns \ {c} : UNCHANGED <<pc[e], net[e], unpacked[e]>>
  BY <1>1 DEF ServerStep, RecvHeader, Check, New, RecvBody, RecvNowhere, RecvOutside, Unpack,
     UnpackNothing, Delete, DeleteTwice, Clear, ReturnInPlace, ReturnCopy, Goto, clientvars,
     Taken, Fault
<1>3. /\ Alone /\ link[c] # "none" /\ \A e \in Conns \ {c} : pc[e] = "none"
      /\ \A e \in Conns : Understood(e)
  <2>1. Alone /\ link[c] # "none"
    BY <1>2 DEF Alone, IInv, Threaded
  <2>2. \A e \in Conns \ {c} : pc[e] = "none"
    BY <2>1 DEF Alone, IInv, Threaded
  <2>3. QED
    BY <1>2, <2>1, <2>2 DEF AllUnderstood
<1>4. ASSUME NEW e \in Conns \ {c} PROVE Understood(e)'
  BY <1>1, <1>2, <1>3, OthersUnderstood
<1>5. link[c] = "open" /\ body'[c] # <<>> /\ Len(sent'[c]) <= writes'[c] /\ link'[c] = "open"
  BY <1>2, <1>3 DEF Understood
<1>6. /\ Read(c) \in Nat /\ Read(c) <= Len(sent[c]) /\ Len(sent[c]) \in Nat /\ Len(net[c]) \in Nat
      /\ net[c] \in Seq(Byte) /\ sent[c] \in Seq(Seq(Byte)) /\ BodySize \in Nat
      /\ Owed(c)' = Owed(c) /\ writes[c] <= MaxSends[c] /\ writes[c] \in Nat /\ MaxSends[c] \in Nat
      /\ \A i \in 1..Read(c) : unpacked[c][i] = sent[c][i]
  <2>1. BodySize \in 0..255
    BY <1>1 DEF BodySize, Byte
  <2>2. /\ Read(c) \in Nat /\ Len(sent[c]) \in Nat /\ MaxSends[c] \in Nat
        /\ writes[c] \in 0..MaxSends[c]
    BY <1>1, ReadIs
  <2>3. net[c] \in Seq(Byte) /\ sent[c] \in Seq(Seq(Byte)) /\ Len(net[c]) \in Nat
    BY <1>1, WrittenIs, LenProperties
  <2>4. Read(c) <= Len(sent[c]) /\ \A i \in 1..Read(c) : unpacked[c][i] = sent[c][i]
    BY <1>3 DEF Understood
  <2>5. Owed(c)' = Owed(c)
    BY <1>2 DEF Owed
  <2>6. QED
    BY <2>1, <2>2, <2>3, <2>4, <2>5
<1>7. /\ pc[c] \in Holding => recvsec \in Blocks /\ Live = {recvsec}
      /\ pc[c] = "body" => Len(heap[recvsec]) = BodySize
  BY <1>3 DEF IInv, OneBlock, Holding
<1> SUFFICES Understood(c)'
  BY <1>4
(* All but what the place of the thread says.                               *)
<1>8. ASSUME unpacked' = unpacked,
             pc'[c] \in {"none", "header", "delete", "clear", "return"} => Ahead(c, Read(c), 0)',
             pc'[c] = "check" => (IF AsksForBody THEN Asked(c) ELSE Ahead(c, Read(c), 0))',
             pc'[c] \in {"new", "body"} => Asked(c)',
             pc'[c] = "unpack" =>
               /\ Read(c) < Len(sent[c]) /\ heap'[recvsec'] = sent[c][Read(c) + 1]
               /\ BodySize' = Len(sent[c][Read(c) + 1]) /\ Ahead(c, Read(c) + 1, 0)'
      PROVE  Understood(c)'
  <2>1. Read(c)' = Read(c) /\ sent' = sent
    BY <1>2, <1>8 DEF Read
  <2>2. Read(c)' <= Len(sent'[c]) /\ \A i \in 1..Read(c)' : unpacked'[c][i] = sent'[c][i]
    BY <1>6, <1>8, <2>1
  <2>3. QED
    BY <1>5, <1>8, <2>1, <2>2 DEF Understood
<1>9. CASE RecvHeader(c)
  <2>1. PICK k \in Got(c, HeaderSize) :
          Taken(c, HeaderSize, k) /\ prerecv' = Filled(prerecv, c, k)
    BY <1>9 DEF RecvHeader
  <2>2. /\ pc[c] = "header" /\ pc'[c] = "check" /\ unpacked' = unpacked
        /\ Ahead(c, Read(c), 0)
    BY <1>1, <1>3, <1>9 DEF RecvHeader, Goto, Understood
  <2>3. /\ k \in Nat /\ Len(net[c]) > 0 /\ (HeaderSize <= Len(net[c]) => k = HeaderSize)
        /\ net'[c] = SubSeq(net[c], k + 1, Len(net[c]))
    <3>1. HeaderSize \in Nat /\ HeaderSize > 0
      BY DEF HeaderSize
    <3>2. QED
      BY <1>1, <1>5, <2>1, <3>1, TakesAll
  <2>4. PICK a \in 1..Len(net[c]), d2 \in 0..Len(sent[c]), o2 \in Byte :
          /\ Part(net[c], sent[c], 0, Read(c), 0, a, d2, o2)
          /\ Reads(SubSeq(net[c], a + 1, Len(net[c])), sent[c], Owed(c), d2, o2)
    BY <1>6, <2>2, <2>3, ReadsFirst DEF Ahead
  <2>5. a = 4 /\ k = 4 /\ Ahead(c, d2, o2)'
    <3>1. a = 4 /\ a <= Len(net[c])
      BY <1>6, <2>4 DEF Part
    <3>2. k = 4
      BY <2>3, <3>1 DEF HeaderSize
    <3>3. QED
      BY <1>2, <1>6, <2>3, <2>4, <3>1, <3>2 DEF Ahead
  <2>6. \A i \in 1..4 : prerecv'[i] = net[c][i]
    <3>1. prerecv \in Seq(Byte) /\ Len(prerecv) = 4
      <4>1. prerecv \in [1..4 -> Byte]
        BY <1>1
      <4>2. QED
        BY <4>1, FunctionIsSeq
    <3>2. k <= Len(net[c]) /\ k <= Len(prerecv) /\ k \in Nat
      BY <1>6, <2>3, <2>4, <2>5, <3>1
    <3>3. \A i \in 1..k : Filled(prerecv, c, k)[i] = net[c][i]
      BY <1>1, <3>1, <3>2, FilledAt
    <3>4. QED
      BY <2>1, <2>5, <3>3
  <2>7. /\ BodySize' = net[c][3]
        /\ AsksForBody' <=> net[c][1] = HEAD /\ net[c][4] = END /\ net[c][2] = RECV
    BY <2>6 DEF BodySize, AsksForBody
  <2>8. IF AsksForBody'
        THEN o2 = BodySize' /\ IF o2 = 0 THEN d2 = Read(c) + 1 /\ sent[c][d2] = <<>> ELSE d2 = Read(c)
        ELSE o2 = 0 /\ d2 = Read(c)
    BY <2>4, <2>7 DEF Part
  <2>9. Read(c)' = Read(c) /\ sent' = sent
    BY <1>2, <2>2 DEF Read
  <2>10. CASE AsksForBody'
    <3>1. Asked(c)'
      BY <1>6, <2>4, <2>5, <2>8, <2>9, <2>10 DEF Asked
    <3>2. QED
      BY <1>8, <2>2, <2>10, <3>1
  <2>11. CASE ~ AsksForBody'
    <3>1. Ahead(c, Read(c), 0)'
      BY <2>5, <2>8, <2>9, <2>11
    <3>2. QED
      BY <1>8, <2>2, <2>11, <3>1
  <2>12. QED
    BY <2>10, <2>11
(* The steps that leave the bytes and the header alone.                     *)
<1>10. ASSUME UNCHANGED <<net, prerecv, unpacked>>
       PROVE  /\ Ahead(c, Read(c), 0) => Ahead(c, Read(c), 0)'
              /\ Asked(c) => Asked(c)'
              /\ AsksForBody' = AsksForBody /\ BodySize' = BodySize
  <2>1. Read(c)' = Read(c) /\ BodySize' = BodySize /\ AsksForBody' = AsksForBody
    BY <1>10 DEF Read, BodySize, AsksForBody
  <2>2. \A d, o : Ahead(c, d, o) => Reads(net'[c], sent'[c], Owed(c)', d, o)
    BY <1>2, <1>6, <1>10 DEF Ahead
  <2>3. /\ Ahead(c, Read(c), 0) => Ahead(c, Read(c), 0)'
        /\ Ahead(c, Read(c) + 1, 0) => Ahead(c, Read(c) + 1, 0)'
        /\ Ahead(c, Read(c), BodySize) => Ahead(c, Read(c), BodySize)'
    BY <2>1, <2>2 DEF Ahead
  <2>4. QED
    BY <1>2, <2>1, <2>3 DEF Asked
<1>11. CASE Check(c)
  <2>1. /\ pc[c] = "check" /\ pc'[c] = (IF AsksForBody THEN "new" ELSE "header")
        /\ UNCHANGED <<net, prerecv, unpacked>>
    BY <1>1, <1>11 DEF Check, Goto, clientvars, memvars
  <2>2. IF AsksForBody THEN Asked(c) ELSE Ahead(c, Read(c), 0)
    BY <1>3, <2>1 DEF Understood
  <2>3. QED
    BY <1>8, <1>10, <2>1, <2>2
<1>12. CASE New(c)
  <2>1. pc[c] = "new" /\ pc'[c] = "body" /\ UNCHANGED <<net, prerecv, unpacked>>
    BY <1>1, <1>12 DEF New, Goto, clientvars
  <2>2. Asked(c)
    BY <1>3, <2>1 DEF Understood
  <2>3. QED
    BY <1>8, <1>10, <2>1, <2>2
<1>13. CASE RecvBody(c)
  <2>1. PICK k \in Got(c, BodySize) :
          /\ k <= Len(heap[recvsec]) /\ Taken(c, BodySize, k)
          /\ heap' = [heap EXCEPT ![recvsec] = Filled(@, c, k)]
    BY <1>13 DEF RecvBody
  <2>2. /\ pc[c] = "body" /\ pc'[c] = "unpack" /\ UNCHANGED <<prerecv, recvsec, unpacked>>
        /\ recvsec \in Blocks /\ recvsec \in Live
    BY <1>1, <1>7, <1>13 DEF RecvBody, Goto, Holding
  <2>3. /\ k = Most(c, BodySize) /\ k \in Nat /\ Len(net[c]) > 0
        /\ net'[c] = SubSeq(net[c], k + 1, Len(net[c]))
    BY <1>1, <1>5, <1>6, <2>1, TakesAll
  <2>4. Asked(c) /\ Read(c)' = Read(c) /\ sent' = sent /\ BodySize' = BodySize
    BY <1>2, <1>3, <2>2 DEF Understood, Read, BodySize
  <2>5. heap[recvsec] \in Seq(Cells) /\ Len(heap[recvsec]) = BodySize /\ Byte \subseteq Cells
    BY <1>1, <1>7, <2>2 DEF TypeOK, Cells, Live
  <2>6. k <= Len(net[c]) /\ k <= BodySize
    BY <1>6, <2>3 DEF Most
  <2> DEFINE got == Filled(heap[recvsec], c, k)
  <2>7. /\ heap'[recvsec'] = got /\ got \in Seq(Cells) /\ Len(got) = BodySize
        /\ \A i \in 1..k : got[i] = net[c][i]
    BY <1>1, <2>1, <2>2, <2>3, <2>5, <2>6, FilledIs, FilledAt
  <2> HIDE DEF got
  <2>8. /\ Read(c) < Len(sent[c]) /\ Len(sent[c][Read(c) + 1]) = BodySize
        /\ Reads(net'[c], sent[c], Owed(c), Read(c) + 1, 0)
        /\ \A i \in 1..BodySize : got[i] = sent[c][Read(c) + 1][i]
    <3>1. CASE BodySize = 0
      <4>1. /\ Read(c) < Len(sent[c]) /\ sent[c][Read(c) + 1] = <<>>
            /\ Reads(net[c], sent[c], Owed(c), Read(c) + 1, 0)
        BY <2>4, <3>1 DEF Asked, Ahead
      <4>2. k = 0
        BY <2>3, <2>6, <3>1
      <4>3. net'[c] = net[c]
        BY <1>6, <2>3, <4>2, SubSeqFull
      <4>4. QED
        BY <3>1, <4>1, <4>3
    <3>2. CASE BodySize # 0
      <4>1. Reads(net[c], sent[c], Owed(c), Read(c), BodySize) /\ Len(net[c]) > 0
        BY <1>6, <2>3, <2>4, <3>2 DEF Asked, Ahead
      <4>2. PICK a \in 1..Len(net[c]), d2 \in 0..Len(sent[c]), o2 \in Byte :
              /\ Part(net[c], sent[c], 0, Read(c), BodySize, a, d2, o2)
              /\ Reads(SubSeq(net[c], a + 1, Len(net[c])), sent[c], Owed(c), d2, o2)
        BY <1>6, <4>1, ReadsFirst
      <4>3. /\ a = BodySize /\ d2 = Read(c) + 1 /\ o2 = 0 /\ Len(sent[c][d2]) = BodySize
            /\ \A i \in 1..BodySize : net[c][0 + i] = sent[c][d2][i]
        <5>1. a = 0 + BodySize /\ d2 = Read(c) + 1 /\ o2 = 0 /\ Len(sent[c][d2]) = BodySize
              /\ \A i \in 1..BodySize : net[c][0 + i] = sent[c][d2][i]
          BY <3>2, <4>2 DEF Part
        <5>2. QED
          BY <1>6, <5>1
      <4>4. k = BodySize
        BY <1>6, <2>3, <4>2, <4>3 DEF Most
      <4>5. \A i \in 1..BodySize : net[c][i] = sent[c][d2][i]
        <5>1. \A i \in 1..BodySize : 0 + i = i
          OBVIOUS
        <5>2. QED
          BY <4>3, <5>1
      <4>6. Read(c) < Len(sent[c])
        BY <1>6, <4>2, <4>3
      <4>7. Reads(net'[c], sent[c], Owed(c), Read(c) + 1, 0)
        BY <2>3, <4>2, <4>3, <4>4
      <4>8. Len(sent[c][Read(c) + 1]) = BodySize
        BY <4>3
      <4>9. \A i \in 1..BodySize : got[i] = sent[c][Read(c) + 1][i]
        BY <2>7, <4>3, <4>4, <4>5
      <4>10. QED
        BY <4>6, <4>7, <4>8, <4>9
    <3>3. QED
      BY <3>1, <3>2
  <2>9. got = sent[c][Read(c) + 1]
    <3>1. Read(c) + 1 \in 1..Len(sent[c])
      BY <1>6, <2>8
    <3>2. sent[c][Read(c) + 1] \in Seq(Byte)
      BY <1>6, <3>1, ElementOfSeq
    <3>3. sent[c][Read(c) + 1] \in Seq(Cells)
      BY <2>5, <3>2, SeqMonotonic
    <3>4. QED
      BY <2>7, <2>8, <3>3, SeqEqual
  <2>10. Ahead(c, Read(c) + 1, 0)'
    BY <1>2, <1>6, <2>4, <2>8 DEF Ahead
  <2>11. QED
    BY <1>8, <2>2, <2>4, <2>7, <2>8, <2>9, <2>10
<1>14. CASE RecvNowhere(c) \/ RecvOutside(c) \/ UnpackNothing(c) \/ DeleteTwice(c)
  BY <1>1, <1>6, <1>7, <1>14, NothingAmiss
<1>15. CASE ReturnCopy(c)
  <2>1. UNCHANGED <<link[c], pc[c], unpacked[c], net[c], sent[c], body[c], writes[c], memvars>>
    BY <1>15 DEF ReturnCopy, clientvars
  <2>2. QED
    BY <1>1, <1>3, <2>1, OthersUnderstood
<1>16. CASE Unpack(c)
  <2>1. /\ pc[c] = "unpack" /\ pc'[c] = "delete" /\ UNCHANGED <<net, sent, prerecv, recvsec, heap>>
    BY <1>1, <1>16 DEF Unpack, Goto, clientvars, memvars
  <2> DEFINE next == sent[c][Read(c) + 1]
  <2>2. /\ Read(c) < Len(sent[c]) /\ heap[recvsec] = next
        /\ BodySize = Len(next) /\ Ahead(c, Read(c) + 1, 0)
    BY <1>3, <2>1 DEF Understood
  <2>3. next \in [1..BodySize -> Byte]
    <3>1. Read(c) + 1 \in 1..Len(sent[c])
      BY <1>6, <2>2
    <3>2. next \in Seq(Byte)
      BY <1>6, <3>1, ElementOfSeq
    <3> HIDE DEF next
    <3>3. QED
      BY <2>2, <3>2, LenProperties
  <2> HIDE DEF next
  <2>4. [i \in 1..BodySize |-> IF i <= Len(heap[recvsec]) THEN heap[recvsec][i] ELSE Garbage] = next
    <3>1. \A i \in 1..BodySize : i <= Len(next)
      BY <1>6, <2>2
    <3>2. next = [i \in 1..BodySize |-> next[i]]
      BY <2>3
    <3>3. QED
      BY <2>2, <3>1, <3>2
  <2>5. unpacked'[c] = Append(unpacked[c], next)
    <3>1. Len(unpacked[c]) <= MaxSends[c]
      <4>1. Len(sent[c]) <= writes[c]
        BY <1>3 DEF Understood
      <4>2. QED
        BY <1>6, <4>1 DEF Read
    <3>2. ~ (Len(unpacked[c]) > MaxSends[c])
      BY <1>6, <3>1 DEF Read
    <3>3. QED
      BY <1>1, <1>16, <2>4, <3>2 DEF Unpack
  <2>6. /\ Read(c)' = Read(c) + 1
        /\ \A i \in 1..Read(c) : unpacked'[c][i] = unpacked[c][i]
        /\ unpacked'[c][Read(c) + 1] = next
    <3>1. unpacked[c] \in Seq(Seq(Cells)) /\ next \in Seq(Cells)
      <4>1. Read(c) + 1 \in 1..Len(sent[c])
        BY <1>6, <2>2
      <4>2. next \in Seq(Byte) /\ Byte \subseteq Cells
        BY <1>6, <4>1, ElementOfSeq DEF next, Cells
      <4>3. QED
        BY <1>1, <4>2, SeqMonotonic
    <3>2. QED
      BY <2>5, <3>1, AppendProperties DEF Read
  <2>7. \A i \in 1..Read(c)' : unpacked'[c][i] = sent'[c][i]
    <3>1. ASSUME NEW i \in 1..(Read(c) + 1) PROVE unpacked'[c][i] = sent[c][i]
      <4>1. i = Read(c) + 1 \/ i \in 1..Read(c)
        BY <1>6
      <4>2. QED
        BY <1>6, <2>6, <4>1 DEF next
    <3>2. QED
      BY <2>1, <2>6, <3>1
  <2>8. Read(c)' <= Len(sent'[c])
    BY <1>6, <2>1, <2>2, <2>6
  <2>9. Ahead(c, Read(c), 0)'
    BY <1>6, <2>1, <2>2, <2>6 DEF Ahead
  <2>10. QED
    BY <1>5, <2>1, <2>7, <2>8, <2>9 DEF Understood
<1>17. CASE Delete(c) \/ Clear(c) \/ ReturnInPlace(c)
  <2>1. /\ pc[c] \in {"delete", "clear", "return"} /\ pc'[c] \in {"clear", "return", "header"}
        /\ UNCHANGED <<net, prerecv, unpacked>>
    BY <1>1, <1>17 DEF Delete, Clear, ReturnInPlace, Goto, clientvars, memvars
  <2>2. Ahead(c, Read(c), 0)
    BY <1>3, <2>1 DEF Understood
  <2>3. QED
    BY <1>8, <1>10, <2>1, <2>2
<1>18. QED
  BY <1>9, <1>11, <1>12, <1>13, <1>14, <1>15, <1>16, <1>17 DEF ServerStep

LEMMA InitUnderstood == ASSUME Init PROVE AllUnderstood
<1>1. ASSUME NEW c \in Conns PROVE Understood(c)
  <2>1. /\ link[c] = "none" /\ pc[c] = "none" /\ net[c] = <<>> /\ sent[c] = <<>>
        /\ body[c] = NoBody /\ writes[c] = 0 /\ unpacked[c] = <<>>
    BY DEF Init
  <2>2. Reads(<<>>, <<>>, 0, 0, 0)
    <3> DEFINE zero == [i \in 0..0 |-> 0]
    <3>1. zero \in [0..0 -> 0..Len(<<>>)] /\ zero \in [0..0 -> Byte] /\ zero[0] = 0
      BY DEF Byte
    <3> HIDE DEF zero
    <3>2. 0..(0 - 1) = {} /\ Len(<<>>) = 0
      OBVIOUS
    <3>3. \A i \in 0..0 : \A j \in 0..i : zero[j] <= zero[i]
      BY <3>1
    <3>4. Splits(<<>>, <<>>, 0, 0, 0, 0, zero, zero, zero)
      BY <3>1, <3>2, <3>3 DEF Splits
    <3>5. QED
      BY <3>4 DEF Reads
  <2>3. Read(c) = 0 /\ Ahead(c, 0, 0) /\ NoBody # <<>> /\ Len(sent[c]) = 0
    BY <2>1, <2>2 DEF Read, Ahead, Owed, NoBody
  <2>4. QED
    BY <2>1, <2>3 DEF Understood
<1>2. QED
  BY <1>1 DEF AllUnderstood

(* A client that is alone is understood while nothing goes wrong: unpack()  *)
(* is given the bodies it sends, whole, once and in order, however the      *)
(* headers, the bodies and the other headers lie in the stream.             *)
THEOREM UnpacksOwnAloneCorrect == Spec => []UnpacksOwnAlone
<1>1. IInv /\ AllUnderstood /\ [Next]_vars => AllUnderstood'
  BY ControlUnderstood, ForkUnderstood, ClientUnderstood, ServerUnderstood DEF Next
<1>2. ASSUME IInv, AllUnderstood PROVE UnpacksOwnAlone
  <2>1. SUFFICES ASSUME faults = {}, Cardinality(Served) <= 1, NEW c \in Conns PROVE Own(c)
    BY DEF UnpacksOwnAlone
  <2>2. Understood(c) /\ TypeOK
    BY <1>2, <2>1, OneIsAlone DEF AllUnderstood, IInv, Typed
  <2>3. /\ unpacked[c] \in Seq(Seq(Cells)) /\ sent[c] \in Seq(Seq(Cells)) /\ Read(c) \in Nat
        /\ Len(sent[c]) \in Nat
    <3>1. \A s \in Seq(Byte) : s \in Seq(Cells)
      BY SeqMonotonic DEF Cells
    <3>2. sent[c] \in Seq(Seq(Byte))
      BY <2>2, WrittenIs
    <3>3. Seq(Byte) \subseteq Seq(Cells)
      BY <3>1
    <3>4. sent[c] \in Seq(Seq(Cells))
      BY <3>2, <3>3, SeqMonotonic
    <3>5. QED
      BY <2>2, <3>4, ReadIs
  <2>4. Read(c) <= Len(sent[c]) /\ \A i \in 1..Read(c) : unpacked[c][i] = sent[c][i]
    BY <2>2 DEF Understood
  <2> DEFINE first == SubSeq(sent[c], 1, Read(c))
  <2>5. /\ first \in Seq(Seq(Cells)) /\ Len(first) = Read(c)
        /\ \A i \in 1..Read(c) : first[i] = sent[c][i]
    <3>1. \A i \in 1..Read(c) : sent[c][i] \in Seq(Cells)
      BY <2>3, <2>4, ElementOfSeq
    <3>2. /\ first \in Seq(Seq(Cells)) /\ Len(first) = IF 1 <= Read(c) THEN Read(c) - 1 + 1 ELSE 0
          /\ \A i \in 1..(Read(c) - 1 + 1) : first[i] = sent[c][1 + i - 1]
      BY <2>3, <3>1, SubSeqProperties
    <3> HIDE DEF first
    <3>3. Read(c) - 1 + 1 = Read(c) /\ \A i \in 1..Read(c) : 1 + i - 1 = i
      BY <2>3
    <3>4. QED
      BY <2>3, <3>2, <3>3
  <2> HIDE DEF first
  <2>6. first = unpacked[c]
    <3>1. Len(unpacked[c]) = Read(c)
      BY DEF Read
    <3>2. QED
      BY <2>3, <2>4, <2>5, <3>1, SeqEqual
  <2>7. QED
    BY <2>4, <2>6 DEF Own, Read, first
<1>3. Init => AllUnderstood
  BY InitUnderstood
<1>4. QED
  BY <1>1, <1>2, <1>3, Invariant, PTL DEF Spec
=============================================================================
