------------------------------ MODULE TCPServer ------------------------------
(***************************************************************************)
(* NPDTCPServer (LibNPDNet/NPDTCP.cpp): fork() accepts clients and starts  *)
(* a thread for each, which runs waitForClient() for ever: recv() a header *)
(* into the member prerecv, allocate the member recvsec, recv() the body   *)
(* into it, unpack() and delete it, and return a NPDProtocol.  Both members*)
(* belong to the server and are used by the threads of all connections     *)
(* without a lock.                                                         *)
(*                                                                         *)
(* The clients and their sockets are the environment.  A client writes a   *)
(* header and then a body; faults records what has gone wrong around the   *)
(* server, outside what the program has touched that is not allocated.     *)
(* After a write or a delete outside, or a termination, nothing more is    *)
(* said of the program: up is FALSE.  A read outside may go unnoticed.     *)
(***************************************************************************)
EXTENDS Integers, Sequences, FiniteSets

CONSTANTS
  Conns,        \* connections, and the threads that serve them
  Bodies,       \* per connection: bodies its client may send
  Blocks,       \* heap blocks
  Null,
  MaxSends,     \* bound, per connection: writes of the client
  MaxStarts,    \* bound: calls of start()
  MaxFaults     \* bound: kinds of fault in one behaviour

Byte == 0..255
Garbage == -1           \* a byte nobody has written
FaultKinds == {"short",     \* a recv() has returned a part of what it could
               "close",     \* a client has closed its connection
               "accept",    \* an accept() has failed
               "malloc",    \* a malloc() has returned memory that is not zero
               "restart"}   \* start() has been called again
Accesses == {"accept",      \* the unique_ptr in memory of malloc()
             "recv",        \* a write beyond the block, or into a deleted one
             "unpack",      \* a read of a deleted block
             "tail",        \* a read beyond the block
             "delete",      \* a second delete[]
             "return"}      \* a read and a delete of a deleted header

(* The size of a body has a byte in the header. *)
ASSUME BodiesAssumption ==
  /\ Bodies \in [Conns -> SUBSET Seq(Byte)]
  /\ \A c \in Conns : \A b \in Bodies[c] : Len(b) \in Byte
ASSUME NullAssumption == Null \notin Blocks \cup Byte \cup {Garbage}
ASSUME BoundsAssumption == MaxSends \in [Conns -> Nat] /\ MaxStarts \in Nat /\ MaxFaults \in Nat

VARIABLES
  listening,    \* _sockfd is a listening socket
  run, forks,   \* _run; calls of start() so far: one at most may have a fork() thread
  count, list,  \* ClientCount, TCP_Client_list as pairs of number and connection
  link,         \* per connection: none, open, closed by the client, bad
  net,          \* bytes written by the client and not yet received
  body,         \* the body that goes with the header the client has written
  sent, writes, \* history: bodies written, writes made
  pc,           \* per connection: place of its thread in waitForClient()
  prerecv,      \* the four bytes head, info.cmd, info.size, end
  recvsec, heap,
  unpacked,     \* history: the bytes each call of unpack() was given
  faults,       \* history: what has gone wrong, a subset of FaultKinds
  outside,      \* history: what has been accessed that is not allocated
  up

forkvars == <<listening, run, forks, count, list>>
clientvars == <<link, net, body, sent, writes>>
memvars == <<prerecv, recvsec, heap>>
vars == <<forkvars, clientvars, pc, memvars, unpacked, faults, outside, up>>

ACK == 0        \* NPDNET_TCP_ACK
RECV == 2       \* NPDNET_TCP_RECV
HEAD == 170
END == 187

Unused == <<Null>>      \* contents of a block that is not allocated
NoBody == <<Garbage>>   \* no body is owed

Live == {b \in Blocks : heap[b] # Unused}

TypeOK ==
  /\ listening \in BOOLEAN /\ run \in BOOLEAN /\ forks \in 0..MaxStarts
  /\ count \in Nat
  /\ list \in Seq(Nat \X Conns)
  /\ link \in [Conns -> {"none", "open", "closed", "bad"}]
  /\ net \in [Conns -> Seq(Byte)]
  /\ \A c \in Conns : body[c] \in Bodies[c] \cup {NoBody}
  /\ \A c \in Conns : sent[c] \in Seq(Bodies[c])
  /\ \A c \in Conns : writes[c] \in 0..MaxSends[c]
  /\ pc \in [Conns -> {"none", "header", "check", "new", "body", "unpack", "delete",
                   "clear", "return"}]
  /\ prerecv \in [1..4 -> Byte]
  /\ recvsec \in Blocks \cup {Null}
  /\ \A b \in Live : heap[b] \in Seq(Byte \cup {Garbage})
  /\ unpacked \in [Conns -> Seq(Seq(Byte \cup {Garbage}))]
  /\ faults \subseteq FaultKinds
  /\ outside \subseteq Accesses
  /\ up \in BOOLEAN

(* head and end have initial values, info has none. *)
Init ==
  /\ listening = FALSE /\ run = FALSE /\ forks = 0 /\ count = 0 /\ list = <<>>
  /\ link = [c \in Conns |-> "none"]
  /\ net = [c \in Conns |-> <<>>]
  /\ body = [c \in Conns |-> NoBody]
  /\ sent = [c \in Conns |-> <<>>]
  /\ writes = [c \in Conns |-> 0]
  /\ pc = [c \in Conns |-> "none"]
  /\ \E cmd \in {ACK, RECV}, size \in {0, 1} : prerecv = <<HEAD, cmd, size, END>>
  /\ recvsec = Null
  /\ heap = [b \in Blocks |-> Unused]
  /\ unpacked = [c \in Conns |-> <<>>]
  /\ faults = {}
  /\ outside = {}
  /\ up = TRUE

Goto(c, place) == pc' = [pc EXCEPT ![c] = place]

Fault(f) ==
  /\ f \in faults \/ Cardinality(faults) < MaxFaults
  /\ faults' = faults \cup {f}

(* An access outside from which the program does not recover. *)
Wild(access) ==
  /\ outside' = outside \cup {access}
  /\ up' = FALSE

-----------------------------------------------------------------------------
(* init() answers false whether or not it has worked; it numbers the        *)
(* clients from 0 again.                                                    *)
ServerInit(ok) ==
  /\ up /\ forks = 0
  /\ listening' = ok
  /\ count' = 0
  /\ UNCHANGED <<run, forks, list, clientvars, pc, memvars, unpacked, faults, outside, up>>

(* start(): a second one destroys the std::thread of the first, which ends  *)
(* the process.                                                             *)
Start ==
  /\ up /\ forks < MaxStarts
  /\ run' = TRUE
  /\ forks' = forks + 1
  /\ IF forks = 0 THEN UNCHANGED <<faults, up>> ELSE up' = FALSE /\ Fault("restart")
  /\ UNCHANGED <<listening, count, list, clientvars, pc, memvars, unpacked, outside>>

(* fork(): what accept() returned is not looked at.                         *)
Serve(c, state) ==
  /\ up /\ run /\ link[c] = "none"
  /\ count' = count + 1
  /\ list' = Append(list, <<count + 1, c>>)
  /\ link' = [link EXCEPT ![c] = state]
  /\ Goto(c, "header")
  /\ UNCHANGED <<listening, run, forks, net, body, sent, writes, memvars, unpacked>>

Accept(c) == listening /\ Serve(c, "open") /\ UNCHANGED <<faults, outside, up>>

AcceptFails(c) ==
  /\ Serve(c, "bad")
  /\ Fault("accept")
  /\ UNCHANGED <<outside, up>>

(* ptr is assigned to in memory from malloc(): the unique_ptr it takes to   *)
(* be there is deleted first.                                               *)
AcceptOnGarbage(c) ==
  /\ listening
  /\ Serve(c, "open")
  /\ Fault("malloc")
  /\ Wild("accept")

-----------------------------------------------------------------------------
(* The client. *)

Write(c, bytes) ==
  /\ up /\ link[c] = "open" /\ writes[c] < MaxSends[c]
  /\ writes' = [writes EXCEPT ![c] = @ + 1]
  /\ net' = [net EXCEPT ![c] = @ \o bytes]

WriteHeader(c, b) ==
  /\ body[c] = NoBody /\ b # <<>>
  /\ Write(c, <<HEAD, RECV, Len(b), END>>)
  /\ body' = [body EXCEPT ![c] = b]
  /\ UNCHANGED <<forkvars, link, sent, pc, memvars, unpacked, faults, outside, up>>

(* An empty body is sent with its header. *)
WriteEmpty(c) ==
  /\ body[c] = NoBody /\ <<>> \in Bodies[c]
  /\ Write(c, <<HEAD, RECV, 0, END>>)
  /\ sent' = [sent EXCEPT ![c] = Append(@, <<>>)]
  /\ UNCHANGED <<forkvars, link, body, pc, memvars, unpacked, faults, outside, up>>

WriteBody(c) ==
  /\ body[c] # NoBody
  /\ Write(c, body[c])
  /\ body' = [body EXCEPT ![c] = NoBody]
  /\ sent' = [sent EXCEPT ![c] = Append(@, body[c])]
  /\ UNCHANGED <<forkvars, link, pc, memvars, unpacked, faults, outside, up>>

(* Four bytes that ask for nothing, with a head or without. *)
WriteOther(c, head) ==
  /\ body[c] = NoBody
  /\ Write(c, <<head, ACK, 0, END>>)
  /\ UNCHANGED <<forkvars, link, body, sent, pc, memvars, unpacked, faults, outside, up>>

ClientCloses(c) ==
  /\ up /\ link[c] = "open"
  /\ link' = [link EXCEPT ![c] = "closed"]
  /\ Fault("close")
  /\ UNCHANGED <<forkvars, net, body, sent, writes, pc, memvars, unpacked, outside, up>>

-----------------------------------------------------------------------------
(* ::recv(acceptfd, ..., n): how many bytes it may put into the buffer; no  *)
(* answer at all while the client is silent, not even for n = 0.            *)
Most(c, n) == IF n < Len(net[c]) THEN n ELSE Len(net[c])

Got(c, n) ==
  {k \in 0..Most(c, n) :
     k = 0 => IF net[c] = <<>> THEN link[c] # "open" ELSE n = 0}

(* A buffer of which recv() has overwritten the first k bytes. *)
Filled(buffer, c, k) == SubSeq(net[c], 1, k) \o SubSeq(buffer, k + 1, Len(buffer))

Taken(c, n, k) ==
  /\ net' = [net EXCEPT ![c] = SubSeq(@, k + 1, Len(@))]
  /\ IF k < Most(c, n) THEN Fault("short") ELSE UNCHANGED faults

MutHeaderSize == 6          \* the structure without #pragma pack
HeaderSize == 4

MutBodySize == prerecv[2]   \* the other field
BodySize == prerecv[3]

ProtocolSize == 20          \* sizeof(sProtocol), header and trailer

-----------------------------------------------------------------------------
(* waitForClient(), again and again. *)

(* The result of recv() is not looked at: after 0 or an error, prerecv is   *)
(* what it was.                                                             *)
RecvHeader(c) ==
  /\ up /\ pc[c] = "header"
  /\ \E k \in Got(c, HeaderSize) :
       Taken(c, HeaderSize, k) /\ prerecv' = Filled(prerecv, c, k)
  /\ Goto(c, "check")
  /\ UNCHANGED <<forkvars, link, body, sent, writes, recvsec, heap, unpacked, outside, up>>

MutAsksForBody ==           \* the code of the other command
  prerecv[1] = HEAD /\ prerecv[4] = END /\ prerecv[2] = ACK

AsksForBody == prerecv[1] = HEAD /\ prerecv[4] = END /\ prerecv[2] = RECV

Check(c) ==
  /\ up /\ pc[c] = "check"
  /\ Goto(c, IF AsksForBody THEN "new" ELSE "header")
  /\ UNCHANGED <<forkvars, clientvars, memvars, unpacked, faults, outside, up>>

MutNewBlock == [i \in 1..(BodySize - 1) |-> Garbage]    \* one byte less
NewBlock == [i \in 1..BodySize |-> Garbage]

(* recvsec = new char[prerecv.info.size]; the number of blocks bounds it.   *)
New(c) ==
  /\ up /\ pc[c] = "new"
  /\ \E b \in Blocks \ Live :
       recvsec' = b /\ heap' = [heap EXCEPT ![b] = NewBlock]
  /\ Goto(c, "body")
  /\ UNCHANGED <<forkvars, clientvars, prerecv, unpacked, faults, outside, up>>

RecvBody(c) ==
  /\ up /\ pc[c] = "body" /\ recvsec \in Live
  /\ \E k \in Got(c, BodySize) :
       /\ k <= Len(heap[recvsec])
       /\ Taken(c, BodySize, k)
       /\ heap' = [heap EXCEPT ![recvsec] = Filled(@, c, k)]
  /\ Goto(c, "unpack")
  /\ UNCHANGED <<forkvars, link, body, sent, writes, prerecv, recvsec, unpacked, outside, up>>

(* Another thread has set recvsec to nullptr: recv() fails with EFAULT.     *)
RecvNowhere(c) ==
  /\ up /\ pc[c] = "body" /\ recvsec = Null
  /\ Got(c, BodySize) # {}
  /\ Goto(c, "unpack")
  /\ UNCHANGED <<forkvars, clientvars, memvars, unpacked, faults, outside, up>>

(* Bytes go to memory that is not, or no longer, the block's.               *)
RecvOutside(c) ==
  /\ up /\ pc[c] = "body" /\ recvsec \in Blocks
  /\ \E k \in Got(c, BodySize) : k > 0 /\ (recvsec \in Live => k > Len(heap[recvsec]))
  /\ Wild("recv")
  /\ UNCHANGED <<forkvars, clientvars, pc, memvars, unpacked, faults>>

(* unpack(recvsec, prerecv.info.size) takes the size for the payload's and  *)
(* reads a header and a trailer around it, beyond the end of a block of     *)
(* that size.  The history stops at one more body than the client can have  *)
(* sent.                                                                    *)
Unpack(c) ==
  /\ up /\ pc[c] = "unpack" /\ recvsec \in Live
  /\ LET block == heap[recvsec]
         bytes == [i \in 1..BodySize |-> IF i <= Len(block) THEN block[i] ELSE Garbage]
     IN  /\ unpacked' = [unpacked EXCEPT ![c] =
                           IF Len(@) > MaxSends[c] THEN @ ELSE Append(@, bytes)]
         /\ IF BodySize + ProtocolSize > Len(block)
              THEN outside' = outside \cup {"tail"} /\ up' \in BOOLEAN
              ELSE UNCHANGED <<outside, up>>
  /\ Goto(c, "delete")
  /\ UNCHANGED <<forkvars, clientvars, memvars, faults>>

UnpackNothing(c) ==
  /\ up /\ pc[c] = "unpack" /\ recvsec \notin Live
  /\ Wild("unpack")
  /\ UNCHANGED <<forkvars, clientvars, pc, memvars, unpacked, faults>>

Delete(c) ==
  /\ up /\ pc[c] = "delete" /\ recvsec \in Live \cup {Null}
  /\ heap' = [b \in Blocks |-> IF b = recvsec THEN Unused ELSE heap[b]]
  /\ Goto(c, "clear")
  /\ UNCHANGED <<forkvars, clientvars, prerecv, recvsec, unpacked, faults, outside, up>>

DeleteTwice(c) ==
  /\ up /\ pc[c] = "delete" /\ recvsec \in Blocks \ Live
  /\ Wild("delete")
  /\ UNCHANGED <<forkvars, clientvars, pc, memvars, unpacked, faults>>

Clear(c) ==
  /\ up /\ pc[c] = "clear"
  /\ recvsec' = Null
  /\ Goto(c, "return")
  /\ UNCHANGED <<forkvars, clientvars, prerecv, heap, unpacked, faults, outside, up>>

(* return recvData, and what Server() does with it, which is nothing.  The  *)
(* compiler may construct recvData in its caller's place ...                *)
ReturnInPlace(c) ==
  /\ up /\ pc[c] = "return"
  /\ Goto(c, "header")
  /\ UNCHANGED <<forkvars, clientvars, memvars, unpacked, faults, outside, up>>

(* ... or copy it, because there is another return.  A copy has the header  *)
(* of the original, whose destructor deletes it; Server() asks the copy for *)
(* its command, and deletes the header again.                               *)
ReturnCopy(c) ==
  /\ up /\ pc[c] = "return"
  /\ Wild("return")
  /\ UNCHANGED <<forkvars, clientvars, pc, memvars, unpacked, faults>>

ServerStep(c) ==
  \/ RecvHeader(c) \/ Check(c) \/ New(c)
  \/ RecvBody(c) \/ RecvNowhere(c) \/ RecvOutside(c)
  \/ Unpack(c) \/ UnpackNothing(c)
  \/ Delete(c) \/ DeleteTwice(c) \/ Clear(c)
  \/ ReturnInPlace(c) \/ ReturnCopy(c)

ClientStep(c) ==
  \/ \E b \in Bodies[c] : WriteHeader(c, b)
  \/ WriteEmpty(c) \/ WriteBody(c)
  \/ \E head \in {HEAD, 0} : WriteOther(c, head)
  \/ ClientCloses(c)

Next ==
  \/ \E ok \in BOOLEAN : ServerInit(ok)
  \/ Start
  \/ \E c \in Conns :
       \/ Accept(c) \/ AcceptFails(c) \/ AcceptOnGarbage(c)
       \/ ClientStep(c) \/ ServerStep(c)

(* The threads of the server keep being scheduled; nobody has to connect or *)
(* to write.                                                                *)
Spec == Init /\ [][Next]_vars
FairSpec == Spec /\ \A c \in Conns : WF_vars(ServerStep(c))

-----------------------------------------------------------------------------
Served == {c \in Conns : link[c] # "none"}

Own(c) ==
  /\ Len(unpacked[c]) <= Len(sent[c])
  /\ SubSeq(sent[c], 1, Len(unpacked[c])) = unpacked[c]

(* A client that is alone and writes whole messages is understood: unpack() *)
(* is given the bodies it sends, whole, once and in order, through whatever *)
(* other headers it mixes in.                                               *)
UnpacksOwnAlone ==
  faults = {} /\ Cardinality(Served) <= 1 => \A c \in Conns : Own(c)

(* An empty body that nothing follows: recv() waits for a byte although it  *)
(* is asked for none (NPDTCP.cpp:155).                                      *)
WaitsBehindEmpty(c, n) ==
  pc[c] = "body" /\ Len(sent[c]) = n /\ sent[c][n] = <<>> /\ net[c] = <<>>

(* And it is heard: every body it sends is unpacked, unless the client has  *)
(* nothing more to say behind an empty one, or an access outside has        *)
(* stopped the server.                                                      *)
UnpacksAllAlone ==
  \A c \in Conns : \A n \in 1..MaxSends[c] :
    Len(sent[c]) = n ~> \/ Len(unpacked[c]) >= n
                       \/ []WaitsBehindEmpty(c, n)
                       \/ ~up \/ faults # {} \/ Served # {c}

(* As long as no second connection is served, whatever a client or its      *)
(* network does - headers cut short, bodies that never come, closing        *)
(* anywhere - the only accesses outside what is allocated are the reads of  *)
(* unpack() behind the block (NPDTCP.cpp:158) and the header of a returned  *)
(* copy (:161); nothing else ends the server, and the block is there from   *)
(* its new to its delete[], one at a time, with neither a leak nor a second *)
(* delete[].                                                                *)
MemorySafeAlone ==
  faults \cap {"malloc", "restart"} = {} /\ Cardinality(Served) <= 1 =>
    /\ outside \subseteq {"tail", "return"}
    /\ up \/ outside # {}
    /\ Live = IF \E c \in Conns : pc[c] \in {"body", "unpack", "delete"}
              THEN {recvsec} ELSE {}

-----------------------------------------------------------------------------
(* With any number of clients, the header that announces a body is the one  *)
(* just received, and the body is the client's (NPDTCP.cpp:143: the first   *)
(* communication receives the command and the real length; :154: the second *)
(* one receives the real data).                                             *)
UnpacksOwn == faults = {} => \A c \in Conns : Own(c)
=============================================================================
