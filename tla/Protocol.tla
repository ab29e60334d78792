------------------------------- MODULE Protocol -------------------------------
(***************************************************************************)
(* NPDProtocol (src/LibNPDProtocol/NPDProtoacol.cpp): objects that own a   *)
(* heap block with the header and hold a buffer with the payload, built    *)
(* and unpacked from messages, together with an NPDbuffer of the caller in *)
(* which payloads are put together.                                        *)
(*                                                                         *)
(* Integers are kept whole: a field of w bytes in a message is w cells, of *)
(* which only all together, in order, give the value back.  2^16, the      *)
(* values of payloadlength, is LENGTHS.  After an access to memory that is *)
(* not an object's, nothing more is said of the program: up is FALSE.      *)
(***************************************************************************)
EXTENDS Buffer, FiniteSets

CONSTANTS
  Objects, Blocks,  \* NPDProtocol objects, heap blocks for headers
  Null,
  LENGTHS,
  Values,           \* the bytes callers put into buffers
  Messages,         \* the messages peers may send
  Ranges,           \* positions and sizes callers may ask for
  MaxSize,          \* bound: length of a buffer
  MaxCalls          \* bound

ASSUME NullAssumption == Null \notin Blocks
ASSUME LengthsAssumption == LENGTHS \in Nat \ {0}
ASSUME RangesAssumption == Ranges \subseteq (0..WORD - 1) \X (0..WORD - 1)
(* Senders know the length of their payload. *)
ASSUME MessagesAssumption ==
  \A m \in Messages : m.data \in Seq(Values) /\ m.payloadlength = Len(m.data) % LENGTHS
ASSUME FiniteAssumption == IsFiniteSet(Objects) /\ IsFiniteSet(Blocks)
(* No buffer grows to 2^32 bytes. *)
ASSUME BoundsAssumption == MaxSize \in 0..WORD - 1 /\ MaxCalls \in Nat

VARIABLES
  proto,    \* per object: its block, or Null when the object does not exist
  data,     \* per object: _data
  heap,     \* per block: a header, or Unused
  buf,      \* the caller's buffer
  meant,    \* history: what it should hold
  peer,     \* history, per object: the message it holds, or NoMessage
  leaks,    \* history: constructors that have thrown
  odd,      \* history: the unusual things that have been done
  calls,    \* history: how many calls
  up

objects == <<proto, data, heap>>
buffers == <<buf, meant>>
vars == <<objects, buffers, peer, leaks, odd, calls, up>>

OddThings == {"copy",     \* an object has been copied, as an argument by value is
              "wrap",     \* a position and a size with a sum of 2^32 and more
              "length",   \* unpack() with a size that is not the payload's
              "again",    \* unpack() into an object that holds data
              "null",     \* a payload at nullptr, of a size
              "plus",     \* operator+ or << with an argument that is not empty
              "pack"}     \* pack<T>()

NPDProtocolHead == 61354    \* 0xEFAA
NPDProtocolEnd == 61371     \* 0xEFBB

Unused == [head |-> -1]
NoMessage == [head |-> -1]

Live == {b \in Blocks : heap[b] # Unused}
Alive == {o \in Objects : proto[o] # Null}

-----------------------------------------------------------------------------
(* struct sProtocol: widths of its fields; the data of a message come after *)
(* the first five.                                                         *)
Garbled == -1

(* A field of w bytes, and what a read of w bytes makes of it. *)
Laid(value, w) == [k \in 1..w |-> <<value, k, w>>]

Field(mem, offset, w) ==
  LET cells == Slice(mem, offset, w) IN
  IF cells = Laid(cells[1][1], w) THEN cells[1][1] ELSE Garbled

Bytes(values) == [i \in DOMAIN values |-> <<values[i], 1, 1>>]

(* The message as its sender lays it out. *)
Wire(m) ==
  Laid(m.head, 2) \o Laid(m.slength, 1) \o Laid(m.type, 1) \o Laid(m.count, 2)
    \o Laid(m.payloadlength, 2) \o Bytes(m.data)
    \o Laid(m.tState, 1) \o Laid(m.run, 1) \o Laid(m.cmd, 2) \o Laid(m.CRC32, 4)
    \o Laid(m.reserve, 2) \o Laid(m.end, 2)

SIZE == 20      \* sizeof(struct sProtocol)

(* unpack(): the header that it reads from memory, nsize after the first    *)
(* eight bytes being the payload.                                          *)
MutHeaderAt(mem, nsize) ==
  [head |-> Field(mem, 0, 2), slength |-> Field(mem, 2, 1), type |-> Field(mem, 3, 1),
   count |-> Field(mem, 4, 2), payloadlength |-> Field(mem, 6, 2),
   tState |-> Field(mem, 8 + nsize, 1), cmd |-> Field(mem, 9 + nsize, 2),
   run |-> Field(mem, 11 + nsize, 1), CRC32 |-> Field(mem, 12 + nsize, 4),
   reserve |-> Field(mem, 16 + nsize, 2), end |-> Field(mem, 18 + nsize, 2)]

HeaderAt(mem, nsize) ==
  [head |-> Field(mem, 0, 2), slength |-> Field(mem, 2, 1), type |-> Field(mem, 3, 1),
   count |-> Field(mem, 4, 2), payloadlength |-> Field(mem, 6, 2),
   tState |-> Field(mem, 8 + nsize, 1), run |-> Field(mem, 9 + nsize, 1),
   cmd |-> Field(mem, 10 + nsize, 2), CRC32 |-> Field(mem, 12 + nsize, 4),
   reserve |-> Field(mem, 16 + nsize, 2), end |-> Field(mem, 18 + nsize, 2)]

PayloadAt(mem, nsize) == [i \in 1..nsize |-> mem[8 + i][1]]

(* init(): the header of an object without a payload. *)
Fresh ==
  [head |-> NPDProtocolHead, slength |-> SIZE, type |-> 0, count |-> 0,
   payloadlength |-> 0, tState |-> 0, run |-> 0, cmd |-> 0, CRC32 |-> 0,
   reserve |-> 0, end |-> NPDProtocolEnd]

-----------------------------------------------------------------------------
TypeOK ==
  /\ proto \in [Objects -> Blocks \cup {Null}]
  /\ \A o \in Objects : data[o] \in Seq(Values \cup {0})
  /\ DOMAIN heap = Blocks
  /\ \A b \in Live : DOMAIN heap[b] = DOMAIN Fresh /\ heap[b].payloadlength \in 0..LENGTHS - 1
  /\ buf \in Seq(Values \cup {0}) /\ meant \in Seq(Values \cup {0})
  /\ peer \in [Objects -> Messages \cup {NoMessage}]
  /\ leaks \in Nat
  /\ odd \subseteq OddThings
  /\ calls \in 0..MaxCalls
  /\ up \in BOOLEAN

Init ==
  /\ proto = [o \in Objects |-> Null]
  /\ data = [o \in Objects |-> <<>>]
  /\ heap = [b \in Blocks |-> Unused]
  /\ buf = <<>> /\ meant = <<>>
  /\ peer = [o \in Objects |-> NoMessage]
  /\ leaks = 0 /\ odd = {} /\ calls = 0 /\ up = TRUE

Call == up /\ calls < MaxCalls /\ calls' = calls + 1
Done == UNCHANGED <<odd, up>>
Odd(thing) == odd' = odd \cup {thing}

-----------------------------------------------------------------------------
(* The caller's buffer: what may come of an operation on a range.  It       *)
(* throws and changes nothing, or goes on, inside the bytes or outside.     *)
Ranged(pos, size, result, reference) ==
  /\ Call
  /\ odd' = IF pos + size >= WORD THEN odd \cup {"wrap"} ELSE odd
  /\ IF Passes(buf, pos, size) /\ Fits(buf, pos, size) THEN buf' = result ELSE buf' = buf
  /\ meant' = IF Fits(meant, pos, size) THEN reference ELSE meant
  /\ up' = (Passes(buf, pos, size) => Fits(buf, pos, size))
  /\ UNCHANGED <<objects, peer, leaks>>

Unranged(result, reference) ==
  /\ Call /\ Len(result) <= MaxSize
  /\ buf' = result /\ meant' = reference
  /\ UNCHANGED <<objects, peer, leaks, up>>

(* src: the bytes or the buffer given, for which the code has an overload   *)
(* each.                                                                   *)
Set(pos, src) ==
  Ranged(pos, Len(src), Written(buf, pos, src),
         [i \in DOMAIN meant |-> IF i - pos \in DOMAIN src THEN src[i - pos] ELSE meant[i]])

(* The part that get() returns; one of no bytes is refused by NPDbuffer().  *)
Get(pos, size) ==
  /\ size # 0
  /\ Ranged(pos, size, Slice(buf, pos, size), [i \in 1..size |-> meant[pos + i]])

(* query() answers with a pointer to what get() would return. *)
Query(pos, size) == Ranged(pos, size, buf, meant)

Remove(pos, size) ==
  /\ size # 0
  /\ Ranged(pos, size, Removed(buf, pos, size),
            [i \in 1..Len(meant) - size |-> IF i <= pos THEN meant[i] ELSE meant[i + size]])

RemoveAll == Unranged(<<>>, <<>>) /\ UNCHANGED odd

Insert(pos, src) ==
  /\ LET at == IF pos < Len(meant) THEN pos ELSE Len(meant) IN
     Unranged(Inserted(buf, pos, src),
              [i \in 1..Len(meant) + Len(src) |->
                 IF i <= at THEN meant[i]
                 ELSE IF i - at \in DOMAIN src THEN src[i - at] ELSE meant[i - Len(src)]])
  /\ UNCHANGED odd

AppendBytes(src) == Unranged(Appended(buf, src), meant \o src) /\ UNCHANGED odd

Resize(size) ==
  /\ Unranged(Resized(buf, size),
              [i \in 1..size |-> IF i \in DOMAIN meant THEN meant[i] ELSE 0])
  /\ UNCHANGED odd

Add(src) ==
  /\ Unranged(Plus(buf, src), meant \o src)
  /\ odd' = IF src = <<>> THEN odd ELSE odd \cup {"plus"}

BufferStep ==
  \/ \E range \in Ranges :
       \/ Get(range[1], range[2]) \/ Query(range[1], range[2]) \/ Remove(range[1], range[2])
       \/ Resize(range[2])
       \/ \E src \in [1..range[2] -> Values] :
            range[2] <= MaxSize /\ (Set(range[1], src) \/ Insert(range[1], src))
  \/ RemoveAll
  \/ \E value \in Values : AppendBytes(<<value>>) \/ Add(<<value>>)

-----------------------------------------------------------------------------
(* The objects. *)

Holds(o, header, payload, message) ==
  /\ heap' = [heap EXCEPT ![proto[o]] = header]
  /\ data' = [data EXCEPT ![o] = payload]
  /\ peer' = [peer EXCEPT ![o] = message]
  /\ UNCHANGED <<proto, buffers, leaks>>

Crash == up' = FALSE /\ UNCHANGED <<objects, buffers, peer, leaks>>

(* The header of a new object, with its own block. *)
New(o, payload, payloadlength) ==
  /\ \E b \in Blocks \ Live :
       /\ proto' = [proto EXCEPT ![o] = b]
       /\ heap' = [heap EXCEPT ![b] = [Fresh EXCEPT !.payloadlength = payloadlength % LENGTHS]]
  /\ data' = [data EXCEPT ![o] = payload]
  /\ peer' = [peer EXCEPT ![o] = NoMessage]
  /\ UNCHANGED <<buffers, leaks, up>>

Construct(o) == Call /\ proto[o] = Null /\ New(o, <<>>, 0) /\ UNCHANGED odd

(* A constructor with a payload calls set() on a buffer without bytes: of   *)
(* any payload but an empty one that throws, and the destructor does not    *)
(* run for an object that has not been made.                               *)
ConstructWith(o) ==
  /\ Call /\ proto[o] = Null
  /\ IF Passes(<<>>, 0, Len(buf))
     THEN New(o, Written(<<>>, 0, buf), Len(buf))
     ELSE /\ \E b \in Blocks \ Live : heap' = [heap EXCEPT ![b] = Fresh]
          /\ leaks' = leaks + 1
          /\ UNCHANGED <<proto, data, buffers, peer, up>>
  /\ UNCHANGED odd

(* set() takes nullptr for nothing to do. *)
ConstructWithNull(o, nsize) ==
  Call /\ proto[o] = Null /\ New(o, <<>>, nsize) /\ Odd("null")

(* The copy constructor of the compiler. *)
Copy(o, source) ==
  /\ Call /\ proto[o] = Null /\ source \in Alive
  /\ proto' = [proto EXCEPT ![o] = proto[source]]
  /\ data' = [data EXCEPT ![o] = data[source]]
  /\ peer' = [peer EXCEPT ![o] = peer[source]]
  /\ Odd("copy")
  /\ UNCHANGED <<heap, buffers, leaks, up>>

Destroy(o) ==
  /\ Call /\ o \in Alive
  /\ IF proto[o] \in Live
     THEN /\ heap' = [heap EXCEPT ![proto[o]] = Unused]
          /\ proto' = [proto EXCEPT ![o] = Null]
          /\ data' = [data EXCEPT ![o] = <<>>]
          /\ peer' = [peer EXCEPT ![o] = NoMessage]
          /\ UNCHANGED <<buffers, leaks, up>>
     ELSE Crash
  /\ UNCHANGED odd

MutWideLength(length, size) == length + size
MutLengthWith(length, size) == size % LENGTHS
LengthWith(length, size) == (length + size) % LENGTHS

addPayload(o) ==
  /\ Call /\ o \in Alive /\ Len(data[o]) + Len(buf) <= MaxSize
  /\ IF proto[o] \in Live
     THEN LET header == heap[proto[o]] IN
          /\ Holds(o, [header EXCEPT !.payloadlength = LengthWith(@, Len(buf))],
                   Appended(data[o], buf), NoMessage)
          /\ UNCHANGED up
     ELSE Crash
  /\ UNCHANGED odd

(* The size is not compared with the payloadlength that is read, and what   *)
(* the object held before stays in front.                                  *)
unpack(o, m, nsize) ==
  /\ Call /\ o \in Alive /\ Len(data[o]) + nsize <= MaxSize
  /\ IF proto[o] \in Live /\ SIZE + nsize <= Len(Wire(m))
     THEN /\ Holds(o, HeaderAt(Wire(m), nsize),
                   Appended(data[o], PayloadAt(Wire(m), nsize)), m)
          /\ UNCHANGED up
     ELSE Crash
  /\ odd' = odd \cup (IF nsize = Len(m.data) THEN {} ELSE {"length"})
                  \cup (IF data[o] = <<>> THEN {} ELSE {"again"})

(* clear() is init(), which keeps the block there is. *)
MutClear(o) ==
  /\ Call /\ o \in Alive
  /\ New(o, <<>>, 0)
  /\ UNCHANGED odd

clear(o) ==
  /\ Call /\ o \in Alive
  /\ IF proto[o] \in Live THEN Holds(o, Fresh, <<>>, NoMessage) /\ UNCHANGED up ELSE Crash
  /\ UNCHANGED odd

(* pack() copies to _proto, and to eight and more structs behind it. *)
pack(o) == Call /\ o \in Alive /\ Crash /\ Odd("pack")

ObjectStep(o) ==
  \/ Construct(o) \/ ConstructWith(o) \/ ConstructWithNull(o, 1)
  \/ \E source \in Objects : Copy(o, source)
  \/ Destroy(o)
  \/ addPayload(o) \/ clear(o) \/ pack(o)
  \/ \E m \in Messages, range \in Ranges : unpack(o, m, range[2])

Next == BufferStep \/ \E o \in Objects : ObjectStep(o)

Spec == Init /\ [][Next]_vars

-----------------------------------------------------------------------------
(* Whatever is done to a buffer, its bytes are the ones the operations      *)
(* name by their places: nothing shifted, lost or overwritten at the edges  *)
(* of a range, and nothing changed when one of them throws                  *)
(* (NPDBuffer.cpp:76-239).                                                  *)
BufferAsMeant == odd \cap {"plus", "wrap"} = {} => buf = meant

(* Without copies, wrapped ranges and wrong sizes, no operation reaches     *)
(* outside an object, every object has a block of its own, and no block is  *)
(* left over but those of constructors that threw (NPDProtoacol.cpp:22-94,  *)
(* 129-148).                                                                *)
MemorySafe ==
  odd \cap {"copy", "wrap", "length", "pack"} = {} =>
    /\ up
    /\ \A o \in Alive : proto[o] \in Live
    /\ \A o, p \in Alive : proto[o] = proto[p] => o = p
    /\ Cardinality(Live) = Cardinality(Alive) + leaks

(* payloadlength is the length of the payload, 2^16 and its multiples left  *)
(* out, through constructors that throw, additions, messages and clear()    *)
(* (NPDProtoacol.cpp:54-66, 129-148).                                       *)
LengthAgrees ==
  odd \subseteq {"plus"} =>
    \A o \in Alive : heap[proto[o]].payloadlength = Len(data[o]) % LENGTHS

(* A message that is unpacked with the size of its payload into an object   *)
(* without data is read as its sender wrote it, field by field              *)
(* (NPDProtoacol.cpp:68-94, NPDProtocol.h:59-73).                           *)
Unpacked ==
  odd \subseteq {"plus"} =>
    \A o \in Alive : peer[o] # NoMessage =>
      /\ data[o] = peer[o].data
      /\ \A field \in DOMAIN Fresh : heap[proto[o]][field] = peer[o][field]
=============================================================================
