-------------------------------- MODULE Buffer --------------------------------
(***************************************************************************)
(* NPDbuffer (src/LibNPDBase/NPDBuffer.cpp) as operators: a buffer is the  *)
(* sequence of its bytes, and an operation with a position is three of     *)
(* them - does it pass the check, is the range really inside, and the      *)
(* result.  Positions and sizes are uint32_t; 2^32 is WORD.                *)
(***************************************************************************)
EXTENDS Integers, Sequences

CONSTANT WORD

ASSUME WordAssumption == WORD \in Nat \ {0}

(* pos + size > _buffer.size(), the sum being a uint32_t. *)
Passes(b, pos, size) == (pos + size) % WORD <= Len(b)

Fits(b, pos, size) == pos + size <= Len(b)

Slice(b, pos, size) == SubSeq(b, pos + 1, pos + size)
From(b, pos) == SubSeq(b, pos + 1, Len(b))

(* resize(): cut off, or filled up with 0. *)
Resized(b, size) == [i \in 1..size |-> IF i <= Len(b) THEN b[i] ELSE 0]

(* operator+ and operator<<: resized to the sum, and appended to that. *)
Plus(b, src) == Resized(b, Len(b) + Len(src)) \o src

Appended(b, src) == b \o src

(* set() of a range that fits. *)
Written(b, pos, src) == Slice(b, 0, pos) \o src \o From(b, pos + Len(src))

MutInserted(b, pos, src) ==
  IF pos >= Len(b) THEN Appended(b, src) ELSE Written(b, pos, src)

Inserted(b, pos, src) ==
  IF pos >= Len(b) THEN Appended(b, src) ELSE Slice(b, 0, pos) \o src \o From(b, pos)

(* remove() of a range that fits. *)
Removed(b, pos, size) == Slice(b, 0, pos) \o From(b, pos + size)
=============================================================================
