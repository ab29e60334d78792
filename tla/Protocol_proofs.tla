--------------------------- MODULE Protocol_proofs ---------------------------
(***************************************************************************)
(* What is proved of Protocol.  First the bytes: each operation of the     *)
(* buffer is a splice of slices, and a lemma each (...Is) shows that it is *)
(* the function of places that the specification keeps in meant; the sum   *)
(* of 32 bits only tells whether the range fits (BufferAsMeant).  Then the *)
(* objects: no memory outside an object, no block shared or lost, lengths  *)
(* that agree, messages read as they were sent.  WireIs says where each    *)
(* field of a message lies and HeaderIs what is read there; IInv is the    *)
(* inductive invariant; one lemma for each way in which the objects change *)
(* follows, of which the operations are cases.                             *)
(***************************************************************************)
EXTENDS Protocol, SequenceTheorems, FiniteSetTheorems, TLAPS

(* Up to 2^32 the check is the right one.                                   *)
LEMMA PassesFits ==
  ASSUME NEW b, Len(b) \in Nat, NEW pos \in Nat, NEW size \in Nat, pos + size < WORD
  PROVE  Passes(b, pos, size) <=> Fits(b, pos, size)
<1>1. (pos + size) % WORD = pos + size
  BY WordAssumption
<1>2. QED
  BY <1>1 DEF Passes, Fits

(* Functions on 1..n are sequences of length n.                             *)
LEMMA FunctionIsSeq ==
  ASSUME NEW S, NEW n \in Nat, NEW f \in [1..n -> S]
  PROVE  f \in Seq(S) /\ Len(f) = n
OBVIOUS

LEMMA SliceIs ==
  ASSUME NEW S, NEW b \in Seq(S), NEW pos \in Nat, NEW size \in Nat, Fits(b, pos, size)
  PROVE  /\ Slice(b, pos, size) \in Seq(S)
         /\ Len(Slice(b, pos, size)) = size
         /\ \A i \in 1..size : Slice(b, pos, size)[i] = b[pos + i]
<1>1. Len(b) \in Nat /\ pos + size <= Len(b)
  BY LenProperties DEF Fits
<1>2. \A i \in pos + 1..pos + size : b[i] \in S
  BY <1>1, ElementOfSeq
<1>3. /\ Slice(b, pos, size) \in Seq(S)
      /\ Len(Slice(b, pos, size)) = IF pos + 1 <= pos + size THEN pos + size - (pos + 1) + 1 ELSE 0
      /\ \A i \in 1..pos + size - (pos + 1) + 1 : Slice(b, pos, size)[i] = b[pos + 1 + i - 1]
  BY <1>1, <1>2, SubSeqProperties DEF Slice
<1>4. QED
  BY <1>1, <1>3

LEMMA FromIs ==
  ASSUME NEW S, NEW b \in Seq(S), NEW pos \in Nat, pos <= Len(b)
  PROVE  /\ From(b, pos) \in Seq(S)
         /\ Len(From(b, pos)) = Len(b) - pos
         /\ \A i \in 1..Len(b) - pos : From(b, pos)[i] = b[pos + i]
<1> DEFINE size == Len(b) - pos
<1>1. Len(b) \in Nat /\ size \in Nat /\ pos + size = Len(b)
  BY LenProperties
<1>2. From(b, pos) = Slice(b, pos, size) /\ Fits(b, pos, size)
  BY <1>1 DEF From, Slice, Fits
<1> HIDE DEF size
<1>3. /\ Slice(b, pos, size) \in Seq(S) /\ Len(Slice(b, pos, size)) = size
      /\ \A i \in 1..size : Slice(b, pos, size)[i] = b[pos + i]
  BY <1>1, <1>2, SliceIs
<1>4. QED
  BY <1>2, <1>3 DEF size

(* A buffer with src in it at pos, and the rest of it behind from.          *)
SplicedAs(new, b, src, pos, from) ==
  /\ Len(new) = Len(b) - from + pos + Len(src)
  /\ \A i \in 1..Len(b) - from + pos + Len(src) :
       new[i] = IF i <= pos THEN b[i]
                ELSE IF i - pos \in 1..Len(src) THEN src[i - pos]
                ELSE b[i - pos - Len(src) + from]

LEMMA Spliced ==
  ASSUME NEW S, NEW b \in Seq(S), NEW src \in Seq(S), NEW pos \in Nat, NEW from \in Nat,
         pos <= from, from <= Len(b)
  PROVE  LET new == Slice(b, 0, pos) \o src \o From(b, from) IN
         new \in Seq(S) /\ SplicedAs(new, b, src, pos, from)
<1> DEFINE head == Slice(b, 0, pos)
           mid == head \o src
           tail == From(b, from)
           k == Len(src)
           l == Len(b)
<1>1. k \in Nat /\ l \in Nat
  BY LenProperties
<1>2. head \in Seq(S) /\ Len(head) = pos /\ \A i \in 1..pos : head[i] = b[i]
  <2>1. Fits(b, 0, pos)
    BY <1>1 DEF Fits
  <2>2. \A i \in 1..pos : 0 + i = i
    OBVIOUS
  <2>3. head \in Seq(S) /\ Len(head) = pos /\ \A i \in 1..pos : head[i] = b[0 + i]
    <3> HIDE DEF head
    <3>1. QED
      BY <2>1, SliceIs DEF head
  <2>4. QED
    BY <2>2, <2>3
<1>3. tail \in Seq(S) /\ Len(tail) = l - from /\ \A i \in 1..l - from : tail[i] = b[from + i]
  BY FromIs
<1> HIDE DEF head, tail
<1>4. /\ mid \in Seq(S) /\ Len(mid) = pos + k
      /\ \A i \in 1..pos + k : mid[i] = IF i <= pos THEN b[i] ELSE src[i - pos]
  <2>1. /\ mid \in Seq(S) /\ Len(mid) = Len(head) + Len(src)
        /\ \A i \in 1..Len(head) + Len(src) :
             mid[i] = IF i <= Len(head) THEN head[i] ELSE src[i - Len(head)]
    BY <1>2, ConcatProperties
  <2> HIDE DEF mid
  <2>2. QED
    BY <1>1, <1>2, <2>1
<1> HIDE DEF mid, k, l
<1>5. /\ mid \o tail \in Seq(S) /\ Len(mid \o tail) = Len(mid) + Len(tail)
      /\ \A i \in 1..Len(mid) + Len(tail) :
           (mid \o tail)[i] = IF i <= Len(mid) THEN mid[i] ELSE tail[i - Len(mid)]
  BY <1>3, <1>4, ConcatProperties
<1>6. Len(mid) + Len(tail) = l - from + pos + k
  BY <1>1, <1>3, <1>4
<1>7. ASSUME NEW i \in 1..l - from + pos + k
      PROVE  (mid \o tail)[i] = IF i <= pos THEN b[i]
                                ELSE IF i - pos \in 1..k THEN src[i - pos]
                                ELSE b[i - pos - k + from]
  <2>1. CASE i <= pos + k
    BY <1>1, <1>3, <1>4, <1>5, <1>6, <2>1
  <2>2. CASE i > pos + k
    <3>1. i \in 1..Len(mid) + Len(tail) /\ Len(mid) = pos + k /\ ~ (i <= pos + k)
      BY <1>1, <1>4, <1>6, <2>2
    <3>2. (mid \o tail)[i] = tail[i - (pos + k)]
      BY <1>5, <3>1
    <3>3. i - (pos + k) \in 1..l - from /\ from + (i - (pos + k)) = i - pos - k + from
      BY <1>1, <2>2
    <3>4. i - pos \notin 1..k /\ ~ (i <= pos)
      BY <1>1, <2>2
    <3>5. QED
      BY <1>3, <3>2, <3>3, <3>4
  <2>3. i <= pos + k \/ i > pos + k
    BY <1>1
  <2>4. QED
    BY <2>1, <2>2, <2>3, Zenon
<1>8. SplicedAs(mid \o tail, b, src, pos, from)
  BY <1>5, <1>6, <1>7 DEF SplicedAs, k, l
<1>9. QED
  BY <1>5, <1>8 DEF mid, head, tail

(* A sequence that has the values of a function is the function.            *)
LEMMA SeqIsFunction ==
  ASSUME NEW S, NEW n \in Nat, NEW s \in Seq(S), Len(s) = n,
         NEW f \in [1..n -> S], \A i \in 1..n : s[i] = f[i]
  PROVE  s = f
<1>1. s \in [1..n -> S]
  BY LenProperties
<1>2. QED
  BY <1>1

-----------------------------------------------------------------------------
(* The operations, as what they do to the byte at each place.               *)
WriteRef(b, pos, src) ==
  [i \in DOMAIN b |-> IF i - pos \in DOMAIN src THEN src[i - pos] ELSE b[i]]

LEMMA WrittenIs ==
  ASSUME NEW S, NEW b \in Seq(S), NEW src \in Seq(S), NEW pos \in Nat,
         Fits(b, pos, Len(src))
  PROVE  Written(b, pos, src) \in Seq(S) /\ Written(b, pos, src) = WriteRef(b, pos, src)
<1> DEFINE new == Written(b, pos, src)
           k == Len(src)
           l == Len(b)
<1>1. /\ k \in Nat /\ l \in Nat /\ DOMAIN src = 1..k /\ DOMAIN b = 1..l
      /\ pos + k <= l /\ pos + k \in Nat /\ pos <= pos + k
  BY LenProperties DEF Fits
<1>2. new = Slice(b, 0, pos) \o src \o From(b, pos + k)
  BY DEF Written
<1>3. /\ new \in Seq(S) /\ Len(new) = l - (pos + k) + pos + k
      /\ \A i \in 1..l - (pos + k) + pos + k :
           new[i] = IF i <= pos THEN b[i]
                    ELSE IF i - pos \in 1..k THEN src[i - pos]
                    ELSE b[i - pos - k + (pos + k)]
  <2>1. new \in Seq(S) /\ SplicedAs(new, b, src, pos, pos + k)
    BY <1>1, <1>2, Spliced
  <2> HIDE DEF new
  <2>2. QED
    BY <2>1 DEF SplicedAs
<1> HIDE DEF new, k, l
<1>4. Len(new) = l
  BY <1>1, <1>3
<1>5. \A i \in 1..k : src[i] \in S
  BY <1>1, ElementOfSeq DEF k
<1>6. \A i \in 1..l : b[i] \in S
  BY <1>1, ElementOfSeq DEF l
<1>7. WriteRef(b, pos, src) \in [1..l -> S]
  BY <1>1, <1>5, <1>6 DEF WriteRef
<1>8. ASSUME NEW i \in 1..l PROVE new[i] = WriteRef(b, pos, src)[i]
  <2>1. WriteRef(b, pos, src)[i] = IF i - pos \in 1..k THEN src[i - pos] ELSE b[i]
    BY <1>1 DEF WriteRef
  <2>2. i <= pos => i - pos \notin 1..k
    BY <1>1
  <2>3. i - pos - k + (pos + k) = i /\ l - (pos + k) + pos + k = l
    BY <1>1
  <2>4. i \in 1..l - (pos + k) + pos + k
    BY <2>3
  <2>5. new[i] = IF i <= pos THEN b[i] ELSE IF i - pos \in 1..k THEN src[i - pos] ELSE b[i]
    BY <1>3, <2>3, <2>4
  <2>6. CASE i <= pos
    BY <2>1, <2>2, <2>5, <2>6
  <2>7. CASE ~ (i <= pos)
    BY <2>1, <2>5, <2>7
  <2>8. QED
    BY <2>6, <2>7
<1>9. new = WriteRef(b, pos, src)
  BY <1>1, <1>3, <1>4, <1>7, <1>8, SeqIsFunction
<1>10. QED
  BY <1>3, <1>9 DEF new

RemoveRef(b, pos, size) ==
  [i \in 1..Len(b) - size |-> IF i <= pos THEN b[i] ELSE b[i + size]]

LEMMA RemovedIs ==
  ASSUME NEW S, NEW b \in Seq(S), NEW pos \in Nat, NEW size \in Nat, Fits(b, pos, size)
  PROVE  Removed(b, pos, size) \in Seq(S) /\ Removed(b, pos, size) = RemoveRef(b, pos, size)
<1> DEFINE new == Removed(b, pos, size)
           l == Len(b)
<1>1. /\ l \in Nat /\ pos + size <= l /\ pos + size \in Nat /\ pos <= pos + size
      /\ <<>> \in Seq(S) /\ Len(<<>>) = 0
  BY LenProperties DEF Fits
<1>2. new = Slice(b, 0, pos) \o <<>> \o From(b, pos + size)
  <2>1. Slice(b, 0, pos) \in Seq(S)
    BY <1>1, SliceIs DEF Fits
  <2>2. Slice(b, 0, pos) \o <<>> = Slice(b, 0, pos)
    BY <2>1, ConcatEmptySeq
  <2>3. QED
    BY <2>2 DEF Removed
<1>3. /\ new \in Seq(S) /\ Len(new) = l - (pos + size) + pos + 0
      /\ \A i \in 1..l - (pos + size) + pos + 0 :
           new[i] = IF i <= pos THEN b[i]
                    ELSE IF i - pos \in 1..0 THEN <<>>[i - pos]
                    ELSE b[i - pos - 0 + (pos + size)]
  <2>1. new \in Seq(S) /\ SplicedAs(new, b, <<>>, pos, pos + size)
    BY <1>1, <1>2, Spliced
  <2> HIDE DEF new
  <2>2. QED
    BY <1>1, <2>1 DEF SplicedAs
<1> HIDE DEF new, l
<1>4. Len(new) = l - size /\ l - size \in Nat
  BY <1>1, <1>3
<1>5. \A i \in 1..l : b[i] \in S
  BY <1>1, ElementOfSeq DEF l
<1>6. RemoveRef(b, pos, size) \in [1..l - size -> S]
  BY <1>1, <1>5 DEF RemoveRef, l
<1>7. ASSUME NEW i \in 1..l - size PROVE new[i] = RemoveRef(b, pos, size)[i]
  <2>1. RemoveRef(b, pos, size)[i] = IF i <= pos THEN b[i] ELSE b[i + size]
    BY DEF RemoveRef, l
  <2>2. i - pos \notin 1..0 /\ i - pos - 0 + (pos + size) = i + size
    BY <1>1
  <2>3. i \in 1..l - (pos + size) + pos + 0
    BY <1>1
  <2>4. QED
    BY <1>3, <2>1, <2>2, <2>3
<1>8. new = RemoveRef(b, pos, size)
  BY <1>3, <1>4, <1>6, <1>7, SeqIsFunction
<1>9. QED
  BY <1>3, <1>8 DEF new

InsertRef(b, pos, src) ==
  LET at == IF pos < Len(b) THEN pos ELSE Len(b) IN
  [i \in 1..Len(b) + Len(src) |->
     IF i <= at THEN b[i]
     ELSE IF i - at \in DOMAIN src THEN src[i - at] ELSE b[i - Len(src)]]

LEMMA InsertedIs ==
  ASSUME NEW S, NEW b \in Seq(S), NEW src \in Seq(S), NEW pos \in Nat
  PROVE  Inserted(b, pos, src) \in Seq(S) /\ Inserted(b, pos, src) = InsertRef(b, pos, src)
<1> DEFINE new == Inserted(b, pos, src)
           k == Len(src)
           l == Len(b)
           at == IF pos < l THEN pos ELSE l
           ref == InsertRef(b, pos, src)
<1>1. /\ k \in Nat /\ l \in Nat /\ l + k \in Nat /\ DOMAIN src = 1..k
      /\ at \in Nat /\ at <= l
  BY LenProperties
<1>2. ref = [i \in 1..l + k |-> IF i <= at THEN b[i]
                               ELSE IF i - at \in 1..k THEN src[i - at] ELSE b[i - k]]
  BY <1>1 DEF InsertRef
<1>3. (\A i \in 1..k : src[i] \in S) /\ (\A i \in 1..l : b[i] \in S)
  BY ElementOfSeq
<1> HIDE DEF new, at, k, l, ref
<1>4. ref \in [1..l + k -> S]
  <2>1. ASSUME NEW i \in 1..l + k
        PROVE  (IF i <= at THEN b[i]
                ELSE IF i - at \in 1..k THEN src[i - at] ELSE b[i - k]) \in S
    BY <1>1, <1>3
  <2>2. QED
    BY <1>2, <2>1
<1>5. CASE pos >= l
  <2>1. at = l
    BY <1>1, <1>5 DEF at
  <2>2. new = b \o src
    BY <1>1, <1>5 DEF new, Inserted, Appended, l
  <2>3. /\ new \in Seq(S) /\ Len(new) = l + k
        /\ \A i \in 1..l + k : new[i] = IF i <= l THEN b[i] ELSE src[i - l]
    BY <2>2, ConcatProperties DEF l, k
  <2>4. ASSUME NEW i \in 1..l + k PROVE new[i] = ref[i]
    <3>1. i > l => i - l \in 1..k
      BY <1>1
    <3>2. QED
      BY <1>1, <1>2, <2>1, <2>3, <3>1
  <2>5. new = ref
    BY <1>1, <1>4, <2>3, <2>4, SeqIsFunction
  <2>6. QED
    BY <2>3, <2>5 DEF new, ref
<1>6. CASE pos < l
  <2>1. at = pos
    BY <1>6 DEF at
  <2>2. new = Slice(b, 0, pos) \o src \o From(b, pos)
    BY <1>1, <1>6 DEF new, Inserted, l
  <2>3. /\ new \in Seq(S) /\ Len(new) = l - pos + pos + k
        /\ \A i \in 1..l - pos + pos + k :
             new[i] = IF i <= pos THEN b[i]
                      ELSE IF i - pos \in 1..k THEN src[i - pos]
                      ELSE b[i - pos - k + pos]
    <3>1. new \in Seq(S) /\ SplicedAs(new, b, src, pos, pos)
      BY <1>1, <1>6, <2>2, Spliced DEF l
    <3>2. QED
      BY <3>1 DEF SplicedAs, l, k
  <2>4. l - pos + pos + k = l + k
    BY <1>1
  <2>5. ASSUME NEW i \in 1..l + k PROVE new[i] = ref[i]
    <3>1. i - pos - k + pos = i - k
      BY <1>1
    <3>2. QED
      BY <1>2, <2>1, <2>3, <2>4, <3>1
  <2>6. new = ref
    BY <1>1, <1>4, <2>3, <2>4, <2>5, SeqIsFunction
  <2>7. QED
    BY <2>3, <2>6 DEF new, ref
<1>7. QED
  BY <1>1, <1>5, <1>6

GetRef(b, pos, size) == [i \in 1..size |-> b[pos + i]]

LEMMA GotIs ==
  ASSUME NEW S, NEW b \in Seq(S), NEW pos \in Nat, NEW size \in Nat, Fits(b, pos, size)
  PROVE  Slice(b, pos, size) \in Seq(S) /\ Slice(b, pos, size) = GetRef(b, pos, size)
<1>1. /\ Slice(b, pos, size) \in Seq(S) /\ Len(Slice(b, pos, size)) = size
      /\ \A i \in 1..size : Slice(b, pos, size)[i] = b[pos + i]
  BY SliceIs
<1>2. \A i \in 1..size : b[pos + i] \in S
  BY LenProperties, ElementOfSeq DEF Fits
<1>3. GetRef(b, pos, size) \in [1..size -> S]
  BY <1>2 DEF GetRef
<1>4. \A i \in 1..size : GetRef(b, pos, size)[i] = b[pos + i]
  BY DEF GetRef
<1> HIDE DEF GetRef
<1>5. QED
  BY <1>1, <1>3, <1>4, SeqIsFunction

ResizeRef(b, size) == [i \in 1..size |-> IF i \in DOMAIN b THEN b[i] ELSE 0]

LEMMA ResizedIs ==
  ASSUME NEW S, 0 \in S, NEW b \in Seq(S), NEW size \in Nat
  PROVE  Resized(b, size) \in Seq(S) /\ Resized(b, size) = ResizeRef(b, size)
<1>1. Len(b) \in Nat /\ DOMAIN b = 1..Len(b) /\ \A i \in 1..Len(b) : b[i] \in S
  BY LenProperties, ElementOfSeq
<1>2. \A i \in 1..size : i <= Len(b) <=> i \in DOMAIN b
  BY <1>1
<1>3. Resized(b, size) = ResizeRef(b, size)
  BY <1>2 DEF Resized, ResizeRef
<1>4. ResizeRef(b, size) \in [1..size -> S]
  BY <1>1 DEF ResizeRef
<1>5. QED
  BY <1>3, <1>4, FunctionIsSeq
-----------------------------------------------------------------------------
(* The caller's buffer.                                                     *)
Stored == Values \cup {0}

BufInv == buf \in Seq(Stored) /\ meant \in Seq(Stored) /\ BufferAsMeant

(* An operation on a range, whose result is the one of the reference if     *)
(* the range fits.                                                          *)
LEMMA RangedInv ==
  ASSUME BufInv, NEW pos \in 0..WORD - 1, NEW size \in 0..WORD - 1, NEW result, NEW reference,
         Ranged(pos, size, result, reference),
         Fits(buf, pos, size) => result \in Seq(Stored),
         Fits(meant, pos, size) => reference \in Seq(Stored),
         Fits(buf, pos, size) /\ buf = meant => result = reference
  PROVE  BufInv'
<1>1. buf' \in Seq(Stored) /\ meant' \in Seq(Stored)
  BY DEF BufInv, Ranged
<1>2. ASSUME odd' \cap {"plus", "wrap"} = {} PROVE buf' = meant'
  <2>1. pos \in Nat /\ size \in Nat /\ Len(buf) \in Nat
    BY WordAssumption, LenProperties DEF BufInv
  <2>2. pos + size < WORD /\ odd \cap {"plus", "wrap"} = {}
    BY <1>2, <2>1, WordAssumption DEF Ranged
  <2>3. buf = meant
    BY <2>2 DEF BufInv, BufferAsMeant
  <2>4. Passes(buf, pos, size) <=> Fits(buf, pos, size)
    BY <2>1, <2>2, PassesFits
  <2>5. QED
    BY <2>3, <2>4 DEF Ranged
<1>3. QED
  BY <1>1, <1>2 DEF BufInv, BufferAsMeant

(* An operation without a range.                                            *)
LEMMA UnrangedInv ==
  ASSUME BufInv, NEW result, NEW reference, Unranged(result, reference),
         result \in Seq(Stored), reference \in Seq(Stored),
         odd \subseteq odd', buf = meant => result = reference \/ "plus" \in odd'
  PROVE  BufInv'
BY DEF BufInv, BufferAsMeant, Unranged

LEMMA SetInv ==
  ASSUME BufInv, NEW pos \in 0..WORD - 1, NEW src \in Seq(Stored), Len(src) \in 0..WORD - 1,
         Set(pos, src)
  PROVE  BufInv'
<1>1. Ranged(pos, Len(src), Written(buf, pos, src), WriteRef(meant, pos, src))
  BY DEF Set, WriteRef
<1>2. buf \in Seq(Stored) /\ meant \in Seq(Stored) /\ pos \in Nat
  BY WordAssumption DEF BufInv
<1>3. Fits(buf, pos, Len(src)) =>
        Written(buf, pos, src) \in Seq(Stored) /\ Written(buf, pos, src) = WriteRef(buf, pos, src)
  BY <1>2, WrittenIs
<1>4. Fits(meant, pos, Len(src)) => WriteRef(meant, pos, src) \in Seq(Stored)
  BY <1>2, WrittenIs
<1>5. QED
  BY <1>1, <1>3, <1>4, RangedInv

LEMMA GetInv ==
  ASSUME BufInv, NEW pos \in 0..WORD - 1, NEW size \in 0..WORD - 1, Get(pos, size)
  PROVE  BufInv'
<1>1. Ranged(pos, size, Slice(buf, pos, size), GetRef(meant, pos, size))
  BY DEF Get, GetRef
<1>2. buf \in Seq(Stored) /\ meant \in Seq(Stored) /\ pos \in Nat /\ size \in Nat
  BY WordAssumption DEF BufInv
<1>3. Fits(buf, pos, size) =>
        Slice(buf, pos, size) \in Seq(Stored) /\ Slice(buf, pos, size) = GetRef(buf, pos, size)
  BY <1>2, GotIs
<1>4. Fits(meant, pos, size) => GetRef(meant, pos, size) \in Seq(Stored)
  BY <1>2, GotIs
<1>5. QED
  BY <1>1, <1>3, <1>4, RangedInv

LEMMA QueryInv ==
  ASSUME BufInv, NEW pos \in 0..WORD - 1, NEW size \in 0..WORD - 1, Query(pos, size)
  PROVE  BufInv'
BY RangedInv DEF Query, BufInv

LEMMA RemoveInv ==
  ASSUME BufInv, NEW pos \in 0..WORD - 1, NEW size \in 0..WORD - 1, Remove(pos, size)
  PROVE  BufInv'
<1>1. Ranged(pos, size, Removed(buf, pos, size), RemoveRef(meant, pos, size))
  BY DEF Remove, RemoveRef
<1>2. buf \in Seq(Stored) /\ meant \in Seq(Stored) /\ pos \in Nat /\ size \in Nat
  BY WordAssumption DEF BufInv
<1>3. Fits(buf, pos, size) =>
        Removed(buf, pos, size) \in Seq(Stored) /\ Removed(buf, pos, size) = RemoveRef(buf, pos, size)
  BY <1>2, RemovedIs
<1>4. Fits(meant, pos, size) => RemoveRef(meant, pos, size) \in Seq(Stored)
  BY <1>2, RemovedIs
<1>5. QED
  BY <1>1, <1>3, <1>4, RangedInv

LEMMA InsertInv ==
  ASSUME BufInv, NEW pos \in 0..WORD - 1, NEW src \in Seq(Stored), Insert(pos, src)
  PROVE  BufInv'
<1>1. Unranged(Inserted(buf, pos, src), InsertRef(meant, pos, src)) /\ odd' = odd
  BY DEF Insert, InsertRef
<1>2. buf \in Seq(Stored) /\ meant \in Seq(Stored) /\ pos \in Nat
  BY WordAssumption DEF BufInv
<1>3. Inserted(buf, pos, src) \in Seq(Stored) /\ Inserted(buf, pos, src) = InsertRef(buf, pos, src)
  BY <1>2, InsertedIs
<1>4. InsertRef(meant, pos, src) \in Seq(Stored)
  BY <1>2, InsertedIs
<1>5. QED
  BY <1>1, <1>3, <1>4, UnrangedInv

LEMMA ResizeInv ==
  ASSUME BufInv, NEW size \in 0..WORD - 1, Resize(size)
  PROVE  BufInv'
<1>1. Unranged(Resized(buf, size), ResizeRef(meant, size)) /\ odd' = odd
  BY DEF Resize, ResizeRef
<1>2. buf \in Seq(Stored) /\ meant \in Seq(Stored) /\ size \in Nat /\ 0 \in Stored
  BY WordAssumption DEF BufInv, Stored
<1>3. Resized(buf, size) \in Seq(Stored) /\ Resized(buf, size) = ResizeRef(buf, size)
  BY <1>2, ResizedIs
<1>4. ResizeRef(meant, size) \in Seq(Stored)
  BY <1>2, ResizedIs
<1>5. QED
  BY <1>1, <1>3, <1>4, UnrangedInv

LEMMA AppendInv ==
  ASSUME BufInv, NEW src \in Seq(Stored), src # <<>>, AppendBytes(src) \/ Add(src)
  PROVE  BufInv'
<1>1. buf \in Seq(Stored) /\ meant \in Seq(Stored) /\ buf \o src \in Seq(Stored) /\ meant \o src \in Seq(Stored)
  BY ConcatProperties DEF BufInv
<1>2. CASE AppendBytes(src)
  <2>1. Unranged(buf \o src, meant \o src) /\ odd' = odd
    BY <1>2 DEF AppendBytes, Appended
  <2>2. QED
    BY <1>1, <2>1, UnrangedInv
<1>3. CASE Add(src)
  <2>1. Unranged(Plus(buf, src), meant \o src) /\ odd \subseteq odd' /\ "plus" \in odd'
    BY <1>3 DEF Add
  <2>2. Plus(buf, src) \in Seq(Stored)
    <3>1. Len(buf) + Len(src) \in Nat /\ 0 \in Stored
      BY <1>1, LenProperties DEF Stored
    <3>2. Resized(buf, Len(buf) + Len(src)) \in Seq(Stored)
      BY <1>1, <3>1, ResizedIs
    <3>3. QED
      BY <3>2, ConcatProperties DEF Plus
  <2>3. QED
    BY <1>1, <2>1, <2>2, UnrangedInv
<1>4. QED
  BY <1>2, <1>3

(* Objects copy the buffer and leave it alone.                              *)
LEMMA ObjectBufInv ==
  ASSUME BufInv, NEW o \in Objects, ObjectStep(o)
  PROVE  BufInv'
<1>1. buf' = buf /\ meant' = meant /\ odd \subseteq odd'
  BY DEF ObjectStep, Construct, ConstructWith, ConstructWithNull, Copy, Destroy, addPayload,
     clear, pack, unpack, New, Holds, Crash, Odd, buffers
<1>2. QED
  BY <1>1 DEF BufInv, BufferAsMeant

LEMMA BufferStepInv ==
  ASSUME BufInv, BufferStep
  PROVE  BufInv'
<1>1. ASSUME NEW range \in Ranges,
             \/ Get(range[1], range[2]) \/ Query(range[1], range[2]) \/ Remove(range[1], range[2])
             \/ Resize(range[2])
             \/ \E src \in [1..range[2] -> Values] : Set(range[1], src) \/ Insert(range[1], src)
      PROVE  BufInv'
  <2>1. range[1] \in 0..WORD - 1 /\ range[2] \in 0..WORD - 1
    BY RangesAssumption
  <2>2. ASSUME NEW src \in [1..range[2] -> Values], Set(range[1], src) \/ Insert(range[1], src)
        PROVE  BufInv'
    <3>1. range[2] \in Nat /\ src \in [1..range[2] -> Stored]
      BY <2>1, WordAssumption DEF Stored
    <3>2. src \in Seq(Stored) /\ Len(src) = range[2]
      BY <3>1, FunctionIsSeq
    <3>3. QED
      BY <2>1, <2>2, <3>2, SetInv, InsertInv
  <2>3. QED
    BY <1>1, <2>1, <2>2, GetInv, QueryInv, RemoveInv, ResizeInv
<1>2. CASE RemoveAll
  <2>1. <<>> \in Seq(Stored)
    OBVIOUS
  <2>2. QED
    BY <1>2, <2>1, UnrangedInv DEF RemoveAll
<1>3. ASSUME NEW value \in Values, AppendBytes(<<value>>) \/ Add(<<value>>)
      PROVE  BufInv'
  <2>1. <<value>> \in Seq(Stored) /\ <<value>> # <<>>
    BY DEF Stored
  <2>2. QED
    BY <1>3, <2>1, AppendInv
<1>4. QED
  BY <1>1, <1>2, <1>3 DEF BufferStep

(* Whatever is done to a buffer, its bytes are the ones the operations      *)
(* name by their places, for any length, bytes and order of calls.          *)
THEOREM BufferAsMeantCorrect == Spec => []BufferAsMeant
<1>1. Init => BufInv
  <2>1. <<>> \in Seq(Stored)
    OBVIOUS
  <2>2. QED
    BY <2>1 DEF Init, BufInv, BufferAsMeant
<1>2. BufInv /\ [Next]_vars => BufInv'
  <2>1. BufInv /\ UNCHANGED vars => BufInv'
    BY DEF BufInv, BufferAsMeant, vars, buffers
  <2>2. QED
    BY <2>1, BufferStepInv, ObjectBufInv DEF Next
<1>3. BufInv => BufferAsMeant
  BY DEF BufInv
<1>4. QED
  BY <1>1, <1>2, <1>3, PTL DEF Spec

-----------------------------------------------------------------------------
(* Remainders of a divisor that is not a number.                            *)
LEMMA ModIs ==
  ASSUME NEW n \in Nat, NEW r \in Nat, NEW q \in Nat, NEW B \in Nat, B > 0, r < B,
         n = q * B + r
  PROVE  n % B = r
OBVIOUS

LEMMA ModQuotient ==
  ASSUME NEW n \in Nat, NEW B \in Nat, B > 0
  PROVE  \E q \in Nat : n = B * q + (n % B)
BY SMTT(60)

LEMMA ModRange ==
  ASSUME NEW n \in Nat, NEW B \in Nat, B > 0
  PROVE  n % B \in 0..B - 1
<1>1. n % B \in Int /\ n % B >= 0
  OBVIOUS
<1>2. n % B < B
  OBVIOUS
<1>3. QED
  BY <1>1, <1>2

LEMMA ModSum ==
  ASSUME NEW a \in Nat, NEW b \in Nat, NEW B \in Nat, B > 0
  PROVE  ((a % B) + b) % B = (a + b) % B
<1> DEFINE r == a % B 
           u == (r + b) % B
<1>1. r \in 0..B - 1 /\ r + b \in Nat
  BY ModRange
<1>2. PICK q \in Nat : a = B * q + r
  BY ModQuotient
<1>3. u \in 0..B - 1
  BY ModRange, <1>1
<1>4. PICK p \in Nat : r + b = B * p + u
  BY ModQuotient, <1>1
<1> HIDE DEF r, u
<1>5. a + b = (q + p) * B + u
  BY <1>1, <1>2, <1>3, <1>4
<1>6. (a + b) % B = u
  <2> DEFINE n == a + b
             k == q + p
  <2>1. n \in Nat /\ k \in Nat /\ u \in Nat /\ u < B /\ n = k * B + u
    BY <1>3, <1>5
  <2> HIDE DEF n, k
  <2>2. n % B = u
    BY <2>1, ModIs
  <2>3. QED
    BY <2>2 DEF n
<1>7. QED
  BY <1>6 DEF r, u
-----------------------------------------------------------------------------
(* Messages.  A field of w bytes is at offset.                              *)
FieldAt(mem, offset, v, w) ==
  offset + w <= Len(mem) /\ \A k \in 1..w : mem[offset + k] = <<v, k, w>>

(* s is the beginning of t.                                                 *)
Begins(s, t) == Len(s) <= Len(t) /\ \A i \in 1..Len(s) : t[i] = s[i]

LEMMA FieldIs ==
  ASSUME NEW S, NEW mem \in Seq(S), NEW offset \in Nat, NEW w \in Nat \ {0}, NEW v,
         FieldAt(mem, offset, v, w)
  PROVE  Field(mem, offset, w) = v
<1> DEFINE cells == Slice(mem, offset, w)
<1>1. Fits(mem, offset, w)
  BY DEF FieldAt, Fits
<1>2. /\ cells \in Seq(S) /\ Len(cells) = w
      /\ \A k \in 1..w : cells[k] = mem[offset + k]
  BY <1>1, SliceIs
<1>3. \A k \in 1..w : cells[k] = <<v, k, w>>
  BY <1>2 DEF FieldAt
<1>4. cells[1][1] = v
  BY <1>3
<1>5. cells = Laid(v, w)
  <2>1. Laid(v, w) \in [1..w -> {<<v, k, w>> : k \in 1..w}]
    BY DEF Laid
  <2>2. DOMAIN cells = 1..w /\ cells = [k \in 1..w |-> cells[k]]
    <3> HIDE DEF cells
    <3>1. QED
      BY <1>2, LenProperties
  <2>3. QED
    BY <1>3, <2>2 DEF Laid
<1>6. QED
  BY <1>4, <1>5 DEF Field

LEMMA FieldBegins ==
  ASSUME NEW s, NEW t, Len(s) \in Nat, Len(t) \in Nat, Begins(s, t),
         NEW offset \in Nat, NEW v, NEW w \in Nat, FieldAt(s, offset, v, w)
  PROVE  FieldAt(t, offset, v, w)
<1>1. offset + w <= Len(s) /\ Len(s) <= Len(t)
  BY DEF Begins, FieldAt
<1>2. ASSUME NEW k \in 1..w PROVE t[offset + k] = <<v, k, w>>
  <2>1. offset + k \in 1..Len(s)
    BY <1>1
  <2>2. QED
    BY <2>1 DEF Begins, FieldAt
<1>3. offset + w <= Len(t)
  BY <1>1
<1>4. QED
  BY <1>2, <1>3 DEF FieldAt

LEMMA BeginsTransitive ==
  ASSUME NEW r, NEW s, NEW t, Len(r) \in Nat, Len(s) \in Nat, Len(t) \in Nat,
         Begins(r, s), Begins(s, t)
  PROVE  Begins(r, t)
BY DEF Begins

LEMMA FieldAdded ==
  ASSUME NEW S, NEW s \in Seq(S), NEW v, NEW w \in Nat, Laid(v, w) \in Seq(S)
  PROVE  /\ s \o Laid(v, w) \in Seq(S)
         /\ Len(s \o Laid(v, w)) = Len(s) + w
         /\ Begins(s, s \o Laid(v, w))
         /\ FieldAt(s \o Laid(v, w), Len(s), v, w)
<1> DEFINE field == Laid(v, w)
<1>1. field \in [1..w -> {<<v, k, w>> : k \in 1..w}] /\ \A k \in 1..w : field[k] = <<v, k, w>>
  BY DEF Laid
<1>2. field \in Seq(S) /\ Len(field) = w /\ Len(s) \in Nat
  BY <1>1, FunctionIsSeq, LenProperties
<1> HIDE DEF field
<1>3. /\ s \o field \in Seq(S) /\ Len(s \o field) = Len(s) + Len(field)
      /\ \A i \in 1..Len(s) + Len(field) :
           (s \o field)[i] = IF i <= Len(s) THEN s[i] ELSE field[i - Len(s)]
  BY <1>2, ConcatProperties
<1>4. Begins(s, s \o field)
  BY <1>2, <1>3 DEF Begins
<1>5. ASSUME NEW k \in 1..w PROVE (s \o field)[Len(s) + k] = <<v, k, w>>
  <2>1. Len(s) + k \in 1..Len(s) + Len(field) /\ ~ (Len(s) + k <= Len(s)) /\ Len(s) + k - Len(s) = k
    BY <1>2
  <2>2. QED
    BY <1>1, <1>3, <2>1
<1>6. QED
  BY <1>2, <1>3, <1>4, <1>5 DEF FieldAt, field

LEMMA BytesAdded ==
  ASSUME NEW S, NEW s \in Seq(S), NEW d \in Seq(Values), Bytes(d) \in Seq(S)
  PROVE  /\ s \o Bytes(d) \in Seq(S)
         /\ Len(s \o Bytes(d)) = Len(s) + Len(d)
         /\ Begins(s, s \o Bytes(d))
         /\ \A i \in 1..Len(d) : (s \o Bytes(d))[Len(s) + i] = <<d[i], 1, 1>>
<1> DEFINE bytes == Bytes(d)
           n == Len(d)
<1>1. n \in Nat /\ DOMAIN d = 1..n
  BY LenProperties
<1>2. DOMAIN bytes = 1..n /\ \A i \in 1..n : bytes[i] = <<d[i], 1, 1>>
  BY <1>1 DEF Bytes
<1> HIDE DEF bytes, n
<1>3. bytes \in Seq(S) /\ Len(bytes) = n /\ Len(s) \in Nat
  BY <1>1, <1>2, LenProperties DEF bytes
<1>4. /\ s \o bytes \in Seq(S) /\ Len(s \o bytes) = Len(s) + Len(bytes)
      /\ \A i \in 1..Len(s) + Len(bytes) :
           (s \o bytes)[i] = IF i <= Len(s) THEN s[i] ELSE bytes[i - Len(s)]
  BY <1>3, ConcatProperties
<1>5. Begins(s, s \o bytes)
  BY <1>1, <1>3, <1>4 DEF Begins
<1>6. ASSUME NEW i \in 1..n PROVE (s \o bytes)[Len(s) + i] = <<d[i], 1, 1>>
  <2>1. Len(s) + i \in 1..Len(s) + Len(bytes) /\ ~ (Len(s) + i <= Len(s)) /\ Len(s) + i - Len(s) = i
    BY <1>1, <1>3
  <2>2. QED
    BY <1>2, <1>4, <2>1
<1>7. QED
  BY <1>3, <1>4, <1>5, <1>6 DEF bytes, n


(* The values in a message.                                                 *)
Marks(m) ==
  {m.head, m.slength, m.type, m.count, m.payloadlength, m.tState, m.run, m.cmd, m.CRC32,
   m.reserve, m.end} \cup Values

LEMMA LaidIs ==
  ASSUME NEW V, NEW v \in V, NEW w \in Nat
  PROVE  /\ Laid(v, w) \in Seq(V \X Nat \X Nat) /\ Len(Laid(v, w)) = w
         /\ FieldAt(Laid(v, w), 0, v, w)
<1>1. Laid(v, w) \in [1..w -> V \X Nat \X Nat] /\ \A k \in 1..w : Laid(v, w)[k] = <<v, k, w>>
  BY DEF Laid
<1>2. Laid(v, w) \in Seq(V \X Nat \X Nat) /\ Len(Laid(v, w)) = w
  BY <1>1, FunctionIsSeq
<1>3. QED
  BY <1>1, <1>2 DEF FieldAt

LEMMA BytesIs ==
  ASSUME NEW V, NEW d \in Seq(V)
  PROVE  Bytes(d) \in Seq(V \X Nat \X Nat)
<1>1. Len(d) \in Nat /\ DOMAIN d = 1..Len(d) /\ \A i \in 1..Len(d) : d[i] \in V
  BY LenProperties, ElementOfSeq
<1>2. Bytes(d) \in [1..Len(d) -> V \X Nat \X Nat]
  BY <1>1 DEF Bytes
<1>3. QED
  BY <1>1, <1>2, FunctionIsSeq

(* The next field, or the payload, of a message that is laid out.           *)
NextField(S, s, n, v, w, t) ==
  t \in Seq(S) /\ Len(t) = n + w /\ Begins(s, t) /\ FieldAt(t, n, v, w)

NextBytes(S, s, n, d, t) ==
  /\ t \in Seq(S) /\ Len(t) = n + Len(d) /\ Begins(s, t)
  /\ \A i \in 1..Len(d) : t[n + i] = <<d[i], 1, 1>>

LEMMA NextFieldIs ==
  ASSUME NEW S, NEW s, NEW n, NEW v, NEW w, NEW t, s \in Seq(S), Len(s) = n,
         w \in Nat, Laid(v, w) \in Seq(S), t = s \o Laid(v, w)
  PROVE  NextField(S, s, n, v, w, t)
BY FieldAdded DEF NextField

LEMMA NextBytesIs ==
  ASSUME NEW S, NEW s, NEW n, NEW d, NEW t, s \in Seq(S), Len(s) = n,
         d \in Seq(Values), Bytes(d) \in Seq(S), t = s \o Bytes(d)
  PROVE  NextBytes(S, s, n, d, t)
<1>1. /\ s \o Bytes(d) \in Seq(S)
      /\ Len(s \o Bytes(d)) = Len(s) + Len(d)
      /\ Begins(s, s \o Bytes(d))
      /\ \A i \in 1..Len(d) : (s \o Bytes(d))[Len(s) + i] = <<d[i], 1, 1>>
  BY BytesAdded
<1>2. QED
  BY <1>1 DEF NextBytes

(* Where the fields of a message are, and its payload.                      *)
LEMMA WireIs ==
  ASSUME NEW m \in Messages
  PROVE  LET mem == Wire(m)  n == Len(m.data) IN
         /\ mem \in Seq(Marks(m) \X Nat \X Nat) /\ n \in Nat /\ Len(mem) = SIZE + n
         /\ FieldAt(mem, 0, m.head, 2)
         /\ FieldAt(mem, 2, m.slength, 1)
         /\ FieldAt(mem, 3, m.type, 1)
         /\ FieldAt(mem, 4, m.count, 2)
         /\ FieldAt(mem, 6, m.payloadlength, 2)
         /\ FieldAt(mem, 8 + n, m.tState, 1)
         /\ FieldAt(mem, 9 + n, m.run, 1)
         /\ FieldAt(mem, 10 + n, m.cmd, 2)
         /\ FieldAt(mem, 12 + n, m.CRC32, 4)
         /\ FieldAt(mem, 16 + n, m.reserve, 2)
         /\ FieldAt(mem, 18 + n, m.end, 2)
         /\ \A i \in 1..n : mem[8 + i] = <<m.data[i], 1, 1>>
<1> DEFINE n == Len(m.data)
           V == Marks(m)
           S == V \X Nat \X Nat
           s1 == Laid(m.head, 2)
           s2 == s1 \o Laid(m.slength, 1)
           s3 == s2 \o Laid(m.type, 1)
           s4 == s3 \o Laid(m.count, 2)
           s5 == s4 \o Laid(m.payloadlength, 2)
           s6 == s5 \o Bytes(m.data)
           s7 == s6 \o Laid(m.tState, 1)
           s8 == s7 \o Laid(m.run, 1)
           s9 == s8 \o Laid(m.cmd, 2)
           s10 == s9 \o Laid(m.CRC32, 4)
           s11 == s10 \o Laid(m.reserve, 2)
           s12 == s11 \o Laid(m.end, 2)
<1>1. m.data \in Seq(Values) /\ m.data \in Seq(V) /\ n \in Nat
  <2>1. m.data \in Seq(Values)
    BY MessagesAssumption
  <2>2. Values \subseteq V
    BY DEF Marks
  <2>3. QED
    BY <2>1, <2>2, SeqMonotonic, LenProperties
<1>2. /\ m.head \in V /\ m.slength \in V /\ m.type \in V /\ m.count \in V
      /\ m.payloadlength \in V /\ m.tState \in V /\ m.run \in V /\ m.cmd \in V
      /\ m.CRC32 \in V /\ m.reserve \in V /\ m.end \in V
  BY DEF Marks
<1>3. Wire(m) = s12
  BY DEF Wire
<1>4. /\ Laid(m.head, 2) \in Seq(S) /\ Laid(m.slength, 1) \in Seq(S) /\ Laid(m.type, 1) \in Seq(S)
      /\ Laid(m.count, 2) \in Seq(S) /\ Laid(m.payloadlength, 2) \in Seq(S)
      /\ Bytes(m.data) \in Seq(S) /\ Laid(m.tState, 1) \in Seq(S) /\ Laid(m.run, 1) \in Seq(S)
      /\ Laid(m.cmd, 2) \in Seq(S) /\ Laid(m.CRC32, 4) \in Seq(S) /\ Laid(m.reserve, 2) \in Seq(S)
      /\ Laid(m.end, 2) \in Seq(S)
  <2> HIDE DEF V
  <2>1. QED
    BY <1>1, <1>2, LaidIs, BytesIs
<1>5. S = Marks(m) \X Nat \X Nat
  OBVIOUS
<1>6. s1 \in Seq(S) /\ Len(s1) = 2 /\ FieldAt(s1, 0, m.head, 2)
  BY <1>2, LaidIs
<1> HIDE DEF S
<1> HIDE DEF s1
<1>7. /\ s2 \in Seq(S) /\ Len(s2) = 3 /\ Begins(s1, s2)
      /\ FieldAt(s2, 2, m.slength, 1)
  <2>1. s2 = s1 \o Laid(m.slength, 1) /\ 2 \in Nat
    BY <1>1
  <2> HIDE DEF s2
  <2>2. NextField(S, s1, 2, m.slength, 1, s2)
    BY <1>4, <1>6, <2>1, NextFieldIs
  <2>3. QED
    BY <1>1, <2>2 DEF NextField
<1> HIDE DEF s2
<1>8. /\ s3 \in Seq(S) /\ Len(s3) = 4 /\ Begins(s2, s3)
      /\ FieldAt(s3, 3, m.type, 1)
  <2>1. s3 = s2 \o Laid(m.type, 1) /\ 3 \in Nat
    BY <1>1
  <2> HIDE DEF s3
  <2>2. NextField(S, s2, 3, m.type, 1, s3)
    BY <1>4, <1>7, <2>1, NextFieldIs
  <2>3. QED
    BY <1>1, <2>2 DEF NextField
<1> HIDE DEF s3
<1>9. /\ s4 \in Seq(S) /\ Len(s4) = 6 /\ Begins(s3, s4)
      /\ FieldAt(s4, 4, m.count, 2)
  <2>1. s4 = s3 \o Laid(m.count, 2) /\ 4 \in Nat
    BY <1>1
  <2> HIDE DEF s4
  <2>2. NextField(S, s3, 4, m.count, 2, s4)
    BY <1>4, <1>8, <2>1, NextFieldIs
  <2>3. QED
    BY <1>1, <2>2 DEF NextField
<1> HIDE DEF s4
<1>10. /\ s5 \in Seq(S) /\ Len(s5) = 8 /\ Begins(s4, s5)
      /\ FieldAt(s5, 6, m.payloadlength, 2)
  <2>1. s5 = s4 \o Laid(m.payloadlength, 2) /\ 6 \in Nat
    BY <1>1
  <2> HIDE DEF s5
  <2>2. NextField(S, s4, 6, m.payloadlength, 2, s5)
    BY <1>4, <1>9, <2>1, NextFieldIs
  <2>3. QED
    BY <1>1, <2>2 DEF NextField
<1> HIDE DEF s5
<1>11. /\ s6 \in Seq(S) /\ Len(s6) = 8 + n /\ Begins(s5, s6)
      /\ \A i \in 1..n : s6[8 + i] = <<m.data[i], 1, 1>>
  <2>1. s6 = s5 \o Bytes(m.data)
    BY <1>1
  <2> HIDE DEF s6
  <2>2. NextBytes(S, s5, 8, m.data, s6)
    BY <1>1, <1>4, <1>10, <2>1, NextBytesIs
  <2>3. QED
    BY <1>1, <2>2 DEF NextBytes
<1> HIDE DEF s6
<1>12. /\ s7 \in Seq(S) /\ Len(s7) = 9 + n /\ Begins(s6, s7)
      /\ FieldAt(s7, 8 + n, m.tState, 1)
  <2>1. s7 = s6 \o Laid(m.tState, 1) /\ 8 + n \in Nat
    BY <1>1
  <2> HIDE DEF s7
  <2>2. NextField(S, s6, 8 + n, m.tState, 1, s7)
    BY <1>4, <1>11, <2>1, NextFieldIs
  <2>3. QED
    BY <1>1, <2>2 DEF NextField
<1> HIDE DEF s7
<1>13. /\ s8 \in Seq(S) /\ Len(s8) = 10 + n /\ Begins(s7, s8)
      /\ FieldAt(s8, 9 + n, m.run, 1)
  <2>1. s8 = s7 \o Laid(m.run, 1) /\ 9 + n \in Nat
    BY <1>1
  <2> HIDE DEF s8
  <2>2. NextField(S, s7, 9 + n, m.run, 1, s8)
    BY <1>4, <1>12, <2>1, NextFieldIs
  <2>3. QED
    BY <1>1, <2>2 DEF NextField
<1> HIDE DEF s8
<1>14. /\ s9 \in Seq(S) /\ Len(s9) = 12 + n /\ Begins(s8, s9)
      /\ FieldAt(s9, 10 + n, m.cmd, 2)
  <2>1. s9 = s8 \o Laid(m.cmd, 2) /\ 10 + n \in Nat
    BY <1>1
  <2> HIDE DEF s9
  <2>2. NextField(S, s8, 10 + n, m.cmd, 2, s9)
    BY <1>4, <1>13, <2>1, NextFieldIs
  <2>3. QED
    BY <1>1, <2>2 DEF NextField
<1> HIDE DEF s9
<1>15. /\ s10 \in Seq(S) /\ Len(s10) = 16 + n /\ Begins(s9, s10)
      /\ FieldAt(s10, 12 + n, m.CRC32, 4)
  <2>1. s10 = s9 \o Laid(m.CRC32, 4) /\ 12 + n \in Nat
    BY <1>1
  <2> HIDE DEF s10
  <2>2. NextField(S, s9, 12 + n, m.CRC32, 4, s10)
    BY <1>4, <1>14, <2>1, NextFieldIs
  <2>3. QED
    BY <1>1, <2>2 DEF NextField
<1> HIDE DEF s10
<1>16. /\ s11 \in Seq(S) /\ Len(s11) = 18 + n /\ Begins(s10, s11)
      /\ FieldAt(s11, 16 + n, m.reserve, 2)
  <2>1. s11 = s10 \o Laid(m.reserve, 2) /\ 16 + n \in Nat
    BY <1>1
  <2> HIDE DEF s11
  <2>2. NextField(S, s10, 16 + n, m.reserve, 2, s11)
    BY <1>4, <1>15, <2>1, NextFieldIs
  <2>3. QED
    BY <1>1, <2>2 DEF NextField
<1> HIDE DEF s11
<1>17. /\ s12 \in Seq(S) /\ Len(s12) = 20 + n /\ Begins(s11, s12)
      /\ FieldAt(s12, 18 + n, m.end, 2)
  <2>1. s12 = s11 \o Laid(m.end, 2) /\ 18 + n \in Nat
    BY <1>1
  <2> HIDE DEF s12
  <2>2. NextField(S, s11, 18 + n, m.end, 2, s12)
    BY <1>4, <1>16, <2>1, NextFieldIs
  <2>3. QED
    BY <1>1, <2>2 DEF NextField
<1> HIDE DEF s12
<1>18. Begins(s11, s12)
  BY <1>17
<1>19. Begins(s10, s12)
  BY <1>1, <1>15, <1>16, <1>17, <1>18, BeginsTransitive
<1>20. Begins(s9, s12)
  BY <1>1, <1>14, <1>15, <1>17, <1>19, BeginsTransitive
<1>21. Begins(s8, s12)
  BY <1>1, <1>13, <1>14, <1>17, <1>20, BeginsTransitive
<1>22. Begins(s7, s12)
  BY <1>1, <1>12, <1>13, <1>17, <1>21, BeginsTransitive
<1>23. Begins(s6, s12)
  BY <1>1, <1>11, <1>12, <1>17, <1>22, BeginsTransitive
<1>24. Begins(s5, s12)
  BY <1>1, <1>10, <1>11, <1>17, <1>23, BeginsTransitive
<1>25. Begins(s4, s12)
  BY <1>1, <1>9, <1>10, <1>17, <1>24, BeginsTransitive
<1>26. Begins(s3, s12)
  BY <1>1, <1>8, <1>9, <1>17, <1>25, BeginsTransitive
<1>27. Begins(s2, s12)
  BY <1>1, <1>7, <1>8, <1>17, <1>26, BeginsTransitive
<1>28. Begins(s1, s12)
  BY <1>1, <1>6, <1>7, <1>17, <1>27, BeginsTransitive
<1>29. FieldAt(s12, 0, m.head, 2)
  BY <1>1, <1>6, <1>17, <1>28, FieldBegins
<1>30. FieldAt(s12, 2, m.slength, 1)
  BY <1>1, <1>7, <1>17, <1>27, FieldBegins
<1>31. FieldAt(s12, 3, m.type, 1)
  BY <1>1, <1>8, <1>17, <1>26, FieldBegins
<1>32. FieldAt(s12, 4, m.count, 2)
  BY <1>1, <1>9, <1>17, <1>25, FieldBegins
<1>33. FieldAt(s12, 6, m.payloadlength, 2)
  BY <1>1, <1>10, <1>17, <1>24, FieldBegins
<1>34. \A i \in 1..n : s12[8 + i] = <<m.data[i], 1, 1>>
  <2>1. TAKE i \in 1..n
  <2>2. 8 + i \in 1..Len(s6)
    BY <1>1, <1>11
  <2>3. QED
    BY <1>11, <1>23, <2>2 DEF Begins
<1>35. FieldAt(s12, 8 + n, m.tState, 1)
  BY <1>1, <1>12, <1>17, <1>22, FieldBegins
<1>36. FieldAt(s12, 9 + n, m.run, 1)
  BY <1>1, <1>13, <1>17, <1>21, FieldBegins
<1>37. FieldAt(s12, 10 + n, m.cmd, 2)
  BY <1>1, <1>14, <1>17, <1>20, FieldBegins
<1>38. FieldAt(s12, 12 + n, m.CRC32, 4)
  BY <1>1, <1>15, <1>17, <1>19, FieldBegins
<1>39. FieldAt(s12, 16 + n, m.reserve, 2)
  BY <1>1, <1>16, <1>17, <1>18, FieldBegins
<1>40. FieldAt(s12, 18 + n, m.end, 2)
  BY <1>17
<1>41. QED
  BY <1>1, <1>3, <1>5, <1>17, <1>29, <1>30, <1>31, <1>32, <1>33, <1>34, <1>35, <1>36, <1>37, <1>38, <1>39, <1>40 DEF SIZE
-----------------------------------------------------------------------------
(* What is read of a message that is long enough.                           *)
LEMMA HeaderIs ==
  ASSUME NEW m \in Messages
  PROVE  \A field \in DOMAIN Fresh : HeaderAt(Wire(m), Len(m.data))[field] = m[field]
<1> DEFINE mem == Wire(m)
           n == Len(m.data)
           S == Marks(m) \X Nat \X Nat
<1>1. /\ mem \in Seq(S) /\ n \in Nat
      /\ FieldAt(mem, 0, m.head, 2) /\ FieldAt(mem, 2, m.slength, 1)
      /\ FieldAt(mem, 3, m.type, 1) /\ FieldAt(mem, 4, m.count, 2)
      /\ FieldAt(mem, 6, m.payloadlength, 2) /\ FieldAt(mem, 8 + n, m.tState, 1)
      /\ FieldAt(mem, 9 + n, m.run, 1) /\ FieldAt(mem, 10 + n, m.cmd, 2)
      /\ FieldAt(mem, 12 + n, m.CRC32, 4) /\ FieldAt(mem, 16 + n, m.reserve, 2)
      /\ FieldAt(mem, 18 + n, m.end, 2)
  BY WireIs
<1> HIDE DEF mem, n, S
<1>2. /\ Field(mem, 0, 2) = m.head /\ Field(mem, 2, 1) = m.slength
      /\ Field(mem, 3, 1) = m.type /\ Field(mem, 4, 2) = m.count
      /\ Field(mem, 6, 2) = m.payloadlength
  BY <1>1, FieldIs
<1>3. /\ Field(mem, 8 + n, 1) = m.tState /\ Field(mem, 9 + n, 1) = m.run
      /\ Field(mem, 10 + n, 2) = m.cmd /\ Field(mem, 12 + n, 4) = m.CRC32
      /\ Field(mem, 16 + n, 2) = m.reserve /\ Field(mem, 18 + n, 2) = m.end
  <2>1. 8 + n \in Nat /\ 9 + n \in Nat /\ 10 + n \in Nat /\ 12 + n \in Nat /\ 16 + n \in Nat
        /\ 18 + n \in Nat
    BY <1>1
  <2>2. QED
    BY <1>1, <2>1, FieldIs
<1>4. QED
  BY <1>2, <1>3 DEF HeaderAt, Fresh, mem, n

LEMMA PayloadIs ==
  ASSUME NEW m \in Messages, NEW nsize \in Nat, SIZE + nsize <= Len(Wire(m))
  PROVE  /\ PayloadAt(Wire(m), nsize) \in Seq(Values)
         /\ nsize = Len(m.data) => PayloadAt(Wire(m), nsize) = m.data
<1> DEFINE n == Len(m.data)
<1>1. m.data \in Seq(Values)
  BY MessagesAssumption
<1>2. n \in Nat /\ DOMAIN m.data = 1..n /\ \A i \in 1..n : m.data[i] \in Values
  BY <1>1, LenProperties, ElementOfSeq
<1>3. Len(Wire(m)) = SIZE + n /\ \A i \in 1..n : Wire(m)[8 + i] = <<m.data[i], 1, 1>>
  BY WireIs
<1> HIDE DEF n
<1>4. nsize <= n
  BY <1>2, <1>3 DEF SIZE
<1>5. \A i \in 1..nsize : Wire(m)[8 + i][1] = m.data[i]
  <2>1. \A i \in 1..nsize : i \in 1..n
    BY <1>2, <1>4
  <2>2. QED
    BY <1>3, <2>1
<1>6. PayloadAt(Wire(m), nsize) = [i \in 1..nsize |-> m.data[i]]
  BY <1>5 DEF PayloadAt
<1>7. [i \in 1..nsize |-> m.data[i]] \in [1..nsize -> Values]
  BY <1>2, <1>4
<1>8. PayloadAt(Wire(m), nsize) \in Seq(Values)
  BY <1>6, <1>7, FunctionIsSeq
<1>9. m.data = [i \in 1..n |-> m.data[i]]
  BY <1>1, <1>2, SeqIsFunction DEF n
<1>10. QED
  BY <1>6, <1>8, <1>9 DEF n
-----------------------------------------------------------------------------
(* Headers.                                                                 *)
IsHeader(h) == DOMAIN h = DOMAIN Fresh /\ h.payloadlength \in 0..LENGTHS - 1

LEMMA HeaderUsed == ASSUME NEW h, IsHeader(h) PROVE h # Unused
<1>1. "payloadlength" \in DOMAIN h
  BY DEF IsHeader, Fresh
<1>2. "payloadlength" \notin DOMAIN Unused
  BY DEF Unused
<1>3. QED
  BY <1>1, <1>2

LEMMA FreshIsHeader ==
  /\ IsHeader(Fresh) /\ Fresh.payloadlength = 0
  /\ \A n \in Nat : LET h == [Fresh EXCEPT !.payloadlength = n % LENGTHS] IN
       IsHeader(h) /\ h.payloadlength = n % LENGTHS
<1>1. 0 \in 0..LENGTHS - 1 /\ \A n \in Nat : n % LENGTHS \in 0..LENGTHS - 1
  BY LengthsAssumption, ModRange
<1>2. QED
  BY <1>1 DEF IsHeader, Fresh

LEMMA LengthAdded ==
  ASSUME NEW h, IsHeader(h), NEW n \in Nat
  PROVE  LET g == [h EXCEPT !.payloadlength = LengthWith(@, n)] IN
         IsHeader(g) /\ g.payloadlength = (h.payloadlength + n) % LENGTHS
<1>1. h.payloadlength + n \in Nat
  BY LengthsAssumption DEF IsHeader
<1>2. (h.payloadlength + n) % LENGTHS \in 0..LENGTHS - 1
  BY <1>1, LengthsAssumption, ModRange
<1>3. "payloadlength" \in DOMAIN h
  BY DEF IsHeader, Fresh
<1>4. QED
  BY <1>2, <1>3 DEF IsHeader, LengthWith

LEMMA HeaderReadIsHeader ==
  ASSUME NEW m \in Messages, NEW nsize \in Nat
  PROVE  IsHeader(HeaderAt(Wire(m), nsize))
<1>1. Field(Wire(m), 6, 2) = m.payloadlength
  <2> DEFINE mem == Wire(m)
             S == Marks(m) \X Nat \X Nat
  <2>1. mem \in Seq(S) /\ FieldAt(mem, 6, m.payloadlength, 2)
    BY WireIs
  <2> HIDE DEF mem, S
  <2>2. Field(mem, 6, 2) = m.payloadlength
    BY <2>1, FieldIs
  <2>3. QED
    BY <2>2 DEF mem
<1>2. m.payloadlength \in 0..LENGTHS - 1
  <2> DEFINE n == Len(m.data)
             r == n % LENGTHS
  <2>1. n \in Nat /\ m.payloadlength = r
    BY MessagesAssumption, LenProperties
  <2> HIDE DEF n
  <2>2. r \in 0..LENGTHS - 1
    BY <2>1, LengthsAssumption, ModRange
  <2>3. QED
    BY <2>1, <2>2
<1>3. QED
  BY <1>1, <1>2 DEF IsHeader, HeaderAt, Fresh

-----------------------------------------------------------------------------
(* The invariant.                                                           *)
Safely == odd \cap {"copy", "wrap", "length", "pack"} = {}

Plainly == odd \subseteq {"plus"}

ObjectTypes ==
  /\ proto \in [Objects -> Blocks \cup {Null}]
  /\ data \in [Objects -> Seq(Stored)]
  /\ heap = [b \in Blocks |-> heap[b]]
  /\ \A b \in Blocks : heap[b] # Unused => IsHeader(heap[b])
  /\ peer \in [Objects -> Messages \cup {NoMessage}]
  /\ leaks \in Nat
  /\ odd \subseteq OddThings
  /\ calls \in 0..MaxCalls
  /\ up \in BOOLEAN

(* Every object has a block of its own, with a header in it.                *)
OwnBlocks ==
  Safely =>
    /\ up
    /\ \A o \in Objects : proto[o] # Null => heap[proto[o]] # Unused
    /\ \A o, p \in Objects : proto[o] # Null /\ proto[o] = proto[p] => o = p

(* Blocks in use: those of objects, and those of constructors that threw.   *)
Counted == Safely => Cardinality(Live) = Cardinality(Alive) + leaks

(* What the header of an object's block says of its payload.                *)
Agrees(o) == heap[proto[o]].payloadlength = Len(data[o]) % LENGTHS

AsSent(o) ==
  peer[o] # NoMessage =>
    /\ data[o] = peer[o].data
    /\ \A field \in DOMAIN Fresh : heap[proto[o]][field] = peer[o][field]

Agreed == Plainly => \A o \in Objects : proto[o] # Null => Agrees(o) /\ AsSent(o)

IInv == BufInv /\ ObjectTypes /\ OwnBlocks /\ Counted /\ Agreed

LEMMA PlainlySafely == ASSUME Plainly PROVE Safely
BY DEF Plainly, Safely

LEMMA OddGrows ==
  ASSUME odd \subseteq odd'
  PROVE  (Safely' => Safely) /\ (Plainly' => Plainly)
BY DEF Plainly, Safely

(* The headers and objects are what they were.                              *)
LEMMA Unchanged ==
  ASSUME IInv, BufInv', UNCHANGED <<proto, data, heap, peer, leaks>>, odd \subseteq odd',
         odd' \subseteq OddThings, calls' \in 0..MaxCalls, up' \in BOOLEAN, Safely' => up'
  PROVE  IInv'
<1>1. (Safely' => Safely) /\ (Plainly' => Plainly)
  BY OddGrows
<1>2. ObjectTypes'
  BY DEF IInv, ObjectTypes
<1>3. OwnBlocks'
  BY <1>1 DEF IInv, OwnBlocks
<1>4. Counted'
  BY <1>1 DEF IInv, Counted, Live, Alive
<1>5. Agreed'
  BY <1>1 DEF IInv, Agreed, Agrees, AsSent
<1>6. QED
  BY <1>2, <1>3, <1>4, <1>5 DEF IInv

(* A new object, with a block that was not in use.                          *)
LEMMA NewInv ==
  ASSUME IInv, BufInv', NEW o \in Objects, NEW payload \in Seq(Stored), NEW n \in Nat,
         proto[o] = Null, New(o, payload, n), odd \subseteq odd', odd' \subseteq OddThings,
         calls' \in 0..MaxCalls, Plainly' => n = Len(payload)
  PROVE  IInv'
<1> DEFINE header == [Fresh EXCEPT !.payloadlength = n % LENGTHS]
<1>1. PICK b \in Blocks \ Live : /\ proto' = [proto EXCEPT ![o] = b]
                                 /\ heap' = [heap EXCEPT ![b] = header]
  BY DEF New
<1>2. IsHeader(header) /\ header.payloadlength = n % LENGTHS
  BY FreshIsHeader
<1>3. header # Unused
  BY <1>2, HeaderUsed
<1> HIDE DEF header
<1>4. (Safely' => Safely) /\ (Plainly' => Plainly) /\ (Plainly' => Safely)
  BY OddGrows, PlainlySafely
<1>5. /\ data' = [data EXCEPT ![o] = payload] /\ peer' = [peer EXCEPT ![o] = NoMessage]
      /\ leaks' = leaks /\ up' = up
  BY DEF New
<1>6. b # Null /\ heap[b] = Unused
  BY NullAssumption DEF Live
<1>7. ObjectTypes'
  BY <1>1, <1>2, <1>5 DEF IInv, ObjectTypes
<1>8. /\ \A p \in Objects : proto'[p] = IF p = o THEN b ELSE proto[p]
      /\ \A p \in Objects : data'[p] = IF p = o THEN payload ELSE data[p]
      /\ \A p \in Objects : peer'[p] = IF p = o THEN NoMessage ELSE peer[p]
      /\ \A c \in Blocks : heap'[c] = IF c = b THEN header ELSE heap[c]
  BY <1>1, <1>5 DEF IInv, ObjectTypes
<1>9. OwnBlocks'
  <2>1. ASSUME Safely', NEW p \in Objects, proto'[p] # Null
        PROVE  proto'[p] \in Blocks /\ heap'[proto'[p]] # Unused /\ (p # o => proto'[p] # b)
    <3>1. CASE p = o
      BY <1>3, <1>8, <3>1
    <3>2. CASE p # o
      <4>1. proto'[p] = proto[p] /\ proto[p] # Null
        BY <1>8, <2>1, <3>2
      <4>2. proto[p] \in Blocks /\ heap[proto[p]] # Unused
        BY <1>4, <2>1, <4>1 DEF IInv, OwnBlocks, ObjectTypes
      <4>3. QED
        BY <1>3, <1>6, <1>8, <4>1, <4>2
    <3>3. QED
      BY <3>1, <3>2
  <2>2. ASSUME Safely', NEW p \in Objects, NEW q \in Objects, proto'[p] # Null, proto'[p] = proto'[q]
        PROVE  p = q
    <3>1. p # o /\ q # o => proto[p] # Null /\ proto[p] = proto[q]
      BY <1>8, <2>2
    <3>2. p # o /\ q # o => p = q
      BY <1>4, <2>2, <3>1 DEF IInv, OwnBlocks
    <3>3. (p # o => proto'[p] # b) /\ (q # o => proto'[q] # b)
      BY <2>1, <2>2
    <3>4. (p = o => proto'[p] = b) /\ (q = o => proto'[q] = b)
      BY <1>8
    <3>5. QED
      BY <2>2, <3>2, <3>3, <3>4
  <2>3. Safely' => up'
    BY <1>4, <1>5 DEF IInv, OwnBlocks
  <2>4. QED
    BY <2>1, <2>2, <2>3 DEF OwnBlocks
<1>10. Counted'
  <2>1. Live' = Live \cup {b} /\ b \notin Live
    BY <1>3, <1>8 DEF Live
  <2>2. Alive' = Alive \cup {o} /\ o \notin Alive
    BY <1>6, <1>8 DEF Alive
  <2>3. IsFiniteSet(Live) /\ IsFiniteSet(Alive)
    BY FiniteAssumption, FS_Subset DEF Live, Alive
  <2>4. Cardinality(Live') = Cardinality(Live) + 1 /\ Cardinality(Alive') = Cardinality(Alive) + 1
    BY <2>1, <2>2, <2>3, FS_AddElement
  <2>5. Cardinality(Live) \in Nat /\ Cardinality(Alive) \in Nat /\ leaks \in Nat
    BY <2>3, FS_CardinalityType DEF IInv, ObjectTypes
  <2>6. QED
    BY <1>4, <1>5, <2>4, <2>5 DEF IInv, Counted
<1>11. Agreed'
  <2>1. ASSUME Plainly', NEW p \in Objects, proto'[p] # Null PROVE Agrees(p)' /\ AsSent(p)'
    <3>1. CASE p = o
      BY <1>1, <1>2, <1>8, <2>1, <3>1 DEF Agrees, AsSent
    <3>2. CASE p # o
      <4>1. proto[p] # Null /\ Agrees(p) /\ AsSent(p) /\ heap[proto[p]] # Unused
        BY <1>4, <1>8, <2>1, <3>2 DEF IInv, Agreed, OwnBlocks
      <4>2. proto[p] \in Blocks /\ proto[p] # b
        BY <1>6, <4>1 DEF IInv, ObjectTypes
      <4>3. QED
        BY <1>8, <3>2, <4>1, <4>2 DEF Agrees, AsSent
    <3>3. QED
      BY <3>1, <3>2
  <2>2. QED
    BY <2>1 DEF Agreed
<1>12. QED
  BY <1>7, <1>9, <1>10, <1>11 DEF IInv

(* A constructor that throws leaves its block behind.                       *)
LEMMA LeakInv ==
  ASSUME IInv, BufInv', NEW b \in Blocks \ Live, heap' = [heap EXCEPT ![b] = Fresh],
         leaks' = leaks + 1, UNCHANGED <<proto, data, peer, up, odd>>, calls' \in 0..MaxCalls
  PROVE  IInv'
<1>1. IsHeader(Fresh)
  BY FreshIsHeader
<1>2. Fresh # Unused
  BY <1>1, HeaderUsed
<1>3. (Safely' <=> Safely) /\ (Plainly' <=> Plainly) /\ (Plainly => Safely)
  BY PlainlySafely DEF Safely, Plainly
<1>4. \A c \in Blocks : heap'[c] = IF c = b THEN Fresh ELSE heap[c]
  BY DEF IInv, ObjectTypes
<1>5. heap[b] = Unused
  BY DEF Live
<1>6. ObjectTypes'
  BY <1>1 DEF IInv, ObjectTypes
<1>7. OwnBlocks'
  BY <1>2, <1>3, <1>4 DEF IInv, OwnBlocks, ObjectTypes
<1>8. Counted'
  <2>1. Live' = Live \cup {b} /\ b \notin Live
    BY <1>2, <1>4 DEF Live
  <2>2. Alive' = Alive
    BY DEF Alive
  <2>3. IsFiniteSet(Live) /\ IsFiniteSet(Alive)
    BY FiniteAssumption, FS_Subset DEF Live, Alive
  <2>4. Cardinality(Live') = Cardinality(Live) + 1
    BY <2>1, <2>3, FS_AddElement
  <2>5. Cardinality(Live) \in Nat /\ Cardinality(Alive) \in Nat /\ leaks \in Nat
    BY <2>3, FS_CardinalityType DEF IInv, ObjectTypes
  <2>6. QED
    BY <1>3, <2>2, <2>4, <2>5 DEF IInv, Counted
<1>9. Agreed'
  <2>1. ASSUME Plainly, NEW p \in Objects, proto[p] # Null PROVE heap'[proto[p]] = heap[proto[p]]
    <3>1. proto[p] \in Blocks /\ heap[proto[p]] # Unused
      BY <1>3, <2>1 DEF IInv, OwnBlocks, ObjectTypes
    <3>2. QED
      BY <1>4, <1>5, <3>1
  <2>2. ASSUME Plainly, NEW p \in Objects, proto[p] # Null PROVE Agrees(p)' /\ AsSent(p)'
    <3>1. heap'[proto[p]] = heap[proto[p]] /\ Agrees(p) /\ AsSent(p)
      BY <2>1, <2>2 DEF IInv, Agreed
    <3>2. QED
      BY <3>1 DEF Agrees, AsSent
  <2>3. QED
    BY <1>3, <2>2 DEF Agreed
<1>10. QED
  BY <1>6, <1>7, <1>8, <1>9 DEF IInv

(* The object o is given a header and a payload.                            *)
LEMMA HoldsInv ==
  ASSUME IInv, BufInv', NEW o \in Objects, NEW header, IsHeader(header),
         NEW payload \in Seq(Stored), NEW message \in Messages \cup {NoMessage},
         proto[o] # Null, heap[proto[o]] # Unused, proto[o] \in Blocks,
         Holds(o, header, payload, message), up' = up,
         odd \subseteq odd', odd' \subseteq OddThings, calls' \in 0..MaxCalls,
         Plainly' => header.payloadlength = Len(payload) % LENGTHS,
         Plainly' => (message # NoMessage =>
                        /\ payload = message.data
                        /\ \A field \in DOMAIN Fresh : header[field] = message[field])
  PROVE  IInv'
<1>1. (Safely' => Safely) /\ (Plainly' => Plainly) /\ (Plainly' => Safely)
  BY OddGrows, PlainlySafely
<1>2. header # Unused
  BY HeaderUsed
<1>3. /\ proto' = proto /\ leaks' = leaks
      /\ heap' = [heap EXCEPT ![proto[o]] = header]
      /\ data' = [data EXCEPT ![o] = payload]
      /\ peer' = [peer EXCEPT ![o] = message]
  BY DEF Holds
<1>4. /\ \A p \in Objects : data'[p] = IF p = o THEN payload ELSE data[p]
      /\ \A p \in Objects : peer'[p] = IF p = o THEN message ELSE peer[p]
      /\ \A c \in Blocks : heap'[c] = IF c = proto[o] THEN header ELSE heap[c]
  BY <1>3 DEF IInv, ObjectTypes
<1>5. ObjectTypes'
  BY <1>3 DEF IInv, ObjectTypes
<1>6. OwnBlocks'
  <2>1. Safely' => up /\ \A p \in Objects : proto[p] # Null => heap[proto[p]] # Unused /\ proto[p] \in Blocks
    BY <1>1 DEF IInv, OwnBlocks, ObjectTypes
  <2>2. \A c \in Blocks : heap[c] # Unused => heap'[c] # Unused
    BY <1>2, <1>4
  <2>3. Safely' => \A p, q \in Objects : proto[p] # Null /\ proto[p] = proto[q] => p = q
    BY <1>1 DEF IInv, OwnBlocks
  <2>4. QED
    BY <1>3, <2>1, <2>2, <2>3 DEF OwnBlocks
<1>7. Counted'
  <2>1. Live' = Live
    BY <1>2, <1>4 DEF Live
  <2>2. Alive' = Alive
    BY <1>3 DEF Alive
  <2>3. QED
    BY <1>1, <1>3, <2>1, <2>2 DEF IInv, Counted
<1>8. Agreed'
  <2>1. ASSUME Plainly', NEW p \in Objects, proto[p] # Null PROVE Agrees(p)' /\ AsSent(p)'
    <3>1. CASE p = o
      BY <1>3, <1>4, <2>1, <3>1 DEF Agrees, AsSent
    <3>2. CASE p # o
      <4>1. Agrees(p) /\ AsSent(p)
        BY <1>1, <2>1 DEF IInv, Agreed
      <4>2. proto[p] \in Blocks /\ proto[p] # proto[o]
        BY <1>1, <2>1, <3>2 DEF IInv, OwnBlocks, ObjectTypes
      <4>3. QED
        BY <1>3, <1>4, <3>2, <4>1, <4>2 DEF Agrees, AsSent
    <3>3. QED
      BY <3>1, <3>2
  <2>2. QED
    BY <1>3, <2>1 DEF Agreed
<1>9. QED
  BY <1>5, <1>6, <1>7, <1>8 DEF IInv

(* An object is gone, and its block with it.                                *)
LEMMA DestroyInv ==
  ASSUME IInv, BufInv', NEW o \in Objects, proto[o] # Null, heap[proto[o]] # Unused,
         heap' = [heap EXCEPT ![proto[o]] = Unused], proto' = [proto EXCEPT ![o] = Null],
         data' = [data EXCEPT ![o] = <<>>], peer' = [peer EXCEPT ![o] = NoMessage],
         UNCHANGED <<leaks, up, odd>>, calls' \in 0..MaxCalls
  PROVE  IInv'
<1>1. (Safely' <=> Safely) /\ (Plainly' <=> Plainly) /\ (Plainly => Safely)
  BY PlainlySafely DEF Safely, Plainly
<1>2. proto[o] \in Blocks
  BY DEF IInv, ObjectTypes
<1>3. /\ \A p \in Objects : proto'[p] = IF p = o THEN Null ELSE proto[p]
      /\ \A p \in Objects : data'[p] = IF p = o THEN <<>> ELSE data[p]
      /\ \A p \in Objects : peer'[p] = IF p = o THEN NoMessage ELSE peer[p]
      /\ \A c \in Blocks : heap'[c] = IF c = proto[o] THEN Unused ELSE heap[c]
  BY DEF IInv, ObjectTypes
<1>4. ObjectTypes'
  <2>1. <<>> \in Seq(Stored)
    OBVIOUS
  <2>2. QED
    BY <2>1, <1>3 DEF IInv, ObjectTypes
<1>5. ASSUME Safely, NEW p \in Objects, proto'[p] # Null
      PROVE  p # o /\ proto'[p] = proto[p] /\ proto[p] \in Blocks /\ proto[p] # proto[o]
             /\ heap'[proto'[p]] = heap[proto[p]] /\ heap[proto[p]] # Unused
  <2>1. p # o /\ proto'[p] = proto[p] /\ proto[p] # Null
    BY <1>3, <1>5
  <2>2. proto[p] \in Blocks /\ proto[p] # proto[o] /\ heap[proto[p]] # Unused
    BY <1>5, <2>1 DEF IInv, OwnBlocks, ObjectTypes
  <2>3. QED
    BY <1>3, <2>1, <2>2
<1>6. OwnBlocks'
  BY <1>1, <1>5 DEF IInv, OwnBlocks
<1>7. Counted'
  <2>1. Live' = Live \ {proto[o]} /\ proto[o] \in Live
    BY <1>2, <1>3 DEF Live
  <2>2. Alive' = Alive \ {o} /\ o \in Alive
    BY <1>3 DEF Alive
  <2>3. IsFiniteSet(Live) /\ IsFiniteSet(Alive)
    BY FiniteAssumption, FS_Subset DEF Live, Alive
  <2>4. Cardinality(Live') = Cardinality(Live) - 1 /\ Cardinality(Alive') = Cardinality(Alive) - 1
    BY <2>1, <2>2, <2>3, FS_RemoveElement
  <2>5. Cardinality(Live) \in Nat /\ Cardinality(Alive) \in Nat /\ leaks \in Nat
    BY <2>3, FS_CardinalityType DEF IInv, ObjectTypes
  <2>6. QED
    BY <1>1, <2>4, <2>5 DEF IInv, Counted
<1>8. Agreed'
  <2>1. ASSUME Plainly, NEW p \in Objects, proto'[p] # Null PROVE Agrees(p)' /\ AsSent(p)'
    <3>1. /\ p # o /\ proto'[p] = proto[p] /\ proto[p] # Null
          /\ heap'[proto'[p]] = heap[proto[p]]
      BY <1>1, <1>3, <1>5, <2>1
    <3>2. Agrees(p) /\ AsSent(p)
      BY <2>1, <3>1 DEF IInv, Agreed
    <3>3. data'[p] = data[p] /\ peer'[p] = peer[p]
      BY <1>3, <3>1
    <3>4. QED
      BY <3>1, <3>2, <3>3 DEF Agrees, AsSent
  <2>2. QED
    BY <1>1, <2>1 DEF Agreed
<1>9. QED
  BY <1>4, <1>6, <1>7, <1>8 DEF IInv

-----------------------------------------------------------------------------
(* The operations.                                                          *)
LEMMA CallCounts == ASSUME IInv, Call PROVE calls' \in 0..MaxCalls
BY BoundsAssumption DEF IInv, ObjectTypes, Call

LEMMA RangedKeeps ==
  ASSUME IInv, BufInv', NEW pos \in 0..WORD - 1, NEW size \in 0..WORD - 1,
         NEW result, NEW reference, Ranged(pos, size, result, reference)
  PROVE  IInv'
<1>1. UNCHANGED <<proto, data, heap, peer, leaks>> /\ calls' \in 0..MaxCalls
  BY CallCounts DEF Ranged, objects
<1>2. odd \subseteq odd' /\ odd' \subseteq OddThings
  BY DEF Ranged, IInv, ObjectTypes, OddThings
<1>3. up' \in BOOLEAN
  BY DEF Ranged
<1>4. Safely' => up'
  <2>1. SUFFICES ASSUME Safely' PROVE Passes(buf, pos, size) => Fits(buf, pos, size)
    BY DEF Ranged
  <2>2. pos \in Nat /\ size \in Nat /\ Len(buf) \in Nat
    BY WordAssumption, LenProperties DEF IInv, BufInv
  <2>3. pos + size < WORD
    BY <2>1, <2>2, WordAssumption DEF Ranged, Safely
  <2>4. QED
    BY <2>2, <2>3, PassesFits
<1>5. QED
  BY <1>1, <1>2, <1>3, <1>4, Unchanged

LEMMA UnrangedKeeps ==
  ASSUME IInv, BufInv', NEW result, NEW reference, Unranged(result, reference),
         odd' = odd \/ odd' = odd \cup {"plus"}
  PROVE  IInv'
<1>1. UNCHANGED <<proto, data, heap, peer, leaks, up>> /\ calls' \in 0..MaxCalls
  BY CallCounts DEF Unranged, objects
<1>2. odd \subseteq odd' /\ odd' \subseteq OddThings /\ (Safely' => Safely)
  BY DEF IInv, ObjectTypes, OddThings, Safely
<1>3. up' \in BOOLEAN /\ (Safely' => up')
  BY <1>1, <1>2 DEF IInv, ObjectTypes, OwnBlocks
<1>4. QED
  BY <1>1, <1>2, <1>3, Unchanged

LEMMA BufferKeeps ==
  ASSUME IInv, BufferStep
  PROVE  IInv'
<1>1. BufInv'
  BY BufferStepInv DEF IInv
<1>2. ASSUME NEW range \in Ranges,
             \/ Get(range[1], range[2]) \/ Query(range[1], range[2]) \/ Remove(range[1], range[2])
             \/ \E src \in [1..range[2] -> Values] : Set(range[1], src)
      PROVE  IInv'
  <2>1. range[1] \in 0..WORD - 1 /\ range[2] \in 0..WORD - 1
    BY RangesAssumption
  <2>2. \A src \in [1..range[2] -> Values] : Len(src) = range[2]
    BY <2>1, WordAssumption, FunctionIsSeq
  <2>3. PICK result, reference : Ranged(range[1], range[2], result, reference)
    BY <1>2, <2>2 DEF Get, Query, Remove, Set
  <2>4. QED
    BY <1>1, <2>1, <2>3, RangedKeeps
<1>3. ASSUME NEW range \in Ranges,
             Resize(range[2]) \/ \E src \in [1..range[2] -> Values] : Insert(range[1], src)
      PROVE  IInv'
  <2>1. PICK result, reference : Unranged(result, reference) /\ odd' = odd
    BY <1>3 DEF Resize, Insert
  <2>2. QED
    BY <1>1, <2>1, UnrangedKeeps
<1>4. CASE RemoveAll
  BY <1>1, <1>4, UnrangedKeeps DEF RemoveAll
<1>5. ASSUME NEW value \in Values, AppendBytes(<<value>>) \/ Add(<<value>>) PROVE IInv'
  <2>1. PICK result, reference : /\ Unranged(result, reference)
                                 /\ odd' = odd \/ odd' = odd \cup {"plus"}
    BY <1>5 DEF AppendBytes, Add
  <2>2. QED
    BY <1>1, <2>1, UnrangedKeeps
<1>6. QED
  BY <1>2, <1>3, <1>4, <1>5 DEF BufferStep

(* What is given to an object without bytes is what the object holds.       *)
LEMMA FirstPayload ==
  ASSUME NEW b \in Seq(Stored)
  PROVE  Written(<<>>, 0, b) \in Seq(Stored) /\ Len(Written(<<>>, 0, b)) = Len(b)
<1>1. Len(b) \in Nat
  BY LenProperties
<1>2. Slice(<<>>, 0, 0) = <<>> /\ From(<<>>, 0 + Len(b)) = <<>>
  BY <1>1 DEF Slice, From
<1>3. <<>> \o b \in Seq(Stored) /\ Len(<<>> \o b) = Len(b)
  BY <1>1, ConcatProperties
<1>4. (<<>> \o b) \o <<>> \in Seq(Stored) /\ Len((<<>> \o b) \o <<>>) = Len(b)
  BY <1>1, <1>3, ConcatProperties
<1>5. QED
  BY <1>2, <1>4 DEF Written

(* An operation that reaches outside an object.                             *)
LEMMA CrashKeeps ==
  ASSUME IInv, BufInv', Call, Crash, odd \subseteq odd', odd' \subseteq OddThings, ~ Safely'
  PROVE  IInv'
<1>1. UNCHANGED <<proto, data, heap, peer, leaks>> /\ up' \in BOOLEAN
  BY DEF Crash, objects
<1>2. QED
  BY <1>1, CallCounts, Unchanged

LEMMA ConstructWithKeeps ==
  ASSUME IInv, BufInv', NEW o \in Objects, ConstructWith(o)
  PROVE  IInv'
<1>1. /\ proto[o] = Null /\ odd' = odd /\ odd' \subseteq OddThings /\ calls' \in 0..MaxCalls
      /\ buf \in Seq(Stored) /\ Len(buf) \in Nat
  BY CallCounts, LenProperties DEF ConstructWith, IInv, BufInv, ObjectTypes
<1>2. CASE Passes(<<>>, 0, Len(buf))
  <2> DEFINE payload == Written(<<>>, 0, buf)
             n == Len(buf)
  <2>1. New(o, payload, n)
    BY <1>2 DEF ConstructWith
  <2>2. payload \in Seq(Stored) /\ Len(payload) = n
    BY <1>1, FirstPayload
  <2> HIDE DEF payload, n
  <2>3. n \in Nat
    BY <1>1 DEF n
  <2>4. QED
    BY <1>1, <2>1, <2>2, <2>3, NewInv
<1>3. CASE ~ Passes(<<>>, 0, Len(buf))
  <2>1. PICK b \in Blocks \ Live : heap' = [heap EXCEPT ![b] = Fresh]
    BY <1>3 DEF ConstructWith
  <2>2. leaks' = leaks + 1 /\ UNCHANGED <<proto, data, peer, up>>
    BY <1>3 DEF ConstructWith
  <2>3. QED
    BY <1>1, <2>1, <2>2, LeakInv
<1>4. QED
  BY <1>2, <1>3

LEMMA CopyKeeps ==
  ASSUME IInv, BufInv', NEW o \in Objects, NEW source \in Objects, Copy(o, source)
  PROVE  IInv'
<1>1. ~ Safely' /\ ~ Plainly'
  BY DEF Copy, Odd, Safely, Plainly
<1>2. ObjectTypes'
  <2>1. calls' \in 0..MaxCalls
    BY CallCounts DEF Copy
  <2>2. /\ proto' = [proto EXCEPT ![o] = proto[source]]
        /\ data' = [data EXCEPT ![o] = data[source]]
        /\ peer' = [peer EXCEPT ![o] = peer[source]]
        /\ odd' = odd \cup {"copy"} /\ heap' = heap /\ leaks' = leaks /\ up' = up
    BY DEF Copy, Odd
  <2>3. QED
    BY <2>1, <2>2 DEF IInv, ObjectTypes, OddThings
<1>3. QED
  BY <1>1, <1>2 DEF IInv, OwnBlocks, Counted, Agreed

LEMMA DestroyKeeps ==
  ASSUME IInv, BufInv', NEW o \in Objects, Destroy(o)
  PROVE  IInv'
<1>1. /\ proto[o] # Null /\ proto[o] \in Blocks /\ odd' = odd /\ odd' \subseteq OddThings
      /\ calls' \in 0..MaxCalls
  BY CallCounts DEF Destroy, Alive, IInv, ObjectTypes
<1>2. CASE proto[o] \in Live
  BY <1>1, <1>2, DestroyInv DEF Destroy, Live
<1>3. CASE proto[o] \notin Live
  <2>1. ~ Safely /\ ~ Safely'
    BY <1>1, <1>3 DEF IInv, OwnBlocks, Live, Safely
  <2>2. QED
    BY <1>1, <1>3, <2>1, CrashKeeps DEF Destroy
<1>4. QED
  BY <1>2, <1>3

LEMMA addPayloadKeeps ==
  ASSUME IInv, BufInv', NEW o \in Objects, addPayload(o)
  PROVE  IInv'
<1>1. /\ proto[o] # Null /\ proto[o] \in Blocks /\ odd' = odd /\ odd' \subseteq OddThings
      /\ calls' \in 0..MaxCalls /\ buf \in Seq(Stored) /\ data[o] \in Seq(Stored)
  BY CallCounts DEF addPayload, Alive, IInv, ObjectTypes, BufInv
<1>2. CASE proto[o] \in Live
  <2> DEFINE old == heap[proto[o]]
             header == [old EXCEPT !.payloadlength = LengthWith(@, Len(buf))]
             payload == Appended(data[o], buf)
  <2>1. IsHeader(old) /\ old # Unused
    BY <1>1, <1>2 DEF IInv, ObjectTypes, Live
  <2>2. Holds(o, header, payload, NoMessage) /\ up' = up
    BY <1>2 DEF addPayload
  <2>3. /\ payload \in Seq(Stored) /\ Len(payload) = Len(data[o]) + Len(buf)
        /\ Len(data[o]) \in Nat /\ Len(buf) \in Nat
    BY <1>1, ConcatProperties, LenProperties DEF Appended
  <2>4. IsHeader(header) /\ header.payloadlength = (old.payloadlength + Len(buf)) % LENGTHS
    <3> HIDE DEF old
    <3>1. QED
      BY <2>1, <2>3, LengthAdded
  <2>5. Plainly' => old.payloadlength = Len(data[o]) % LENGTHS
    BY <1>1 DEF IInv, Agreed, Agrees, Plainly
  <2> HIDE DEF old, header, payload
  <2>6. ((Len(data[o]) % LENGTHS) + Len(buf)) % LENGTHS = (Len(data[o]) + Len(buf)) % LENGTHS
    <3> DEFINE a == Len(data[o])
               b == Len(buf)
    <3>1. a \in Nat /\ b \in Nat /\ LENGTHS \in Nat /\ LENGTHS > 0
      BY <2>3, LengthsAssumption
    <3> HIDE DEF a, b
    <3>2. ((a % LENGTHS) + b) % LENGTHS = (a + b) % LENGTHS
      BY <3>1, ModSum
    <3>3. QED
      BY <3>2 DEF a, b
  <2>7. Plainly' => header.payloadlength = Len(payload) % LENGTHS
    BY <2>3, <2>4, <2>5, <2>6
  <2>8. heap[proto[o]] # Unused
    BY <2>1 DEF old
  <2>9. QED
    BY <1>1, <2>2, <2>3, <2>4, <2>7, <2>8, HoldsInv
<1>3. CASE proto[o] \notin Live
  <2>1. ~ Safely /\ ~ Safely'
    BY <1>1, <1>3 DEF IInv, OwnBlocks, Live, Safely
  <2>2. QED
    BY <1>1, <1>3, <2>1, CrashKeeps DEF addPayload
<1>4. QED
  BY <1>2, <1>3

LEMMA unpackKeeps ==
  ASSUME IInv, BufInv', NEW o \in Objects, NEW m \in Messages, NEW nsize \in Nat,
         unpack(o, m, nsize)
  PROVE  IInv'
<1>1. /\ proto[o] # Null /\ proto[o] \in Blocks /\ calls' \in 0..MaxCalls
      /\ data[o] \in Seq(Stored)
  BY CallCounts DEF unpack, Alive, IInv, ObjectTypes
<1>2. /\ odd \subseteq odd' /\ odd' \subseteq OddThings
      /\ Safely' => nsize = Len(m.data)
      /\ Plainly' => nsize = Len(m.data) /\ data[o] = <<>>
  BY DEF unpack, IInv, ObjectTypes, OddThings, Safely, Plainly
<1>3. CASE proto[o] \in Live /\ SIZE + nsize <= Len(Wire(m))
  <2> DEFINE header == HeaderAt(Wire(m), nsize)
             read == PayloadAt(Wire(m), nsize)
             payload == Appended(data[o], read)
  <2>1. heap[proto[o]] # Unused
    BY <1>3 DEF Live
  <2>2. Holds(o, header, payload, m) /\ up' = up
    BY <1>3 DEF unpack
  <2>3. IsHeader(header)
    BY HeaderReadIsHeader
  <2>4. read \in Seq(Values) /\ (nsize = Len(m.data) => read = m.data)
    BY <1>3, PayloadIs
  <2>5. read \in Seq(Stored)
    BY <2>4, SeqMonotonic DEF Stored
  <2>6. Plainly' => \A field \in DOMAIN Fresh : header[field] = m[field]
    BY <1>2, HeaderIs
  <2> HIDE DEF read, header
  <2>7. payload \in Seq(Stored)
    BY <1>1, <2>5, ConcatProperties DEF Appended
  <2>8. Plainly' => payload = m.data
    <3>1. <<>> \o read = read
      BY <2>5, ConcatEmptySeq
    <3>2. QED
      BY <1>2, <2>4, <3>1 DEF Appended
  <2> HIDE DEF payload
  <2>9. Plainly' => header.payloadlength = Len(payload) % LENGTHS
    <3>1. "payloadlength" \in DOMAIN Fresh
      BY DEF Fresh
    <3>2. m.payloadlength = Len(m.data) % LENGTHS
      BY MessagesAssumption
    <3>3. QED
      BY <2>6, <2>8, <3>1, <3>2
  <2>10. QED
    BY <1>1, <1>2, <2>1, <2>2, <2>3, <2>6, <2>7, <2>8, <2>9, HoldsInv
<1>4. CASE ~ (proto[o] \in Live /\ SIZE + nsize <= Len(Wire(m)))
  <2>1. ~ Safely'
    <3>1. CASE proto[o] \notin Live
      <4>1. ~ Safely
        BY <1>1, <3>1 DEF IInv, OwnBlocks, Live
      <4>2. QED
        BY <1>2, <4>1, OddGrows
    <3>2. CASE ~ (SIZE + nsize <= Len(Wire(m)))
      <4>1. Len(Wire(m)) = SIZE + Len(m.data) /\ Len(m.data) \in Nat
        BY WireIs
      <4>2. QED
        BY <1>2, <3>2, <4>1 DEF SIZE
    <3>3. QED
      BY <1>4, <3>1, <3>2
  <2>2. QED
    BY <1>2, <1>4, <2>1, CrashKeeps DEF unpack
<1>5. QED
  BY <1>3, <1>4

LEMMA clearKeeps ==
  ASSUME IInv, BufInv', NEW o \in Objects, clear(o)
  PROVE  IInv'
<1>1. /\ proto[o] # Null /\ proto[o] \in Blocks /\ odd' = odd /\ odd' \subseteq OddThings
      /\ calls' \in 0..MaxCalls
  BY CallCounts DEF clear, Alive, IInv, ObjectTypes
<1>2. CASE proto[o] \in Live
  <2>1. Holds(o, Fresh, <<>>, NoMessage) /\ up' = up /\ heap[proto[o]] # Unused
    BY <1>2 DEF clear, Live
  <2>2. <<>> \in Seq(Stored) /\ Len(<<>>) = 0 /\ 0 % LENGTHS = 0
    <3>1. 0 % LENGTHS = 0
      BY LengthsAssumption, ModIs
    <3>2. QED
      BY <3>1
  <2>3. IsHeader(Fresh) /\ Fresh.payloadlength = 0
    BY FreshIsHeader
  <2>4. QED
    BY <1>1, <2>1, <2>2, <2>3, HoldsInv
<1>3. CASE proto[o] \notin Live
  <2>1. ~ Safely /\ ~ Safely'
    BY <1>1, <1>3 DEF IInv, OwnBlocks, Live, Safely
  <2>2. QED
    BY <1>1, <1>3, <2>1, CrashKeeps DEF clear
<1>4. QED
  BY <1>2, <1>3

LEMMA ObjectKeeps ==
  ASSUME IInv, NEW o \in Objects, ObjectStep(o)
  PROVE  IInv'
<1>1. BufInv'
  BY ObjectBufInv DEF IInv
<1>2. <<>> \in Seq(Stored) /\ Len(<<>>) = 0
  OBVIOUS
<1>3. CASE Construct(o)
  <2>1. /\ proto[o] = Null /\ New(o, <<>>, 0) /\ odd' = odd /\ odd' \subseteq OddThings
        /\ calls' \in 0..MaxCalls
    BY <1>3, CallCounts DEF Construct, IInv, ObjectTypes
  <2>2. QED
    BY <1>1, <1>2, <2>1, NewInv
<1>4. CASE ConstructWithNull(o, 1)
  <2>1. /\ proto[o] = Null /\ New(o, <<>>, 1) /\ odd \subseteq odd' /\ odd' \subseteq OddThings
        /\ calls' \in 0..MaxCalls /\ ~ Plainly'
    BY <1>4, CallCounts DEF ConstructWithNull, Odd, IInv, ObjectTypes, OddThings, Plainly
  <2>2. QED
    BY <1>1, <1>2, <2>1, NewInv
<1>5. CASE pack(o)
  <2>1. Call /\ Crash /\ odd \subseteq odd' /\ odd' \subseteq OddThings /\ ~ Safely'
    BY <1>5 DEF pack, Odd, IInv, ObjectTypes, OddThings, Safely
  <2>2. QED
    BY <1>1, <2>1, CrashKeeps
<1>6. ASSUME NEW m \in Messages, NEW range \in Ranges, unpack(o, m, range[2])
      PROVE  IInv'
  <2>1. range[2] \in Nat
    BY RangesAssumption, WordAssumption
  <2>2. QED
    BY <1>1, <1>6, <2>1, unpackKeeps
<1>7. QED
  BY <1>1, <1>3, <1>4, <1>5, <1>6, ConstructWithKeeps, CopyKeeps, DestroyKeeps, addPayloadKeeps,
     clearKeeps DEF ObjectStep

LEMMA InitHolds == ASSUME Init PROVE IInv
<1>1. BufInv
  <2>1. <<>> \in Seq(Stored)
    OBVIOUS
  <2>2. QED
    BY <2>1 DEF Init, BufInv, BufferAsMeant
<1>2. ObjectTypes
  <2>1. <<>> \in Seq(Stored) /\ 0 \in 0..MaxCalls
    BY BoundsAssumption
  <2>2. QED
    BY <2>1 DEF Init, ObjectTypes
<1>3. \A o \in Objects : proto[o] = Null
  BY DEF Init
<1>4. Counted
  <2>1. Live = {} /\ Alive = {} /\ leaks = 0
    BY DEF Init, Live, Alive
  <2>2. QED
    BY <2>1, FS_EmptySet DEF Counted
<1>5. up
  BY DEF Init
<1>6. QED
  BY <1>1, <1>2, <1>3, <1>4, <1>5 DEF IInv, OwnBlocks, Agreed

(* IInv is inductive.                                                       *)
THEOREM Invariant == Spec => []IInv
<1>1. Init => IInv
  BY InitHolds
<1>2. IInv /\ [Next]_vars => IInv'
  <2>1. ASSUME IInv, UNCHANGED vars PROVE IInv'
    <3>1. BufInv' /\ UNCHANGED <<proto, data, heap, peer, leaks, odd, up>> /\ calls' = calls
      BY <2>1 DEF vars, objects, buffers, IInv, BufInv, BufferAsMeant
    <3>2. (Safely' <=> Safely) /\ odd' \subseteq OddThings /\ calls' \in 0..MaxCalls /\ up' \in BOOLEAN
      BY <2>1, <3>1 DEF Safely, IInv, ObjectTypes
    <3>3. Safely' => up'
      BY <2>1, <3>1, <3>2 DEF IInv, OwnBlocks
    <3>4. QED
      BY <2>1, <3>1, <3>2, <3>3, Unchanged
  <2>2. QED
    BY <2>1, BufferKeeps, ObjectKeeps DEF Next
<1>3. QED
  BY <1>1, <1>2, PTL DEF Spec

(* Type correctness.                                                        *)
THEOREM TypeCorrect == Spec => []TypeOK
<1>1. IInv => TypeOK
  BY DEF IInv, BufInv, ObjectTypes, TypeOK, Stored, IsHeader, Live
<1>2. QED
  BY <1>1, Invariant, PTL

(* Without copies, wrapped ranges and wrong sizes no operation reaches      *)
(* outside an object, and no block is shared or lost, for any number of     *)
(* objects, blocks and calls.                                               *)
THEOREM MemorySafeCorrect == Spec => []MemorySafe
<1>1. IInv => MemorySafe
  BY DEF IInv, ObjectTypes, OwnBlocks, Counted, Safely, MemorySafe, Alive, Live
<1>2. QED
  BY <1>1, Invariant, PTL

(* The length in the header is the payload's, modulo what its field holds.  *)
THEOREM LengthAgreesCorrect == Spec => []LengthAgrees
<1>1. IInv => LengthAgrees
  BY DEF IInv, Agreed, Agrees, Plainly, LengthAgrees, Alive
<1>2. QED
  BY <1>1, Invariant, PTL

(* A message is read as it was laid out, whatever its fields and payload.   *)
THEOREM UnpackedCorrect == Spec => []Unpacked
<1>1. IInv => Unpacked
  BY DEF IInv, Agreed, AsSent, Plainly, Unpacked, Alive
<1>2. QED
  BY <1>1, Invariant, PTL
=============================================================================
