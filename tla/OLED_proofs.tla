---------------------------- MODULE OLED_proofs -----------------------------
(***************************************************************************)
(* Proofs about OLED.tla: its types, that it implements the abstract       *)
(* display (OLEDDisplay.tla), that OLED_Init() recovers the controller,    *)
(* and that every drawing puts its picture on the screen (Drawn).          *)
(*                                                                         *)
(* The inductive invariant IInv says where the lines and the receiver are  *)
(* at every change of a write (LinesAt), what a kill may leave in the      *)
(* receiver (Leftover), and which writes can meet it (Met).  RecInv and    *)
(* DrawInv stand on it: RecInv follows the settings of OLED_Init(),        *)
(* DrawInv a drawing, box by box, row by row and write by write.  For the  *)
(* latter the writes of every call are shown to be rows of boxes (Draws),  *)
(* each the cursor commands and the bytes behind them (Segment).           *)
(***************************************************************************)
EXTENDS OLED, SequenceTheorems, WellFoundedInduction, TLAPS

(* Induction, as a fact about sets of numbers.                              *)
LEMMA Induction ==
  ASSUME NEW T, 0 \in T, \A n \in Nat : n \in T => n + 1 \in T
  PROVE  \A n \in Nat : n \in T
<1> DEFINE R == OpToRel(<, Nat)
           U == {n \in Nat : n \notin T}
<1>1. IsWellFoundedOn(R, Nat)
  BY NatLessThanWellFounded
<1>2. \A x, y \in Nat : y < x => <<y, x>> \in R
  BY DEF OpToRel
<1> HIDE DEF R
<1>3. SUFFICES ASSUME U # {} PROVE FALSE
  OBVIOUS
<1>4. PICK n \in U : \A m \in U : ~ (<<m, n>> \in R)
  BY <1>1, <1>3, WFMin
<1>5. n - 1 \in Nat /\ n - 1 < n /\ (n - 1) + 1 = n
  BY <1>4
<1>6. n - 1 \in T
  BY <1>2, <1>4, <1>5
<1>7. QED
  BY <1>4, <1>5, <1>6

(* The sequences FlattenSeq() joins, one more with each step.               *)
Unfolds(f, s, n) ==
  /\ f[1] = s[1] /\ FlattenSeq(s) = f[n]
  /\ \A k \in 1..n - 1 : f[k + 1] = f[k] \o s[k + 1]

(* The recursion of FlattenSeq() has a solution.                            *)
LEMMA Flattening ==
  ASSUME NEW S, NEW n \in Nat, n # 0, NEW s \in [1..n -> Seq(S)]
  PROVE  \E f : Unfolds(f, s, n)
<1> DEFINE Solves(f, k) == f = [i \in 1..k |-> IF i = 1 THEN s[i] ELSE f[i - 1] \o s[i]]
           T == {k \in Nat : \E f : Solves(f, k)}
<1> HIDE DEF Solves
<1>1. 0 \in T
  <2>1. Solves([i \in 1..0 |-> <<>>], 0)
    BY DEF Solves
  <2>2. QED
    BY <2>1
<1>2. ASSUME NEW k \in Nat, k \in T PROVE k + 1 \in T
  <2>1. PICK f : Solves(f, k)
    BY <1>2
  <2> DEFINE g == [i \in 1..k + 1 |-> IF i <= k THEN f[i]
                                      ELSE IF i = 1 THEN s[i] ELSE f[i - 1] \o s[i]]
  <2>2. ASSUME NEW i \in 1..k + 1
        PROVE  g[i] = IF i = 1 THEN s[i] ELSE g[i - 1] \o s[i]
    <3>1. \A j \in 1..k : f[j] = IF j = 1 THEN s[j] ELSE f[j - 1] \o s[j]
      BY <2>1 DEF Solves
    <3>2. CASE i <= k
      <4>1. g[i] = f[i] /\ (i # 1 => g[i - 1] = f[i - 1])
        BY <3>2
      <4>2. QED
        BY <3>1, <3>2, <4>1
    <3>3. CASE i = k + 1
      <4>1. i # 1 => g[i - 1] = f[i - 1]
        BY <3>3
      <4>2. g[i] = IF i = 1 THEN s[i] ELSE f[i - 1] \o s[i]
        BY <3>3
      <4>3. QED
        BY <4>1, <4>2
    <3>4. QED
      BY <3>2, <3>3
  <2>3. Solves(g, k + 1)
    <3>1. g = [i \in 1..k + 1 |-> g[i]]
      OBVIOUS
    <3> HIDE DEF g
    <3>2. QED
      BY <2>2, <3>1 DEF Solves
  <2>4. QED
    BY <2>3
<1>3. \E f : Solves(f, n)
  <2>1. n \in T
    BY <1>1, <1>2, Induction
  <2>2. QED
    BY <2>1
<1>4. Len(s) = n
  OBVIOUS
<1>5. FlattenSeq(s) = (CHOOSE f : Solves(f, n))[n]
  BY <1>4 DEF FlattenSeq, Solves
<1>6. Solves((CHOOSE f : Solves(f, n)), n)
  BY <1>3
<1>7. PICK f : Solves(f, n) /\ FlattenSeq(s) = f[n]
  BY <1>5, <1>6
<1>8. f[1] = s[1]
  BY <1>7 DEF Solves
<1>9. ASSUME NEW k \in 1..n - 1 PROVE f[k + 1] = f[k] \o s[k + 1]
  <2>1. k + 1 \in 1..n /\ k + 1 # 1 /\ (k + 1) - 1 = k
    OBVIOUS
  <2>2. f[k + 1] = f[(k + 1) - 1] \o s[k + 1]
    BY <1>7, <2>1 DEF Solves
  <2>3. QED
    BY <2>1, <2>2
<1>10. Unfolds(f, s, n)
  BY <1>7, <1>8, <1>9 DEF Unfolds
<1>11. QED
  BY <1>10

(* A set of sequences that is closed under concatenation.                   *)
LEMMA FlattenKeeps ==
  ASSUME NEW S, NEW C \in SUBSET Seq(S), \A a \in C, b \in C : a \o b \in C,
         NEW n \in Nat, n # 0, NEW s \in [1..n -> C]
  PROVE  FlattenSeq(s) \in C
<1>0. PICK f : Unfolds(f, s, n)
  <2>1. s \in [1..n -> Seq(S)]
    OBVIOUS
  <2>2. QED
    BY <2>1, Flattening
<1>1. /\ f[1] = s[1] /\ FlattenSeq(s) = f[n]
      /\ \A k \in 1..n - 1 : f[k + 1] = f[k] \o s[k + 1]
  BY <1>0 DEF Unfolds
<1> DEFINE T == {k \in Nat : k \in 1..n => f[k] \in C}
<1>2. 0 \in T
  OBVIOUS
<1>3. ASSUME NEW k \in Nat, k \in T PROVE k + 1 \in T
  <2>1. CASE k = 0
    <3>1. f[1] = s[1]
      BY <1>1
    <3>2. QED
      BY <2>1, <3>1
  <2>2. CASE k # 0 /\ k + 1 <= n
    <3>1. k \in 1..n - 1
      BY <2>2
    <3>2. f[k + 1] = f[k] \o s[k + 1]
      BY <1>1, <3>1
    <3>3. f[k] \in C /\ s[k + 1] \in C
      BY <1>3, <2>2
    <3>4. f[k + 1] \in C
      BY <3>2, <3>3
    <3>5. QED
      BY <3>4
  <2>3. QED
    BY <2>1, <2>2
<1>4. n \in T
  BY <1>2, <1>3, Induction
<1>5. QED
  BY <1>1, <1>4

(* The pieces of a flattened sequence keep the elements in its set.         *)
LEMMA FlattenIn ==
  ASSUME NEW S, NEW n \in Nat, NEW s \in [1..n -> Seq(S)]
  PROVE  FlattenSeq(s) \in Seq(S)
<1>1. CASE n = 0
  BY <1>1 DEF FlattenSeq
<1>2. CASE n # 0
  <2> DEFINE C == Seq(S)
  <2>1. \A a \in C, b \in C : a \o b \in C
    BY ConcatProperties
  <2>2. C \in SUBSET Seq(S)
    OBVIOUS
  <2> HIDE DEF C
  <2>3. s \in [1..n -> C]
    BY DEF C
  <2>4. FlattenSeq(s) \in C
    BY <1>2, <2>1, <2>2, <2>3, FlattenKeeps
  <2>5. QED
    BY <2>4 DEF C
<1>3. QED
  BY <1>1, <1>2

(* Row i of k rows of m places, and place r in it.                          *)
LEMMA Places ==
  ASSUME NEW k \in Nat, NEW m \in Nat, NEW i \in 1..k, NEW r \in 1..m
  PROVE  (i - 1) * m + r \in 1..k * m
<1>1. (i - 1) * m \in Nat /\ ((i - 1) * m) + m = i * m
  OBVIOUS
<1>2. i * m <= k * m /\ k * m \in Nat /\ i * m \in Nat
  OBVIOUS
<1> DEFINE a == (i - 1) * m
           b == i * m
           c == k * m
<1> HIDE DEF a, b, c
<1>3. a \in Nat /\ a + m = b /\ b <= c /\ b \in Nat /\ c \in Nat
  BY <1>1, <1>2 DEF a, b, c
<1>4. a + r \in 1..c
  BY <1>3
<1>5. QED
  BY <1>4 DEF a, c

(* Pieces of one length lie side by side.                                   *)
Lie(q, s, n, m) == \A i \in 1..n, r \in 1..m : q[(i - 1) * m + r] = s[i][r]

(* The pieces of a flattened sequence lie in it one behind the other,       *)
(* whatever their lengths.                                                  *)
LEMMA FlattenPieces ==
  ASSUME NEW S, NEW n \in Nat, n # 0, NEW m \in Nat, m # 0, NEW s \in [1..n -> Seq(S)],
         \A i \in 1..n : Len(s[i]) = m
  PROVE  Len(FlattenSeq(s)) = n * m /\ Lie(FlattenSeq(s), s, n, m)
<1>0. PICK f : Unfolds(f, s, n)
  BY Flattening
<1>1. /\ f[1] = s[1] /\ FlattenSeq(s) = f[n]
      /\ \A k \in 1..n - 1 : f[k + 1] = f[k] \o s[k + 1]
  BY <1>0 DEF Unfolds
<1> DEFINE Side(k) == /\ f[k] \in Seq(S)
                      /\ Len(f[k]) = k * m
                      /\ \A i \in 1..k, r \in 1..m : f[k][(i - 1) * m + r] = s[i][r]
           T == {k \in Nat : k \in 1..n => Side(k)}
<1>2. 0 \in T
  OBVIOUS
<1>3. ASSUME NEW k \in Nat, k \in T PROVE k + 1 \in T
  <2>1. CASE k = 0
    <3>1. f[1] = s[1]
      BY <1>1
    <3>2. QED
      BY <2>1, <3>1
  <2>2. CASE k # 0 /\ k + 1 <= n
    <3>1. /\ f[k + 1] = f[k] \o s[k + 1]
          /\ s[k + 1] \in Seq(S) /\ Len(s[k + 1]) = m
      <4>0. k \in 1..n - 1
        BY <2>2
      <4>1. f[k + 1] = f[k] \o s[k + 1]
        BY <1>1, <4>0
      <4>2. QED
        BY <4>1, <2>2
    <3>2. f[k] \in Seq(S) /\ Len(f[k]) = k * m
      BY <1>3, <2>2
    <3>3. /\ f[k + 1] \in Seq(S) /\ Len(f[k + 1]) = (k * m) + m
          /\ \A j \in 1..k * m : f[k + 1][j] = f[k][j]
          /\ \A r \in 1..m : f[k + 1][k * m + r] = s[k + 1][r]
      <4> DEFINE l == k * m
                 a == f[k]
                 b == s[k + 1]
      <4>1. l \in Nat /\ a \in Seq(S) /\ b \in Seq(S) /\ Len(a) = l /\ Len(b) = m
        BY <3>1, <3>2
      <4> HIDE DEF l, a, b
      <4>2. /\ a \o b \in Seq(S) /\ Len(a \o b) = l + m
            /\ \A j \in 1..l : (a \o b)[j] = a[j]
            /\ \A r \in 1..m : (a \o b)[l + r] = b[r]
        <5>1. a \o b \in Seq(S) /\ Len(a \o b) = l + m
          BY <4>1, ConcatProperties
        <5>2. \A j \in 1..l + m : (a \o b)[j] = IF j <= l THEN a[j] ELSE b[j - l]
          BY <4>1, ConcatProperties
        <5>3. ASSUME NEW j \in 1..l PROVE (a \o b)[j] = a[j]
          BY <4>1, <5>2
        <5>4. ASSUME NEW r \in 1..m PROVE (a \o b)[l + r] = b[r]
          <6>1. l + r \in 1..l + m /\ ~ (l + r <= l) /\ (l + r) - l = r
            BY <4>1
          <6>2. QED
            BY <5>2, <6>1
        <5>5. QED
          BY <5>1, <5>3, <5>4
      <4>3. QED
        BY <3>1, <4>2 DEF l, a, b
    <3>4. k * m \in Nat /\ (k + 1) * m = (k * m) + m
      OBVIOUS
    <3>5. ASSUME NEW i \in 1..k, NEW r \in 1..m
          PROVE  f[k + 1][(i - 1) * m + r] = s[i][r]
      <4>1. (i - 1) * m + r \in 1..k * m
        BY Places
      <4>2. f[k + 1][(i - 1) * m + r] = f[k][(i - 1) * m + r]
        BY <3>3, <4>1
      <4>3. QED
        BY <4>2, <1>3, <2>2
    <3>6. ASSUME NEW r \in 1..m
          PROVE  f[k + 1][k * m + r] = s[k + 1][r]
      BY <3>3
    <3>7. QED
      <4>1. ASSUME NEW i \in 1..k + 1, NEW r \in 1..m
            PROVE  f[k + 1][(i - 1) * m + r] = s[i][r]
        <5>1. i \in 1..k \/ i = k + 1
          OBVIOUS
        <5>2. CASE i = k + 1
          <6>1. i - 1 = k
            BY <5>2
          <6>2. QED
            BY <3>6, <5>2, <6>1
        <5>3. QED
          BY <5>1, <5>2, <3>5
      <4>2. QED
        BY <4>1, <3>3, <3>4
  <2>3. QED
    BY <2>1, <2>2
<1>4. n \in T
  BY <1>2, <1>3, Induction
<1>5. Side(n)
  BY <1>4
<1>6. QED
  BY <1>1, <1>5 DEF Lie

Turn(byte, m) ==
  IF m \in {1, 27} THEN SCLK(0)
  ELSE IF m = 26 THEN SCLK(1)
  ELSE IF m % 3 = 2 THEN SDIN(Bit(byte, (m - 2) \div 3))
  ELSE IF m % 3 = 0 THEN SCLK(1)
  ELSE SCLK(0)
Pins == {"SCLK", "SDIN"} \X {0, 1}
ByteOf(control, byte, j) == IF j = 0 THEN 120 ELSE IF j = 1 THEN control ELSE byte

Extends(q, p, l, b, n) ==
  /\ \A k \in 1..l : q[k] = p[k]
  /\ \A k \in 1..n : q[l + k] = b[k]

(* The concatenation of two sequences of known lengths.                     *)
LEMMA Joined ==
  ASSUME NEW S, NEW a \in Seq(S), NEW b \in Seq(S), NEW l \in Nat, NEW n \in Nat,
         Len(a) = l, Len(b) = n
  PROVE  a \o b \in Seq(S) /\ Len(a \o b) = l + n /\ Extends(a \o b, a, l, b, n)
<1>1. \A k \in 1..l : (a \o b)[k] = a[k]
  OBVIOUS
<1>2. \A k \in 1..n : (a \o b)[l + k] = b[k]
  OBVIOUS
<1>3. Extends(a \o b, a, l, b, n)
  BY <1>1, <1>2 DEF Extends
<1>4. a \o b \in Seq(S) /\ Len(a \o b) = l + n
  OBVIOUS
<1>5. QED
  BY <1>3, <1>4, Zenon

(* Pieces that each consist of one turn of n elements: where element k of   *)
(* turn i is.                                                               *)
LEMMA TurnsAt ==
  ASSUME NEW q, NEW r, NEW p, NEW l \in Nat, NEW byte, NEW w, NEW a, NEW ln, ln = l + 25,
         Extends(r, p, l, w, 25), Extends(q, r, ln, a, 2),
         \A m \in 1..25 : w[m] = Turn(byte, m), a[1] = SCLK(1), a[2] = SCLK(0)
  PROVE  Extends(q, p, l, [m \in 1..27 |-> Turn(byte, m)], 27)
<1>1. ASSUME NEW k \in 1..l PROVE q[k] = p[k]
  <2>1. k \in 1..ln
    OBVIOUS
  <2>2. QED
    BY <2>1 DEF Extends
<1>2. ASSUME NEW m \in 1..27 PROVE q[l + m] = Turn(byte, m)
  <2>1. CASE m <= 25
    <3>1. l + m \in 1..ln /\ m \in 1..25
      BY <2>1
    <3>2. QED
      BY <3>1 DEF Extends
  <2>2. CASE m = 26
    <3>1. ln + 1 = l + m /\ 1 \in 1..2
      BY <2>2
    <3>2. q[ln + 1] = SCLK(1)
      BY <3>1 DEF Extends
    <3>3. QED
      BY <2>2, <3>1, <3>2 DEF Turn
  <2>3. CASE m = 27
    <3>1. ln + 2 = l + m /\ 2 \in 1..2
      BY <2>3
    <3>2. q[ln + 2] = SCLK(0)
      BY <3>1 DEF Extends
    <3>3. QED
      BY <2>3, <3>1, <3>2 DEF Turn
  <2>4. QED
    BY <2>1, <2>2, <2>3
<1>3. QED
  BY <1>1, <1>2 DEF Extends

(* A bit is one.                                                            *)
LEMMA BitIs ==
  ASSUME NEW byte \in Byte, NEW i \in 0..7
  PROVE  Bit(byte, i) \in {0, 1}
<1> DEFINE w == 2^(7 - i)
<1>1. w \in 1..128
  <2>1. CASE i = 0 BY <2>1
  <2>2. CASE i = 1 BY <2>2
  <2>3. CASE i = 2 BY <2>3
  <2>4. CASE i = 3 BY <2>4
  <2>5. CASE i = 4 BY <2>5
  <2>6. CASE i = 5 BY <2>6
  <2>7. CASE i = 6 BY <2>7
  <2>8. CASE i = 7 BY <2>8
  <2>9. QED
    BY <2>1, <2>2, <2>3, <2>4, <2>5, <2>6, <2>7, <2>8
<1> HIDE DEF w
<1>2. (byte \div w) \in Int
  BY <1>1 DEF Byte
<1>3. (byte \div w) % 2 \in {0, 1}
  BY <1>2
<1>4. QED
  BY <1>3 DEF Bit, w

(* A bit appended to the bits before it.                                    *)
LEMMA BitAppended ==
  ASSUME NEW byte \in Byte, NEW i \in 0..7
  PROVE  2 * (byte \div 2^(8 - i)) + Bit(byte, i) = byte \div 2^(8 - (i + 1))
<1>1. byte \in 0..255
  BY DEF Byte
<1> USE DEF Bit
<1>2. CASE i = 0 BY <1>1, <1>2
<1>3. CASE i = 1 BY <1>1, <1>3
<1>4. CASE i = 2 BY <1>1, <1>4
<1>5. CASE i = 3 BY <1>1, <1>5
<1>6. CASE i = 4 BY <1>1, <1>6
<1>7. CASE i = 5 BY <1>1, <1>7
<1>8. CASE i = 6 BY <1>1, <1>8
<1>9. CASE i = 7 BY <1>1, <1>9
<1>10. QED
  BY <1>2, <1>3, <1>4, <1>5, <1>6, <1>7, <1>8, <1>9

(* Write_IIC_Byte() settles each bit before the clock rises.                *)
LEMMA ByteAt ==
  ASSUME NEW byte \in Byte
  PROVE  /\ Write_IIC_Byte(byte) \in Seq(Pins) /\ Len(Write_IIC_Byte(byte)) = 25
         /\ \A m \in 1..25 : Write_IIC_Byte(byte)[m] = Turn(byte, m)
<1> DEFINE s == [i \in 1..8 |-> <<SDIN(Bit(byte, i - 1)), SCLK(1), SCLK(0)>>]
           flat == FlattenSeq(s)
           first == <<SCLK(0)>>
<1>1. \A i \in 0..7 : Bit(byte, i) \in {0, 1}
  BY BitIs
<1>2. s \in [1..8 -> Seq(Pins)] /\ \A i \in 1..8 : Len(s[i]) = 3
  BY <1>1 DEF Pins, SDIN, SCLK
<1>3. /\ flat \in Seq(Pins) /\ Len(flat) = 24
      /\ \A i \in 1..8, r \in 1..3 : flat[(i - 1) * 3 + r] = s[i][r]
  <2>1. flat \in Seq(Pins)
    BY <1>2, FlattenIn
  <2> DEFINE n == 8
             m == 3
  <2>2. n \in Nat /\ n # 0 /\ m \in Nat /\ m # 0 /\ n * m = 24
    OBVIOUS
  <2>3. s \in [1..n -> Seq(Pins)] /\ \A i \in 1..n : Len(s[i]) = m
    BY <1>2
  <2> HIDE DEF s, n, m
  <2>4. Len(FlattenSeq(s)) = n * m /\ Lie(FlattenSeq(s), s, n, m)
    BY <2>2, <2>3, FlattenPieces
  <2> HIDE DEF flat
  <2>5. Len(flat) = 24
    BY <2>2, <2>4 DEF flat
  <2>6. \A i \in 1..n, r \in 1..m : flat[(i - 1) * m + r] = s[i][r]
    BY <2>4 DEF flat, Lie
  <2>7. QED
    BY <2>1, <2>5, <2>6 DEF n, m
<1>4. first \in Seq(Pins) /\ Len(first) = 1 /\ first[1] = SCLK(0)
  BY DEF Pins, SCLK
<1>5. Write_IIC_Byte(byte) = first \o flat
  BY DEF Write_IIC_Byte
<1>6. \A i \in 1..8 : /\ flat[3 * i - 2] = SDIN(Bit(byte, i - 1))
                      /\ flat[3 * i - 1] = SCLK(1)
                      /\ flat[3 * i] = SCLK(0)
  <2>1. ASSUME NEW i \in 1..8
        PROVE  /\ flat[3 * i - 2] = SDIN(Bit(byte, i - 1))
               /\ flat[3 * i - 1] = SCLK(1)
               /\ flat[3 * i] = SCLK(0)
    <3>1. /\ (i - 1) * 3 + 1 = 3 * i - 2
          /\ (i - 1) * 3 + 2 = 3 * i - 1
          /\ (i - 1) * 3 + 3 = 3 * i
      OBVIOUS
    <3>2. /\ s[i][1] = SDIN(Bit(byte, i - 1)) /\ s[i][2] = SCLK(1) /\ s[i][3] = SCLK(0)
      OBVIOUS
    <3> HIDE DEF s, flat
    <3>3. \A r \in 1..3 : flat[(i - 1) * 3 + r] = s[i][r]
      BY <1>3
    <3>4. /\ flat[(i - 1) * 3 + 1] = s[i][1] /\ flat[(i - 1) * 3 + 2] = s[i][2]
          /\ flat[(i - 1) * 3 + 3] = s[i][3]
      BY <3>3
    <3>5. QED
      BY <3>1, <3>2, <3>4
  <2>2. QED
    BY <2>1
<1> HIDE DEF s, flat, first
<1> DEFINE whole == first \o flat
           one == 1
           n == 24
<1>7. one \in Nat /\ n \in Nat /\ Len(first) = one /\ Len(flat) = n
  BY <1>3, <1>4
<1> HIDE DEF one, n
<1>8. whole \in Seq(Pins) /\ Len(whole) = one + n /\ Extends(whole, first, one, flat, n)
  BY <1>3, <1>4, <1>7, Joined
<1> HIDE DEF whole
<1>9. ASSUME NEW m \in 1..25 PROVE whole[m] = Turn(byte, m)
  <2>1. CASE m = 1
    <3>1. 1 \in 1..one
      BY DEF one
    <3>2. whole[1] = first[1]
      BY <3>1, <1>8 DEF Extends
    <3>3. QED
      BY <2>1, <3>2, <1>4 DEF Turn
  <2>2. CASE m # 1
    <3>1. whole[m] = flat[m - 1]
      <4>1. m - 1 \in 1..n /\ one + (m - 1) = m
        BY <2>2 DEF one, n
      <4>2. QED
        BY <4>1, <1>8 DEF Extends
    <3>2. PICK i \in 1..8 : m - 1 = 3 * i - 2 \/ m - 1 = 3 * i - 1 \/ m - 1 = 3 * i
      <4>1. ((m + 1) \div 3) \in 1..8
        BY <2>2
      <4>2. m - 1 = 3 * ((m + 1) \div 3) - 2 \/ m - 1 = 3 * ((m + 1) \div 3) - 1
              \/ m - 1 = 3 * ((m + 1) \div 3)
        BY <2>2
      <4>3. QED
        BY <4>1, <4>2
    <3>3. CASE m - 1 = 3 * i - 2
      <4>1. m % 3 = 2 /\ m \notin {1, 26, 27} /\ (m - 2) \div 3 = i - 1
        BY <3>3
      <4>2. flat[m - 1] = SDIN(Bit(byte, i - 1))
        BY <3>3, <1>6
      <4>3. Turn(byte, m) = SDIN(Bit(byte, i - 1))
        BY <4>1 DEF Turn
      <4>4. QED
        BY <3>1, <4>2, <4>3
    <3>4. CASE m - 1 = 3 * i - 1
      <4>1. m % 3 = 0 /\ m \notin {1, 26, 27}
        BY <3>4
      <4>2. flat[m - 1] = SCLK(1)
        BY <3>4, <1>6
      <4>3. Turn(byte, m) = SCLK(1)
        BY <4>1 DEF Turn
      <4>4. QED
        BY <3>1, <4>2, <4>3
    <3>5. CASE m - 1 = 3 * i
      <4>1. m % 3 = 1 /\ m \notin {1, 26, 27}
        BY <3>5
      <4>2. flat[m - 1] = SCLK(0)
        BY <3>5, <1>6
      <4>3. Turn(byte, m) = SCLK(0)
        BY <4>1 DEF Turn
      <4>4. QED
        BY <3>1, <4>2, <4>3
    <3>6. QED
      BY <3>2, <3>3, <3>4, <3>5
  <2>3. QED
    BY <2>1, <2>2
<1>10. Len(whole) = 25
  BY <1>8 DEF one, n
<1>11. QED
  BY <1>5, <1>8, <1>9, <1>10 DEF whole

(* A byte, its acknowledgement included, behind what was sent before.       *)
LEMMA SentBehind ==
  ASSUME NEW p \in Seq(Pins), NEW l \in Nat, Len(p) = l, NEW byte \in Byte
  PROVE  LET q == p \o Write_IIC_Byte(byte) \o IIC_Wait_Ack IN
         q \in Seq(Pins) /\ Len(q) = l + 27 /\ Extends(q, p, l, [m \in 1..27 |-> Turn(byte, m)], 27)
<1> DEFINE w == Write_IIC_Byte(byte)
           a == IIC_Wait_Ack
           r == p \o w
           q == r \o a
           n == 25
           o == 2
           ln == l + n
<1>1. w \in Seq(Pins) /\ Len(w) = n /\ \A m \in 1..n : w[m] = Turn(byte, m)
  BY ByteAt
<1>2. a \in Seq(Pins) /\ Len(a) = o /\ a[1] = SCLK(1) /\ a[2] = SCLK(0)
  BY DEF IIC_Wait_Ack, Pins, SCLK
<1>3. n \in Nat /\ o \in Nat /\ ln \in Nat
  OBVIOUS
<1> HIDE DEF w, a, n, o
<1>4. r \in Seq(Pins) /\ Len(r) = ln /\ Extends(r, p, l, w, n)
  BY <1>1, <1>3, Joined
<1> HIDE DEF r, ln
<1>5. q \in Seq(Pins) /\ Len(q) = ln + o /\ Extends(q, r, ln, a, o)
  BY <1>2, <1>3, <1>4, Joined
<1> HIDE DEF q
<1>6. Extends(q, p, l, [m \in 1..27 |-> Turn(byte, m)], 27)
  <2>1. ln = l + 25 /\ n = 25 /\ o = 2
    BY DEF ln, n, o
  <2>2. Extends(r, p, l, w, 25) /\ Extends(q, r, ln, a, 2) /\ \A m \in 1..25 : w[m] = Turn(byte, m)
    BY <2>1, <1>1, <1>4, <1>5
  <2>3. QED
    BY <2>1, <2>2, <1>2, TurnsAt, Zenon
<1>7. q \in Seq(Pins) /\ Len(q) = l + 27
  BY <1>5 DEF ln, n, o
<1>8. QED
  BY <1>6, <1>7 DEF q, r, w, a

(* A write: start, address, control byte, byte, stop.                       *)
IsFrame(frame, control, byte) ==
  /\ frame \in Seq(Pins) /\ Len(frame) = 88
  /\ frame[1] = SCLK(1) /\ frame[2] = SDIN(1) /\ frame[3] = SDIN(0) /\ frame[4] = SCLK(0)
  /\ \A j \in 0..2, m \in 1..27 : frame[4 + 27 * j + m] = Turn(ByteOf(control, byte, j), m)
  /\ frame[86] = SCLK(1) /\ frame[87] = SDIN(0) /\ frame[88] = SDIN(1)

(* The places of the parts, whatever they are.                              *)
LEMMA ExtendsLeft ==
  ASSUME NEW q, NEW p, NEW l, NEW b, NEW n, Extends(q, p, l, b, n)
  PROVE  \A k \in 1..l : q[k] = p[k]
BY DEF Extends

(* The right part of a concatenation, by place.                             *)
LEMMA ExtendsRight ==
  ASSUME NEW q, NEW p, NEW l, NEW b, NEW n, Extends(q, p, l, b, n)
  PROVE  \A k \in 1..n : q[l + k] = b[k]
BY DEF Extends

(* Write_IIC() makes the 88 changes of IsFrame: start, three bytes with     *)
(* their acknowledgements, stop (NPDOLED.cpp:203-300).                      *)
LEMMA FrameAt ==
  ASSUME NEW control \in Byte, NEW byte \in Byte
  PROVE  IsFrame(Write_IIC(control, byte), control, byte)
<1> DEFINE address == 120
           p0 == IIC_Start
           p1 == p0 \o Write_IIC_Byte(address) \o IIC_Wait_Ack
           p2 == p1 \o Write_IIC_Byte(control) \o IIC_Wait_Ack
           p3 == p2 \o Write_IIC_Byte(byte) \o IIC_Wait_Ack
           stop == IIC_Stop
           frame == p3 \o stop
           turns(b) == [m \in 1..27 |-> Turn(b, m)]
           l0 == 4
           l1 == l0 + 27
           l2 == l1 + 27
           l3 == l2 + 27
           n == 3
           c == 27
<1>1. /\ p0 \in Seq(Pins) /\ Len(p0) = l0
      /\ p0[1] = SCLK(1) /\ p0[2] = SDIN(1) /\ p0[3] = SDIN(0) /\ p0[4] = SCLK(0)
  BY DEF IIC_Start, Pins, SCLK, SDIN
<1>2. /\ stop \in Seq(Pins) /\ Len(stop) = n
      /\ stop[1] = SCLK(1) /\ stop[2] = SDIN(0) /\ stop[3] = SDIN(1)
  BY DEF IIC_Stop, Pins, SCLK, SDIN
<1>3. l0 \in Nat /\ l1 \in Nat /\ l2 \in Nat /\ l3 \in Nat /\ n \in Nat /\ address \in Byte
  BY DEF Byte
<1>4. l0 = 4 /\ l1 = 31 /\ l2 = 58 /\ l3 = 85 /\ n = 3 /\ c = 27 /\ address = 120
  OBVIOUS
<1>5. \A b, m : m \in 1..27 => turns(b)[m] = Turn(b, m)
  OBVIOUS
<1> HIDE DEF p0, stop, l0, n, address
<1>6. p1 \in Seq(Pins) /\ Len(p1) = l1 /\ Extends(p1, p0, l0, turns(address), c)
  BY <1>1, <1>3, SentBehind
<1> HIDE DEF p1, l1
<1>7. p2 \in Seq(Pins) /\ Len(p2) = l2 /\ Extends(p2, p1, l1, turns(control), c)
  BY <1>3, <1>6, SentBehind
<1> HIDE DEF p2, l2
<1>8. p3 \in Seq(Pins) /\ Len(p3) = l3 /\ Extends(p3, p2, l2, turns(byte), c)
  BY <1>3, <1>7, SentBehind
<1> HIDE DEF p3, l3, c, turns
<1>9. frame \in Seq(Pins) /\ Len(frame) = l3 + n /\ Extends(frame, p3, l3, stop, n)
  <2>1. p3 \in Seq(Pins) /\ Len(p3) = l3 /\ stop \in Seq(Pins) /\ Len(stop) = n
    BY <1>2, <1>8
  <2>2. QED
    BY <2>1, <1>3, Joined
<1> HIDE DEF frame
<1>10. \A k \in 1..l3 : frame[k] = p3[k]
  BY <1>9, ExtendsLeft
<1>11. \A k \in 1..l2 : p3[k] = p2[k]
  BY <1>8, ExtendsLeft
<1>12. \A k \in 1..l1 : p2[k] = p1[k]
  BY <1>7, ExtendsLeft
<1>13. \A k \in 1..l0 : p1[k] = p0[k]
  BY <1>6, ExtendsLeft
<1>14. \A k \in 1..n : frame[l3 + k] = stop[k]
  BY <1>9, ExtendsRight
<1>15. \A k \in 1..c : p1[l0 + k] = turns(address)[k]
  BY <1>6, ExtendsRight
<1>16. \A k \in 1..c : p2[l1 + k] = turns(control)[k]
  BY <1>7, ExtendsRight
<1>17. \A k \in 1..c : p3[l2 + k] = turns(byte)[k]
  BY <1>8, ExtendsRight
<1>18. ASSUME NEW m \in 1..27 PROVE frame[58 + m] = Turn(byte, m)
  <2>1. 58 + m \in 1..l3 /\ 58 + m = l2 + m /\ m \in 1..c
    BY <1>4
  <2>2. QED
    BY <2>1, <1>10, <1>17, <1>5
<1>19. ASSUME NEW m \in 1..27 PROVE frame[31 + m] = Turn(control, m)
  <2>1. 31 + m \in 1..l3 /\ 31 + m \in 1..l2 /\ 31 + m = l1 + m /\ m \in 1..c
    BY <1>4
  <2>2. QED
    BY <2>1, <1>10, <1>11, <1>16, <1>5
<1>20. ASSUME NEW m \in 1..27 PROVE frame[4 + m] = Turn(120, m)
  <2>1. /\ 4 + m \in 1..l3 /\ 4 + m \in 1..l2 /\ 4 + m \in 1..l1
        /\ 4 + m = l0 + m /\ m \in 1..c
    BY <1>4
  <2>2. QED
    BY <2>1, <1>4, <1>10, <1>11, <1>12, <1>15, <1>5
<1>21. ASSUME NEW k \in 1..4 PROVE frame[k] = p0[k]
  <2>1. k \in 1..l3 /\ k \in 1..l2 /\ k \in 1..l1 /\ k \in 1..l0
    BY <1>4
  <2>2. QED
    BY <2>1, <1>10, <1>11, <1>12, <1>13
<1>22. frame[1] = SCLK(1) /\ frame[2] = SDIN(1) /\ frame[3] = SDIN(0) /\ frame[4] = SCLK(0)
  BY <1>1, <1>21
<1>23. frame[86] = SCLK(1) /\ frame[87] = SDIN(0) /\ frame[88] = SDIN(1)
  <2>1. l3 + 1 = 86 /\ l3 + 2 = 87 /\ l3 + 3 = 88 /\ 1 \in 1..n /\ 2 \in 1..n /\ 3 \in 1..n
    BY <1>4
  <2>2. frame[l3 + 1] = SCLK(1) /\ frame[l3 + 2] = SDIN(0) /\ frame[l3 + 3] = SDIN(1)
    BY <2>1, <1>2, <1>14
  <2>3. QED
    BY <2>1, <2>2
<1>24. ASSUME NEW j \in 0..2, NEW m \in 1..27
      PROVE  frame[4 + 27 * j + m] = Turn(ByteOf(control, byte, j), m)
  <2>1. CASE j = 0
    <3>1. 4 + 27 * j + m = 4 + m /\ ByteOf(control, byte, j) = 120
      BY <2>1 DEF ByteOf
    <3>2. QED
      BY <3>1, <1>20
  <2>2. CASE j = 1
    <3>1. 4 + 27 * j + m = 31 + m /\ ByteOf(control, byte, j) = control
      BY <2>2 DEF ByteOf
    <3>2. QED
      BY <3>1, <1>19
  <2>3. CASE j = 2
    <3>1. 4 + 27 * j + m = 58 + m /\ ByteOf(control, byte, j) = byte
      BY <2>3 DEF ByteOf
    <3>2. QED
      BY <3>1, <1>18
  <2>4. QED
    BY <2>1, <2>2, <2>3
<1>25. Len(frame) = 88
  BY <1>9, <1>4
<1>26. frame \in Seq(Pins)
  BY <1>9
<1>27. IsFrame(frame, control, byte)
  BY <1>22, <1>23, <1>24, <1>25, <1>26, Zenon DEF IsFrame
<1>28. frame = Write_IIC(control, byte)
  BY DEF frame, p3, p2, p1, p0, stop, address, Write_IIC
<1>29. QED
  BY <1>27, <1>28

Control(kind) == IF kind = OLED_DATA THEN 64 ELSE 0

(* What the receiver has heard when m changes of byte j have been made.     *)
HeardBefore(control, j) ==
  IF j = 0 THEN <<>> ELSE IF j = 1 THEN <<120>> ELSE <<120, control>>

Hears(control, byte, j, m) ==
  IF m = 26 THEN [active |-> TRUE, bits |-> 0, value |-> 0, heard |-> HeardBefore(control, j + 1)]
  ELSE [active |-> TRUE, bits |-> m \div 3,
        value |-> ByteOf(control, byte, j) \div 2^(8 - (m \div 3)),
        heard |-> HeardBefore(control, j)]

InByte(j, m, scl, sda, r, control, byte) ==
  /\ r = Hears(control, byte, j, m)
  /\ scl = IF m = 26 \/ (m # 0 /\ m % 3 = 0) THEN 1 ELSE 0
  /\ m # 26 /\ m % 3 = 2 => sda = Bit(ByteOf(control, byte, j), (m - 2) \div 3)

Idle(bits, value, control) ==
  [active |-> TRUE, bits |-> bits, value |-> value, heard |-> HeardBefore(control, 2)]

(* The lines and the receiver when s changes of a write have been made.     *)
LinesAt(s, scl, sda, r, control, byte) ==
  /\ s = 0 => scl = sda /\ (scl = 1 => r = Silent)
  /\ s = 1 => scl = 1 /\ (sda = 1 => r = Silent)
  /\ s = 2 => scl = 1 /\ sda = 1 /\ r = Silent
  /\ s = 3 => scl = 1 /\ sda = 0 /\ r = Addressed
  /\ s \in 4..84 =>
       InByte((s - 4) \div 27, (s - 4) % 27, scl, sda, r, control, byte)
  /\ s = 85 => scl = 0 /\ r = Idle(0, 0, control)
  /\ s = 86 => scl = 1 /\ r = Idle(1, sda, control)
  /\ s = 87 => scl = 1 /\ sda = 0 /\ r \in {Addressed, Idle(1, 0, control)}

(* A change of a line, and what the receiver makes of it.                   *)
Moves(change, scl, sda, r, scl2, sda2, r2) ==
  \/ /\ change[1] = "SCLK" /\ scl2 = change[2] /\ sda2 = sda
     /\ r2 = IF change[2] > scl THEN Clocked(r, sda) ELSE r
  \/ /\ change[1] = "SDIN" /\ sda2 = change[2] /\ scl2 = scl
     /\ r2 = IF scl = 0 \/ change[2] = sda THEN r
             ELSE IF change[2] = 1 THEN Silent ELSE Addressed

(* What a change of the clock line does, by its level.                      *)
LEMMA MovesClock ==
  ASSUME NEW v, NEW scl, NEW sda, NEW r, NEW scl2, NEW sda2, NEW r2,
         Moves(SCLK(v), scl, sda, r, scl2, sda2, r2)
  PROVE  scl2 = v /\ sda2 = sda /\ r2 = IF v > scl THEN Clocked(r, sda) ELSE r
BY DEF Moves, SCLK

(* What a change of the data line does, by its level.                       *)
LEMMA MovesData ==
  ASSUME NEW v, NEW scl, NEW sda, NEW r, NEW scl2, NEW sda2, NEW r2,
         Moves(SDIN(v), scl, sda, r, scl2, sda2, r2)
  PROVE  /\ sda2 = v /\ scl2 = scl
         /\ r2 = IF scl = 0 \/ v = sda THEN r ELSE IF v = 1 THEN Silent ELSE Addressed
BY DEF Moves, SDIN

(* The control byte comes behind the address.                               *)
LEMMA AppendToOne ==
  ASSUME NEW a, NEW b
  PROVE  Len(<<a>>) = 1 /\ Append(<<a>>, b) = <<a, b>>
<1>1. Len(<<a>>) = 1
  OBVIOUS
<1> DEFINE S == {a, b}
<1>2. <<a>> \in Seq(S) /\ <<a, b>> \in Seq(S) /\ b \in S
  OBVIOUS
<1>3. /\ Append(<<a>>, b) \in Seq(S) /\ Len(Append(<<a>>, b)) = 2
      /\ Append(<<a>>, b)[1] = a /\ Append(<<a>>, b)[2] = b
  BY <1>1, <1>2, AppendProperties
<1>4. Len(<<a, b>>) = 2 /\ <<a, b>>[1] = a /\ <<a, b>>[2] = b
  OBVIOUS
<1>5. Append(<<a>>, b) = <<a, b>>
  <2> DEFINE p == Append(<<a>>, b)
             q == <<a, b>>
  <2>1. p \in Seq(S) /\ q \in Seq(S) /\ Len(p) = 2 /\ Len(q) = 2 /\ p[1] = q[1] /\ p[2] = q[2]
    BY <1>2, <1>3, <1>4
  <2> HIDE DEF p, q
  <2>2. \A i \in 1..Len(p) : p[i] = q[i]
    BY <2>1
  <2>3. p \in Seq(S) /\ q \in Seq(S) /\ Len(p) = Len(q)
    BY <2>1
  <2>4. p = q
    BY <2>2, <2>3, SeqEqual
  <2>5. QED
    BY <2>4 DEF p, q
<1>6. QED
  BY <1>1, <1>5

(* Inside a byte: the next change of it, or its acknowledgement.            *)
LEMMA ByteNext ==
  ASSUME NEW control \in Byte, NEW byte \in Byte, NEW j \in 0..2, NEW m \in 0..26, m # 26,
         NEW scl, NEW sda \in {0, 1}, NEW r, NEW scl2, NEW sda2, NEW r2,
         InByte(j, m, scl, sda, r, control, byte),
         NEW change, change = Turn(ByteOf(control, byte, j), m + 1),
         Moves(change, scl, sda, r, scl2, sda2, r2)
  PROVE  InByte(j, m + 1, scl2, sda2, r2, control, byte)
<1> DEFINE b == ByteOf(control, byte, j)
           h == HeardBefore(control, j)
           n == m \div 3
           At(k, v) == [active |-> TRUE, bits |-> k, value |-> v, heard |-> h]
<1>1. b \in Byte /\ (j = 0 => b = 120)
  BY DEF ByteOf, Byte
<1>2. h = HeardBefore(control, j) /\ Len(h) = j /\ (j = 0 <=> h = <<>>)
  BY DEF HeardBefore
<1>3. r = At(n, b \div 2^(8 - n))
  BY DEF InByte, Hears
<1>4. n \in 0..8
  OBVIOUS
<1> HIDE DEF b, h, n
(* the clock is low before the bits *)
<1>5. CASE m = 0
  <2>1. change = SCLK(0)
    BY <1>5 DEF Turn, b
  <2>2. scl2 = 0 /\ sda2 = sda /\ r2 = r
    BY <2>1, <1>5, MovesClock DEF InByte, b
  <2>3. QED
    BY <1>5, <2>2 DEF InByte, Hears
(* a bit is given *)
<1>6. CASE m \in 1..22 /\ m % 3 = 1
  <2>1. change = SDIN(Bit(b, n)) /\ n \in 0..7 /\ (m + 1) \div 3 = n /\ (m + 1) % 3 = 2
    BY <1>6 DEF Turn, b, n
  <2>2. scl = 0
    BY <1>6 DEF InByte
  <2>3. sda2 = Bit(b, n) /\ scl2 = 0 /\ r2 = r
    BY <2>1, <2>2, MovesData DEF b
  <2>4. ((m + 1) - 2) \div 3 = n /\ m + 1 # 26
    BY <1>6 DEF n
  <2>5. Hears(control, byte, j, m + 1) = r
    BY <2>1, <2>4, <1>3 DEF Hears, b, h
  <2>6. QED
    BY <2>1, <2>3, <2>4, <2>5 DEF InByte, b
(* the clock rises *)
<1>7. CASE m \in 2..23 /\ m % 3 = 2
  <2>1. change = SCLK(1) /\ n \in 0..7 /\ (m + 1) \div 3 = n + 1 /\ (m + 1) % 3 = 0
    BY <1>7 DEF Turn, b, n
  <2>2. scl = 0 /\ sda = Bit(b, n)
    <3>1. (m - 2) \div 3 = n /\ m # 26
      BY <1>7 DEF n
    <3>2. QED
      BY <1>7, <3>1 DEF InByte, b
  <2>3. scl2 = 1 /\ sda2 = sda /\ r2 = Clocked(r, sda)
    BY <2>1, <2>2, MovesClock DEF b
  <2>4. Clocked(r, sda) = At(n + 1, 2 * (b \div 2^(8 - n)) + sda)
    <3>1. n < 8
      BY <2>1
    <3>2. Clocked(r, sda) = [r EXCEPT !.bits = @ + 1, !.value = 2 * @ + sda]
      BY <1>3, <3>1 DEF Clocked
    <3>3. QED
      BY <1>3, <3>2
  <2>5. 2 * (b \div 2^(8 - n)) + sda = b \div 2^(8 - (n + 1))
    <3>1. b \in Byte /\ n \in 0..7
      BY <1>1, <2>1
    <3>2. 2 * (b \div 2^(8 - n)) + Bit(b, n) = b \div 2^(8 - (n + 1))
      BY <3>1, BitAppended, Zenon
    <3>3. QED
      BY <2>2, <3>2, Zenon
  <2>6. m + 1 # 26 /\ m + 1 # 0 /\ ~ ((m + 1) % 3 = 2)
    BY <1>7
  <2>7. Hears(control, byte, j, m + 1) = r2
    BY <2>1, <2>3, <2>4, <2>5, <2>6 DEF Hears, b, h
  <2>8. QED
    BY <2>1, <2>3, <2>6, <2>7 DEF InByte
(* the clock falls *)
<1>8. CASE m \in 3..24 /\ m % 3 = 0
  <2>1. change = SCLK(0) /\ (m + 1) \div 3 = n /\ (m + 1) % 3 = 1 /\ m + 1 # 26
    BY <1>8 DEF Turn, b, n
  <2>2. scl2 = 0 /\ sda2 = sda /\ r2 = r
    BY <2>1, <1>8, MovesClock DEF InByte, b
  <2>3. Hears(control, byte, j, m + 1) = r
    BY <2>1, <1>3 DEF Hears, b, h
  <2>4. QED
    BY <2>1, <2>2, <2>3 DEF InByte
(* the acknowledgement *)
<1>9. CASE m = 25
  <2>1. change = SCLK(1) /\ n = 8 /\ m + 1 = 26
    BY <1>9 DEF Turn, b, n
  <2>2. scl = 0
    BY <1>9 DEF InByte
  <2>3. scl2 = 1 /\ r2 = Clocked(r, sda)
    BY <2>1, <2>2, MovesClock DEF b
  <2>4. b \div 2^(8 - n) = b
    BY <2>1, <1>1 DEF Byte
  <2>5. r = At(8, b)
    BY <1>3, <2>1, <2>4
  <2>6. Clocked(r, sda) = [active |-> TRUE, bits |-> 0, value |-> 0,
                           heard |-> HeardBefore(control, j + 1)]
    <3>1. h # <<>> \/ b = 120
      BY <1>1, <1>2
    <3>2. (IF Len(h) < 2 THEN Append(h, b) ELSE h) = HeardBefore(control, j + 1)
      <4>1. CASE j = 0
        BY <4>1, <1>1 DEF HeardBefore, h
      <4>2. CASE j = 1
        <5>1. h = <<120>> /\ b = control
          BY <4>2 DEF HeardBefore, h, b, ByteOf
        <5>2. Len(h) = 1 /\ Append(h, b) = <<120, control>>
          BY <5>1, AppendToOne, Zenon
        <5>3. 1 < 2
          OBVIOUS
        <5>4. (IF Len(h) < 2 THEN Append(h, b) ELSE h) = <<120, control>>
          BY <5>2, <5>3, Zenon
        <5>5. QED
          BY <4>2, <5>4 DEF HeardBefore
      <4>3. CASE j = 2
        BY <4>3 DEF HeardBefore, h
      <4>4. QED
        BY <4>1, <4>2, <4>3
    <3>3. r.active /\ r.bits = 8 /\ r.value = b /\ r.heard = h
      BY <2>5
    <3>4. Clocked(r, sda) = [active |-> h # <<>> \/ b = 120, bits |-> 0, value |-> 0,
                             heard |-> IF Len(h) < 2 THEN Append(h, b) ELSE h]
      BY <3>3 DEF Clocked
    <3>5. QED
      BY <3>1, <3>2, <3>4
  <2>7. QED
    BY <2>1, <2>3, <2>6 DEF InByte, Hears
<1>10. QED
  <2>1. m = 0 \/ m = 25 \/ m \in 1..24
    OBVIOUS
  <2>2. m \in 1..24 => \/ m \in 1..22 /\ m % 3 = 1
                       \/ m \in 2..23 /\ m % 3 = 2
                       \/ m \in 3..24 /\ m % 3 = 0
    OBVIOUS
  <2>3. QED
    BY <2>1, <2>2, <1>5, <1>6, <1>7, <1>8, <1>9

Hearing(k, v, h) == [active |-> TRUE, bits |-> k, value |-> v, heard |-> h]

(* One bit of a byte, clocked in.                                           *)
LEMMA BitClocked ==
  ASSUME NEW k \in 0..7, NEW v, NEW h, NEW sda
  PROVE  Clocked(Hearing(k, v, h), sda) = Hearing(k + 1, 2 * v + sda, h)
<1> DEFINE r == Hearing(k, v, h)
<1>1. r.active /\ r.bits < 8
  BY DEF Hearing
<1>2. Clocked(r, sda) = [r EXCEPT !.bits = @ + 1, !.value = 2 * @ + sda]
  BY <1>1 DEF Clocked
<1>3. QED
  BY <1>2 DEF Hearing

(* One lemma per change: what the lines and the receiver are behind it.     *)
LEMMA FirstNext ==
  ASSUME NEW control \in Byte, NEW byte \in Byte, NEW scl \in {0, 1}, NEW sda \in {0, 1}, NEW r, NEW scl2, NEW sda2, NEW r2,
         LinesAt(0, scl, sda, r, control, byte), Moves(SCLK(1), scl, sda, r, scl2, sda2, r2)
  PROVE  /\ LinesAt(1, scl2, sda2, r2, control, byte)
         /\ scl = 1 => r2 = r
         /\ scl = 0 => r2 = Clocked(r, 0)
<1>1. scl2 = 1 /\ sda2 = sda /\ r2 = IF 1 > scl THEN Clocked(r, sda) ELSE r
  BY MovesClock
<1>2. scl = sda /\ (scl = 1 => r = Silent)
  BY DEF LinesAt
<1>3. scl = 1 => r2 = r
  BY <1>1
<1>4. scl = 0 => r2 = Clocked(r, 0)
  BY <1>1, <1>2
<1>5. sda2 = 1 => r2 = Silent
  BY <1>1, <1>2, <1>3
<1>6. LinesAt(1, scl2, sda2, r2, control, byte)
  BY <1>1, <1>5 DEF LinesAt
<1>7. QED
  BY <1>3, <1>4, <1>6

(* The changes of IIC_Start(): from rest to the address byte                *)
(* (NPDOLED.cpp:203-210).                                                   *)
LEMMA StartNext ==
  ASSUME NEW control \in Byte, NEW byte \in Byte, NEW scl \in {0, 1}, NEW sda \in {0, 1}, NEW r, NEW scl2, NEW sda2, NEW r2,
         NEW s \in 0..87, s \in 1..3, LinesAt(s, scl, sda, r, control, byte),
         Moves(IF s = 1 THEN SDIN(1) ELSE IF s = 2 THEN SDIN(0) ELSE SCLK(0), scl, sda, r, scl2, sda2, r2)
  PROVE  LinesAt(s + 1, scl2, sda2, r2, control, byte)
<1>1. CASE s = 1
  <2>1. scl = 1 /\ (sda = 1 => r = Silent)
    BY <1>1 DEF LinesAt
  <2>2. sda2 = 1 /\ scl2 = scl /\ r2 = IF scl = 0 \/ 1 = sda THEN r ELSE IF 1 = 1 THEN Silent ELSE Addressed
    BY <1>1, MovesData
  <2>3. scl2 = 1 /\ sda2 = 1 /\ r2 = Silent
    BY <2>1, <2>2
  <2>4. QED
    BY <1>1, <2>3 DEF LinesAt
<1>2. CASE s = 2
  <2>1. scl = 1 /\ sda = 1
    BY <1>2 DEF LinesAt
  <2>2. sda2 = 0 /\ scl2 = scl /\ r2 = IF scl = 0 \/ 0 = sda THEN r ELSE IF 0 = 1 THEN Silent ELSE Addressed
    BY <1>2, MovesData
  <2>3. scl2 = 1 /\ sda2 = 0 /\ r2 = Addressed
    BY <2>1, <2>2
  <2>4. QED
    BY <1>2, <2>3 DEF LinesAt
<1>3. CASE s = 3
  <2>1. scl = 1 /\ sda = 0 /\ r = Addressed
    BY <1>3 DEF LinesAt
  <2>2. scl2 = 0 /\ sda2 = sda /\ r2 = IF 0 > scl THEN Clocked(r, sda) ELSE r
    BY <1>3, MovesClock
  <2>3. scl2 = 0 /\ r2 = Addressed
    BY <2>1, <2>2
  <2>4. Hears(control, byte, 0, 0) = Addressed
    <3>1. 120 \div 2^8 = 0 /\ 0 \div 3 = 0
      OBVIOUS
    <3>2. QED
      BY <3>1 DEF Hears, HeardBefore, ByteOf, Addressed
  <2>5. InByte(0, 0, scl2, sda2, r2, control, byte)
    BY <2>3, <2>4 DEF InByte
  <2>6. (4 - 4) \div 27 = 0 /\ (4 - 4) % 27 = 0
    OBVIOUS
  <2>7. LinesAt(4, scl2, sda2, r2, control, byte)
    BY <2>5, <2>6 DEF LinesAt
  <2>8. QED
    BY <1>3, <2>7
<1>4. QED
  BY <1>1, <1>2, <1>3

Place(s, j, m) == s = 4 + 27 * j + m

(* A change within the three bytes of a write, and from one byte to the     *)
(* next (NPDOLED.cpp:220-288).                                              *)
LEMMA BytesNext ==
  ASSUME NEW control \in Byte, NEW byte \in Byte, NEW scl \in {0, 1}, NEW sda \in {0, 1}, NEW r, NEW scl2, NEW sda2, NEW r2,
         NEW j \in 0..2, NEW m \in 0..26, NEW s \in 0..87, Place(s, j, m), LinesAt(s, scl, sda, r, control, byte),
         NEW change, change = Turn(ByteOf(control, byte, j), m + 1),
         Moves(change, scl, sda, r, scl2, sda2, r2)
  PROVE  LinesAt(s + 1, scl2, sda2, r2, control, byte)
<1>0. s = 4 + 27 * j + m
  BY DEF Place
<1>1. s \in 4..84 /\ (s - 4) \div 27 = j /\ (s - 4) % 27 = m
  BY <1>0
<1>2. InByte(j, m, scl, sda, r, control, byte)
  BY <1>1 DEF LinesAt
<1>3. CASE m # 26
  <2>1. InByte(j, m + 1, scl2, sda2, r2, control, byte)
    BY <1>2, <1>3, ByteNext
  <2>2. s + 1 \in 5..84 /\ ((s + 1) - 4) \div 27 = j /\ ((s + 1) - 4) % 27 = m + 1
    BY <1>0, <1>3
  <2>3. LinesAt(s + 1, scl2, sda2, r2, control, byte)
    BY <2>1, <2>2 DEF LinesAt
  <2>4. QED
    BY <2>3
<1>4. CASE m = 26
  <2>1. r = [active |-> TRUE, bits |-> 0, value |-> 0, heard |-> HeardBefore(control, j + 1)]
    BY <1>2, <1>4 DEF InByte, Hears
  <2>2. change = SCLK(0)
    BY <1>4 DEF Turn
  <2>3. scl2 = 0 /\ sda2 = sda /\ r2 = IF 0 > scl THEN Clocked(r, sda) ELSE r
    BY <2>2, MovesClock
  <2>4. scl2 = 0 /\ r2 = r
    BY <2>3
  <2>5. CASE j = 2
    <3>1. r2 = Idle(0, 0, control)
      BY <2>1, <2>4, <2>5 DEF Idle, HeardBefore
    <3>2. s + 1 = 85
      BY <1>0, <2>5, <1>4
    <3>3. LinesAt(85, scl2, sda2, r2, control, byte)
      BY <3>1, <2>4 DEF LinesAt
    <3>4. QED
      BY <3>2, <3>3
  <2>6. CASE j # 2
    <3>1. s + 1 \in 5..84 /\ ((s + 1) - 4) \div 27 = j + 1 /\ ((s + 1) - 4) % 27 = 0
      BY <1>0, <2>6, <1>4
    <3>2. Hears(control, byte, j + 1, 0) = r2
      <4>1. ByteOf(control, byte, j + 1) \div 2^(8 - (0 \div 3)) = 0
        <5>1. ByteOf(control, byte, j + 1) \in 0..255
          BY DEF ByteOf, Byte
        <5>2. 0 \div 3 = 0
          OBVIOUS
        <5>3. QED
          BY <5>1, <5>2
      <4>2. 0 \div 3 = 0 /\ 0 # 26
        OBVIOUS
      <4>3. QED
        BY <4>1, <4>2, <2>1, <2>4, Zenon DEF Hears
    <3>3. InByte(j + 1, 0, scl2, sda2, r2, control, byte)
      BY <3>2, <2>4 DEF InByte
    <3>4. LinesAt(s + 1, scl2, sda2, r2, control, byte)
      BY <3>1, <3>3 DEF LinesAt
    <3>5. QED
      BY <3>4
  <2>7. QED
    BY <2>5, <2>6
<1>5. QED
  BY <1>3, <1>4

(* The changes of IIC_Stop(): the receiver is silent again                  *)
(* (NPDOLED.cpp:212-218).                                                   *)
LEMMA StopNext ==
  ASSUME NEW control \in Byte, NEW byte \in Byte, NEW scl \in {0, 1}, NEW sda \in {0, 1}, NEW r, NEW scl2, NEW sda2, NEW r2,
         NEW s \in 0..87, s \in 85..87, LinesAt(s, scl, sda, r, control, byte),
         Moves(IF s = 85 THEN SCLK(1) ELSE IF s = 86 THEN SDIN(0) ELSE SDIN(1), scl, sda, r, scl2, sda2, r2)
  PROVE  LinesAt(IF s = 87 THEN 0 ELSE s + 1, scl2, sda2, r2, control, byte)
<1>1. CASE s = 85
  <2>1. scl = 0 /\ r = Idle(0, 0, control)
    BY <1>1 DEF LinesAt
  <2>2. scl2 = 1 /\ sda2 = sda /\ r2 = IF 1 > scl THEN Clocked(r, sda) ELSE r
    BY <1>1, MovesClock
  <2>3. scl2 = 1 /\ sda2 = sda /\ r2 = Clocked(r, sda)
    BY <2>1, <2>2
  <2>4. Clocked(r, sda) = Idle(1, sda2, control)
    <3>1. r = Hearing(0, 0, HeardBefore(control, 2))
      BY <2>1 DEF Idle, Hearing
    <3>2. 0 \in 0..7 /\ 0 + 1 = 1 /\ 2 * 0 + sda = sda2
      BY <2>3
    <3>3. Clocked(r, sda) = Hearing(0 + 1, 2 * 0 + sda, HeardBefore(control, 2))
      BY <3>1, <3>2, BitClocked
    <3>4. QED
      BY <3>2, <3>3, Zenon DEF Idle, Hearing
  <2>5. LinesAt(86, scl2, sda2, r2, control, byte)
    BY <2>3, <2>4 DEF LinesAt
  <2>6. QED
    BY <1>1, <2>5
<1>2. CASE s = 86
  <2>1. scl = 1 /\ r = Idle(1, sda, control)
    BY <1>2 DEF LinesAt
  <2>2. sda2 = 0 /\ scl2 = scl /\ r2 = IF scl = 0 \/ 0 = sda THEN r ELSE IF 0 = 1 THEN Silent ELSE Addressed
    BY <1>2, MovesData
  <2>3. scl2 = 1 /\ sda2 = 0 /\ r2 \in {Addressed, Idle(1, 0, control)}
    BY <2>1, <2>2
  <2>4. LinesAt(87, scl2, sda2, r2, control, byte)
    BY <2>3 DEF LinesAt
  <2>5. QED
    BY <1>2, <2>4
<1>3. CASE s = 87
  <2>1. scl = 1 /\ sda = 0
    BY <1>3 DEF LinesAt
  <2>2. sda2 = 1 /\ scl2 = scl /\ r2 = IF scl = 0 \/ 1 = sda THEN r ELSE IF 1 = 1 THEN Silent ELSE Addressed
    BY <1>3, MovesData
  <2>3. scl2 = 1 /\ sda2 = 1 /\ r2 = Silent
    BY <2>1, <2>2
  <2>4. LinesAt(0, scl2, sda2, r2, control, byte)
    BY <2>3 DEF LinesAt
  <2>5. QED
    BY <1>3, <2>4
<1>4. QED
  BY <1>1, <1>2, <1>3

After(s) == IF s = 87 THEN 0 ELSE s + 1
IsChange(change, frame, s) == change = frame[s + 1]

(* LinesAt is preserved by every one of the 88 changes of a write.          *)
LEMMA FrameNext ==
  ASSUME NEW control \in Byte, NEW byte \in Byte,
         NEW frame, IsFrame(frame, control, byte),
         NEW scl \in {0, 1}, NEW sda \in {0, 1}, NEW r, NEW scl2, NEW sda2, NEW r2,
         NEW s \in 0..87, LinesAt(s, scl, sda, r, control, byte),
         NEW change, IsChange(change, frame, s), Moves(change, scl, sda, r, scl2, sda2, r2)
  PROVE  LinesAt(After(s), scl2, sda2, r2, control, byte)
<1>0. /\ frame[1] = SCLK(1) /\ frame[2] = SDIN(1) /\ frame[3] = SDIN(0) /\ frame[4] = SCLK(0)
      /\ frame[86] = SCLK(1) /\ frame[87] = SDIN(0) /\ frame[88] = SDIN(1)
  BY Zenon DEF IsFrame
<1>00. change = frame[s + 1] /\ After(s) = IF s = 87 THEN 0 ELSE s + 1
  BY DEF IsChange, After
<1>1. CASE s = 0
  <2>1. frame[s + 1] = SCLK(1)
    BY <1>0, <1>1
  <2>2. LinesAt(1, scl2, sda2, r2, control, byte)
    BY <1>1, <2>1, <1>00, FirstNext
  <2>3. QED
    BY <1>00, <1>1, <2>2
<1>2. CASE s \in 1..3
  <2>1. frame[s + 1] = IF s = 1 THEN SDIN(1) ELSE IF s = 2 THEN SDIN(0) ELSE SCLK(0)
    BY <1>0, <1>2
  <2>2. Moves(IF s = 1 THEN SDIN(1) ELSE IF s = 2 THEN SDIN(0) ELSE SCLK(0), scl, sda, r, scl2, sda2, r2)
    BY <2>1, <1>00
  <2>3. LinesAt(s + 1, scl2, sda2, r2, control, byte)
    BY <1>2, <2>2, StartNext
  <2>4. QED
    BY <1>00, <1>2, <2>3
<1>3. CASE s \in 4..84
  <2>1. PICK j \in 0..2, m \in 0..26 : s = 4 + 27 * j + m
    <3>1. /\ (s - 4) \div 27 \in 0..2 /\ (s - 4) % 27 \in 0..26
          /\ s = 4 + 27 * ((s - 4) \div 27) + ((s - 4) % 27)
      BY <1>3
    <3>2. QED
      BY <3>1
  <2>2. s + 1 = 4 + 27 * j + (m + 1) /\ m + 1 \in 1..27
    BY <2>1, <1>00
  <2>3. frame[s + 1] = Turn(ByteOf(control, byte, j), m + 1)
    BY <2>2 DEF IsFrame
  <2>4. /\ Moves(change, scl, sda, r, scl2, sda2, r2) /\ change = Turn(ByteOf(control, byte, j), m + 1)
        /\ Place(s, j, m)
    BY <1>00, <2>1, <2>3 DEF Place
  <2>5. LinesAt(s + 1, scl2, sda2, r2, control, byte)
    BY <2>4, BytesNext, Zenon
  <2>6. QED
    BY <1>00, <1>3, <2>5
<1>4. CASE s \in 85..87
  <2>1. frame[s + 1] = IF s = 85 THEN SCLK(1) ELSE IF s = 86 THEN SDIN(0) ELSE SDIN(1)
    BY <1>0, <1>4
  <2>2. Moves(IF s = 85 THEN SCLK(1) ELSE IF s = 86 THEN SDIN(0) ELSE SDIN(1), scl, sda, r, scl2, sda2, r2)
    BY <2>1, <1>00
  <2>3. QED
    BY <1>00, <1>4, <2>2, StopNext
<1>5. QED
  BY <1>1, <1>2, <1>3, <1>4

(* When the receiver holds a write.                                         *)
LEMMA HoldsAt ==
  ASSUME NEW kind \in {OLED_CMD, OLED_DATA}, NEW byte \in Byte,
         NEW scl, NEW sda, NEW r,
         NEW s \in 2..87, LinesAt(s, scl, sda, r, Control(kind), byte)
  PROVE  /\ Awaits(r) <=> s \in {82, 83}
         /\ Awaits(r) => Written(r) = <<byte, kind>>
<1> DEFINE control == Control(kind)
<1>1. CASE s \in {2, 3}
  BY <1>1 DEF LinesAt, Awaits, Silent, Addressed
<1>2. CASE s \in 4..84
  <2> DEFINE j == (s - 4) \div 27
             m == (s - 4) % 27
  <2>1. j \in 0..2 /\ m \in 0..26 /\ s = 4 + 27 * j + m
    BY <1>2
  <2>2. r = Hears(control, byte, j, m)
    BY <1>2 DEF LinesAt, InByte
  <2>3. CASE m = 26
    <3>1. r.bits = 0
      BY <2>2, <2>3 DEF Hears
    <3>2. s \notin {82, 83}
      BY <2>1, <2>3
    <3>3. QED
      BY <3>1, <3>2 DEF Awaits
  <2>4. CASE m # 26 /\ j # 2
    <3>1. r.heard = HeardBefore(control, j)
      BY <2>2, <2>4 DEF Hears
    <3>2. Len(r.heard) # 2
      BY <2>1, <2>4, <3>1 DEF HeardBefore
    <3>3. s \notin {82, 83}
      BY <2>1, <2>4
    <3>4. QED
      BY <3>2, <3>3 DEF Awaits
  <2>5. CASE m # 26 /\ j = 2
    <3>1. r.active /\ r.bits = m \div 3 /\ r.value = byte \div 2^(8 - (m \div 3))
            /\ r.heard = <<120, control>>
      BY <2>2, <2>5 DEF Hears, HeardBefore, ByteOf
    <3>2. (m \div 3 = 8) <=> s \in {82, 83}
      BY <2>1, <2>5
    <3>3. Len(r.heard) = 2 /\ r.heard[2] = control
      BY <3>1
    <3>4. Awaits(r) <=> s \in {82, 83}
      BY <3>1, <3>2, <3>3 DEF Awaits
    <3>5. m \div 3 = 8 => r.value = byte
      <4>1. byte \div 2^(8 - 8) = byte
        BY DEF Byte
      <4>2. QED
        BY <3>1, <4>1
    <3>6. (IF r.heard[2] = 64 THEN OLED_DATA ELSE OLED_CMD) = kind
      BY <3>3 DEF Control, OLED_DATA, OLED_CMD
    <3>7. QED
      BY <3>2, <3>4, <3>5, <3>6 DEF Written
  <2>6. QED
    BY <2>3, <2>4, <2>5
<1>3. CASE s \in 85..87
  <2>1. r \in {Addressed, Idle(0, 0, control), Idle(1, sda, control), Idle(1, 0, control)}
    BY <1>3 DEF LinesAt
  <2>2. r.bits # 8
    BY <2>1 DEF Idle, Addressed
  <2>3. QED
    BY <1>3, <2>2 DEF Awaits
<1>4. QED
  BY <1>1, <1>2, <1>3

Takes(change, scl, r) == change[1] = "SCLK" /\ change[2] > scl /\ Awaits(r)

(* The controller performs a write when the process before left it one, and *)
(* at the acknowledgement of the byte.                                      *)
LEMMA FrameTakes ==
  ASSUME NEW kind \in {OLED_CMD, OLED_DATA}, NEW byte \in Byte, NEW frame, IsFrame(frame, Control(kind), byte),
         NEW scl \in {0, 1}, NEW sda \in {0, 1}, NEW r,
         NEW s \in 0..87, LinesAt(s, scl, sda, r, Control(kind), byte),
         NEW change, IsChange(change, frame, s)
  PROVE  /\ s = 0 => (Takes(change, scl, r) <=> Awaits(r))
         /\ s = 83 => Takes(change, scl, r) /\ Written(r) = <<byte, kind>>
         /\ s \notin {0, 83} => ~ Takes(change, scl, r)
<1> DEFINE control == Control(kind)
<1>00. change = frame[s + 1]
  BY DEF IsChange
<1>1. CASE s = 0
  <2>1. frame[s + 1] = <<"SCLK", 1>>
    BY <1>1 DEF IsFrame, SCLK
  <2>2. scl = 1 => r = Silent
    BY <1>1 DEF LinesAt
  <2>3. ~ Awaits(Silent)
    BY DEF Awaits, Silent
  <2>4. Takes(change, scl, r) <=> Awaits(r)
    BY <1>00, <2>1, <2>2, <2>3 DEF Takes
  <2>5. QED
    BY <1>1, <2>4
<1>2. CASE s = 1
  <2>1. frame[s + 1] = <<"SDIN", 1>>
    BY <1>2 DEF IsFrame, SDIN
  <2>2. QED
    BY <1>00, <1>2, <2>1 DEF Takes
<1>3. CASE s \in 2..87 /\ s \notin {82, 83}
  <2>1. ~ Awaits(r)
    BY <1>3, HoldsAt
  <2>2. QED
    BY <1>3, <2>1 DEF Takes
<1>4. CASE s \in {82, 83}
  <2>1. Awaits(r) /\ Written(r) = <<byte, kind>>
    BY <1>4, HoldsAt
  <2> DEFINE m == s - 58
             two == 2
  <2>2. m \in 24..25 /\ s + 1 = 4 + 27 * two + (m + 1) /\ m + 1 \in 1..27 /\ two \in 0..2
    BY <1>4
  <2> HIDE DEF two, m
  <2>3. frame[s + 1] = Turn(ByteOf(control, byte, two), m + 1)
    BY <2>2 DEF IsFrame
  <2>4. CASE s = 82
    <3>1. m + 1 = 25
      BY <2>4 DEF m
    <3>2. frame[s + 1] = SCLK(0)
      BY <2>3, <3>1 DEF Turn
    <3>3. ~ Takes(change, scl, r)
      BY <1>00, <3>2 DEF Takes, SCLK
    <3>4. QED
      BY <2>4, <3>3
  <2>5. CASE s = 83
    <3>1. m + 1 = 26
      BY <2>5 DEF m
    <3>2. frame[s + 1] = <<"SCLK", 1>>
      BY <2>3, <3>1 DEF Turn, SCLK
    <3>3. scl = 0
      <4>1. s \in 4..84 /\ (s - 4) \div 27 = 2 /\ (s - 4) % 27 = 25
        BY <2>5
      <4>2. InByte(2, 25, scl, sda, r, control, byte)
        BY <4>1 DEF LinesAt
      <4>3. QED
        BY <4>2 DEF InByte
    <3>4. Takes(change, scl, r)
      BY <1>00, <3>2, <3>3, <2>1 DEF Takes
    <3>5. QED
      BY <2>1, <2>5, <3>4
  <2>6. QED
    BY <1>4, <2>4, <2>5
<1>5. QED
  BY <1>1, <1>2, <1>3, <1>4

(* The bits that have come, and zeros for the others.                       *)
Padded(r) == r.value * 2^(8 - r.bits)
Kind(control) == IF control = 64 THEN OLED_DATA ELSE OLED_CMD

(* What a killed process may leave behind: the bits that have come are the  *)
(* first ones of a byte, of one in T behind a control byte.                 *)
Leftover(r, T) ==
  /\ r \in Receivers /\ Len(r.heard) <= 2
  /\ Padded(r) \in Byte
  /\ r.active /\ Len(r.heard) = 2 => <<Padded(r), Kind(r.heard[2])>> \in T

TornBytes(T, byte, kind) ==
  /\ {0, 128} \X {OLED_CMD, OLED_DATA} \subseteq T
  /\ \A k \in 0..7 : <<(byte \div 2^k) * 2^k, kind>> \in T

(* The first bits of a byte with zeros behind them are a byte.              *)
LEMMA FirstBits ==
  ASSUME NEW b \in Byte, NEW k \in 0..8
  PROVE  (b \div 2^k) * 2^k \in Byte /\ b \div 2^k \in Byte /\ (k = 8 => b \div 2^k = 0)
<1>1. b \in 0..255
  BY DEF Byte
<1> USE DEF Byte
<1>2. CASE k = 0 BY <1>1, <1>2
<1>3. CASE k = 1 BY <1>1, <1>3
<1>4. CASE k = 2 BY <1>1, <1>4
<1>5. CASE k = 3 BY <1>1, <1>5
<1>6. CASE k = 4 BY <1>1, <1>6
<1>7. CASE k = 5 BY <1>1, <1>7
<1>8. CASE k = 6 BY <1>1, <1>8
<1>9. CASE k = 7 BY <1>1, <1>9
<1>10. CASE k = 8 BY <1>1, <1>10
<1>11. QED
  BY <1>2, <1>3, <1>4, <1>5, <1>6, <1>7, <1>8, <1>9, <1>10

(* A zero bit leaves the padded byte as it is.                              *)
LEMMA ZeroBit ==
  ASSUME NEW v \in Nat, NEW k \in 0..7, v * 2^(8 - k) \in Byte
  PROVE  2 * v \in Byte /\ (2 * v) * 2^(8 - (k + 1)) = v * 2^(8 - k)
<1> USE DEF Byte
<1>2. CASE k = 0 BY <1>2
<1>3. CASE k = 1 BY <1>3
<1>4. CASE k = 2 BY <1>4
<1>5. CASE k = 3 BY <1>5
<1>6. CASE k = 4 BY <1>6
<1>7. CASE k = 5 BY <1>7
<1>8. CASE k = 6 BY <1>8
<1>9. CASE k = 7 BY <1>9
<1>11. QED
  BY <1>2, <1>3, <1>4, <1>5, <1>6, <1>7, <1>8, <1>9

(* A zero clocked in behind what is left over leaves no more than that.     *)
LEMMA LeftClocked ==
  ASSUME NEW r, NEW T, Leftover(r, T), {0, 128} \X {OLED_CMD, OLED_DATA} \subseteq T
  PROVE  Leftover(Clocked(r, 0), T)
<1> DEFINE q == Clocked(r, 0)
           a == r.active
           k == r.bits
           v == r.value
           h == r.heard
<1>1. r \in Receivers /\ Len(h) <= 2 /\ Padded(r) \in Byte
  BY DEF Leftover
<1>2. a /\ Len(h) = 2 => <<Padded(r), Kind(h[2])>> \in T
  BY DEF Leftover
<1>3. /\ a \in BOOLEAN /\ k \in 0..8 /\ v \in Byte /\ h \in Seq(Byte)
      /\ r = [active |-> a, bits |-> k, value |-> v, heard |-> h]
  BY <1>1 DEF Receivers
<1>4. CASE ~a
  BY <1>4 DEF Clocked
<1>5. CASE a /\ k < 8
  <2>1. q = [r EXCEPT !.bits = @ + 1, !.value = 2 * @ + 0]
    BY <1>5 DEF Clocked
  <2> HIDE DEF q, a, k, v, h
  <2>2. v \in Nat /\ k \in 0..7
    BY <1>3, <1>5 DEF Byte
  <2>3. q = [active |-> a, bits |-> k + 1, value |-> 2 * v + 0, heard |-> h]
    BY <1>3, <2>1
  <2>4. q.bits = k + 1 /\ q.value = 2 * v /\ q.active = a /\ q.heard = h
    BY <2>2, <2>3
  <2>5. v * 2^(8 - k) = Padded(r)
    BY DEF Padded, v, k
  <2>6. 2 * v \in Byte /\ (2 * v) * 2^(8 - (k + 1)) = v * 2^(8 - k)
    BY <1>1, <2>2, <2>5, ZeroBit
  <2>7. Padded(q) = Padded(r)
    BY <2>4, <2>5, <2>6, Zenon DEF Padded
  <2>8. q \in Receivers
    <3>1. 2 * v + 0 \in Byte /\ k + 1 \in 0..8
      BY <2>2, <2>6
    <3>2. QED
      BY <1>3, <2>3, <3>1 DEF Receivers
  <2>9. Leftover(q, T)
    BY <1>1, <1>2, <2>4, <2>7, <2>8, Zenon DEF Leftover
  <2>10. QED
    BY <2>9 DEF q
<1>6. CASE a /\ ~ (k < 8)
  <2> DEFINE alive == h # <<>> \/ v = 120
             g == IF Len(h) < 2 THEN Append(h, v) ELSE h
  <2>1. q = [active |-> alive, bits |-> 0, value |-> 0, heard |-> g]
    BY <1>6 DEF Clocked
  <2> HIDE DEF q, a, k, v, h
  <2>2. alive \in BOOLEAN
    OBVIOUS
  <2>3. g \in Seq(Byte) /\ Len(g) <= 2
    <3>1. Append(h, v) \in Seq(Byte) /\ Len(Append(h, v)) = Len(h) + 1
      BY <1>3, AppendProperties
    <3>2. Len(h) \in Nat
      BY <1>3, LenProperties
    <3>3. QED
      BY <1>1, <1>3, <3>1, <3>2
  <2> HIDE DEF alive, g
  <2>4. q.bits = 0 /\ q.value = 0 /\ q.heard = g
    BY <2>1
  <2>5. Padded(q) = 0
    <3>1. 2^(8 - 0) \in Int
      OBVIOUS
    <3>2. 0 * 2^(8 - 0) = 0
      BY <3>1
    <3>3. QED
      BY <2>4, <3>2, Zenon DEF Padded
  <2>6. <<0, Kind(g[2])>> \in T
    BY DEF Kind, OLED_CMD, OLED_DATA
  <2>7. q \in Receivers
    <3>1. 0 \in Byte /\ 0 \in 0..8
      BY DEF Byte
    <3>2. QED
      BY <2>1, <2>2, <2>3, <3>1 DEF Receivers
  <2>8. 0 \in Byte
    BY DEF Byte
  <2>9. Leftover(q, T)
    BY <2>3, <2>4, <2>5, <2>6, <2>7, <2>8, Zenon DEF Leftover
  <2>10. QED
    BY <2>9 DEF q
<1>7. QED
  BY <1>4, <1>5, <1>6

(* A receiver with these fields holds a leftover, if its padded byte is     *)
(* one.                                                                     *)
LEMMA LeftHearing ==
  ASSUME NEW T, NEW k \in 0..8, NEW v \in Byte, NEW h \in Seq(Byte), Len(h) <= 2,
         v * 2^(8 - k) \in Byte, Len(h) = 2 => <<v * 2^(8 - k), Kind(h[2])>> \in T
  PROVE  Leftover(Hearing(k, v, h), T)
<1> DEFINE r == Hearing(k, v, h)
<1>1. r \in Receivers
  BY DEF Hearing, Receivers
<1>2. r.bits = k /\ r.value = v /\ r.heard = h
  BY DEF Hearing
<1> HIDE DEF r
<1>3. Padded(r) = v * 2^(8 - k)
  BY <1>2, Zenon DEF Padded
<1>4. Leftover(r, T)
  BY <1>1, <1>2, <1>3, Zenon DEF Leftover
<1>5. QED
  BY <1>4 DEF r

(* At most one bit of a byte: what stands there is 0 or 128.                *)
LEMMA LeftIdle ==
  ASSUME NEW T, NEW k \in {0, 1}, NEW v \in {0, 1}, k = 0 => v = 0,
         NEW h \in Seq(Byte), Len(h) <= 2,
         {0, 128} \X {OLED_CMD, OLED_DATA} \subseteq T
  PROVE  Leftover(Hearing(k, v, h), T)
<1>1. v * 2^(8 - k) \in {0, 128}
  <2>1. CASE k = 0
    BY <2>1
  <2>2. CASE k = 1
    BY <2>2
  <2>3. QED
    BY <2>1, <2>2
<1> DEFINE p == v * 2^(8 - k)
<1>2. p \in {0, 128}
  BY <1>1
<1> HIDE DEF p
<1>3. p \in Byte /\ <<p, Kind(h[2])>> \in T /\ v \in Byte /\ k \in 0..8
  BY <1>2 DEF Byte, Kind, OLED_CMD, OLED_DATA
<1>4. /\ v * 2^(8 - k) \in Byte /\ <<v * 2^(8 - k), Kind(h[2])>> \in T
      /\ v \in Byte /\ k \in 0..8
  BY <1>3, Zenon DEF p
<1>5. QED
  BY <1>4, LeftHearing

(* Wherever a write is interrupted, the receiver holds the first bits of    *)
(* one of its bytes.                                                        *)
LEMMA LeftoverAt ==
  ASSUME NEW T, NEW kind \in {OLED_CMD, OLED_DATA}, NEW byte \in Byte, TornBytes(T, byte, kind),
         NEW scl, NEW sda \in {0, 1}, NEW r, NEW s \in 2..87, LinesAt(s, scl, sda, r, Control(kind), byte)
  PROVE  Leftover(r, T)
<1> DEFINE control == Control(kind)
<1>1. /\ {0, 128} \X {OLED_CMD, OLED_DATA} \subseteq T
      /\ \A k \in 0..7 : <<(byte \div 2^k) * 2^k, kind>> \in T
  BY DEF TornBytes
<1>2. control \in Byte /\ control \in {0, 64}
  BY DEF Control, Byte
<1>3. <<>> \in Seq(Byte) /\ Len(<<>>) = 0
  OBVIOUS
<1>4. Leftover(Addressed, T)
  <2>1. Addressed = Hearing(0, 0, <<>>)
    BY DEF Addressed, Hearing
  <2>2. Leftover(Hearing(0, 0, <<>>), T)
    <3> DEFINE e == <<>>
    <3>1. e \in Seq(Byte) /\ Len(e) <= 2
      BY <1>3
    <3> HIDE DEF e
    <3>2. Leftover(Hearing(0, 0, e), T)
      BY <1>1, <3>1, LeftIdle
    <3>3. QED
      BY <3>2 DEF e
  <2>3. QED
    BY <2>1, <2>2
<1>5. Leftover(Silent, T)
  <2>1. Silent.heard = <<>> /\ ~Silent.active /\ Silent.value = 0 /\ Silent.bits = 0
    BY DEF Silent
  <2>2. Silent \in Receivers
    BY DEF Silent, Receivers, Byte
  <2>3. Padded(Silent) = 0
    <3>1. 0 * 2^(8 - 0) = 0
      OBVIOUS
    <3>2. QED
      BY <2>1, <3>1, Zenon DEF Padded
  <2>4. QED
    BY <2>1, <2>2, <2>3, <1>3 DEF Leftover, Byte
<1>6. \A i \in 0..3 : HeardBefore(control, i) \in Seq(Byte) /\ Len(HeardBefore(control, i)) <= 2
  <2>1. <<120>> \in Seq(Byte) /\ <<120, control>> \in Seq(Byte)
    BY <1>2 DEF Byte
  <2>2. Len(<<120>>) = 1 /\ Len(<<120, control>>) = 2
    OBVIOUS
  <2>3. QED
    BY <1>3, <2>1, <2>2 DEF HeardBefore
<1>7. CASE s \in {2, 3}
  BY <1>4, <1>5, <1>7 DEF LinesAt
<1>8. CASE s \in 4..84
  <2> DEFINE j == (s - 4) \div 27
             m == (s - 4) % 27
  <2>1. j \in 0..2 /\ m \in 0..26
    BY <1>8
  <2>2. r = Hears(control, byte, j, m)
    BY <1>8 DEF LinesAt, InByte
  <2> HIDE DEF j, m, control
  <2>3. CASE m = 26
    <3>1. r = Hearing(0, 0, HeardBefore(control, j + 1))
      BY <2>2, <2>3 DEF Hears, Hearing
    <3>2. j + 1 \in 0..3
      BY <2>1
    <3>3. Leftover(Hearing(0, 0, HeardBefore(control, j + 1)), T)
      BY <3>2, <1>1, <1>6, LeftIdle
    <3>4. QED
      BY <3>1, <3>3
  <2>4. CASE m # 26
    <3> DEFINE n == m \div 3
               b == ByteOf(control, byte, j)
               h == HeardBefore(control, j)
               v == b \div 2^(8 - n)
               p == v * 2^(8 - n)
    <3>1. r = Hearing(n, v, h)
      BY <2>2, <2>4 DEF Hears, Hearing
    <3>2. n \in 0..8 /\ 8 - n \in 0..8 /\ b \in Byte
      BY <2>1, <2>4, <1>2 DEF ByteOf, Byte
    <3>3. h \in Seq(Byte) /\ Len(h) <= 2
      BY <1>6, <2>1
    <3> HIDE DEF n, b, h
    <3>4. p \in Byte /\ v \in Byte /\ (8 - n = 8 => v = 0)
      BY <3>2, FirstBits, Zenon
    <3>5. Len(h) = 2 => <<p, Kind(h[2])>> \in T
      <4>1. CASE j = 2
        <5>1. b = byte
          BY <4>1 DEF b, ByteOf
        <5>2. h[2] = control
          BY <4>1 DEF h, HeardBefore
        <5>3. Kind(h[2]) = kind
          BY <5>2 DEF control, Control, Kind, OLED_DATA, OLED_CMD
        <5>4. CASE n = 0
          <6>1. v = 0
            BY <5>4, <3>4
          <6>2. 2^(8 - n) = 256
            BY <5>4
          <6>3. p = 0
            BY <6>1, <6>2
          <6>4. <<0, kind>> \in T
            BY <1>1
          <6> HIDE DEF p
          <6>5. QED
            BY <5>3, <6>3, <6>4
        <5>5. CASE n # 0
          <6>1. 8 - n \in 0..7
            BY <3>2, <5>5
          <6>2. <<(byte \div 2^(8 - n)) * 2^(8 - n), kind>> \in T
            BY <1>1, <6>1
          <6>3. QED
            BY <5>1, <5>3, <6>2, Zenon
        <5>6. QED
          BY <5>4, <5>5
      <4>2. CASE j # 2
        <5>1. Len(h) # 2
          BY <4>2, <2>1 DEF h, HeardBefore
        <5>2. QED
          BY <5>1
      <4>3. QED
        BY <4>1, <4>2
    <3>6. Leftover(Hearing(n, v, h), T)
      BY <3>2, <3>3, <3>4, <3>5, LeftHearing, Zenon
    <3>7. QED
      BY <3>1, <3>6
  <2>5. QED
    BY <2>3, <2>4
<1>9. CASE s \in 85..87
  <2>1. \/ r = Addressed
        \/ \E k \in {0, 1}, v \in {0, 1} : (k = 0 => v = 0) /\ r = Idle(k, v, control)
    BY <1>9 DEF LinesAt
  <2>2. ASSUME NEW k \in {0, 1}, NEW v \in {0, 1}, k = 0 => v = 0
        PROVE  Leftover(Idle(k, v, control), T)
    <3>1. Idle(k, v, control) = Hearing(k, v, HeardBefore(control, 2))
      BY DEF Idle, Hearing
    <3>2. HeardBefore(control, 2) \in Seq(Byte) /\ Len(HeardBefore(control, 2)) <= 2
      BY <1>6
    <3>3. Leftover(Hearing(k, v, HeardBefore(control, 2)), T)
      BY <2>2, <3>2, <1>1, LeftIdle
    <3>4. QED
      BY <3>1, <3>3
  <2>3. QED
    BY <1>4, <2>1, <2>2
<1>10. QED
  BY <1>7, <1>8, <1>9

(* Bytes are integers.                                                      *)
LEMMA ByteIsInt ==
  ASSUME NEW b \in Byte
  PROVE  b \in Int
BY DEF Byte

(* CMD and DATA make writes.                                                *)
LEMMA WriteTyped ==
  ASSUME NEW b \in Int
  PROVE  CMD(b) \in Writes /\ DATA(b) \in Writes
BY DEF CMD, DATA, Uint8, Writes, Byte

(* Sequences of writes in which no data comes where a command of two bytes  *)
(* waits for its argument, and that end with none waiting.                  *)
Opener(w) == w[2] = OLED_CMD /\ w[1] \in TakesArgument

Closed ==
  {p \in Seq(Writes) : \A i \in 1..Len(p) : Opener(p[i]) => i < Len(p) /\ p[i + 1][2] = OLED_CMD}

(* A sequence is closed if each command in it that takes an argument has a  *)
(* command behind it.                                                       *)
LEMMA ClosedIs ==
  ASSUME NEW p \in Seq(Writes), NEW l \in Nat, Len(p) = l,
         \A i \in 1..l : Opener(p[i]) => i < l /\ p[i + 1][2] = OLED_CMD
  PROVE  p \in Closed
BY DEF Closed

(* What a closed sequence of writes is.                                     *)
LEMMA ClosedHas ==
  ASSUME NEW p \in Closed
  PROVE  /\ p \in Seq(Writes) /\ Len(p) \in Nat
         /\ \A i \in 1..Len(p) : Opener(p[i]) => i < Len(p) /\ p[i + 1][2] = OLED_CMD
BY DEF Closed

(* Closed sequences one behind the other are closed.                        *)
LEMMA ClosedJoined ==
  ASSUME NEW a \in Closed, NEW b \in Closed
  PROVE  a \o b \in Closed
<1> DEFINE l == Len(a)
           n == Len(b)
           q == a \o b
<1>1. /\ a \in Seq(Writes) /\ b \in Seq(Writes) /\ l \in Nat /\ n \in Nat
      /\ \A i \in 1..l : Opener(a[i]) => i < l /\ a[i + 1][2] = OLED_CMD
      /\ \A i \in 1..n : Opener(b[i]) => i < n /\ b[i + 1][2] = OLED_CMD
  BY ClosedHas
<1> HIDE DEF l, n
<1>2. q \in Seq(Writes) /\ Len(q) = l + n /\ Extends(q, a, l, b, n)
  BY <1>1, Joined DEF l, n
<1> HIDE DEF q
<1>3. (\A i \in 1..l : q[i] = a[i]) /\ \A i \in 1..n : q[l + i] = b[i]
  BY <1>2 DEF Extends
<1>4. ASSUME NEW i \in 1..l + n, Opener(q[i]) PROVE i < l + n /\ q[i + 1][2] = OLED_CMD
  <2>1. CASE i \in 1..l
    <3>1. i < l /\ a[i + 1][2] = OLED_CMD
      BY <1>1, <1>3, <1>4, <2>1
    <3>2. q[i + 1] = a[i + 1]
      BY <1>1, <1>3, <2>1, <3>1
    <3>3. QED
      BY <1>1, <2>1, <3>1, <3>2
  <2>2. CASE i \notin 1..l
    <3> DEFINE k == i - l
    <3>1. k \in 1..n /\ l + k = i /\ l + (k + 1) = i + 1
      BY <1>1, <2>2
    <3> HIDE DEF k
    <3>2. Opener(b[k])
      BY <1>3, <1>4, <3>1
    <3>3. k < n /\ b[k + 1][2] = OLED_CMD
      BY <1>1, <3>1, <3>2
    <3>4. k + 1 \in 1..n
      BY <1>1, <3>1, <3>3
    <3>5. q[i + 1] = b[k + 1]
      BY <1>3, <3>1, <3>4
    <3>6. QED
      BY <1>1, <3>1, <3>3, <3>5
  <2>3. QED
    BY <2>1, <2>2
<1>5. l + n \in Nat
  BY <1>1
<1>6. q \in Closed
  BY <1>2, <1>4, <1>5, ClosedIs
<1>7. QED
  BY <1>6 DEF q

(* So are closed sequences flattened.                                       *)
LEMMA ClosedFlat ==
  ASSUME NEW n \in Nat, NEW s \in [1..n -> Closed]
  PROVE  FlattenSeq(s) \in Closed
<1>1. CASE n = 0
  <2>1. FlattenSeq(s) = <<>>
    BY <1>1 DEF FlattenSeq
  <2> DEFINE p == FlattenSeq(s)
  <2>2. p \in Seq(Writes) /\ Len(p) = 0
    BY <2>1
  <2> HIDE DEF p
  <2>3. 0 \in Nat /\ \A i \in 1..0 : Opener(p[i]) => i < 0 /\ p[i + 1][2] = OLED_CMD
    OBVIOUS
  <2>4. p \in Closed
    BY <2>2, <2>3, ClosedIs
  <2>5. QED
    BY <2>4 DEF p
<1>2. CASE n # 0
  <2>1. \A a \in Closed, b \in Closed : a \o b \in Closed
    BY ClosedJoined
  <2>2. Closed \in SUBSET Seq(Writes)
    BY DEF Closed
  <2>3. QED
    BY <1>2, <2>1, <2>2, FlattenKeeps
<1>3. QED
  BY <1>1, <1>2

(* Without such commands there is nothing to wait for.                      *)
LEMMA ClosedWithout ==
  ASSUME NEW p \in Seq(Writes), NEW l \in Nat, Len(p) = l, \A i \in 1..l : ~ Opener(p[i])
  PROVE  p \in Closed
BY ClosedIs

(* OLED_Set_Pos() makes writes, and none that takes an argument             *)
(* (NPDOLED.cpp:302-307).                                                   *)
LEMMA SetPosTyped ==
  ASSUME NEW x \in Int, NEW y \in Int
  PROVE  OLED_Set_Pos(x, y) \in Closed
<1> DEFINE e == 16 + ((x \div 16) % 16)
           f == x % 16
<1>1. 176 + y \in Int /\ e \in 16..31 /\ f \in 0..15
  OBVIOUS
<1> DEFINE a == CMD(176 + y)
           b == CMD(e)
           c == CMD(f)
<1> HIDE DEF e, f
<1>2. a \in Writes /\ b \in Writes /\ c \in Writes
  BY <1>1, WriteTyped
<1>3. b[2] = OLED_CMD /\ c[2] = OLED_CMD /\ ~ Opener(b) /\ ~ Opener(c)
  BY <1>1 DEF CMD, Uint8, Opener, TakesArgument
<1> HIDE DEF a, b, c
<1> DEFINE p == <<a, b, c>>
<1>4. p \in Seq(Writes) /\ Len(p) = 3 /\ p[1] = a /\ p[2] = b /\ p[3] = c
  BY <1>2
<1> HIDE DEF p
<1>5. ASSUME NEW i \in 1..3, Opener(p[i]) PROVE i < 3 /\ p[i + 1][2] = OLED_CMD
  <2>1. i \in {1, 2, 3}
    OBVIOUS
  <2>2. i = 1
    BY <1>3, <1>4, <1>5, <2>1
  <2>3. i + 1 = 2
    BY <2>2
  <2>4. QED
    BY <1>3, <1>4, <2>2, <2>3
<1>6. p \in Closed
  BY <1>4, <1>5, ClosedIs
<1>7. QED
  BY <1>6 DEF OLED_Set_Pos, p, a, b, c, e, f

(* Data take no argument.                                                   *)
LEMMA DataOpens ==
  ASSUME NEW b
  PROVE  ~ Opener(DATA(b))
BY DEF Opener, DATA, OLED_DATA, OLED_CMD

(* A picture of bytes becomes writes of data.                               *)
LEMMA GlyphTyped ==
  ASSUME NEW from \in Nat, NEW n \in Nat, NEW table, \A i \in 1..n : table[from + i] \in Byte
  PROVE  Glyph(table, from, n) \in Closed
<1>1. ASSUME NEW i \in 1..n PROVE DATA(table[from + i]) \in Writes
  <2>1. table[from + i] \in Int
    BY DEF Byte
  <2>2. QED
    BY <2>1, WriteTyped
<1> DEFINE g == Glyph(table, from, n)
<1>2. g \in [1..n -> Writes]
  BY <1>1 DEF Glyph
<1>3. \A i \in 1..n : g[i] = DATA(table[from + i])
  BY DEF Glyph
<1> HIDE DEF g
<1>4. \A i \in 1..n : ~ Opener(g[i])
  BY <1>3, DataOpens
<1>5. g \in Seq(Writes) /\ Len(g) = n
  BY <1>2
<1>6. g \in Closed
  BY <1>4, <1>5, ClosedWithout
<1>7. QED
  BY <1>6 DEF g

(* A character is typed when its picture is.                                *)
LEMMA ShowCharTyped ==
  ASSUME NEW x \in Int, NEW y \in Int, NEW csize, NEW c \in Characters(csize)
  PROVE  OLED_ShowChar(x, y, c, csize) \in Closed
<1> DEFINE x1 == IF x > COLUMNS - 1 THEN 0 ELSE x
           y1 == IF x > COLUMNS - 1 THEN Uint8(y + 2) ELSE y
<1>1. x1 \in Int /\ y1 \in Int /\ y1 + 1 \in Int
  BY DEF Uint8
<1> HIDE DEF x1, y1
<1>2. OLED_Set_Pos(x1, y1) \in Closed /\ OLED_Set_Pos(x1, y1 + 1) \in Closed
  BY <1>1, SetPosTyped
<1>3. CASE csize = 16
  <2>1. c \in 0..94
    BY <1>3 DEF Characters
  <2>2. OLED_F8X16[c] \in [1..16 -> Byte]
    BY <2>1, FontsAssumption
  <2> DEFINE t == OLED_F8X16[c]
  <2>3. \A i \in 1..8 : t[0 + i] \in Byte /\ t[8 + i] \in Byte
    BY <2>2
  <2> HIDE DEF t
  <2>4. Glyph(t, 0, 8) \in Closed /\ Glyph(t, 8, 8) \in Closed
    BY <2>3, GlyphTyped
  <2> DEFINE p == OLED_Set_Pos(x1, y1)
             q == OLED_Set_Pos(x1, y1 + 1)
             g == Glyph(t, 0, 8)
             h == Glyph(t, 8, 8)
  <2>5. p \in Closed /\ q \in Closed /\ g \in Closed /\ h \in Closed
    BY <1>2, <2>4
  <2>6. OLED_ShowChar(x, y, c, csize) = p \o g \o q \o h
    BY <1>3 DEF OLED_ShowChar, x1, y1, t
  <2> HIDE DEF p, q, g, h
  <2>7. p \o g \o q \o h \in Closed
    BY <2>5, ClosedJoined
  <2>8. QED
    BY <2>6, <2>7
<1>4. CASE csize # 16
  <2>1. c \in 0..91
    BY <1>4 DEF Characters
  <2>2. OLED_F6x8[c] \in [1..6 -> Byte]
    BY <2>1, FontsAssumption
  <2> DEFINE t == OLED_F6x8[c]
  <2>3. \A i \in 1..6 : t[0 + i] \in Byte
    BY <2>2
  <2> HIDE DEF t
  <2>4. Glyph(t, 0, 6) \in Closed
    BY <2>3, GlyphTyped
  <2> DEFINE p == OLED_Set_Pos(x1, y1)
             g == Glyph(t, 0, 6)
  <2>5. p \in Closed /\ g \in Closed
    BY <1>2, <2>4
  <2>6. OLED_ShowChar(x, y, c, csize) = p \o g
    BY <1>4 DEF OLED_ShowChar, x1, y1, t
  <2> HIDE DEF p, g
  <2>7. p \o g \in Closed
    BY <2>5, ClosedJoined
  <2>8. QED
    BY <2>6, <2>7
<1>5. QED
  BY <1>3, <1>4

(* The writes that clear or fill the screen.                                *)
Fills == {CMD(b) : b \in (176..183) \cup {0, 16}} \cup {DATA(b) : b \in Byte}

(* Fill_picture() makes writes of Fills only.                               *)
LEMMA FillIn ==
  ASSUME NEW d \in Byte
  PROVE  Fill_picture(d) \in Seq(Fills)
<1> DEFINE head(i) == <<CMD(175 + i), CMD(0), CMD(16)>>
           row == [n \in 1..COLUMNS |-> DATA(d)]
           s == [i \in 1..PAGES |-> head(i) \o row]
<1>1. COLUMNS \in Nat /\ PAGES \in Nat /\ PAGES <= 8
  BY ScreenAssumption
<1>2. row \in Seq(Fills)
  <2>1. DATA(d) \in Fills
    BY DEF Fills
  <2>2. row \in [1..COLUMNS -> Fills]
    BY <2>1
  <2>3. QED
    BY <1>1, <2>2
<1>3. ASSUME NEW i \in 1..PAGES PROVE head(i) \in Seq(Fills)
  <2> DEFINE a == CMD(175 + i)
             b == CMD(0)
             c == CMD(16)
  <2>1. 175 + i \in 176..183
    BY <1>1
  <2>2. a \in Fills /\ b \in Fills /\ c \in Fills
    BY <2>1 DEF Fills
  <2> HIDE DEF a, b, c
  <2>3. <<a, b, c>> \in Seq(Fills)
    BY <2>2
  <2>4. QED
    BY <2>3 DEF a, b, c
<1> HIDE DEF row, head
<1>4. s \in [1..PAGES -> Seq(Fills)]
  BY <1>2, <1>3
<1>5. FlattenSeq(s) \in Seq(Fills)
  <2> HIDE DEF s
  <2>1. QED
    BY <1>1, <1>4, FlattenIn
<1>6. QED
  BY <1>5 DEF Fill_picture, row, head

(* OLED_Init() has 27 settings, bytes all of them.                          *)
LEMMA SettingsTyped ==
  Settings \in Seq(Byte) /\ Len(Settings) = 27
<1>1. Settings \in Seq(Byte)
  BY DEF Settings, Byte
<1>2. Len(Settings) = 27
  BY DEF Settings
<1>3. QED
  BY <1>1, <1>2

(* 10 to a power that is below WORD.                                        *)
LEMMA PowIs ==
  ASSUME NEW len \in 1..10, 10^(len - 1) < WORD, NEW n \in 0..len - 1
  PROVE  OLED_Pow(10, n) \in Nat \ {0} /\ OLED_Pow(10, n) = 10^n
<1> DEFINE Solves(f) == f = [k \in 0..n |-> IF k = 0 THEN 1 ELSE (f[k - 1] * 10) % WORD]
           p == [k \in 0..n |-> 10^k]
<1>1. WORD \in Nat
  BY BoundsAssumption
<1>2. ASSUME NEW k \in 0..n PROVE 10^k \in Nat \ {0} /\ 10^k < WORD /\ (k # 0 => 10^k = 10^(k - 1) * 10)
  <2>1. k \in 0..9 /\ k <= len - 1
    OBVIOUS
  <2>2. 10^k \in Nat \ {0} /\ (k # 0 => 10^k = 10^(k - 1) * 10)
    <3>0. CASE k = 0 BY <3>0
    <3>1. CASE k = 1 BY <3>1
    <3>2. CASE k = 2 BY <3>2
    <3>3. CASE k = 3 BY <3>3
    <3>4. CASE k = 4 BY <3>4
    <3>5. CASE k = 5 BY <3>5
    <3>6. CASE k = 6 BY <3>6
    <3>7. CASE k = 7 BY <3>7
    <3>8. CASE k = 8 BY <3>8
    <3>9. CASE k = 9 BY <3>9
    <3>10. QED
      BY <2>1, <3>0, <3>1, <3>2, <3>3, <3>4, <3>5, <3>6, <3>7, <3>8, <3>9
  <2>3. 10^k <= 10^(len - 1)
    <3>1. ASSUME NEW i \in 0..9, NEW j \in 0..9, i <= j PROVE 10^i <= 10^j
      <4> DEFINE w(e) == IF e = 0 THEN 1 ELSE IF e = 1 THEN 10 ELSE IF e = 2 THEN 100
                         ELSE IF e = 3 THEN 1000 ELSE IF e = 4 THEN 10000 ELSE IF e = 5 THEN 100000
                         ELSE IF e = 6 THEN 1000000 ELSE IF e = 7 THEN 10000000
                         ELSE IF e = 8 THEN 100000000 ELSE 1000000000
      <4>1. ASSUME NEW e \in 0..9 PROVE 10^e = w(e)
        <5>0. CASE e = 0 BY <5>0
        <5>1. CASE e = 1 BY <5>1
        <5>2. CASE e = 2 BY <5>2
        <5>3. CASE e = 3 BY <5>3
        <5>4. CASE e = 4 BY <5>4
        <5>5. CASE e = 5 BY <5>5
        <5>6. CASE e = 6 BY <5>6
        <5>7. CASE e = 7 BY <5>7
        <5>8. CASE e = 8 BY <5>8
        <5>9. CASE e = 9 BY <5>9
        <5>10. QED
          BY <5>0, <5>1, <5>2, <5>3, <5>4, <5>5, <5>6, <5>7, <5>8, <5>9
      <4>2. w(i) <= w(j)
        BY <3>1
      <4> HIDE DEF w
      <4>3. 10^i = w(i) /\ 10^j = w(j)
        BY <4>1
      <4>4. QED
        BY <4>2, <4>3, Zenon
    <3>2. len - 1 \in 0..9
      OBVIOUS
    <3>3. QED
      BY <2>1, <3>1, <3>2
  <2> DEFINE a == 10^k
             b == 10^(len - 1)
  <2>4. a \in Nat /\ b \in Int /\ a <= b /\ b < WORD
    <3>1. b \in Int
      OBVIOUS
    <3>2. QED
      BY <2>2, <2>3, <3>1
  <2> HIDE DEF a, b
  <2>5. a < WORD
    BY <1>1, <2>4
  <2>6. 10^k < WORD
    BY <2>5 DEF a
  <2>7. QED
    BY <2>2, <2>6, Zenon
<1>3. Solves(p)
  <2>1. ASSUME NEW k \in 0..n PROVE p[k] = IF k = 0 THEN 1 ELSE (p[k - 1] * 10) % WORD
    <3>1. CASE k = 0
      BY <3>1
    <3>2. CASE k # 0
      <4>1. k - 1 \in 0..n /\ p[k] = 10^k /\ p[k - 1] = 10^(k - 1)
        BY <3>2
      <4>2. 10^k = 10^(k - 1) * 10 /\ 10^k \in Nat /\ 10^k < WORD
        BY <1>2, <3>2
      <4> DEFINE a == 10^k
      <4>3. a \in Nat /\ a < WORD
        BY <4>2
      <4> HIDE DEF a
      <4>4. a % WORD = a
        BY <1>1, <4>3
      <4>5. (10^(k - 1) * 10) % WORD = 10^k
        BY <4>2, <4>4, Zenon DEF a
      <4> HIDE DEF p
      <4>6. p[k] = (p[k - 1] * 10) % WORD
        BY <4>1, <4>5, Zenon
      <4>7. QED
        BY <3>2, <4>6
    <3>3. QED
      BY <3>1, <3>2
  <2>2. p = [k \in 0..n |-> p[k]]
    OBVIOUS
  <2> HIDE DEF p
  <2>3. QED
    BY <2>1, <2>2
<1>4. OLED_Pow(10, n) = (CHOOSE f : Solves(f))[n]
  BY DEF OLED_Pow
<1>5. Solves(CHOOSE f : Solves(f))
  <2> HIDE DEF Solves
  <2>1. QED
    BY <1>3
<1> DEFINE f == CHOOSE g : Solves(g)
<1>6. ASSUME NEW k \in 0..n PROVE f[k] = IF k = 0 THEN 1 ELSE (f[k - 1] * 10) % WORD
  <2> HIDE DEF f
  <2>1. Solves(f)
    BY <1>5 DEF f
  <2>2. QED
    BY <2>1
<1> DEFINE T == {k \in Nat : k \in 0..n => f[k] = 10^k}
<1> HIDE DEF f
<1>7. 0 \in T
  <2>1. f[0] = 1
    BY <1>6
  <2>2. QED
    BY <2>1
<1>8. ASSUME NEW k \in Nat, k \in T PROVE k + 1 \in T
  <2>1. CASE k + 1 \in 0..n
    <3>1. k \in 0..n /\ k + 1 # 0 /\ (k + 1) - 1 = k
      BY <2>1
    <3>2. f[k] = 10^k
      BY <3>1, <1>8
    <3>3. f[k + 1] = (f[k] * 10) % WORD
      <4>1. f[k + 1] = (f[(k + 1) - 1] * 10) % WORD
        BY <1>6, <2>1, <3>1
      <4>2. QED
        BY <3>1, <4>1
    <3>4. 10^(k + 1) = 10^k * 10 /\ 10^(k + 1) \in Nat /\ 10^(k + 1) < WORD
      <4>1. /\ 10^(k + 1) \in Nat \ {0} /\ 10^(k + 1) < WORD
            /\ 10^(k + 1) = 10^((k + 1) - 1) * 10
        BY <1>2, <2>1, <3>1
      <4>2. QED
        BY <3>1, <4>1
    <3> DEFINE a == 10^(k + 1)
    <3>5. a \in Nat /\ a < WORD
      BY <3>4
    <3> HIDE DEF a
    <3>6. a % WORD = a
      BY <1>1, <3>5
    <3>7. f[k + 1] = 10^(k + 1)
      BY <3>2, <3>3, <3>4, <3>6, Zenon DEF a
    <3>8. QED
      BY <3>7
  <2>2. QED
    BY <2>1
<1>9. f[n] = 10^n
  <2>1. n \in T
    <3>1. 0 \in T /\ (\A k \in Nat : k \in T => k + 1 \in T) /\ n \in Nat
      BY <1>7, <1>8
    <3> HIDE DEF T
    <3>2. QED
      BY <3>1, Induction
  <2>2. QED
    BY <2>1
<1>10. 10^n \in Nat \ {0}
  BY <1>2
<1>11. QED
  BY <1>4, <1>9, <1>10, Zenon DEF f

(* A number: its digits have pictures.                                      *)
LEMMA ShowNumTyped ==
  ASSUME NEW x \in Byte, NEW y \in Byte, NEW num \in Nat, NEW len \in 1..10,
         10^(len - 1) < WORD, NEW csize \in Byte
  PROVE  OLED_ShowNum(x, y, num, len, csize) \in Closed
<1> DEFINE digit(t) == (num \div OLED_Pow(10, len - t - 1)) % 10
           enshow(t) == \E u \in 0..t : digit(u) # 0
           shown(t) == IF t < len - 1 /\ ~enshow(t) THEN SPACE ELSE ZERO + digit(t)
           at(i) == Uint8(x + (csize \div 2) * (i - 1))
           s == [i \in 1..len |-> OLED_ShowChar(at(i), y, shown(i - 1), csize)]
<1>1. ASSUME NEW t \in 0..len - 1 PROVE digit(t) \in 0..9
  <2> DEFINE p == OLED_Pow(10, len - t - 1)
             q == num \div p
  <2>1. len - t - 1 \in 0..len - 1
    OBVIOUS
  <2>2. p \in Nat \ {0}
    BY <2>1, PowIs
  <2> HIDE DEF p
  <2>3. q \in Int
    BY <2>2
  <2> HIDE DEF q
  <2>4. q % 10 \in 0..9
    BY <2>3
  <2>5. QED
    BY <2>4 DEF q, p
<1>2. ASSUME NEW t \in 0..len - 1 PROVE shown(t) \in Characters(csize)
  <2>1. digit(t) \in 0..9
    BY <1>1
  <2> HIDE DEF digit, enshow
  <2>2. shown(t) \in 0..91
    BY <2>1 DEF SPACE, ZERO
  <2> HIDE DEF shown
  <2>3. QED
    BY <2>2 DEF Characters
<1>3. ASSUME NEW i \in 1..len PROVE at(i) \in Int
  <2>1. x \in Int /\ csize \in Int
    BY DEF Byte
  <2>2. QED
    BY <2>1 DEF Uint8
<1>4. y \in Int
  BY DEF Byte
<1> HIDE DEF shown, at, digit, enshow
<1>5. ASSUME NEW i \in 1..len PROVE s[i] \in Closed
  <2>1. i - 1 \in 0..len - 1
    OBVIOUS
  <2>2. at(i) \in Int /\ shown(i - 1) \in Characters(csize)
    BY <1>2, <1>3, <2>1
  <2>3. OLED_ShowChar(at(i), y, shown(i - 1), csize) \in Closed
    BY <1>4, <2>2, ShowCharTyped
  <2>4. QED
    BY <2>3
<1>6. s \in [1..len -> Closed]
  BY <1>5
<1>7. len \in Nat
  OBVIOUS
<1>8. FlattenSeq(s) \in Closed
  <2> HIDE DEF s
  <2>1. QED
    BY <1>6, <1>7, ClosedFlat
<1>9. OLED_ShowNum(x, y, num, len, csize) = FlattenSeq(s)
  BY DEF OLED_ShowNum, shown, at, digit, enshow
<1>10. QED
  BY <1>8, <1>9

(* A line of text: every character has a place.                             *)
Step(p) ==
  LET x == Uint8(p[1] + 8) IN
  IF x > COLUMNS - 8 THEN <<0, Uint8(p[2] + 2)>> ELSE <<x, p[2]>>

(* The place of the next character is again a pair of bytes.                *)
LEMMA StepTyped ==
  ASSUME NEW p \in Byte \X Byte
  PROVE  Step(p) \in Byte \X Byte
<1>1. p[1] \in Int /\ p[2] \in Int /\ p[2] \in Byte
  BY DEF Byte
<1>2. Uint8(p[1] + 8) \in Byte /\ Uint8(p[2] + 2) \in Byte /\ 0 \in Byte
  BY <1>1 DEF Uint8, Byte
<1>3. QED
  BY <1>1, <1>2 DEF Step

(* The recursion of OLED_ShowString() has its solution: pairs of bytes.     *)
LEMMA PlacesExist ==
  ASSUME NEW a \in Byte \X Byte, NEW n \in Nat
  PROVE  \E f : f = [i \in 1..n |-> IF i = 1 THEN a ELSE Step(f[i - 1])]
<1> DEFINE Solves(f, k) == f = [i \in 1..k |-> IF i = 1 THEN a ELSE Step(f[i - 1])]
           T == {k \in Nat : \E f : Solves(f, k)}
<1> HIDE DEF Solves
<1>1. 0 \in T
  <2>1. Solves([i \in 1..0 |-> a], 0)
    BY DEF Solves
  <2>2. QED
    BY <2>1
<1>2. ASSUME NEW k \in Nat, k \in T PROVE k + 1 \in T
  <2>1. PICK f : Solves(f, k)
    BY <1>2
  <2> DEFINE g == [i \in 1..k + 1 |-> IF i <= k THEN f[i]
                                      ELSE IF i = 1 THEN a ELSE Step(f[i - 1])]
  <2>2. ASSUME NEW i \in 1..k + 1
        PROVE  g[i] = IF i = 1 THEN a ELSE Step(g[i - 1])
    <3>1. \A j \in 1..k : f[j] = IF j = 1 THEN a ELSE Step(f[j - 1])
      BY <2>1 DEF Solves
    <3>2. CASE i <= k
      <4>1. g[i] = f[i] /\ (i # 1 => g[i - 1] = f[i - 1])
        BY <3>2
      <4>2. QED
        BY <3>1, <3>2, <4>1
    <3>3. CASE i = k + 1
      <4>1. i # 1 => g[i - 1] = f[i - 1]
        BY <3>3
      <4>2. g[i] = IF i = 1 THEN a ELSE Step(f[i - 1])
        BY <3>3
      <4>3. QED
        BY <4>1, <4>2
    <3>4. QED
      BY <3>2, <3>3
  <2>3. Solves(g, k + 1)
    <3>1. g = [i \in 1..k + 1 |-> g[i]]
      OBVIOUS
    <3> HIDE DEF g
    <3>2. QED
      BY <2>2, <3>1 DEF Solves
  <2>4. QED
    BY <2>3
<1>3. n \in T
  <2>1. 0 \in T /\ (\A k \in Nat : k \in T => k + 1 \in T)
    BY <1>1, <1>2
  <2> HIDE DEF T
  <2>2. QED
    BY <2>1, Induction
<1>4. QED
  BY <1>3 DEF Solves

(* OLED_ShowString() makes a closed sequence of writes                      *)
(* (NPDOLED.cpp:121-135).                                                   *)
LEMMA ShowStringTyped ==
  ASSUME NEW x0 \in Byte, NEW y0 \in Byte, NEW csize, NEW str \in Seq(Characters(csize))
  PROVE  OLED_ShowString(x0, y0, str, csize) \in Closed
<1> DEFINE l == Len(str)
           n == l + 1
           Solves(f) == f = [i \in 1..n |-> IF i = 1 THEN <<x0, y0>> ELSE Step(f[i - 1])]
           place == CHOOSE f : Solves(f)
           s == [i \in 1..l |-> OLED_ShowChar(place[i][1], place[i][2], str[i], csize)]
<1>1. l \in Nat /\ n \in Nat /\ \A i \in 1..l : str[i] \in Characters(csize)
  OBVIOUS
<1>2. <<x0, y0>> \in Byte \X Byte
  OBVIOUS
<1>3. OLED_ShowString(x0, y0, str, csize) = FlattenSeq(s)
  BY DEF OLED_ShowString, Step
<1> HIDE DEF l, n
<1>4. Solves(place)
  <2>1. \E f : Solves(f)
    BY <1>1, <1>2, PlacesExist
  <2> HIDE DEF Solves
  <2>2. QED
    BY <2>1
<1> HIDE DEF place
<1>5. ASSUME NEW i \in 1..n PROVE place[i] = IF i = 1 THEN <<x0, y0>> ELSE Step(place[i - 1])
  BY <1>4
<1> DEFINE T == {k \in Nat : k \in 1..n => place[k] \in Byte \X Byte}
<1>6. 0 \in T
  OBVIOUS
<1>7. ASSUME NEW k \in Nat, k \in T PROVE k + 1 \in T
  <2>1. CASE k + 1 \in 1..n /\ k = 0
    BY <1>2, <1>5, <2>1
  <2>2. CASE k + 1 \in 1..n /\ k # 0
    <3>1. k \in 1..n /\ k + 1 # 1 /\ (k + 1) - 1 = k
      BY <2>2, <1>1
    <3>2. place[k] \in Byte \X Byte
      BY <1>7, <3>1
    <3>3. place[k + 1] = Step(place[k])
      <4>1. place[k + 1] = Step(place[(k + 1) - 1])
        BY <1>5, <2>2, <3>1
      <4>2. QED
        BY <3>1, <4>1
    <3>4. place[k + 1] \in Byte \X Byte
      BY <3>2, <3>3, StepTyped
    <3>5. QED
      BY <3>4
  <2>3. QED
    BY <2>1, <2>2
<1>8. \A k \in Nat : k \in T
  <2>1. 0 \in T /\ (\A k \in Nat : k \in T => k + 1 \in T)
    BY <1>6, <1>7
  <2> HIDE DEF T
  <2>2. QED
    BY <2>1, Induction
<1>9. ASSUME NEW i \in 1..l PROVE s[i] \in Closed
  <2>1. i \in Nat /\ i \in 1..n
    BY <1>1 DEF n
  <2>2. place[i] \in Byte \X Byte
    BY <1>8, <2>1
  <2>3. place[i][1] \in Int /\ place[i][2] \in Int
    <3> DEFINE p == place[i]
    <3>1. p \in Byte \X Byte
      BY <2>2
    <3> HIDE DEF p
    <3>2. p[1] \in Byte /\ p[2] \in Byte
      BY <3>1
    <3>3. p[1] \in Int /\ p[2] \in Int
      BY <3>2, ByteIsInt, Zenon
    <3>4. QED
      BY <3>3 DEF p
  <2>4. str[i] \in Characters(csize)
    BY <1>1
  <2>5. OLED_ShowChar(place[i][1], place[i][2], str[i], csize) \in Closed
    BY <2>3, <2>4, ShowCharTyped
  <2>6. QED
    BY <2>5
<1>10. s \in [1..l -> Closed]
  BY <1>9
<1>11. FlattenSeq(s) \in Closed
  <2> HIDE DEF s
  <2>1. QED
    BY <1>1, <1>10, ClosedFlat
<1>12. QED
  BY <1>3, <1>11

(* So does OLED_ShowChinese().                                              *)
LEMMA ShowChineseTyped ==
  ASSUME NEW x \in Byte, NEW y \in Byte, NEW ch \in Nat, {2 * ch, 2 * ch + 1} \subseteq DOMAIN OLED_Hzk
  PROVE  OLED_ShowChinese(x, y, ch) \in Closed
<1> DEFINE t == OLED_Hzk[2 * ch]
           u == OLED_Hzk[2 * ch + 1]
<1>1. OLED_Hzk \in [DOMAIN OLED_Hzk -> [1..16 -> Byte]]
  BY FontsAssumption
<1>2. t \in [1..16 -> Byte] /\ u \in [1..16 -> Byte]
  BY <1>1
<1>3. \A i \in 1..16 : t[0 + i] \in Byte /\ u[0 + i] \in Byte
  BY <1>2
<1> HIDE DEF t, u
<1>4. Glyph(t, 0, 16) \in Closed /\ Glyph(u, 0, 16) \in Closed
  BY <1>3, GlyphTyped
<1>5. x \in Int /\ y \in Int /\ y + 1 \in Int
  BY DEF Byte
<1>6. OLED_Set_Pos(x, y) \in Closed /\ OLED_Set_Pos(x, y + 1) \in Closed
  BY <1>5, SetPosTyped
<1> DEFINE p == OLED_Set_Pos(x, y)
           q == OLED_Set_Pos(x, y + 1)
           g == Glyph(t, 0, 16)
           h == Glyph(u, 0, 16)
<1>7. p \in Closed /\ q \in Closed /\ g \in Closed /\ h \in Closed
  BY <1>4, <1>6
<1>8. OLED_ShowChinese(x, y, ch) = p \o g \o q \o h
  BY DEF OLED_ShowChinese, t, u
<1> HIDE DEF p, q, g, h
<1>9. p \o g \o q \o h \in Closed
  BY <1>7, ClosedJoined
<1>10. QED
  BY <1>8, <1>9

(* So does OLED_ShowBMP(), if the picture has the size the call names.      *)
LEMMA ShowBMPTyped ==
  ASSUME NEW x0 \in Byte, NEW y0 \in Byte, NEW x1 \in Byte, NEW y1 \in Byte, x0 < x1, y0 < y1,
         NEW bmp \in Seq(Byte), Len(bmp) = (x1 - x0) * (y1 - y0)
  PROVE  OLED_ShowBMP(x0, y0, x1, y1, bmp) \in Closed
<1> DEFINE w == x1 - x0
           h == y1 - y0
           s == [i \in 1..h |-> OLED_Set_Pos(x0, y0 + i - 1) \o Glyph(bmp, (i - 1) * w, w)]
<1>0. x0 \in Int /\ y0 \in Int /\ x1 \in Int /\ y1 \in Int
  BY DEF Byte
<1>1. w \in Nat /\ h \in Nat /\ w # 0
  BY <1>0
<1>2. Len(bmp) = h * w
  BY <1>0
<1>3. OLED_ShowBMP(x0, y0, x1, y1, bmp) = FlattenSeq(s)
  BY DEF OLED_ShowBMP
<1> HIDE DEF w, h
<1>4. ASSUME NEW i \in 1..h PROVE s[i] \in Closed
  <2>1. y0 + i - 1 \in Int /\ i - 1 \in Nat
    BY <1>0, <1>1
  <2>2. OLED_Set_Pos(x0, y0 + i - 1) \in Closed
    BY <1>0, <2>1, SetPosTyped
  <2> DEFINE from == (i - 1) * w
  <2>3. from \in Nat
    BY <1>1, <2>1
  <2>4. ASSUME NEW r \in 1..w PROVE bmp[from + r] \in Byte
    <3>1. from + r \in 1..h * w
      BY <1>1, Places
    <3>2. QED
      BY <1>2, <3>1
  <2> HIDE DEF from
  <2>5. Glyph(bmp, from, w) \in Closed
    BY <1>1, <2>3, <2>4, GlyphTyped
  <2> DEFINE p == OLED_Set_Pos(x0, y0 + i - 1)
             g == Glyph(bmp, from, w)
  <2>6. s[i] = p \o g
    BY DEF from
  <2>7. p \in Closed /\ g \in Closed
    BY <2>2, <2>5
  <2> HIDE DEF p, g
  <2>8. p \o g \in Closed
    BY <2>7, ClosedJoined
  <2> HIDE DEF s
  <2>9. QED
    BY <2>6, <2>8
<1>5. s \in [1..h -> Closed]
  BY <1>4
<1>6. FlattenSeq(s) \in Closed
  <2> HIDE DEF s
  <2>1. QED
    BY <1>1, <1>5, ClosedFlat
<1>7. QED
  BY <1>3, <1>6

(* So does Fill_picture().                                                  *)
LEMMA FillTyped ==
  ASSUME NEW d \in Byte
  PROVE  Fill_picture(d) \in Closed
<1>1. ASSUME NEW w \in Fills PROVE w \in Writes /\ ~ Opener(w)
  <2>1. ASSUME NEW b \in (176..183) \cup {0, 16} PROVE CMD(b) \in Writes /\ ~ Opener(CMD(b))
    <3>1. CMD(b) \in Writes
      BY WriteTyped
    <3>2. CMD(b)[1] = b
      BY DEF CMD, Uint8
    <3>3. b \notin TakesArgument
      BY DEF TakesArgument
    <3>4. QED
      BY <3>1, <3>2, <3>3 DEF Opener
  <2>2. ASSUME NEW b \in Byte PROVE DATA(b) \in Writes /\ ~ Opener(DATA(b))
    <3>1. b \in Int
      BY DEF Byte
    <3>2. QED
      BY <3>1, WriteTyped, DataOpens
  <2>3. QED
    BY <2>1, <2>2 DEF Fills
<1> DEFINE p == Fill_picture(d)
<1>2. p \in Seq(Fills)
  BY FillIn
<1> HIDE DEF p
<1>3. p \in Seq(Writes) /\ Len(p) \in Nat /\ \A i \in 1..Len(p) : p[i] \in Fills
  BY <1>1, <1>2
<1>4. \A i \in 1..Len(p) : ~ Opener(p[i])
  BY <1>1, <1>3
<1>5. p \in Closed
  BY <1>3, <1>4, ClosedWithout
<1>6. QED
  BY <1>5 DEF p

(* A command takes an argument exactly if its byte does.                    *)
LEMMA CommandOpens ==
  ASSUME NEW b \in Byte
  PROVE  CMD(b)[2] = OLED_CMD /\ (Opener(CMD(b)) <=> b \in TakesArgument)
<1>1. b % 256 = b
  BY DEF Byte
<1>2. CMD(b) = <<b, OLED_CMD>>
  BY <1>1 DEF CMD, Uint8
<1>3. QED
  BY <1>2 DEF Opener

(* The settings of OLED_Init() are a closed sequence of writes: each        *)
(* argument is behind its command.                                          *)
LEMMA SetUpTyped ==
  [i \in DOMAIN Settings |-> CMD(Settings[i])] \in Closed
<1> DEFINE n == Len(Settings)
           t == Settings
<1>1. t \in Seq(Byte) /\ n \in Nat /\ DOMAIN t = 1..n
  BY SettingsTyped
<1>2. t[n] = 175
  <2>1. n = 27
    BY SettingsTyped
  <2>2. t[27] = 175
    BY DEF Settings
  <2>3. QED
    BY <2>1, <2>2
<1> HIDE DEF t
<1>3. ASSUME NEW i \in 1..n PROVE CMD(t[i]) \in Writes /\ CMD(t[i])[2] = OLED_CMD
  <2>1. t[i] \in Byte
    BY <1>1
  <2>2. t[i] \in Int
    BY <2>1, ByteIsInt, Zenon
  <2>3. QED
    BY <2>1, <2>2, WriteTyped, CommandOpens
<1> HIDE DEF n
<1> DEFINE p == [i \in 1..n |-> CMD(t[i])]
<1>4. p \in Seq(Writes) /\ Len(p) = n /\ \A i \in 1..n : p[i] = CMD(t[i])
  BY <1>1, <1>3
<1> HIDE DEF p
<1>5. ASSUME NEW i \in 1..n, Opener(p[i]) PROVE i < n /\ p[i + 1][2] = OLED_CMD
  <2>1. t[i] \in Byte /\ t[i] \in TakesArgument
    <3>1. t[i] \in Byte
      BY <1>1
    <3>2. QED
      BY <1>4, <1>5, <3>1, CommandOpens
  <2>2. i # n
    BY <1>2, <2>1 DEF TakesArgument
  <2>3. i < n /\ i + 1 \in 1..n
    BY <1>1, <2>2
  <2>4. QED
    BY <1>3, <1>4, <2>3
<1>6. p \in Closed
  BY <1>1, <1>4, <1>5, ClosedIs
<1>7. QED
  BY <1>1, <1>6 DEF t, p

(* So is all of OLED_Init() (NPDOLED.cpp:21-59).                            *)
LEMMA InitTyped ==
  OLED_Init \in Closed
<1> DEFINE a == [i \in DOMAIN Settings |-> CMD(Settings[i])]
           b == Fill_picture(0)
<1>1. 0 \in Byte
  BY DEF Byte
<1>2. a \in Closed /\ b \in Closed
  BY <1>1, SetUpTyped, FillTyped
<1>3. OLED_Init = a \o b
  BY DEF OLED_Init, OLED_Clear
<1> HIDE DEF a, b
<1>4. a \o b \in Closed
  BY <1>2, ClosedJoined
<1>5. QED
  BY <1>3, <1>4

(* Three commands, of which at most the first takes an argument.            *)
LEMMA ThreeTyped ==
  ASSUME NEW b1 \in Byte, NEW b2 \in Byte, NEW b3 \in Byte,
         b2 \notin TakesArgument, b3 \notin TakesArgument
  PROVE  <<CMD(b1), CMD(b2), CMD(b3)>> \in Closed
<1> DEFINE a == CMD(b1)
           b == CMD(b2)
           c == CMD(b3)
           p == <<a, b, c>>
<1>1. a \in Writes /\ b \in Writes /\ c \in Writes
  BY WriteTyped, ByteIsInt
<1>2. b[2] = OLED_CMD /\ c[2] = OLED_CMD /\ ~ Opener(b) /\ ~ Opener(c)
  BY CommandOpens
<1> HIDE DEF a, b, c
<1>3. p \in Seq(Writes) /\ Len(p) = 3 /\ p[1] = a /\ p[2] = b /\ p[3] = c
  BY <1>1
<1> HIDE DEF p
<1>4. ASSUME NEW i \in 1..3, Opener(p[i]) PROVE i < 3 /\ p[i + 1][2] = OLED_CMD
  <2>1. i \in {1, 2, 3}
    OBVIOUS
  <2>2. i = 1
    BY <1>2, <1>3, <1>4, <2>1
  <2>3. i + 1 = 2
    BY <2>2
  <2>4. QED
    BY <1>2, <1>3, <2>2, <2>3
<1>5. p \in Closed
  BY <1>3, <1>4, ClosedIs
<1>6. QED
  BY <1>5 DEF p, a, b, c

(* OLED_display_on() and OLED_display_off() are closed: 0x8D is followed by *)
(* its argument.                                                            *)
LEMMA SwitchTyped ==
  OLED_display_on \in Closed /\ OLED_display_off \in Closed
<1>1. 141 \in Byte /\ 20 \in Byte /\ 175 \in Byte /\ 16 \in Byte /\ 174 \in Byte
  BY DEF Byte
<1>2. 20 \notin TakesArgument /\ 175 \notin TakesArgument
        /\ 16 \notin TakesArgument /\ 174 \notin TakesArgument
  BY DEF TakesArgument
<1>3. <<CMD(141), CMD(20), CMD(175)>> \in Closed
  BY <1>1, <1>2, ThreeTyped
<1>4. <<CMD(141), CMD(16), CMD(174)>> \in Closed
  BY <1>1, <1>2, ThreeTyped
<1>5. QED
  BY <1>3, <1>4 DEF OLED_display_on, OLED_display_off

(* Every call is a sequence of writes.                                      *)
LEMMA ProgramClosed ==
  ASSUME NEW c \in Calls
  PROVE  Program[c] \in Closed
<1>1. Program[c] = ProgramOf(c)
  BY DEF Program
<1>2. WellCalled(c)
  BY CallsAssumption
<1>3. CASE c.fn = "Init"
  <2>1. ProgramOf(c) = OLED_Init
    BY <1>3 DEF ProgramOf
  <2>2. QED
    BY <1>1, <2>1, InitTyped
<1>4. CASE c.fn = "Clear"
  <2>1. ProgramOf(c) = Fill_picture(0)
    BY <1>4 DEF ProgramOf, OLED_Clear
  <2>2. 0 \in Byte
    BY DEF Byte
  <2>3. QED
    BY <1>1, <2>1, <2>2, FillTyped
<1>5. CASE c.fn = "Fill"
  <2>1. ProgramOf(c) = Fill_picture(c.byte)
    BY <1>5 DEF ProgramOf
  <2>2. c.byte \in Byte
    BY <1>2, <1>5 DEF WellCalled
  <2>3. QED
    BY <1>1, <2>1, <2>2, FillTyped
<1>6. CASE c.fn = "on"
  <2>1. ProgramOf(c) = OLED_display_on
    BY <1>6 DEF ProgramOf
  <2>2. QED
    BY <1>1, <2>1, SwitchTyped
<1>7. CASE c.fn = "off"
  <2>1. ProgramOf(c) = OLED_display_off
    BY <1>7 DEF ProgramOf
  <2>2. QED
    BY <1>1, <2>1, SwitchTyped
<1>8. CASE c.fn = "Char"
  <2>1. ProgramOf(c) = OLED_ShowChar(c.x, c.y, c.ch, c.csize)
    BY <1>8 DEF ProgramOf
  <2>2. c.x \in Int /\ c.y \in Int /\ c.ch \in Characters(c.csize)
    BY <1>2, <1>8 DEF WellCalled, Byte
  <2>3. QED
    BY <1>1, <2>1, <2>2, ShowCharTyped
<1>9. CASE c.fn = "Num"
  <2>1. ProgramOf(c) = OLED_ShowNum(c.x, c.y, c.num, c.len, c.csize)
    BY <1>9 DEF ProgramOf
  <2>2. /\ c.x \in Byte /\ c.y \in Byte /\ c.num \in Nat /\ c.len \in 1..10
        /\ 10^(c.len - 1) < WORD /\ c.csize \in Byte
    BY <1>2, <1>9, Zenon DEF WellCalled
  <2>3. QED
    BY <1>1, <2>1, <2>2, ShowNumTyped
<1>10. CASE c.fn = "String"
  <2>1. ProgramOf(c) = OLED_ShowString(c.x, c.y, c.str, c.csize)
    BY <1>10 DEF ProgramOf
  <2>2. c.x \in Byte /\ c.y \in Byte /\ c.str \in Seq(Characters(c.csize))
    BY <1>2, <1>10 DEF WellCalled
  <2>3. QED
    BY <1>1, <2>1, <2>2, ShowStringTyped
<1>11. CASE c.fn = "Chinese"
  <2>1. ProgramOf(c) = OLED_ShowChinese(c.x, c.y, c.ch)
    BY <1>11 DEF ProgramOf
  <2>2. c.x \in Byte /\ c.y \in Byte /\ c.ch \in Nat /\ {2 * c.ch, 2 * c.ch + 1} \subseteq DOMAIN OLED_Hzk
    BY <1>2, <1>11 DEF WellCalled
  <2>3. QED
    BY <1>1, <2>1, <2>2, ShowChineseTyped
<1>12. CASE c.fn = "BMP"
  <2>1. ProgramOf(c) = OLED_ShowBMP(c.x, c.y, c.x1, c.y1, c.bmp)
    BY <1>12 DEF ProgramOf
  <2>2. /\ c.x \in Byte /\ c.y \in Byte /\ c.x1 \in Byte /\ c.y1 \in Byte
        /\ c.x < c.x1 /\ c.y < c.y1
        /\ c.bmp \in Seq(Byte) /\ Len(c.bmp) = (c.x1 - c.x) * (c.y1 - c.y)
    BY <1>2, <1>12, Zenon DEF WellCalled
  <2>3. QED
    BY <1>1, <2>1, <2>2, ShowBMPTyped
<1>13. QED
  <2>1. c.fn \in {"Init", "Clear", "on", "off", "Fill", "Char", "Num", "String", "Chinese", "BMP"}
    BY <1>2, Zenon DEF WellCalled
  <2>2. QED
    BY <2>1, <1>3, <1>4, <1>5, <1>6, <1>7, <1>8, <1>9, <1>10, <1>11, <1>12

(* The writes of every call are writes.                                     *)
LEMMA ProgramTyped ==
  ASSUME NEW c \in Calls
  PROVE  Program[c] \in Seq(Writes)
<1>1. Program[c] \in Closed
  BY ProgramClosed
<1> DEFINE p == Program[c]
<1> HIDE DEF p
<1>2. p \in Closed => p \in Seq(Writes)
  BY DEF Closed
<1>3. QED
  BY <1>1, <1>2 DEF p

(* The lines between two writes.                                            *)
Resting(scl, sda, r) == scl = sda /\ (scl = 1 => r = Silent)

(* At rest is where a write begins.                                         *)
LEMMA RestingIs ==
  ASSUME NEW scl, NEW sda, NEW r, NEW control, NEW byte
  PROVE  Resting(scl, sda, r) <=> LinesAt(0, scl, sda, r, control, byte)
BY DEF Resting, LinesAt

(* A silent receiver holds nothing.                                         *)
LEMMA SilentLeft ==
  ASSUME NEW T
  PROVE  Leftover(Silent, T) /\ Silent \in Receivers /\ ~Awaits(Silent)
<1>1. Silent.heard = <<>> /\ ~Silent.active /\ Silent.value = 0 /\ Silent.bits = 0
  BY DEF Silent
<1>2. Silent \in Receivers
  BY DEF Silent, Receivers, Byte
<1>3. Padded(Silent) = 0
  <2>1. 0 * 2^(8 - 0) = 0
    OBVIOUS
  <2>2. QED
    BY <1>1, <2>1, Zenon DEF Padded
<1>4. Len(Silent.heard) <= 2 /\ 0 \in Byte
  BY <1>1 DEF Byte
<1>5. Leftover(Silent, T)
  BY <1>1, <1>2, <1>3, <1>4 DEF Leftover
<1>6. QED
  BY <1>1, <1>2, <1>5 DEF Awaits

(* The writes of a call, and their frames.                                  *)
LEMMA WriteIs ==
  ASSUME NEW c \in Calls, NEW n \in Nat, n < Len(Program[c])
  PROVE  Program[c][n + 1] \in Writes
<1> DEFINE p == Program[c]
<1>1. p \in Seq(Writes)
  BY ProgramTyped
<1> HIDE DEF p
<1>2. n < Len(p) => p[n + 1] \in Writes
  BY <1>1
<1>3. QED
  BY <1>2 DEF p

(* The byte and the kind of a write.                                        *)
LEMMA WriteParts ==
  ASSUME NEW w \in Writes
  PROVE  /\ w[1] \in Byte /\ w[2] \in {OLED_CMD, OLED_DATA} /\ w = <<w[1], w[2]>>
         /\ Control(w[2]) \in Byte
BY DEF Writes, Control, Byte

(* The frame of a write is the one of FrameAt.                              *)
LEMMA FrameIs ==
  ASSUME NEW w \in Writes
  PROVE  IsFrame(OLED_WR_Byte[w[1]][w[2]], Control(w[2]), w[1])
<1>1. w[1] \in Byte /\ w[2] \in {OLED_CMD, OLED_DATA} /\ Control(w[2]) \in Byte
  BY WriteParts
<1>2. OLED_WR_Byte[w[1]][w[2]] = Write_IIC(Control(w[2]), w[1])
  BY <1>1 DEF OLED_WR_Byte, Control
<1>3. QED
  BY <1>1, <1>2, FrameAt

(* Every write takes 88 changes of the lines.                               *)
LEMMA FrameLen ==
  ASSUME NEW frame, NEW control, NEW byte, IsFrame(frame, control, byte)
  PROVE  Len(frame) = 88 /\ \A k \in 1..88 : frame[k] \in Pins
<1> DEFINE n == 88
<1>1. Len(frame) = n /\ frame \in Seq(Pins)
  BY Zenon DEF IsFrame
<1> HIDE DEF n
<1>2. \A k \in 1..n : frame[k] \in Pins
  BY <1>1
<1>3. QED
  BY <1>1, <1>2 DEF n

(* The first bits of a write of a call are among the torn writes that the   *)
(* abstract display has.                                                    *)
LEMMA TornIs ==
  ASSUME NEW c \in Calls, NEW n \in Nat, n < Len(Program[c])
  PROVE  TornBytes(Display!Torn, Program[c][n + 1][1], Program[c][n + 1][2])
<1> DEFINE p == Program[c]
           w == p[n + 1]
           W == UNION {Display!Range(q) : q \in {Program[d] : d \in Calls}}
<1>1. w \in W
  <2>1. p \in Seq(Writes)
    BY ProgramTyped
  <2> HIDE DEF p
  <2>2. n < Len(p) => n + 1 \in DOMAIN p
    BY <2>1
  <2>3. n < Len(p)
    BY DEF p
  <2>4. w \in Display!Range(p)
    BY <2>2, <2>3 DEF Display!Range
  <2>5. QED
    BY <2>4 DEF p
<1> HIDE DEF w
<1>2. Display!Torn = {<<(v[1] \div 2^k) * 2^k, v[2]>> : v \in W, k \in 0..7}
                       \cup ({0, 128} \X {OLED_CMD, OLED_DATA})
  BY DEF Display!Torn, Display!OLED_CMD, Display!OLED_DATA, OLED_CMD, OLED_DATA
<1> HIDE DEF W
<1>3. TornBytes(Display!Torn, w[1], w[2])
  BY <1>1, <1>2 DEF TornBytes
<1>4. QED
  BY <1>3 DEF w

(* The mark of a process without a call is no call.                         *)
LEMMA NoCallIsNone ==
  NoCall \notin Calls /\ NoCall.fn = "none"
<1>1. NoCall.fn = "none"
  BY DEF NoCall
<1>2. ~ WellCalled(NoCall)
  BY <1>1 DEF WellCalled
<1>3. QED
  BY <1>1, <1>2, CallsAssumption

-----------------------------------------------------------------------------
LinesInv ==
  /\ Writing => LinesAt(step, OLED_SCL, OLED_SDIN, receiver,
                        Control(Program[call][sent + 1][2]), Program[call][sent + 1][1])
  /\ ~Writing => Resting(OLED_SCL, OLED_SDIN, receiver)
  /\ Leftover(receiver, Display!Torn)

(* Only OLED_Init() can meet what a killed process has left on the bus.     *)
Met ==
  step \in {0, 1} /\ receiver # Silent => call = NoCall \/ (call.fn = "Init" /\ sent = 0)

IInv == TypeOK /\ LinesInv /\ Met

(* OLED_Init() begins with the settings.                                    *)
LEMMA InitProgram ==
  ASSUME NEW c \in Calls, c.fn = "Init"
  PROVE  /\ Len(Program[c]) >= 27
         /\ \A i \in 1..27 : Program[c][i] = CMD(Settings[i])
         /\ \A i \in 28..Len(Program[c]) : Program[c][i] \in Fills
<1> DEFINE a == [i \in DOMAIN Settings |-> CMD(Settings[i])]
           b == Fill_picture(0)
           S == Writes \cup Fills
           l == 27
<1>1. a \in Seq(S) /\ b \in Seq(S) /\ b \in Seq(Fills)
  <2>1. 0 \in Byte
    BY DEF Byte
  <2>2. a \in Seq(Writes) /\ b \in Seq(Fills)
    BY <2>1, SetUpTyped, FillIn DEF Closed
  <2> HIDE DEF a, b
  <2>3. QED
    BY <2>2
<1>2. Len(a) = l /\ \A i \in 1..l : a[i] = CMD(Settings[i])
  <2> DEFINE t == Settings
  <2>1. t \in Seq(Byte) /\ Len(t) = 27
    BY SettingsTyped
  <2> HIDE DEF t
  <2>2. DOMAIN t = 1..27
    BY <2>1
  <2>3. Len([i \in DOMAIN t |-> CMD(t[i])]) = 27
    BY <2>2
  <2>4. \A i \in 1..27 : [j \in DOMAIN t |-> CMD(t[j])][i] = CMD(t[i])
    BY <2>2
  <2>5. QED
    BY <2>3, <2>4, Zenon DEF t
<1>3. Program[c] = a \o b
  BY DEF Program, ProgramOf, OLED_Init, OLED_Clear
<1> DEFINE n == Len(b)
           p == a \o b
<1>4. n \in Nat /\ l \in Nat /\ \A i \in 1..n : b[i] \in Fills
  <2> HIDE DEF b
  <2>1. QED
    BY <1>1
<1> HIDE DEF a, b, l, S, n
<1>5. p \in Seq(S) /\ Len(p) = l + n /\ Extends(p, a, l, b, n)
  BY <1>1, <1>2, <1>4, Joined DEF n
<1> HIDE DEF p
<1>6. \A i \in 1..l : p[i] = a[i]
  BY <1>5, ExtendsLeft
<1>7. \A i \in 1..n : p[l + i] = b[i]
  BY <1>5, ExtendsRight
<1>8. Len(p) >= 27 /\ Len(p) = 27 + n
  BY <1>4, <1>5 DEF l
<1>9. \A i \in 1..27 : p[i] = CMD(Settings[i])
  BY <1>2, <1>6 DEF l
<1>10. ASSUME NEW i \in 28..Len(p) PROVE p[i] \in Fills
  <2>1. i - 27 \in 1..n /\ l + (i - 27) = i
    BY <1>4, <1>8 DEF l
  <2>2. QED
    BY <1>4, <1>7, <2>1
<1>11. QED
  BY <1>3, <1>8, <1>9, <1>10 DEF p

-----------------------------------------------------------------------------
(* The invariant holds when the display is switched on.                     *)
LEMMA InitIInv == Init => IInv
<1> SUFFICES ASSUME Init PROVE IInv
  OBVIOUS
<1>1. /\ OLED_SCL = 0 /\ OLED_SDIN = 0 /\ receiver = Silent
      /\ call = NoCall /\ sent = 0 /\ step = 0 /\ calls = 0 /\ kills = 0
  BY DEF Init
<1>2. PICK ram \in Screens :
        /\ panel = [page |-> 0, col |-> 0, ram |-> ram, on |-> FALSE, pending |-> FALSE]
        /\ before = ram
  <2>1. PICK ram \in Screens :
          panel = [page |-> 0, col |-> 0, ram |-> ram, on |-> FALSE, pending |-> FALSE]
    BY DEF Init
  <2>2. panel.ram = ram
    BY <2>1
  <2>3. before = panel.ram
    BY DEF Init
  <2>4. QED
    BY <2>1, <2>2, <2>3
<1>3. ram \in [Cells -> Byte]
  BY ScreensAssumption
<1>4. ~Writing
  BY <1>1 DEF Writing
<1>5. Leftover(receiver, Display!Torn) /\ receiver \in Receivers /\ Len(receiver.heard) <= 2
  <2>1. Leftover(receiver, Display!Torn)
    BY <1>1, SilentLeft
  <2>2. QED
    BY <2>1 DEF Leftover
<1>6. panel \in Panels
  BY <1>2, <1>3 DEF Panels
<1>7. calls \in 0..MaxCalls /\ kills \in 0..MaxKills
  BY <1>1, BoundsAssumption
<1>8. TypeOK
  BY <1>1, <1>2, <1>3, <1>4, <1>5, <1>6, <1>7 DEF TypeOK
<1>9. LinesInv
  BY <1>1, <1>4, <1>5 DEF LinesInv, Resting
<1>10. Met
  BY <1>1 DEF Met
<1>11. QED
  BY <1>8, <1>9, <1>10 DEF IInv

(* A call begins between two writes.                                        *)
LEMMA DrawIInv ==
  ASSUME IInv, NEW c \in Calls, Draw(c)
  PROVE  IInv'
<1>1. /\ ~Writing /\ calls < MaxCalls /\ (call = NoCall => c.fn = "Init")
      /\ call' = c /\ sent' = 0 /\ before' = panel.ram /\ calls' = calls + 1
      /\ UNCHANGED <<OLED_SCL, OLED_SDIN, receiver, panel, step, kills>>
  BY DEF Draw, lines
<1>2. TypeOK /\ LinesInv /\ Met
  BY DEF IInv
<1>3. step' = 0 /\ step = 0
  BY <1>1, <1>2 DEF TypeOK
<1>4. call' # NoCall
  BY <1>1, NoCallIsNone
<1>5. Resting(OLED_SCL', OLED_SDIN', receiver')
  BY <1>1, <1>2 DEF LinesInv
<1>6. Program[c] \in Seq(Writes) /\ Len(Program[c]) \in Nat
  BY ProgramTyped
<1>7. Writing' => IsFrame(Frame', Control(Program[call'][sent' + 1][2]), Program[call'][sent' + 1][1])
  <2>1. SUFFICES ASSUME 0 < Len(Program[c])
        PROVE  IsFrame(Frame', Control(Program[call'][sent' + 1][2]), Program[call'][sent' + 1][1])
    BY <1>1 DEF Writing
  <2> DEFINE w == Program[c][0 + 1]
  <2>2. w \in Writes
    BY <2>1, WriteIs
  <2>3. Frame' = OLED_WR_Byte[w[1]][w[2]]
    BY <1>1 DEF Frame
  <2> HIDE DEF w
  <2>4. IsFrame(Frame', Control(w[2]), w[1])
    BY <2>2, <2>3, FrameIs
  <2>5. QED
    BY <1>1, <2>4 DEF w
<1>8. Writing' => step' < Len(Frame')
  <2>1. Writing' => Len(Frame') = 88
    BY <1>7, FrameLen
  <2>2. SUFFICES ASSUME Writing' PROVE step' < Len(Frame')
    OBVIOUS
  <2>3. Len(Frame') = 88
    BY <2>1, <2>2
  <2> DEFINE l == Len(Frame')
  <2>4. l = 88 /\ step' = 0
    BY <1>3, <2>3
  <2> HIDE DEF l
  <2>5. step' < l
    BY <2>4
  <2>6. QED
    BY <2>5 DEF l
<1>9. before' \in [Cells -> Byte]
  BY <1>1, <1>2 DEF TypeOK, Panels
<1>10. calls' \in 0..MaxCalls /\ kills' \in 0..MaxKills
  BY <1>1, <1>2, BoundsAssumption DEF TypeOK
<1>11. TypeOK'
  <2>1. OLED_SCL' \in {0, 1} /\ OLED_SDIN' \in {0, 1} /\ receiver' \in Receivers
          /\ Len(receiver'.heard) <= 2 /\ panel' \in Panels
    BY <1>1, <1>2 DEF TypeOK
  <2>2. call' \in Calls \cup {NoCall} /\ sent' \in Nat /\ (call' = NoCall => sent' = 0)
          /\ (call' # NoCall => sent' <= Len(Program[call']))
          /\ step' \in Nat /\ (step' # 0 => Writing')
    BY <1>1, <1>3, <1>6
  <2>3. QED
    BY <1>8, <1>9, <1>10, <2>1, <2>2 DEF TypeOK
<1>12. LinesInv'
  <2>1. LinesAt(step', OLED_SCL', OLED_SDIN', receiver',
                Control(Program[call'][sent' + 1][2]), Program[call'][sent' + 1][1])
    BY <1>3, <1>5, RestingIs
  <2>2. Leftover(receiver', Display!Torn)
    BY <1>1, <1>2 DEF LinesInv
  <2>3. QED
    BY <1>5, <2>1, <2>2 DEF LinesInv
<1>13. Met'
  <2>1. CASE receiver = Silent
    BY <1>1, <2>1 DEF Met
  <2>2. CASE receiver # Silent
    <3>1. call = NoCall \/ (call.fn = "Init" /\ sent = 0)
      BY <1>2, <1>3, <2>2 DEF Met
    <3>2. ~ (call # NoCall /\ call.fn = "Init" /\ sent = 0)
      <4>1. SUFFICES ASSUME call # NoCall, call.fn = "Init", sent = 0 PROVE FALSE
        OBVIOUS
      <4>2. call \in Calls
        BY <1>2, <4>1 DEF TypeOK
      <4>3. Len(Program[call]) >= 27
        BY <4>1, <4>2, InitProgram
      <4>4. Writing
        BY <4>1, <4>3 DEF Writing
      <4>5. QED
        BY <1>1, <4>4
    <3>3. call = NoCall
      BY <3>1, <3>2
    <3>4. QED
      BY <1>1, <3>3 DEF Met
  <2>3. QED
    BY <2>1, <2>2
<1>14. QED
  BY <1>11, <1>12, <1>13 DEF IInv

(* A kill, wherever it comes, leaves the lines at 0 and at most a leftover  *)
(* in the receiver.                                                         *)
LEMMA KillIInv ==
  ASSUME IInv, Kill
  PROVE  IInv'
<1>1. /\ Writing /\ kills < MaxKills
      /\ OLED_SCL' = 0 /\ OLED_SDIN' = 0
      /\ receiver' \in {receiver, Addressed}
      /\ call' = NoCall /\ sent' = 0 /\ step' = 0 /\ kills' = kills + 1
      /\ UNCHANGED <<panel, before, calls>>
  BY DEF Kill
<1>2. TypeOK /\ LinesInv /\ Met
  BY DEF IInv
<1>3. ~Writing'
  BY <1>1 DEF Writing
<1>4. Leftover(receiver', Display!Torn)
  <2>1. Leftover(receiver, Display!Torn)
    BY <1>2 DEF LinesInv
  <2>2. Leftover(Addressed, Display!Torn)
    <3>1. Addressed = Hearing(0, 0, <<>>)
      BY DEF Addressed, Hearing
    <3> DEFINE e == <<>>
    <3>2. e \in Seq(Byte) /\ Len(e) <= 2
      OBVIOUS
    <3>3. {0, 128} \X {OLED_CMD, OLED_DATA} \subseteq Display!Torn
      BY DEF Display!Torn, Display!OLED_CMD, Display!OLED_DATA, OLED_CMD, OLED_DATA
    <3> HIDE DEF e
    <3>4. Leftover(Hearing(0, 0, e), Display!Torn)
      BY <3>2, <3>3, LeftIdle
    <3>5. QED
      BY <3>1, <3>4 DEF e
  <2>3. QED
    BY <1>1, <2>1, <2>2
<1>5. receiver' \in Receivers /\ Len(receiver'.heard) <= 2
  BY <1>4 DEF Leftover
<1>6. kills' \in 0..MaxKills /\ calls' \in 0..MaxCalls
  BY <1>1, <1>2, BoundsAssumption DEF TypeOK
<1>7. TypeOK'
  <2>1. panel' \in Panels /\ before' \in [Cells -> Byte]
    BY <1>1, <1>2 DEF TypeOK
  <2>2. QED
    BY <1>1, <1>3, <1>5, <1>6, <2>1 DEF TypeOK
<1>8. LinesInv'
  BY <1>1, <1>3, <1>4 DEF LinesInv, Resting
<1>9. Met'
  BY <1>1 DEF Met
<1>10. QED
  BY <1>7, <1>8, <1>9 DEF IInv

(* A byte of data keeps the controller's types.                             *)
LEMMA DataTyped ==
  ASSUME NEW p \in Panels, NEW byte \in Byte
  PROVE  Data(p, byte) \in Panels
<1> DEFINE ram == [c \in Cells |-> IF c = <<p.page, p.col>> THEN byte ELSE p.ram[c]]
           col == (p.col + 1) % COLUMNS
<1>1. COLUMNS \in 1..128
  BY ScreenAssumption
<1>2. p.col \in 0..127 /\ p.page \in 0..7 /\ p.ram \in [Cells -> Byte]
        /\ p.on \in BOOLEAN /\ p.pending \in BOOLEAN
  BY DEF Panels
<1>3. ram \in [Cells -> Byte]
  BY <1>2
<1>4. col \in 0..127
  <2> DEFINE k == p.col + 1
             n == COLUMNS
  <2>1. k \in Nat /\ n \in 1..128
    BY <1>1, <1>2
  <2> HIDE DEF k, n
  <2>2. k % n \in 0..n - 1
    BY <2>1
  <2>3. k % n \in 0..127
    BY <2>1, <2>2
  <2>4. QED
    BY <2>3 DEF k, n
<1>5. Data(p, byte) = [page |-> p.page, col |-> col, ram |-> ram, on |-> p.on, pending |-> p.pending]
  <2>1. p = [page |-> p.page, col |-> p.col, ram |-> p.ram, on |-> p.on, pending |-> p.pending]
    BY DEF Panels
  <2>2. Data(p, byte) = [p EXCEPT !.ram = ram, !.col = col]
    BY DEF Data
  <2> HIDE DEF ram, col
  <2>3. QED
    BY <2>1, <2>2
<1> HIDE DEF ram, col
<1>6. QED
  BY <1>2, <1>3, <1>4, <1>5 DEF Panels

(* A command keeps the controller's types.                                  *)
LEMMA CommandTyped ==
  ASSUME NEW p \in Panels, NEW byte \in Byte
  PROVE  Command(p, byte) \in Panels
<1>1. p.col \in 0..127 /\ p.page \in 0..7 /\ p.ram \in [Cells -> Byte]
        /\ p.on \in BOOLEAN /\ p.pending \in BOOLEAN
  BY DEF Panels
<1>2. CASE p.pending
  <2>1. Command(p, byte) = [p EXCEPT !.pending = FALSE]
    BY <1>2 DEF Command
  <2>2. QED
    BY <2>1 DEF Panels
<1>3. CASE ~p.pending /\ byte \in TakesArgument
  <2>1. Command(p, byte) = [p EXCEPT !.pending = TRUE]
    BY <1>3 DEF Command, TakesArgument
  <2>2. QED
    BY <2>1 DEF Panels
<1>4. CASE ~p.pending /\ byte \notin TakesArgument /\ byte \in 0..15
  <2>1. Command(p, byte) = [p EXCEPT !.col = (@ \div 16) * 16 + byte]
    BY <1>4 DEF Command
  <2>2. ((p.col \div 16) * 16 + byte) \in 0..127
    BY <1>1, <1>4
  <2>3. QED
    BY <2>1, <2>2 DEF Panels
<1>5. CASE ~p.pending /\ byte \notin TakesArgument /\ byte \in 16..23
  <2>1. Command(p, byte) = [p EXCEPT !.col = (byte - 16) * 16 + (@ % 16)]
    BY <1>5 DEF Command
  <2>2. ((byte - 16) * 16 + (p.col % 16)) \in 0..127
    BY <1>1, <1>5
  <2>3. QED
    BY <2>1, <2>2 DEF Panels
<1>6. CASE ~p.pending /\ byte \notin TakesArgument /\ byte \in 176..183
  <2>1. Command(p, byte) = [p EXCEPT !.page = byte - 176]
    BY <1>6 DEF Command
  <2>2. byte - 176 \in 0..7
    BY <1>6
  <2>3. QED
    BY <2>1, <2>2 DEF Panels
<1>7. CASE ~p.pending /\ byte \notin TakesArgument /\ byte \in {174, 175}
  <2>1. Command(p, byte) = [p EXCEPT !.on = (byte = 175)]
    BY <1>7 DEF Command
  <2>2. (byte = 175) \in BOOLEAN
    OBVIOUS
  <2>3. QED
    BY <2>1, <2>2 DEF Panels
<1>8. CASE /\ ~p.pending /\ byte \notin TakesArgument
           /\ byte \notin 0..15 /\ byte \notin 16..23 /\ byte \notin 176..183 /\ byte \notin {174, 175}
  <2>1. Command(p, byte) = p
    BY <1>8 DEF Command
  <2>2. QED
    BY <2>1
<1>9. QED
  BY <1>2, <1>3, <1>4, <1>5, <1>6, <1>7, <1>8

(* A write keeps the controller's types.                                    *)
LEMMA ApplyTyped ==
  ASSUME NEW p \in Panels, NEW w \in Writes
  PROVE  Apply(p, w) \in Panels
<1>1. w[1] \in Byte
  BY WriteParts
<1>2. QED
  BY <1>1, DataTyped, CommandTyped DEF Apply

(* What a receiver takes for a write is one.                                *)
LEMMA WrittenTyped ==
  ASSUME NEW r \in Receivers
  PROVE  Written(r) \in Writes
BY DEF Written, Receivers, Writes, OLED_CMD, OLED_DATA

(* The last change is a stop.                                               *)
LEMMA LastNext ==
  ASSUME NEW control \in Byte, NEW byte \in Byte, NEW frame, IsFrame(frame, control, byte),
         NEW scl \in {0, 1}, NEW sda \in {0, 1}, NEW r, NEW scl2, NEW sda2, NEW r2,
         LinesAt(87, scl, sda, r, control, byte),
         Moves(frame[88], scl, sda, r, scl2, sda2, r2)
  PROVE  r2 = Silent
<1>1. frame[88] = SDIN(1)
  BY Zenon DEF IsFrame
<1>2. scl = 1 /\ sda = 0
  BY DEF LinesAt
<1>3. r2 = IF scl = 0 \/ 1 = sda THEN r ELSE IF 1 = 1 THEN Silent ELSE Addressed
  BY <1>1, MovesData
<1>4. QED
  BY <1>2, <1>3

(* The next change of a line, in the terms of the lemmas above.             *)
LEMMA PinParts ==
  ASSUME TypeOK, Pin
  PROVE  /\ Writing /\ call \in Calls /\ sent \in Nat /\ sent < Len(Program[call])
         /\ step \in 0..87
         /\ IsFrame(Frame, Control(Program[call][sent + 1][2]), Program[call][sent + 1][1])
         /\ Moves(Frame[step + 1], OLED_SCL, OLED_SDIN, receiver, OLED_SCL', OLED_SDIN', receiver')
         /\ OLED_SCL' \in {0, 1} /\ OLED_SDIN' \in {0, 1}
         /\ panel' = IF Takes(Frame[step + 1], OLED_SCL, receiver)
                     THEN Apply(panel, Written(receiver)) ELSE panel
         /\ step = 87 => sent' = sent + 1 /\ step' = 0
         /\ step # 87 => sent' = sent /\ step' = step + 1
         /\ UNCHANGED <<call, before, calls, kills>>
<1> DEFINE w == Program[call][sent + 1]
           change == Frame[step + 1]
<1>1. Writing /\ call \in Calls /\ sent \in Nat /\ sent < Len(Program[call])
  BY DEF Pin, Writing, TypeOK
<1>2. w \in Writes
  BY <1>1, WriteIs
<1>3. Frame = OLED_WR_Byte[w[1]][w[2]]
  BY DEF Frame
<1> HIDE DEF w
<1>4. IsFrame(Frame, Control(w[2]), w[1])
  BY <1>2, <1>3, FrameIs
<1>5. Len(Frame) = 88 /\ \A k \in 1..88 : Frame[k] \in Pins
  BY <1>4, FrameLen
<1>6. step \in Nat /\ step < Len(Frame)
  BY <1>1 DEF TypeOK
<1>7. step \in 0..87 /\ step + 1 \in 1..88
  BY <1>5, <1>6
<1>8. /\ step = 87 => sent' = sent + 1 /\ step' = 0
      /\ step # 87 => sent' = sent /\ step' = step + 1
  <2>1. IF step + 1 = Len(Frame) THEN sent' = sent + 1 /\ step' = 0
                                 ELSE sent' = sent /\ step' = step + 1
    BY DEF Pin
  <2>2. step + 1 = Len(Frame) <=> step = 87
    BY <1>5, <1>7
  <2>3. QED
    BY <2>1, <2>2
<1>9. change \in Pins
  BY <1>5, <1>7
<1>10. \/ /\ change[1] = "SCLK" /\ OLED_SCL' = change[2] /\ UNCHANGED OLED_SDIN
          /\ IF change[2] > OLED_SCL
             THEN /\ receiver' = Clocked(receiver, OLED_SDIN)
                  /\ panel' = IF Awaits(receiver) THEN Apply(panel, Written(receiver))
                                                  ELSE panel
             ELSE UNCHANGED <<receiver, panel>>
       \/ /\ change[1] = "SDIN" /\ OLED_SDIN' = change[2] /\ UNCHANGED <<OLED_SCL, panel>>
          /\ receiver' = IF OLED_SCL = 0 \/ change[2] = OLED_SDIN THEN receiver
                         ELSE IF change[2] = 1 THEN Silent ELSE Addressed
  BY DEF Pin
<1>11. UNCHANGED <<call, before, calls, kills>>
  BY DEF Pin
<1> HIDE DEF change
<1>12. Moves(change, OLED_SCL, OLED_SDIN, receiver, OLED_SCL', OLED_SDIN', receiver')
  BY <1>10 DEF Moves
<1>13. panel' = IF Takes(change, OLED_SCL, receiver) THEN Apply(panel, Written(receiver)) ELSE panel
  BY <1>10 DEF Takes
<1>14. OLED_SCL' \in {0, 1} /\ OLED_SDIN' \in {0, 1}
  <2>1. change[2] \in {0, 1}
    BY <1>9 DEF Pins
  <2>2. OLED_SCL \in {0, 1} /\ OLED_SDIN \in {0, 1}
    BY DEF TypeOK
  <2>3. QED
    BY <1>10, <2>1, <2>2
<1>15. QED
  BY <1>1, <1>4, <1>7, <1>8, <1>11, <1>12, <1>13, <1>14 DEF w, change

(* The lines and the receiver behind it.                                    *)
LEMMA PinLines ==
  ASSUME TypeOK, LinesInv, Pin
  PROVE  /\ LinesAt(step', OLED_SCL', OLED_SDIN', receiver',
                    Control(Program[call][sent + 1][2]), Program[call][sent + 1][1])
         /\ Leftover(receiver', Display!Torn)
         /\ step = 87 => receiver' = Silent
         /\ step = 0 => receiver' \in {receiver, Clocked(receiver, 0)}
<1> DEFINE w == Program[call][sent + 1]
           control == Control(w[2])
           byte == w[1]
           change == Frame[step + 1]
<1>1. /\ Writing /\ call \in Calls /\ sent \in Nat /\ sent < Len(Program[call])
      /\ step \in 0..87
      /\ IsFrame(Frame, control, byte)
      /\ Moves(change, OLED_SCL, OLED_SDIN, receiver, OLED_SCL', OLED_SDIN', receiver')
      /\ OLED_SCL' \in {0, 1} /\ OLED_SDIN' \in {0, 1}
  BY PinParts, Zenon
<1>2. step' = IF step = 87 THEN 0 ELSE step + 1
  BY PinParts
<1>3. w \in Writes
  BY <1>1, WriteIs
<1>4. byte \in Byte /\ control \in Byte /\ w[2] \in {OLED_CMD, OLED_DATA}
  BY <1>3, WriteParts
<1>5. OLED_SCL \in {0, 1} /\ OLED_SDIN \in {0, 1}
  BY DEF TypeOK
<1>6. LinesAt(step, OLED_SCL, OLED_SDIN, receiver, control, byte)
  BY <1>1 DEF LinesInv
<1>7. Leftover(receiver, Display!Torn)
  BY DEF LinesInv
<1>8. TornBytes(Display!Torn, byte, w[2])
  BY <1>1, TornIs
<1>9. {0, 128} \X {OLED_CMD, OLED_DATA} \subseteq Display!Torn
  BY <1>8 DEF TornBytes
<1> HIDE DEF control, byte, w
<1>10. LinesAt(step', OLED_SCL', OLED_SDIN', receiver', control, byte)
  <2>1. IsChange(change, Frame, step) /\ step' = After(step)
    BY <1>2 DEF IsChange, After
  <2> HIDE DEF change
  <2>2. LinesAt(After(step), OLED_SCL', OLED_SDIN', receiver', control, byte)
    <3>1. control \in Byte
      BY <1>4
    <3>2. byte \in Byte
      BY <1>4
    <3>3. IsFrame(Frame, control, byte)
      BY <1>1
    <3>4. OLED_SCL \in {0, 1}
      BY <1>5
    <3>5. OLED_SDIN \in {0, 1}
      BY <1>5
    <3>6. step \in 0..87
      BY <1>1
    <3>7. Moves(change, OLED_SCL, OLED_SDIN, receiver, OLED_SCL', OLED_SDIN', receiver')
      BY <1>1
    <3>8. IsChange(change, Frame, step)
      BY <2>1
    <3>9. QED
      BY <3>1, <3>2, <3>3, <3>4, <3>5, <3>6, <3>7, <3>8, <1>6, FrameNext
  <2>3. QED
    BY <2>1, <2>2
<1>11. step = 87 => receiver' = Silent
  <2>1. SUFFICES ASSUME step = 87 PROVE receiver' = Silent
    OBVIOUS
  <2>2. /\ LinesAt(87, OLED_SCL, OLED_SDIN, receiver, control, byte)
        /\ Moves(Frame[88], OLED_SCL, OLED_SDIN, receiver, OLED_SCL', OLED_SDIN', receiver')
    BY <1>1, <1>6, <2>1
  <2>3. control \in Byte /\ byte \in Byte
    BY <1>4
  <2>4. OLED_SCL \in {0, 1} /\ OLED_SDIN \in {0, 1}
    BY <1>5
  <2>5. IsFrame(Frame, control, byte)
    BY <1>1
  <2>6. QED
    BY <2>2, <2>3, <2>4, <2>5, LastNext
<1>12. step = 0 => receiver' \in {receiver, Clocked(receiver, 0)}
  <2>1. SUFFICES ASSUME step = 0 PROVE receiver' \in {receiver, Clocked(receiver, 0)}
    OBVIOUS
  <2>2. Frame[1] = SCLK(1)
    BY <1>1, Zenon DEF IsFrame
  <2>3. /\ LinesAt(0, OLED_SCL, OLED_SDIN, receiver, control, byte)
        /\ Moves(SCLK(1), OLED_SCL, OLED_SDIN, receiver, OLED_SCL', OLED_SDIN', receiver')
    BY <1>1, <1>6, <2>1, <2>2
  <2>4. /\ OLED_SCL = 1 => receiver' = receiver
        /\ OLED_SCL = 0 => receiver' = Clocked(receiver, 0)
    BY <1>4, <1>5, <2>3, FirstNext
  <2>5. QED
    BY <1>5, <2>4
<1>13. Leftover(receiver', Display!Torn)
  <2>1. CASE step = 87
    BY <2>1, <1>11, SilentLeft
  <2>2. CASE step = 0
    BY <2>2, <1>7, <1>9, <1>12, LeftClocked
  <2>3. CASE step \in 1..86
    <3>1. step + 1 \in 2..87
      BY <2>3
    <3>2. LinesAt(step + 1, OLED_SCL', OLED_SDIN', receiver', Control(w[2]), byte)
      BY <1>2, <1>10, <2>3 DEF control
    <3>3. w[2] \in {OLED_CMD, OLED_DATA} /\ byte \in Byte
      BY <1>4
    <3>4. TornBytes(Display!Torn, byte, w[2])
      BY <1>8
    <3>5. OLED_SDIN' \in {0, 1}
      BY <1>1
    <3>6. QED
      BY <3>1, <3>2, <3>3, <3>4, <3>5, LeftoverAt
  <2>4. QED
    BY <1>1, <2>1, <2>2, <2>3
<1>14. QED
  BY <1>10, <1>11, <1>12, <1>13 DEF control, byte, w

(* A change of a line preserves the invariant.                              *)
LEMMA PinIInv ==
  ASSUME IInv, Pin
  PROVE  IInv'
<1>1. TypeOK /\ LinesInv /\ Met
  BY DEF IInv
<1>2. /\ Writing /\ call \in Calls /\ sent \in Nat /\ sent < Len(Program[call])
      /\ step \in 0..87
      /\ IsFrame(Frame, Control(Program[call][sent + 1][2]), Program[call][sent + 1][1])
      /\ OLED_SCL' \in {0, 1} /\ OLED_SDIN' \in {0, 1}
      /\ UNCHANGED <<call, before, calls, kills>>
  BY <1>1, PinParts, Zenon
<1>3. /\ step = 87 => sent' = sent + 1 /\ step' = 0
      /\ step # 87 => sent' = sent /\ step' = step + 1
  BY <1>1, PinParts, Zenon
<1>4. panel' = panel \/ panel' = Apply(panel, Written(receiver))
  BY <1>1, PinParts
<1>5. /\ LinesAt(step', OLED_SCL', OLED_SDIN', receiver',
                 Control(Program[call][sent + 1][2]), Program[call][sent + 1][1])
      /\ Leftover(receiver', Display!Torn)
      /\ step = 87 => receiver' = Silent
      /\ step = 0 => receiver' \in {receiver, Clocked(receiver, 0)}
  BY <1>1, PinLines, Zenon
<1>6. call # NoCall
  BY <1>2, NoCallIsNone
<1>7. panel' \in Panels
  <2>1. panel \in Panels /\ receiver \in Receivers
    BY <1>1 DEF TypeOK
  <2>2. QED
    BY <1>4, <2>1, WrittenTyped, ApplyTyped
<1>8. receiver' \in Receivers /\ Len(receiver'.heard) <= 2
  BY <1>5 DEF Leftover
<1>9. Len(Program[call]) \in Nat
  <2>1. Program[call] \in Seq(Writes)
    BY <1>2, ProgramTyped
  <2>2. QED
    BY <2>1
<1>10. sent' \in Nat /\ sent' <= Len(Program[call]) /\ step' \in 0..87 /\ (step' # 0 => sent' = sent)
  <2>1. CASE step = 87
    <3> DEFINE l == Len(Program[call])
    <3>1. l \in Nat /\ sent < l
      BY <1>2, <1>9
    <3> HIDE DEF l
    <3>2. sent + 1 \in Nat /\ sent + 1 <= l
      BY <1>2, <3>1
    <3>3. QED
      BY <1>3, <2>1, <3>2 DEF l
  <2>2. CASE step # 87
    <3> DEFINE l == Len(Program[call])
    <3>1. l \in Nat /\ sent < l
      BY <1>2, <1>9
    <3> HIDE DEF l
    <3>2. sent \in Nat /\ sent <= l
      BY <1>2, <3>1
    <3>3. step + 1 \in 0..87
      BY <1>2, <2>2
    <3>4. QED
      BY <1>3, <2>2, <3>2, <3>3 DEF l
  <2>3. QED
    BY <2>1, <2>2
<1>11. step' # 0 => Writing'
  BY <1>2, <1>6, <1>10 DEF Writing
<1>12. Writing' => step' < Len(Frame')
  <2>1. SUFFICES ASSUME Writing' PROVE step' < Len(Frame')
    OBVIOUS
  <2> DEFINE v == Program[call'][sent' + 1]
  <2>2. sent' < Len(Program[call']) /\ call' \in Calls
    BY <1>2, <2>1 DEF Writing
  <2>3. v \in Writes
    BY <1>10, <2>2, WriteIs
  <2>4. Frame' = OLED_WR_Byte[v[1]][v[2]]
    BY DEF Frame
  <2> HIDE DEF v
  <2>5. Len(Frame') = 88
    BY <2>3, <2>4, FrameIs, FrameLen
  <2> DEFINE l == Len(Frame')
  <2>6. l = 88
    BY <2>5
  <2> HIDE DEF l
  <2>7. step' < l
    BY <1>10, <2>6
  <2>8. QED
    BY <2>7 DEF l
<1>13. TypeOK'
  <2>1. call' \in Calls \cup {NoCall} /\ call' # NoCall /\ sent' <= Len(Program[call'])
    BY <1>2, <1>6, <1>10
  <2>2. before' \in [Cells -> Byte] /\ calls' \in 0..MaxCalls /\ kills' \in 0..MaxKills
    BY <1>1, <1>2 DEF TypeOK
  <2>3. step' \in Nat
    BY <1>10
  <2>4. QED
    BY <1>2, <1>7, <1>8, <1>10, <1>11, <1>12, <2>1, <2>2, <2>3, Zenon DEF TypeOK
<1>14. LinesInv'
  <2>1. CASE step' = 0
    <3>1. Resting(OLED_SCL', OLED_SDIN', receiver')
      BY <1>5, <2>1, RestingIs
    <3>2. LinesAt(0, OLED_SCL', OLED_SDIN', receiver',
                  Control(Program[call'][sent' + 1][2]), Program[call'][sent' + 1][1])
      BY <3>1, RestingIs
    <3>3. QED
      BY <1>5, <2>1, <3>1, <3>2 DEF LinesInv
  <2>2. CASE step' # 0
    <3>1. Writing' /\ sent' = sent /\ call' = call
      BY <1>2, <1>10, <1>11, <2>2
    <3>2. LinesAt(step', OLED_SCL', OLED_SDIN', receiver',
                  Control(Program[call'][sent' + 1][2]), Program[call'][sent' + 1][1])
      BY <1>5, <3>1
    <3>3. QED
      BY <1>5, <3>1, <3>2, Zenon DEF LinesInv
  <2>3. QED
    BY <2>1, <2>2
<1>15. Met'
  <2>1. SUFFICES ASSUME step' \in {0, 1}, receiver' # Silent
                 PROVE  call'.fn = "Init" /\ sent' = 0
    BY DEF Met
  <2>2. step = 0
    <3>1. step # 87
      BY <1>5, <2>1
    <3>2. step + 1 \in {0, 1} /\ step \in 0..87
      BY <1>2, <1>3, <2>1, <3>1
    <3>3. QED
      BY <3>2
  <2>3. receiver # Silent
    <3>1. Clocked(Silent, 0) = Silent
      BY DEF Clocked, Silent
    <3>2. QED
      BY <1>5, <2>1, <2>2, <3>1
  <2>4. call.fn = "Init" /\ sent = 0
    BY <1>1, <1>6, <2>2, <2>3 DEF Met
  <2>5. QED
    BY <1>2, <1>3, <2>2, <2>4
<1>16. QED
  BY <1>13, <1>14, <1>15 DEF IInv

(* A stuttering step preserves the invariant.                               *)
LEMMA StutterIInv ==
  ASSUME IInv, UNCHANGED vars
  PROVE  IInv'
BY DEF IInv, TypeOK, LinesInv, Met, Writing, Frame, vars, lines

(* The inductive invariant: types, the lines and the receiver at every one  *)
(* of the 88 changes of a write, and what only the first write of           *)
(* OLED_Init() can meet (NPDOLED.cpp:203-300).                              *)
THEOREM Inductive == Spec => []IInv
<1>1. IInv /\ [Next]_vars => IInv'
  <2>1. SUFFICES ASSUME IInv, [Next]_vars PROVE IInv'
    OBVIOUS
  <2>2. CASE \E c \in Calls : Draw(c)
    BY <2>1, <2>2, DrawIInv
  <2>3. CASE Pin
    BY <2>1, <2>3, PinIInv
  <2>4. CASE Kill
    BY <2>1, <2>4, KillIInv
  <2>5. CASE UNCHANGED vars
    BY <2>1, <2>5, StutterIInv
  <2>6. QED
    BY <2>1, <2>2, <2>3, <2>4, <2>5 DEF Next
<1>2. QED
  BY InitIInv, <1>1, PTL DEF Spec

(* All variables keep their types; the screen memory holds bytes at its     *)
(* cells, whatever is drawn and however often the process is killed         *)
(* (NPDOLED.cpp:21-322).                                                    *)
THEOREM TypeCorrect == Spec => []TypeOK
<1>1. IInv => TypeOK
  BY DEF IInv
<1>2. QED
  BY Inductive, <1>1, PTL

(* What the next change does to the screen.                                 *)
LEMMA PinPanel ==
  ASSUME TypeOK, LinesInv, Pin
  PROVE  /\ step = 0 => panel' = IF Awaits(receiver) THEN Apply(panel, Written(receiver)) ELSE panel
         /\ step = 83 => panel' = Apply(panel, Program[call][sent + 1])
         /\ step \notin {0, 83} => panel' = panel
<1> DEFINE w == Program[call][sent + 1]
           control == Control(w[2])
           byte == w[1]
           kind == w[2]
           change == Frame[step + 1]
<1>1. /\ Writing /\ call \in Calls /\ sent \in Nat /\ sent < Len(Program[call])
      /\ step \in 0..87
      /\ IsFrame(Frame, Control(kind), byte)
      /\ panel' = IF Takes(change, OLED_SCL, receiver) THEN Apply(panel, Written(receiver)) ELSE panel
  BY PinParts, Zenon
<1>2. w \in Writes
  BY <1>1, WriteIs
<1>3. byte \in Byte /\ kind \in {OLED_CMD, OLED_DATA} /\ w = <<byte, kind>>
  BY <1>2, WriteParts
<1>4. LinesAt(step, OLED_SCL, OLED_SDIN, receiver, Control(kind), byte)
  BY <1>1 DEF LinesInv
<1>5. IsChange(change, Frame, step)
  BY DEF IsChange
<1> HIDE DEF w, byte, kind, change
<1>6. /\ step = 0 => (Takes(change, OLED_SCL, receiver) <=> Awaits(receiver))
      /\ step = 83 => Takes(change, OLED_SCL, receiver) /\ Written(receiver) = <<byte, kind>>
      /\ step \notin {0, 83} => ~ Takes(change, OLED_SCL, receiver)
  <2>1. byte \in Byte
    BY <1>3
  <2>2. kind \in {OLED_CMD, OLED_DATA}
    BY <1>3
  <2>3. IsFrame(Frame, Control(kind), byte)
    BY <1>1
  <2>4. OLED_SCL \in {0, 1}
    BY DEF TypeOK
  <2>5. OLED_SDIN \in {0, 1}
    BY DEF TypeOK
  <2>6. step \in 0..87
    BY <1>1
  <2>7. QED
    BY <2>1, <2>2, <2>3, <2>4, <2>5, <2>6, <1>4, <1>5, FrameTakes
<1>7. step = 0 => panel' = IF Awaits(receiver) THEN Apply(panel, Written(receiver)) ELSE panel
  BY <1>1, <1>6
<1>8. step = 83 => panel' = Apply(panel, w)
  BY <1>1, <1>3, <1>6
<1>9. step \notin {0, 83} => panel' = panel
  BY <1>1, <1>6
<1>10. QED
  BY <1>7, <1>8, <1>9 DEF w

-----------------------------------------------------------------------------
(* The writes that are still to come: c after n writes and s changes.       *)
LateOf(s, r) == IF s = 0 /\ Awaits(r) THEN <<Written(r)>> ELSE <<>>
DoneOf(n, s) == IF s > 83 THEN n + 1 ELSE n
RestOf(c, n, s) ==
  IF c # NoCall /\ n < Len(Program[c])
  THEN SubSeq(Program[c], DoneOf(n, s) + 1, Len(Program[c])) ELSE <<>>

(* The late write is a write.                                               *)
LEMMA LateTyped ==
  ASSUME NEW s, NEW r \in Receivers
  PROVE  LateOf(s, r) \in Seq(Writes)
<1> DEFINE w == Written(r)
<1>1. w \in Writes
  BY WrittenTyped
<1> HIDE DEF w
<1>2. <<w>> \in Seq(Writes) /\ <<>> \in Seq(Writes)
  BY <1>1
<1>3. QED
  BY <1>2 DEF LateOf, w

(* The elements behind the first d of a sequence.                           *)
LEMMA SubSeqParts ==
  ASSUME NEW S, NEW p \in Seq(S), NEW d \in 0..Len(p)
  PROVE  /\ SubSeq(p, d + 1, Len(p)) \in Seq(S)
         /\ d = 0 => SubSeq(p, d + 1, Len(p)) = p
         /\ d = Len(p) => SubSeq(p, d + 1, Len(p)) = <<>>
         /\ d < Len(p) => /\ SubSeq(p, d + 1, Len(p)) # <<>>
                          /\ Head(SubSeq(p, d + 1, Len(p))) = p[d + 1]
                          /\ Tail(SubSeq(p, d + 1, Len(p))) = SubSeq(p, (d + 1) + 1, Len(p))
<1> DEFINE l == Len(p)
           q == SubSeq(p, d + 1, l)
           t == SubSeq(p, (d + 1) + 1, l)
<1>1. l \in Nat /\ d \in 0..l
  BY LenProperties
<1>2. q \in Seq(S) /\ Len(q) = l - d /\ \A i \in 1..l - d : q[i] = p[d + i]
  <2>1. q \in Seq(S)
    BY <1>1, SubSeqProperties
  <2>2. Len(q) = l - d
    BY <1>1, SubSeqProperties
  <2>3. \A i \in 1..l - d : q[i] = p[d + i]
    BY <1>1, <2>2, SubSeqProperties
  <2>4. QED
    BY <2>1, <2>2, <2>3
<1>3. d < l => t \in Seq(S) /\ Len(t) = l - d - 1 /\ \A i \in 1..l - d - 1 : t[i] = p[d + 1 + i]
  <2>1. SUFFICES ASSUME d < l
                 PROVE  t \in Seq(S) /\ Len(t) = l - d - 1 /\ \A i \in 1..l - d - 1 : t[i] = p[d + 1 + i]
    OBVIOUS
  <2>2. t \in Seq(S)
    BY <1>1, <2>1, SubSeqProperties
  <2>3. Len(t) = l - d - 1
    BY <1>1, <2>1, SubSeqProperties
  <2>4. \A i \in 1..l - d - 1 : t[i] = p[d + 1 + i]
    BY <1>1, <2>1, <2>3, SubSeqProperties
  <2>5. QED
    BY <2>2, <2>3, <2>4
<1> HIDE DEF q, t
<1>4. d = 0 => q = p
  <2>1. SUFFICES ASSUME d = 0 PROVE q = p
    OBVIOUS
  <2>2. Len(q) = Len(p) /\ \A i \in 1..Len(q) : q[i] = p[i]
    BY <1>1, <1>2, <2>1
  <2>3. QED
    BY <1>2, <2>2, SeqEqual
<1>5. d = l => q = <<>>
  BY <1>1, <1>2, EmptySeq
<1>6. d < l => q # <<>> /\ Head(q) = p[d + 1] /\ Tail(q) = t
  <2>1. SUFFICES ASSUME d < l PROVE q # <<>> /\ Head(q) = p[d + 1] /\ Tail(q) = t
    OBVIOUS
  <2>2. Len(q) \in Nat /\ Len(q) > 0
    BY <1>1, <1>2, <2>1
  <2>3. q # <<>>
    BY <2>2
  <2>4. Head(q) = p[d + 1]
    <3>1. Head(q) = q[1]
      BY <1>2, <2>3
    <3>2. 1 \in 1..l - d
      BY <1>1, <2>1
    <3>3. q[1] = p[d + 1]
      BY <1>2, <3>2
    <3>4. QED
      BY <3>1, <3>3
  <2>5. Tail(q) \in Seq(S) /\ Len(Tail(q)) = l - d - 1
    BY <1>1, <1>2, <2>3, HeadTailProperties
  <2>6. \A i \in 1..Len(Tail(q)) : Tail(q)[i] = t[i]
    <3>1. \A i \in 1..Len(Tail(q)) : Tail(q)[i] = q[i + 1]
      BY <1>2, <2>3, HeadTailProperties
    <3>2. ASSUME NEW i \in 1..l - d - 1 PROVE q[i + 1] = t[i]
      <4>1. i + 1 \in 1..l - d /\ d + (i + 1) = d + 1 + i
        BY <1>1, <2>1
      <4>2. q[i + 1] = p[d + (i + 1)]
        BY <1>2, <4>1
      <4>3. t[i] = p[d + 1 + i]
        BY <1>3, <2>1
      <4>4. QED
        BY <4>1, <4>2, <4>3
    <3>3. QED
      BY <2>5, <3>1, <3>2
  <2>7. Tail(q) = t
    BY <1>3, <2>1, <2>5, <2>6, SeqEqual
  <2>8. QED
    BY <2>3, <2>4, <2>7
<1>7. QED
  BY <1>2, <1>4, <1>5, <1>6 DEF q, t

(* The writes to come are writes.                                           *)
LEMMA RestTyped ==
  ASSUME NEW c \in Calls \cup {NoCall}, NEW n \in Nat, NEW s \in 0..87
  PROVE  RestOf(c, n, s) \in Seq(Writes)
<1>1. CASE c # NoCall /\ n < Len(Program[c])
  <2> DEFINE p == Program[c]
             d == DoneOf(n, s)
  <2>1. p \in Seq(Writes) /\ n < Len(p)
    BY <1>1, ProgramTyped
  <2> HIDE DEF p
  <2>2. d \in 0..Len(p)
    BY <2>1 DEF DoneOf
  <2> HIDE DEF d
  <2>3. SubSeq(p, d + 1, Len(p)) \in Seq(Writes)
    BY <2>1, <2>2, SubSeqParts
  <2>4. RestOf(c, n, s) = SubSeq(p, d + 1, Len(p))
    BY <1>1 DEF RestOf, p, d
  <2>5. QED
    BY <2>3, <2>4
<1>2. CASE ~ (c # NoCall /\ n < Len(Program[c]))
  BY <1>2 DEF RestOf
<1>3. QED
  BY <1>1, <1>2

(* The place in a call, in writes and changes, one change on.               *)
Follows(n, s, n2, s2) ==
  /\ s = 87 => n2 = n + 1 /\ s2 = 0
  /\ s # 87 => n2 = n /\ s2 = s + 1

RestFollows(c, n, s, n2, s2) ==
  /\ s # 83 => RestOf(c, n2, s2) = RestOf(c, n, s)
  /\ s <= 83 => /\ RestOf(c, n, s) # <<>>
                /\ Head(RestOf(c, n, s)) = Program[c][n + 1]
  /\ s = 83 => RestOf(c, n2, s2) = Tail(RestOf(c, n, s))

(* A write is the next one until it is performed.                           *)
LEMMA RestNext ==
  ASSUME NEW c \in Calls, NEW n \in Nat, n < Len(Program[c]), NEW s \in 0..87,
         NEW n2, NEW s2, Follows(n, s, n2, s2)
  PROVE  RestFollows(c, n, s, n2, s2)
<1> DEFINE p == Program[c]
           l == Len(p)
           d == DoneOf(n, s)
           e == DoneOf(n2, s2)
           q == SubSeq(p, d + 1, Len(p))
<1>1. p \in Seq(Writes) /\ c # NoCall
  BY ProgramTyped, NoCallIsNone
<1>2. n < l
  OBVIOUS
<1>3. RestOf(c, n, s) = q
  BY <1>1 DEF RestOf
<1>4. RestOf(c, n2, s2) = IF n2 < l THEN SubSeq(p, e + 1, Len(p)) ELSE <<>>
  BY <1>1 DEF RestOf
<1> HIDE DEF p
<1>5. l \in Nat
  BY <1>1
<1>6. d = IF s > 83 THEN n + 1 ELSE n
  BY DEF DoneOf
<1>7. e = IF s2 > 83 THEN n2 + 1 ELSE n2
  BY DEF DoneOf
<1>14. /\ s = 87 => n2 = n + 1 /\ s2 = 0
       /\ s # 87 => n2 = n /\ s2 = s + 1
  BY DEF Follows
<1> HIDE DEF d, e
<1>8. d \in 0..l
  BY <1>2, <1>5, <1>6
<1> HIDE DEF l
<1>9. s # 83 => e = d
  <2>1. CASE s = 87
    BY <1>6, <1>7, <1>14, <2>1
  <2>2. CASE s # 87
    BY <1>6, <1>7, <1>14, <2>2
  <2>3. QED
    BY <2>1, <2>2
<1>10. s # 83 => RestOf(c, n2, s2) = q
  <2>1. CASE n2 < l
    BY <1>4, <1>9, <2>1
  <2>2. CASE ~ (n2 < l)
    <3>1. s = 87 /\ n2 = n + 1 /\ d = n + 1
      BY <1>2, <1>6, <1>14, <2>2
    <3>2. d = Len(p)
      BY <1>2, <1>5, <2>2, <3>1 DEF l
    <3>3. q = <<>>
      BY <1>1, <1>8, <3>2, SubSeqParts DEF l
    <3>4. QED
      BY <1>4, <2>2, <3>3
  <2>3. QED
    BY <2>1, <2>2
<1>11. s <= 83 => q # <<>> /\ Head(q) = p[n + 1] /\ Tail(q) = SubSeq(p, (n + 1) + 1, Len(p))
  <2>1. SUFFICES ASSUME s <= 83
                 PROVE  q # <<>> /\ Head(q) = p[n + 1] /\ Tail(q) = SubSeq(p, (n + 1) + 1, Len(p))
    OBVIOUS
  <2>2. d = n
    BY <1>6, <2>1
  <2>3. d \in 0..Len(p) /\ d < Len(p)
    BY <1>2, <1>8, <2>2 DEF l
  <2>4. QED
    BY <1>1, <2>2, <2>3, SubSeqParts
<1>12. s = 83 => RestOf(c, n2, s2) = Tail(q)
  <2>1. SUFFICES ASSUME s = 83 PROVE RestOf(c, n2, s2) = Tail(q)
    OBVIOUS
  <2>2. n2 = n /\ s2 = 84 /\ e = n + 1
    BY <1>7, <1>14, <2>1
  <2>3. RestOf(c, n2, s2) = SubSeq(p, (n + 1) + 1, Len(p))
    BY <1>2, <1>4, <2>2
  <2> HIDE DEF q
  <2>4. Tail(q) = SubSeq(p, (n + 1) + 1, Len(p))
    BY <1>11, <2>1
  <2>5. QED
    BY <2>3, <2>4, Zenon
<1>13. QED
  BY <1>3, <1>10, <1>11, <1>12 DEF p, RestFollows

(* The frame of a write of a call has 88 changes.                           *)
LEMMA FrameOf ==
  ASSUME NEW c \in Calls, NEW n \in Nat, n < Len(Program[c])
  PROVE  Len(LET write == Program[c][n + 1] IN OLED_WR_Byte[write[1]][write[2]]) = 88
<1> DEFINE w == Program[c][n + 1]
<1>1. w \in Writes
  BY WriteIs
<1> HIDE DEF w
<1>2. Len(OLED_WR_Byte[w[1]][w[2]]) = 88
  <2> DEFINE frame == OLED_WR_Byte[w[1]][w[2]]
  <2>1. IsFrame(frame, Control(w[2]), w[1])
    BY <1>1, FrameIs
  <2> HIDE DEF frame
  <2>2. Len(frame) = 88
    BY <2>1, FrameLen
  <2>3. QED
    BY <2>2 DEF frame
<1>3. QED
  BY <1>2 DEF w

(* Behind the last byte's acknowledgement.                                  *)
LEMMA LastChanges ==
  ASSUME NEW s \in Nat, NEW l, l = 88
  PROVE  s > l - 5 <=> s > 83
OBVIOUS

(* The queue of the abstract display, and behind a step.                    *)
LEMMA PendingIs ==
  ASSUME TypeOK
  PROVE  Pending = LateOf(step, receiver) \o RestOf(call, sent, step)
<1>1. Writing => call \in Calls /\ sent \in Nat /\ sent < Len(Program[call])
  BY DEF TypeOK, Writing
<1>2. Writing => Len(Frame) = 88
  BY <1>1, FrameOf DEF Frame
<1>3. step \in Nat
  BY DEF TypeOK
<1>4. Writing => (step > Len(Frame) - 5 <=> step > 83)
  BY <1>2, <1>3, LastChanges
<1>5. Writing => (IF Writing /\ step > Len(Frame) - 5 THEN sent + 1 ELSE sent) = DoneOf(sent, step)
  BY <1>4, Zenon DEF DoneOf
<1>6. QED
  BY <1>5, Zenon DEF Pending, LateOf, RestOf, Writing

(* The same behind a step.                                                  *)
LEMMA PendingNext ==
  ASSUME TypeOK'
  PROVE  Pending' = LateOf(step', receiver') \o RestOf(call', sent', step')
<1>1. Writing' => call' \in Calls /\ sent' \in Nat /\ sent' < Len(Program[call'])
  BY DEF TypeOK, Writing
<1>2. Writing' => Len(Frame') = 88
  BY <1>1, FrameOf DEF Frame
<1>3. step' \in Nat
  BY DEF TypeOK
<1>4. Writing' => (step' > Len(Frame') - 5 <=> step' > 83)
  BY <1>2, <1>3, LastChanges
<1>5. Writing' => (IF Writing' /\ step' > Len(Frame') - 5 THEN sent' + 1 ELSE sent') = DoneOf(sent', step')
  BY <1>4, Zenon DEF DoneOf
<1>6. QED
  BY <1>5, Zenon DEF Pending, LateOf, RestOf, Writing

(* The abstract display performs a write as the modelled one does.          *)
LEMMA SameApply ==
  ASSUME NEW p, NEW w
  PROVE  Display!Apply(p, w) = Apply(p, w)
BY DEF Display!Apply, Display!Command, Display!Data, Display!OLED_CMD, Display!TakesArgument, Display!Cells,
       Apply, Command, Data, OLED_CMD, TakesArgument, Cells

(* Both have the same controller.                                           *)
LEMMA SamePanels == Display!Panels = Panels
BY DEF Display!Panels, Display!Cells, Display!Byte, Panels, Cells, Byte

(* A write in front of others.                                              *)
LEMMA Concatenated ==
  ASSUME NEW S, NEW a \in S, NEW q \in Seq(S)
  PROVE  /\ <<>> \o q = q /\ q \o <<>> = q /\ <<>> \o <<>> = <<>>
         /\ <<a>> \o q # <<>> /\ Head(<<a>> \o q) = a /\ Tail(<<a>> \o q) = q
<1>1. <<a>> \in Seq(S) /\ <<>> \in Seq(S) /\ Len(<<a>>) = 1
  OBVIOUS
<1>2. <<>> \o q = q /\ q \o <<>> = q /\ <<>> \o <<>> = <<>>
  BY <1>1, ConcatEmptySeq
<1> DEFINE r == <<a>> \o q
           l == Len(q)
           h == <<a>>
<1>3. l \in Nat /\ h \in Seq(S) /\ Len(h) = 1 /\ h[1] = a
  BY <1>1, LenProperties
<1> HIDE DEF h
<1>4. r \in Seq(S) /\ Len(r) = 1 + l
  BY <1>3, ConcatProperties
<1>5. \A i \in 1..1 + l : r[i] = IF i <= 1 THEN h[i] ELSE q[i - 1]
  BY <1>3, ConcatProperties
<1> HIDE DEF r, l
<1>6. r[1] = a /\ \A i \in 1..l : r[i + 1] = q[i]
  <2>1. r[1] = a
    BY <1>3, <1>5
  <2>2. ASSUME NEW i \in 1..l PROVE r[i + 1] = q[i]
    <3>1. i + 1 \in 1..1 + l /\ ~ (i + 1 <= 1) /\ (i + 1) - 1 = i
      BY <1>3
    <3>2. QED
      BY <1>5, <3>1
  <2>3. QED
    BY <2>1, <2>2
<1>7. r # <<>>
  BY <1>3, <1>4
<1>8. Head(r) = a
  BY <1>4, <1>6, <1>7
<1>9. Tail(r) \in Seq(S) /\ Len(Tail(r)) = l /\ \A i \in 1..l : Tail(r)[i] = q[i]
  <2>1. Tail(r) \in Seq(S) /\ Len(Tail(r)) = l
    BY <1>3, <1>4, <1>7, HeadTailProperties
  <2>2. \A i \in 1..Len(Tail(r)) : Tail(r)[i] = r[i + 1]
    BY <1>4, <1>7, HeadTailProperties
  <2>3. QED
    BY <1>6, <2>1, <2>2
<1>10. Tail(r) = q
  <2>1. Len(Tail(r)) = Len(q) /\ \A i \in 1..Len(Tail(r)) : Tail(r)[i] = q[i]
    BY <1>9 DEF l
  <2>2. QED
    BY <1>9, <2>1, SeqEqual
<1>11. QED
  BY <1>2, <1>7, <1>8, <1>10 DEF r, h

(* The initial states are initial states of the abstract display.           *)
LEMMA InitDisplay == Init => Display!Init
<1> SUFFICES ASSUME Init PROVE Display!Init
  OBVIOUS
<1>1. TypeOK
  BY InitIInv DEF IInv
<1>2. receiver = Silent /\ call = NoCall /\ sent = 0 /\ step = 0
  BY DEF Init
<1>3. Pending = LateOf(0, Silent) \o RestOf(NoCall, 0, 0)
  BY <1>1, <1>2, PendingIs
<1>4. LateOf(0, Silent) = <<>>
  BY SilentLeft DEF LateOf
<1>5. RestOf(NoCall, 0, 0) = <<>>
  BY DEF RestOf
<1>6. <<>> \o <<>> = <<>>
  OBVIOUS
<1>7. Pending = <<>>
  BY <1>3, <1>4, <1>5, <1>6
<1>8. panel \in Panels
  BY <1>1 DEF TypeOK
<1>9. AtRest = TRUE
  BY <1>2 DEF AtRest
<1>10. QED
  BY <1>7, <1>8, <1>9, SamePanels DEF Display!Init

(* A call begins: Display!Begin.                                            *)
LEMMA DrawDisplay ==
  ASSUME IInv, NEW c \in Calls, Draw(c)
  PROVE  Display!Begin
<1> DEFINE late == LateOf(step, receiver)
           p == Program[c]
<1>1. /\ ~Writing /\ call' = c /\ sent' = 0
      /\ UNCHANGED <<receiver, panel, step>>
  BY DEF Draw
<1>2. TypeOK
  BY DEF IInv
<1>3. step = 0 /\ receiver \in Receivers
  BY <1>1, <1>2 DEF TypeOK
<1>4. TypeOK'
  BY DrawIInv DEF IInv
<1>5. late \in Seq(Writes) /\ p \in Seq(Writes)
  BY <1>3, LateTyped, ProgramTyped
<1>6. RestOf(call, sent, step) = <<>>
  BY <1>1, <1>2 DEF RestOf, Writing
<1>7. RestOf(c, 0, 0) = p
  <2>1. CASE 0 < Len(p)
    <3>1. RestOf(c, 0, 0) = SubSeq(p, 0 + 1, Len(p))
      BY <2>1, NoCallIsNone DEF RestOf, DoneOf
    <3> DEFINE z == 0
    <3>2. z \in 0..Len(p) /\ z = 0
      BY <2>1, <1>5
    <3> HIDE DEF z, p
    <3>3. SubSeq(p, z + 1, Len(p)) = p
      BY <1>5, <3>2, SubSeqParts
    <3>4. QED
      BY <3>1, <3>3 DEF z
  <2>2. CASE ~ (0 < Len(p))
    <3>1. RestOf(c, 0, 0) = <<>>
      BY <2>2 DEF RestOf
    <3> HIDE DEF p
    <3>2. Len(p) \in Nat
      BY <1>5
    <3>3. p = <<>>
      BY <1>5, <2>2, <3>2, EmptySeq
    <3>4. QED
      BY <3>1, <3>3 DEF p
  <2>3. QED
    BY <2>1, <2>2
<1>8. Pending = late \o <<>> /\ Pending' = late \o p
  BY <1>1, <1>2, <1>3, <1>4, <1>6, <1>7, PendingIs, PendingNext
<1>9. late \o <<>> = late
  BY <1>5, ConcatEmptySeq
<1>10. Len(late) <= 1
  BY DEF LateOf
<1>11. AtRest' = AtRest
  BY <1>1 DEF AtRest
<1>12. p \in {Program[d] : d \in Calls}
  OBVIOUS
<1> HIDE DEF late, p
<1>13. QED
  BY <1>1, <1>8, <1>9, <1>10, <1>11, <1>12 DEF Display!Begin

(* Once the bus is at rest it stays so until the next kill, and a write and *)
(* the coming to rest are never one step.                                   *)
LEMMA PinRest ==
  ASSUME IInv, Pin
  PROVE  /\ AtRest' = TRUE \/ AtRest' = AtRest
         /\ step = 83 => AtRest' = AtRest
         /\ step = 0 /\ Awaits(receiver) => AtRest' = AtRest
<1>1. TypeOK /\ LinesInv
  BY DEF IInv
<1>2. /\ step \in 0..87
      /\ step = 87 => step' = 0
      /\ step # 87 => step' = step + 1
  BY <1>1, PinParts
<1>3. /\ step = 87 => receiver' = Silent
      /\ step = 0 => receiver' \in {receiver, Clocked(receiver, 0)}
  BY <1>1, PinLines, Zenon
<1>4. CASE step \in 1..86
  <2>1. step' \notin {0, 1}
    BY <1>2, <1>4
  <2>2. AtRest' = TRUE
    BY <2>1 DEF AtRest
  <2>3. step = 83 => AtRest = TRUE
    <3>1. step = 83 => step \notin {0, 1}
      OBVIOUS
    <3>2. QED
      BY <3>1 DEF AtRest
  <2>4. step # 0
    BY <1>4
  <2>5. QED
    BY <2>2, <2>3, <2>4, Zenon
<1>5. CASE step = 87
  <2>1. AtRest' = TRUE
    BY <1>3, <1>5 DEF AtRest
  <2>2. QED
    BY <1>5, <2>1
<1>6. CASE step = 0
  <2>1. step' = 1
    BY <1>2, <1>6
  <2>2. AtRest = (receiver = Silent) /\ AtRest' = (receiver' = Silent)
    BY <1>6, <2>1 DEF AtRest
  <2>3. Clocked(Silent, 0) = Silent
    BY DEF Clocked, Silent
  <2>4. receiver = Silent => receiver' = Silent
    BY <1>3, <1>6, <2>3
  <2>5. ASSUME Awaits(receiver) PROVE receiver # Silent /\ receiver' # Silent
    <3>1. receiver # Silent
      BY <2>5, SilentLeft
    <3>2. receiver.active /\ receiver.bits = 8 /\ Len(receiver.heard) = 2
      BY <2>5 DEF Awaits
    <3>3. receiver.heard # <<>>
      <4>1. Len(<<>>) = 0
        OBVIOUS
      <4>2. 2 # 0
        OBVIOUS
      <4>3. QED
        BY <3>2, <4>1, <4>2, Zenon
    <3>4. Clocked(receiver, 0).active
      <4>1. receiver.active /\ ~ (receiver.bits < 8) /\ (receiver.heard # <<>> \/ receiver.value = 120)
        BY <3>2, <3>3
      <4> DEFINE h == IF Len(receiver.heard) < 2 THEN Append(receiver.heard, receiver.value) ELSE receiver.heard
                 a == receiver.heard # <<>> \/ receiver.value = 120
      <4>2. Clocked(receiver, 0) = [active |-> a, bits |-> 0, value |-> 0, heard |-> h]
        BY <4>1, Zenon DEF Clocked
      <4>3. a
        BY <4>1
      <4> HIDE DEF h, a
      <4>4. [active |-> a, bits |-> 0, value |-> 0, heard |-> h].active = a
        BY Zenon
      <4>5. QED
        BY <4>2, <4>3, <4>4, Zenon
    <3>5. ~ Silent.active
      BY DEF Silent
    <3>6. Clocked(receiver, 0) # Silent
      BY <3>4, <3>5, Zenon
    <3>7. receiver' = receiver \/ receiver' = Clocked(receiver, 0)
      BY <1>3, <1>6
    <3>8. QED
      BY <3>1, <3>6, <3>7, Zenon
  <2>6. AtRest' = TRUE \/ AtRest' = AtRest
    <3>1. CASE receiver = Silent
      BY <2>2, <2>4, <3>1
    <3>2. CASE receiver # Silent
      BY <2>2, <3>2
    <3>3. QED
      BY <3>1, <3>2
  <2>7. Awaits(receiver) => AtRest' = AtRest
    BY <2>2, <2>5
  <2>8. step # 83
    BY <1>6
  <2>9. QED
    BY <2>6, <2>7, <2>8, Zenon
<1>7. step \in 1..86 \/ step = 87 \/ step = 0
  BY <1>2
<1>8. QED
  BY <1>4, <1>5, <1>6, <1>7, Zenon

(* A change of a line is a write of the abstract display, its coming to     *)
(* rest, or nothing.                                                        *)
LEMMA PinDisplay ==
  ASSUME IInv, Pin
  PROVE  Display!Write \/ Display!Settle \/ UNCHANGED Display!vars
<1> DEFINE late == LateOf(step, receiver)
           rest == RestOf(call, sent, step)
           rest2 == RestOf(call, sent', step')
           write == Program[call][sent + 1]
<1>1. TypeOK /\ LinesInv
  BY DEF IInv
<1>2. TypeOK'
  BY PinIInv DEF IInv
<1>3. /\ call \in Calls /\ sent \in Nat /\ sent < Len(Program[call]) /\ step \in 0..87
      /\ step = 87 => sent' = sent + 1 /\ step' = 0
      /\ step # 87 => sent' = sent /\ step' = step + 1
      /\ call' = call
  BY <1>1, PinParts
<1>4. /\ step # 83 => rest2 = rest
      /\ step <= 83 => rest # <<>> /\ Head(rest) = write
      /\ step = 83 => rest2 = Tail(rest)
  <2>1. call \in Calls
    BY <1>3
  <2>2. sent \in Nat
    BY <1>3
  <2>3. sent < Len(Program[call])
    BY <1>3
  <2>4. step \in 0..87
    BY <1>3
  <2>5. step = 87 => sent' = sent + 1 /\ step' = 0
    BY <1>3
  <2>6. step # 87 => sent' = sent /\ step' = step + 1
    BY <1>3
  <2> DEFINE n2 == sent'
             s2 == step'
  <2>7. Follows(sent, step, n2, s2)
    BY <2>5, <2>6 DEF Follows
  <2> HIDE DEF n2, s2
  <2>8. RestFollows(call, sent, step, n2, s2)
    BY <2>1, <2>2, <2>3, <2>4, <2>7, RestNext
  <2>9. QED
    BY <2>8 DEF n2, s2, RestFollows
<1>5. /\ step = 0 => panel' = IF Awaits(receiver) THEN Apply(panel, Written(receiver)) ELSE panel
      /\ step = 83 => panel' = Apply(panel, write)
      /\ step \notin {0, 83} => panel' = panel
  BY <1>1, PinPanel, Zenon
<1>6. rest \in Seq(Writes) /\ rest2 \in Seq(Writes)
  <2>1. rest \in Seq(Writes)
    BY <1>3, RestTyped
  <2>2. sent' \in Nat /\ step' \in 0..87
    <3>1. CASE step = 87
      BY <1>3, <3>1
    <3>2. CASE step # 87
      BY <1>3, <3>2
    <3>3. QED
      BY <3>1, <3>2
  <2>3. rest2 \in Seq(Writes)
    BY <1>3, <2>2, RestTyped
  <2>4. QED
    BY <2>1, <2>3
<1>7. LateOf(step', receiver') = <<>>
  <2>1. CASE step = 87
    <3>1. receiver' = Silent
      BY <1>1, <2>1, PinLines
    <3>2. QED
      BY <3>1, SilentLeft DEF LateOf
  <2>2. CASE step # 87
    <3>1. step' # 0
      BY <1>3, <2>2
    <3>2. QED
      BY <3>1 DEF LateOf
  <2>3. QED
    BY <2>1, <2>2
<1>8. Pending = late \o rest /\ Pending' = rest2
  <2>1. Pending = late \o rest
    BY <1>1, PendingIs
  <2>2. Pending' = <<>> \o rest2
    BY <1>2, <1>3, <1>7, PendingNext
  <2>3. <<>> \o rest2 = rest2
    BY <1>6, ConcatEmptySeq
  <2>4. QED
    BY <2>1, <2>2, <2>3
<1>9. /\ AtRest' = TRUE \/ AtRest' = AtRest
      /\ step = 83 => AtRest' = AtRest
      /\ step = 0 /\ Awaits(receiver) => AtRest' = AtRest
  BY PinRest, Zenon
<1> HIDE DEF rest, rest2, write
(* the write of the killed process *)
<1>10. CASE step = 0 /\ Awaits(receiver)
  <2> DEFINE w == Written(receiver)
  <2>1. late = <<w>>
    BY <1>10 DEF LateOf
  <2>2. w \in Writes
    BY <1>1, WrittenTyped DEF TypeOK
  <2> HIDE DEF late, w
  <2>3. Pending # <<>> /\ Head(Pending) = w /\ Tail(Pending) = rest
    BY <1>6, <1>8, <2>1, <2>2, Concatenated
  <2>4. Pending' = Tail(Pending)
    BY <1>4, <1>8, <1>10, <2>3
  <2>5. panel' = Apply(panel, w)
    BY <1>5, <1>10 DEF w
  <2>6. Display!Write
    BY <1>9, <1>10, <2>3, <2>4, <2>5, SameApply DEF Display!Write
  <2>7. QED
    BY <2>6
<1>11. CASE ~ (step = 0 /\ Awaits(receiver))
  <2>1. late = <<>>
    BY <1>11 DEF LateOf
  <2>2. Pending = rest
    <3>1. <<>> \o rest = rest
      BY <1>6, ConcatEmptySeq
    <3>2. QED
      BY <1>8, <2>1, <3>1
  (* the write of the call *)
  <2>3. CASE step = 83
    <3>1. Pending # <<>> /\ Head(Pending) = write /\ Pending' = Tail(Pending)
      BY <1>4, <1>8, <2>2, <2>3
    <3>2. panel' = Apply(panel, write)
      BY <1>5, <2>3
    <3>3. Display!Write
      BY <1>9, <2>3, <3>1, <3>2, SameApply DEF Display!Write
    <3>4. QED
      BY <3>3
  <2>4. CASE step # 83
    <3>1. Pending' = Pending
      BY <1>4, <1>8, <2>2, <2>4
    <3>2. panel' = panel
      BY <1>5, <1>11, <2>4
    <3>3. QED
      BY <1>9, <3>1, <3>2 DEF Display!Settle, Display!vars
  <2>5. QED
    BY <2>3, <2>4
<1>12. QED
  BY <1>10, <1>11

(* The first element of a sequence, and none.                               *)
LEMMA FirstOnes ==
  ASSUME NEW S, NEW q \in Seq(S)
  PROVE  /\ 0 <= Len(q) /\ SubSeq(q, 1, 0) = <<>>
         /\ q # <<>> => 1 <= Len(q) /\ SubSeq(q, 1, 1) = <<Head(q)>>
<1> DEFINE l == Len(q)
<1>1. l \in Nat
  OBVIOUS
<1>2. SubSeq(q, 1, 0) = <<>>
  OBVIOUS
<1>3. ASSUME q # <<>> PROVE 1 <= l /\ SubSeq(q, 1, 1) = <<Head(q)>>
  <2>1. l # 0
    BY <1>3, EmptySeq
  <2>2. 1 <= l
    BY <1>1, <2>1
  <2> DEFINE f == SubSeq(q, 1, 1)
             h == <<Head(q)>>
  <2>3. f \in Seq(S) /\ Len(f) = 1 /\ f[1] = q[1]
    <3>1. f \in Seq(S)
      BY <2>2, SubSeqProperties
    <3>2. Len(f) = 1
      BY <2>2, SubSeqProperties
    <3>3. f[1] = q[1]
      BY <2>2
    <3>4. QED
      BY <3>1, <3>2, <3>3
  <2>4. Head(q) = q[1] /\ Head(q) \in S
    BY <1>3
  <2>5. h \in Seq(S) /\ Len(h) = 1 /\ h[1] = q[1]
    BY <2>4
  <2> HIDE DEF f, h
  <2>6. \A i \in 1..Len(f) : f[i] = h[i]
    BY <2>3, <2>5
  <2>7. f = h
    BY <2>3, <2>5, <2>6, SeqEqual
  <2>8. QED
    BY <2>2, <2>7 DEF f, h
<1>4. QED
  BY <1>1, <1>2, <1>3

(* What the receiver has of a write when all eight bits have come.          *)
LEMMA WholeIsTorn ==
  ASSUME NEW r, NEW T, Leftover(r, T), Awaits(r)
  PROVE  Written(r) \in T
<1> DEFINE v == r.value
           k == r.bits
           c == r.heard[2]
<1>1. r.active /\ k = 8 /\ Len(r.heard) = 2
  BY DEF Awaits
<1>2. v \in Nat
  <2>1. r \in Receivers
    BY DEF Leftover
  <2>2. r.value \in Byte
    BY <2>1 DEF Receivers
  <2>3. QED
    BY <2>2 DEF Byte
<1>3. Padded(r) = v * 2^(8 - k)
  BY DEF Padded
<1>4. <<Padded(r), Kind(c)>> \in T
  BY <1>1 DEF Leftover
<1>5. Written(r) = <<v, Kind(c)>>
  BY DEF Written, Kind
<1> HIDE DEF v, k, c
<1>6. v * 2^(8 - k) = v
  BY <1>1, <1>2
<1>7. QED
  BY <1>3, <1>4, <1>5, <1>6

(* A receiver that was just addressed has no write.                         *)
LEMMA AddressedAwaits == ~ Awaits(Addressed)
<1>1. Addressed.bits = 0
  BY DEF Addressed
<1>2. 0 # 8
  OBVIOUS
<1>3. QED
  BY <1>1, <1>2, Zenon DEF Awaits

(* A kill is a kill of the abstract display: of the writes to come the next *)
(* at most is left, or a torn one if the bus was not at rest.               *)
LEMMA KillDisplay ==
  ASSUME IInv, Kill
  PROVE  Display!Kill
<1> DEFINE late == LateOf(step, receiver)
           rest == RestOf(call, sent, step)
           q == Pending
           w == Written(receiver)
<1>1. /\ Writing
      /\ receiver' \in {receiver, Addressed}
      /\ call' = NoCall /\ sent' = 0 /\ step' = 0
      /\ UNCHANGED panel
  BY DEF Kill
<1>2. TypeOK /\ LinesInv
  BY DEF IInv
<1>3. TypeOK'
  BY KillIInv DEF IInv
<1>4. call \in Calls /\ sent \in Nat /\ sent < Len(Program[call]) /\ step \in 0..87
  <2>1. call \in Calls /\ sent \in Nat /\ sent < Len(Program[call])
    BY <1>1, <1>2 DEF TypeOK, Writing
  <2>2. Len(Frame) = 88
    BY <2>1, FrameOf DEF Frame
  <2> DEFINE l == Len(Frame)
  <2>3. step \in Nat /\ step < l
    BY <1>1, <1>2 DEF TypeOK
  <2>4. l = 88
    BY <2>2
  <2> HIDE DEF l
  <2>5. step \in 0..87
    BY <2>3, <2>4
  <2>6. QED
    BY <2>1, <2>5
<1>5. late \in Seq(Writes) /\ rest \in Seq(Writes)
  <2>1. receiver \in Receivers
    BY <1>2 DEF TypeOK
  <2>2. QED
    BY <1>4, <2>1, LateTyped, RestTyped
<1>6. q = late \o rest
  BY <1>2, PendingIs
<1>7. q \in Seq(Writes)
  BY <1>5, <1>6, ConcatProperties
<1>8. q' = IF Awaits(receiver') THEN <<Written(receiver')>> ELSE <<>>
  <2>1. q' = LateOf(0, receiver') \o RestOf(NoCall, 0, 0)
    BY <1>1, <1>3, PendingNext
  <2>2. RestOf(NoCall, 0, 0) = <<>>
    BY DEF RestOf
  <2>3. receiver' \in Receivers
    BY <1>3 DEF TypeOK
  <2>4. LateOf(0, receiver') \in Seq(Writes)
    BY <2>3, LateTyped
  <2>5. LateOf(0, receiver') \o <<>> = LateOf(0, receiver')
    BY <2>4, ConcatEmptySeq
  <2>6. q' = LateOf(0, receiver')
    BY <2>1, <2>2, <2>5
  <2>7. QED
    BY <2>6 DEF LateOf
<1>9. AtRest' \in BOOLEAN
  BY DEF AtRest
<1>10. CASE ~ Awaits(receiver')
  <2>1. q' = <<>>
    BY <1>8, <1>10
  <2> HIDE DEF q
  <2>2. 0 <= Len(q) /\ q' = SubSeq(q, 1, 0)
    BY <1>7, <2>1, FirstOnes
  <2>3. QED
    BY <1>1, <1>9, <2>2 DEF Display!Kill, q
<1>11. CASE Awaits(receiver')
  <2>1. receiver' = receiver /\ Awaits(receiver)
    BY <1>1, <1>11, AddressedAwaits
  <2>2. q' = <<w>>
    BY <1>8, <2>1
  <2>3. w \in Writes
    BY <1>2, WrittenTyped DEF TypeOK
  <2>4. ASSUME q # <<>>, Head(q) = w PROVE Display!Kill
    <3> HIDE DEF q, w
    <3>1. 1 <= Len(q) /\ SubSeq(q, 1, 1) = <<Head(q)>>
      BY <1>7, <2>4, FirstOnes
    <3>2. 1 <= Len(q) /\ q' = SubSeq(q, 1, 1)
      BY <2>2, <2>4, <3>1
    <3>3. QED
      BY <1>1, <1>9, <3>2 DEF Display!Kill, q
  (* the write of an earlier process, still late *)
  <2>5. CASE step = 0
    <3>1. late = <<w>>
      BY <2>1, <2>5 DEF LateOf
    <3> HIDE DEF late, rest, w
    <3>2. q # <<>> /\ Head(q) = w
      BY <1>5, <1>6, <2>3, <3>1, Concatenated
    <3>3. QED
      BY <2>4, <3>2
  (* killed again before the bus was at rest *)
  <2>6. CASE step = 1
    <3>1. receiver # Silent
      BY <2>1, SilentLeft
    <3>2. AtRest = FALSE
      BY <2>6, <3>1 DEF AtRest
    <3>3. w \in Display!Torn
      BY <1>2, <2>1, WholeIsTorn DEF LinesInv
    <3>4. QED
      BY <1>1, <1>9, <2>2, <3>2, <3>3 DEF Display!Kill
  (* the write of this process, all but acknowledged *)
  <2>7. CASE step \in 2..87
    <3> DEFINE u == Program[call][sent + 1]
               kind == u[2]
               byte == u[1]
    <3>1. u \in Writes
      BY <1>4, WriteIs
    <3>2. byte \in Byte /\ kind \in {OLED_CMD, OLED_DATA} /\ u = <<byte, kind>>
      BY <3>1, WriteParts
    <3>3. LinesAt(step, OLED_SCL, OLED_SDIN, receiver, Control(kind), byte)
      BY <1>1, <1>2 DEF LinesInv
    <3> HIDE DEF u, byte, kind, late, rest
    <3>4. step \in {82, 83} /\ w = <<byte, kind>>
      <4>1. byte \in Byte
        BY <3>2
      <4>2. kind \in {OLED_CMD, OLED_DATA}
        BY <3>2
      <4>3. QED
        BY <2>1, <2>7, <3>3, <4>1, <4>2, HoldsAt
    <3>5. late = <<>>
      BY <2>7 DEF late, LateOf
    <3>6. q = rest
      BY <1>5, <1>6, <3>5, ConcatEmptySeq
    <3>7. rest # <<>> /\ Head(rest) = u
      <4> DEFINE n2 == IF step = 87 THEN sent + 1 ELSE sent
                 s2 == IF step = 87 THEN 0 ELSE step + 1
      <4>1. Follows(sent, step, n2, s2)
        BY DEF Follows
      <4> HIDE DEF n2, s2
      <4>2. call \in Calls
        BY <1>4
      <4>3. sent \in Nat
        BY <1>4
      <4>4. sent < Len(Program[call])
        BY <1>4
      <4>5. step \in 0..87
        BY <1>4
      <4>6. RestFollows(call, sent, step, n2, s2)
        BY <4>1, <4>2, <4>3, <4>4, <4>5, RestNext
      <4>7. step <= 83
        BY <3>4
      <4>8. QED
        BY <4>6, <4>7 DEF RestFollows, rest, u
    <3>8. QED
      BY <2>4, <3>2, <3>4, <3>6, <3>7
  <2>8. QED
    BY <1>4, <2>5, <2>6, <2>7
<1>12. QED
  BY <1>10, <1>11

(* A stuttering step is one of the abstract display.                        *)
LEMMA StutterDisplay ==
  ASSUME UNCHANGED vars
  PROVE  UNCHANGED Display!vars
<1>1. /\ UNCHANGED <<receiver, panel, call, sent, step>>
  BY DEF vars
<1>2. Frame' = Frame /\ Writing' = Writing
  BY <1>1 DEF Frame, Writing
<1>3. Pending' = Pending
  BY <1>1, <1>2 DEF Pending
<1>4. AtRest' = AtRest
  BY <1>1 DEF AtRest
<1>5. QED
  BY <1>1, <1>3, <1>4 DEF Display!vars

(* The two lines carry the writes of the drawing calls to the screen, each  *)
(* once, in order and unchanged, with kills at any change of a line: the    *)
(* detailed specification implements the abstract display (IIC_Start() to   *)
(* OLED_WR_Byte(), NPDOLED.cpp:203-300).                                    *)
THEOREM Implements == Spec => IsDisplay
<1>1. Init => Display!Init
  BY InitDisplay
<1>2. IInv /\ [Next]_vars => [Display!Next]_(Display!vars)
  <2>1. SUFFICES ASSUME IInv, [Next]_vars
                 PROVE  Display!Next \/ UNCHANGED Display!vars
    OBVIOUS
  <2>2. CASE \E c \in Calls : Draw(c)
    <3>1. PICK c \in Calls : Draw(c)
      BY <2>2
    <3>2. Display!Begin
      BY <2>1, <3>1, DrawDisplay
    <3>3. QED
      BY <3>2 DEF Display!Next
  <2>3. CASE Pin
    BY <2>1, <2>3, PinDisplay DEF Display!Next
  <2>4. CASE Kill
    BY <2>1, <2>4, KillDisplay DEF Display!Next
  <2>5. CASE UNCHANGED vars
    BY <2>5, StutterDisplay
  <2>6. QED
    BY <2>1, <2>2, <2>3, <2>4, <2>5 DEF Next
<1>3. QED
  BY <1>1, <1>2, Inductive, PTL DEF Spec, IsDisplay, Display!Spec

(* What a command does to the two fields that OLED_Init() has to repair.    *)
LEMMA CommandFields ==
  ASSUME NEW p \in Panels, NEW byte \in Byte
  PROVE  /\ Command(p, byte).pending = (~p.pending /\ byte \in TakesArgument)
         /\ ~p.pending /\ byte = 175 => Command(p, byte).on
         /\ ~p.pending /\ byte \notin TakesArgument \cup {174} /\ p.on => Command(p, byte).on
<1>1. p.on \in BOOLEAN /\ p.pending \in BOOLEAN
  BY DEF Panels
<1> DEFINE col == p.col
           page == p.page
           ram == p.ram
           on == p.on
           pending == p.pending
           low == (col \div 16) * 16 + byte
           high == (byte - 16) * 16 + (col % 16)
           nr == byte - 176
<1>2. p = [page |-> page, col |-> col, ram |-> ram, on |-> on, pending |-> pending]
  BY DEF Panels
<1>3. /\ p.pending => Command(p, byte) = [p EXCEPT !.pending = FALSE]
      /\ ~p.pending /\ byte \in TakesArgument => Command(p, byte) = [p EXCEPT !.pending = TRUE]
  BY DEF Command, TakesArgument
<1>4. ~p.pending /\ byte \notin TakesArgument =>
        \/ Command(p, byte) = [p EXCEPT !.col = low] /\ byte \in 0..15
        \/ Command(p, byte) = [p EXCEPT !.col = high] /\ byte \in 16..23
        \/ Command(p, byte) = [p EXCEPT !.page = nr] /\ byte \in 176..183
        \/ Command(p, byte) = [p EXCEPT !.on = (byte = 175)] /\ byte \in {174, 175}
        \/ Command(p, byte) = p /\ byte \notin {174, 175}
  BY DEF Command
<1>5. byte \in 0..15 \cup 16..23 \cup 176..183 => byte \notin {174, 175}
  OBVIOUS
<1> DEFINE q == Command(p, byte)
           sets == byte = 175
<1> HIDE DEF col, page, ram, on, pending, q, low, high, nr, sets
<1>6. [p EXCEPT !.pending = FALSE].on = on /\ [p EXCEPT !.pending = FALSE].pending = FALSE
  BY <1>2
<1>7. [p EXCEPT !.pending = TRUE].pending = TRUE
  BY <1>2
<1>8. [p EXCEPT !.col = low].on = on /\ [p EXCEPT !.col = low].pending = pending
  BY <1>2
<1>9. [p EXCEPT !.col = high].on = on /\ [p EXCEPT !.col = high].pending = pending
  BY <1>2
<1>10. [p EXCEPT !.page = nr].on = on /\ [p EXCEPT !.page = nr].pending = pending
  BY <1>2
<1>11. [p EXCEPT !.on = sets].on = sets /\ [p EXCEPT !.on = sets].pending = pending
  BY <1>2
<1>12. CASE p.pending
  <2>1. q = [p EXCEPT !.pending = FALSE]
    BY <1>3, <1>12 DEF q
  <2>2. q.pending = FALSE
    BY <1>6, <2>1, Zenon
  <2>3. QED
    BY <1>12, <2>2 DEF q
<1>13. CASE ~p.pending /\ byte \in TakesArgument
  <2>1. q = [p EXCEPT !.pending = TRUE]
    BY <1>3, <1>13 DEF q
  <2>2. q.pending = TRUE
    BY <1>7, <2>1, Zenon
  <2>3. byte # 175
    BY <1>13 DEF TakesArgument
  <2>4. QED
    BY <1>13, <2>2, <2>3 DEF q
<1>14. CASE ~p.pending /\ byte \notin TakesArgument
  <2>1. pending = FALSE
    BY <1>1, <1>14 DEF pending
  <2>2. /\ q.pending = FALSE
        /\ byte = 175 => q.on
        /\ byte # 174 => q.on = on \/ q.on
    <3>1. CASE q = [p EXCEPT !.col = low] /\ byte \in 0..15
      <4>1. q.pending = pending /\ q.on = on /\ byte # 175
        BY <1>5, <1>8, <3>1
      <4>2. QED
        BY <2>1, <4>1
    <3>2. CASE q = [p EXCEPT !.col = high] /\ byte \in 16..23
      <4>1. q.pending = pending /\ q.on = on /\ byte # 175
        BY <1>5, <1>9, <3>2
      <4>2. QED
        BY <2>1, <4>1
    <3>3. CASE q = [p EXCEPT !.page = nr] /\ byte \in 176..183
      <4>1. q.pending = pending /\ q.on = on /\ byte # 175
        BY <1>5, <1>10, <3>3
      <4>2. QED
        BY <2>1, <4>1
    <3>4. CASE q = [p EXCEPT !.on = sets] /\ byte \in {174, 175}
      <4>1. q.pending = pending /\ q.on = sets
        BY <1>11, <3>4, Zenon
      <4>2. byte = 175 => sets = TRUE
        BY DEF sets
      <4>3. byte # 174 => byte = 175
        BY <3>4
      <4>4. QED
        BY <2>1, <4>1, <4>2, <4>3
    <3>5. CASE q = p /\ byte \notin {174, 175}
      BY <2>1, <3>5 DEF on, pending
    <3>6. QED
      BY <1>4, <1>14, <3>1, <3>2, <3>3, <3>4, <3>5 DEF q, sets
  <2>3. byte # 174 /\ p.on => q.on
    BY <1>1, <2>2 DEF on
  <2>4. QED
    BY <1>14, <2>2, <2>3 DEF q
<1>15. QED
  BY <1>12, <1>13, <1>14

(* A byte of data changes neither of them.                                  *)
LEMMA DataFields ==
  ASSUME NEW p \in Panels, NEW byte
  PROVE  Data(p, byte).on = p.on /\ Data(p, byte).pending = p.pending
<1> DEFINE ram == [c \in Cells |-> IF c = <<p.page, p.col>> THEN byte ELSE p.ram[c]]
           col == (p.col + 1) % COLUMNS
<1>1. p = [page |-> p.page, col |-> p.col, ram |-> p.ram, on |-> p.on, pending |-> p.pending]
  BY DEF Panels
<1>2. Data(p, byte) = [p EXCEPT !.ram = ram, !.col = col]
  BY DEF Data
<1> HIDE DEF ram, col
<1>3. QED
  BY <1>1, <1>2

(* Filling the screen leaves it on, and leaves no command half given.       *)
LEMMA FillFields ==
  ASSUME NEW p \in Panels, p.on, ~p.pending, NEW w \in Fills
  PROVE  Apply(p, w).on /\ ~ Apply(p, w).pending
<1>1. CASE \E b \in (176..183) \cup {0, 16} : w = CMD(b)
  <2>1. PICK b \in (176..183) \cup {0, 16} : w = CMD(b)
    BY <1>1
  <2>2. b \in Byte /\ b \notin TakesArgument \cup {174} /\ b % 256 = b
    BY DEF Byte, TakesArgument
  <2>3. w = <<b, OLED_CMD>>
    BY <2>1, <2>2 DEF CMD, Uint8
  <2>4. Apply(p, w) = Command(p, b)
    BY <2>3 DEF Apply
  <2>5. b \in Byte
    BY <2>2
  <2>6. b \notin TakesArgument /\ b \notin TakesArgument \cup {174}
    BY <2>2
  <2> DEFINE q == Command(p, b)
  <2>7. /\ q.pending = (~p.pending /\ b \in TakesArgument)
        /\ ~p.pending /\ b \notin TakesArgument \cup {174} /\ p.on => q.on
    BY <2>5, CommandFields
  <2> HIDE DEF q
  <2>8. q.on /\ ~q.pending
    BY <2>6, <2>7, Zenon
  <2>9. QED
    BY <2>4, <2>8 DEF q
<1>2. CASE \E b \in Byte : w = DATA(b)
  <2>1. PICK b \in Byte : w = DATA(b)
    BY <1>2
  <2>2. w[2] # OLED_CMD
    BY <2>1 DEF DATA, OLED_CMD, OLED_DATA
  <2>3. Apply(p, w) = Data(p, w[1])
    BY <2>2 DEF Apply
  <2>4. QED
    BY <2>3, DataFields
<1>3. QED
  BY <1>1, <1>2 DEF Fills

-----------------------------------------------------------------------------
(* The settings of two bytes, by the place of the first.                    *)
ArgAt == {6, 10, 13, 15, 17, 19, 21, 23, 25}

(* The settings of OLED_Init(), by place: which of them announce an         *)
(* argument, and that the last one is 175, display on.                      *)
LEMMA SettingAt ==
  ASSUME NEW i \in 1..27
  PROVE  /\ Settings[i] \in Byte
         /\ i \in ArgAt => Settings[i] \in TakesArgument /\ i - 1 \notin ArgAt
         /\ i \notin ArgAt /\ i - 1 \notin ArgAt => Settings[i] \notin TakesArgument
         /\ i = 27 => Settings[i] = 175 /\ i - 1 \notin ArgAt
<1> DEFINE t == Settings
<1>1. t \in Seq(Byte) /\ Len(t) = 27
  BY SettingsTyped
<1>2. /\ t[1] = 174 /\ t[2] = 0 /\ t[3] = 16 /\ t[4] = 64 /\ t[5] = 176 /\ t[6] = 129
      /\ t[8] = 161 /\ t[9] = 166 /\ t[10] = 168 /\ t[12] = 200 /\ t[13] = 211
      /\ t[15] = 213 /\ t[17] = 216 /\ t[19] = 217 /\ t[21] = 218 /\ t[23] = 219
      /\ t[25] = 141 /\ t[27] = 175
  BY DEF Settings
<1> HIDE DEF t
<1>3. t[i] \in Byte
  <2> DEFINE n == 27
  <2>1. Len(t) = n /\ i \in 1..n
    BY <1>1
  <2> HIDE DEF n
  <2>2. QED
    BY <1>1, <2>1
<1>4. i \in ArgAt => t[i] \in TakesArgument /\ i - 1 \notin ArgAt
  BY <1>2 DEF ArgAt, TakesArgument
<1>5. i \notin ArgAt /\ i - 1 \notin ArgAt => i \in {1, 2, 3, 4, 5, 8, 9, 12, 27}
  BY DEF ArgAt
<1>6. i \in {1, 2, 3, 4, 5, 8, 9, 12, 27} => t[i] \notin TakesArgument
  BY <1>2 DEF TakesArgument
<1>7. i = 27 => t[i] = 175 /\ i - 1 \notin ArgAt
  BY <1>2 DEF ArgAt
<1>8. QED
  BY <1>3, <1>4, <1>5, <1>6, <1>7 DEF t

(* The state of the controller after d writes of OLED_Init().               *)
SetUp(p, d) ==
  /\ d \in 1..27 => (p.pending <=> d \in ArgAt)
  /\ d >= 27 => p.on /\ ~p.pending

(* The next write of OLED_Init(): whatever the first one meets, an argument *)
(* is taken for one and a command for a command (NPDOLED.cpp:21-59).        *)
LEMMA SetUpNext ==
  ASSUME NEW c \in Calls, c.fn = "Init", NEW d \in Nat, d < Len(Program[c]),
         NEW p \in Panels, SetUp(p, d)
  PROVE  SetUp(Apply(p, Program[c][d + 1]), d + 1)
<1> DEFINE w == Program[c][d + 1]
           q == Apply(p, w)
           l == Len(Program[c])
           i == d + 1
<1>1. /\ \A j \in 1..27 : Program[c][j] = CMD(Settings[j])
      /\ \A j \in 28..l : Program[c][j] \in Fills
  BY InitProgram
<1>2. l \in Nat /\ d < l
  <2>1. Program[c] \in Seq(Writes)
    BY ProgramTyped
  <2>2. QED
    BY <2>1
<1> HIDE DEF l
<1>3. CASE d >= 27
  <2>1. i \in 28..l
    BY <1>2, <1>3
  <2>2. w \in Fills
    BY <1>1, <2>1
  <2>3. p.on /\ ~p.pending
    BY <1>3 DEF SetUp
  <2> HIDE DEF w
  <2>4. q.on /\ ~q.pending
    BY <2>2, <2>3, FillFields
  <2>5. i \notin 1..27
    BY <1>3
  <2> HIDE DEF q, i
  <2>6. QED
    BY <2>4, <2>5 DEF SetUp, q, i, w
<1>4. CASE d < 27
  <2> DEFINE b == Settings[i]
  <2>1. i \in 1..27
    BY <1>4
  <2>2. b \in Byte /\ w = CMD(b)
    BY <1>1, <2>1, SettingAt
  <2>3. /\ i \in ArgAt => b \in TakesArgument /\ d \notin ArgAt
        /\ i \notin ArgAt /\ d \notin ArgAt => b \notin TakesArgument
        /\ i = 27 => b = 175 /\ d \notin ArgAt
    <3>1. i - 1 = d
      OBVIOUS
    <3> HIDE DEF i
    <3>2. /\ i \in ArgAt => Settings[i] \in TakesArgument /\ i - 1 \notin ArgAt
          /\ i \notin ArgAt /\ i - 1 \notin ArgAt => Settings[i] \notin TakesArgument
          /\ i = 27 => Settings[i] = 175 /\ i - 1 \notin ArgAt
      BY <2>1, SettingAt
    <3>3. QED
      BY <3>1, <3>2
  <2>4. d = 0 \/ (p.pending <=> d \in ArgAt)
    BY <1>4 DEF SetUp
  <2>5. d = 0 => i \notin ArgAt /\ d \notin ArgAt /\ i # 27
    BY DEF ArgAt
  <2> HIDE DEF b, w
  <2>6. b % 256 = b
    BY <2>2 DEF Byte
  <2>7. q = Command(p, b)
    BY <2>2, <2>6 DEF Apply, CMD, Uint8
  <2> HIDE DEF q, i
  <2>8. /\ q.pending = (~p.pending /\ b \in TakesArgument)
        /\ ~p.pending /\ b = 175 => q.on
    BY <2>2, <2>7, CommandFields
  <2>9. q.pending <=> i \in ArgAt
    <3>1. CASE d = 0
      BY <2>3, <2>5, <2>8, <3>1
    <3>2. CASE d # 0
      <4>1. p.pending <=> d \in ArgAt
        BY <2>4, <3>2
      <4>2. CASE d \in ArgAt
        BY <2>3, <2>8, <4>1, <4>2
      <4>3. CASE d \notin ArgAt
        BY <2>3, <2>8, <4>1, <4>3
      <4>4. QED
        BY <4>2, <4>3
    <3>3. QED
      BY <3>1, <3>2
  <2>10. i = 27 => q.on /\ ~q.pending
    <3>1. SUFFICES ASSUME i = 27 PROVE q.on /\ ~q.pending
      OBVIOUS
    <3>2. b = 175 /\ d \notin ArgAt /\ d # 0
      BY <2>3, <2>5, <3>1
    <3>3. ~p.pending
      BY <2>4, <3>2
    <3>4. i \notin ArgAt
      BY <3>1 DEF ArgAt
    <3>5. QED
      BY <2>8, <2>9, <3>2, <3>3, <3>4
  <2>11. i >= 27 => i = 27
    BY <2>1
  <2>12. QED
    BY <2>9, <2>10, <2>11 DEF SetUp, q, i, w
<1>5. QED
  BY <1>3, <1>4

(* During OLED_Init() the controller follows the settings.                  *)
RecInv == call.fn = "Init" => SetUp(panel, DoneOf(sent, step))

(* A change of a line preserves it.                                         *)
LEMMA PinRecInv ==
  ASSUME IInv, RecInv, Pin
  PROVE  RecInv'
<1> DEFINE d == DoneOf(sent, step)
           d2 == DoneOf(sent', step')
           w == Program[call][sent + 1]
<1>1. TypeOK /\ LinesInv /\ Met
  BY DEF IInv
<1>2. /\ call \in Calls /\ sent \in Nat /\ sent < Len(Program[call]) /\ step \in 0..87
      /\ step = 87 => sent' = sent + 1 /\ step' = 0
      /\ step # 87 => sent' = sent /\ step' = step + 1
      /\ call' = call
  BY <1>1, PinParts
<1>3. /\ step = 0 => panel' = IF Awaits(receiver) THEN Apply(panel, Written(receiver)) ELSE panel
      /\ step = 83 => panel' = Apply(panel, w)
      /\ step \notin {0, 83} => panel' = panel
  BY <1>1, PinPanel, Zenon
<1>4. panel \in Panels
  BY <1>1 DEF TypeOK
<1> SUFFICES ASSUME call.fn = "Init" PROVE SetUp(panel', d2)
  BY <1>2 DEF RecInv
<1>5. SetUp(panel, d)
  BY DEF RecInv
<1>6. CASE step = 0 /\ Awaits(receiver)
  <2>1. receiver # Silent
    BY <1>6, SilentLeft
  <2>2. sent = 0
    <3>1. call # NoCall
      BY <1>2, NoCallIsNone
    <3>2. QED
      BY <1>1, <1>6, <2>1, <3>1 DEF Met
  <2>3. d2 = 0
    BY <1>2, <1>6, <2>2 DEF DoneOf
  <2> HIDE DEF d2
  <2>4. QED
    BY <2>3 DEF SetUp
<1>7. CASE step = 83
  <2>1. d = sent /\ d2 = sent + 1
    BY <1>2, <1>7 DEF DoneOf
  <2>2. SetUp(panel, sent)
    BY <1>5, <2>1
  <2> HIDE DEF d2
  <2>3. SetUp(Apply(panel, Program[call][sent + 1]), sent + 1)
    BY <1>2, <1>4, <2>2, SetUpNext
  <2>4. QED
    BY <1>3, <1>7, <2>1, <2>3
<1>8. CASE step # 83 /\ ~ (step = 0 /\ Awaits(receiver))
  <2>1. panel' = panel
    BY <1>3, <1>8
  <2>2. d2 = d
    <3>1. CASE step = 87
      BY <1>2, <3>1 DEF DoneOf
    <3>2. CASE step # 87
      BY <1>2, <1>8, <3>2 DEF DoneOf
    <3>3. QED
      BY <3>1, <3>2
  <2>3. QED
    BY <1>5, <2>1, <2>2
<1>9. QED
  BY <1>6, <1>7, <1>8

(* A call that begins preserves RecInv.                                     *)
LEMMA DrawRecInv ==
  ASSUME IInv, NEW c \in Calls, Draw(c)
  PROVE  RecInv'
<1>1. ~Writing /\ sent' = 0 /\ step' = step
  BY DEF Draw
<1>2. step' = 0
  BY <1>1 DEF IInv, TypeOK
<1>3. DoneOf(sent', step') = 0
  BY <1>1, <1>2 DEF DoneOf
<1>4. SetUp(panel', 0)
  BY DEF SetUp
<1>5. QED
  BY <1>3, <1>4 DEF RecInv

(* Whatever a killed process left in the controller, OLED_Init() leaves it  *)
(* on, with no command half given and nothing on the bus                    *)
(* (NPDOLED.cpp:21-59, 203-218).                                            *)
THEOREM Recovers == Spec => []Recovered
<1>1. Init => RecInv
  <2>1. NoCall.fn # "Init"
    BY NoCallIsNone
  <2>2. QED
    BY <2>1 DEF Init, RecInv
<1>2. IInv /\ RecInv /\ [Next]_vars => RecInv'
  <2>1. SUFFICES ASSUME IInv, RecInv, [Next]_vars PROVE RecInv'
    OBVIOUS
  <2>2. CASE \E c \in Calls : Draw(c)
    <3>1. PICK c \in Calls : Draw(c)
      BY <2>2
    <3>2. QED
      BY <2>1, <3>1, DrawRecInv
  <2>3. CASE Pin
    BY <2>1, <2>3, PinRecInv
  <2>4. CASE Kill
    <3>1. call'.fn = "none"
      BY <2>4, NoCallIsNone DEF Kill
    <3>2. QED
      BY <3>1 DEF RecInv
  <2>5. CASE UNCHANGED vars
    BY <2>1, <2>5 DEF RecInv, vars
  <2>6. QED
    BY <2>1, <2>2, <2>3, <2>4, <2>5 DEF Next
<1>3. IInv /\ RecInv => Recovered
  <2>1. SUFFICES ASSUME IInv, RecInv, call.fn = "Init", ~Writing
                 PROVE  panel.on /\ ~panel.pending /\ receiver = Silent
    BY DEF Recovered
  <2>2. TypeOK /\ Met
    BY <2>1 DEF IInv
  <2>3. call # NoCall
    BY <2>1, NoCallIsNone
  <2>4. call \in Calls /\ sent \in Nat /\ step = 0
    BY <2>1, <2>2, <2>3 DEF TypeOK
  <2> DEFINE l == Len(Program[call])
  <2>5. l >= 27
    BY <2>1, <2>4, InitProgram
  <2>6. ~ (sent < l)
    BY <2>1, <2>3 DEF Writing
  <2>7. l \in Nat
    <3>1. Program[call] \in Seq(Writes)
      BY <2>4, ProgramTyped
    <3>2. QED
      BY <3>1
  <2> HIDE DEF l
  <2>8. sent >= 27 /\ sent # 0
    BY <2>4, <2>5, <2>6, <2>7
  <2>9. DoneOf(sent, step) = sent
    BY <2>4 DEF DoneOf
  <2>10. SetUp(panel, sent)
    BY <2>1, <2>9 DEF RecInv
  <2>11. panel.on /\ ~panel.pending
    BY <2>8, <2>10 DEF SetUp
  <2>12. receiver = Silent
    BY <2>2, <2>3, <2>4, <2>8 DEF Met
  <2>13. QED
    BY <2>11, <2>12
<1>4. QED
  BY <1>1, <1>2, <1>3, Inductive, PTL DEF Spec

-----------------------------------------------------------------------------
(* A segment: the cursor is set to page y, column x, and w bytes follow.    *)
(* Fill_picture() sets the two halves of column 0 the other way round.      *)
Segment(p, a, low, x, y, w, b) ==
  /\ p[a + 1] = CMD(176 + y)
  /\ ~low => p[a + 2] = CMD(16 + ((x \div 16) % 16)) /\ p[a + 3] = CMD(x % 16)
  /\ low => x = 0 /\ p[a + 2] = CMD(0) /\ p[a + 3] = CMD(16)
  /\ \A k \in 1..w : p[(a + 3) + k] = DATA(b[k])

(* Within a sequence that another one extends.                              *)
LEMMA SegmentLeft ==
  ASSUME NEW q, NEW p, NEW l \in Nat, NEW r, NEW n, Extends(q, p, l, r, n),
         NEW a \in Nat, NEW low, NEW x, NEW y, NEW w \in Nat, NEW b,
         Segment(p, a, low, x, y, w, b), a + 3 + w <= l
  PROVE  Segment(q, a, low, x, y, w, b)
<1>1. \A i \in 1..l : q[i] = p[i]
  BY ExtendsLeft
<1>2. a + 1 \in 1..l /\ a + 2 \in 1..l /\ a + 3 \in 1..l
  OBVIOUS
<1>3. ASSUME NEW k \in 1..w PROVE (a + 3) + k \in 1..l
  OBVIOUS
<1>4. q[a + 1] = p[a + 1] /\ q[a + 2] = p[a + 2] /\ q[a + 3] = p[a + 3]
  BY <1>1, <1>2
<1>5. \A k \in 1..w : q[(a + 3) + k] = p[(a + 3) + k]
  BY <1>1, <1>3
<1>6. QED
  BY <1>4, <1>5 DEF Segment

(* A row in the right part of a concatenation is a row of the whole,        *)
(* further behind.                                                          *)
LEMMA SegmentRight ==
  ASSUME NEW q, NEW p, NEW l \in Nat, NEW r, NEW n \in Nat, Extends(q, p, l, r, n),
         NEW a \in Nat, NEW low, NEW x, NEW y, NEW w \in Nat, NEW b,
         Segment(r, a, low, x, y, w, b), a + 3 + w <= n
  PROVE  Segment(q, l + a, low, x, y, w, b)
<1>1. \A i \in 1..n : q[l + i] = r[i]
  BY ExtendsRight
<1>2. a + 1 \in 1..n /\ a + 2 \in 1..n /\ a + 3 \in 1..n
  OBVIOUS
<1>3. /\ l + (a + 1) = (l + a) + 1 /\ l + (a + 2) = (l + a) + 2 /\ l + (a + 3) = (l + a) + 3
  OBVIOUS
<1>4. q[(l + a) + 1] = r[a + 1] /\ q[(l + a) + 2] = r[a + 2] /\ q[(l + a) + 3] = r[a + 3]
  BY <1>1, <1>2, <1>3
<1>5. ASSUME NEW k \in 1..w PROVE q[((l + a) + 3) + k] = r[(a + 3) + k]
  <2>1. (a + 3) + k \in 1..n /\ l + ((a + 3) + k) = ((l + a) + 3) + k
    OBVIOUS
  <2>2. QED
    BY <1>1, <2>1
<1>6. QED
  BY <1>4, <1>5 DEF Segment

(* Within one of the pieces of a flattened sequence.                        *)
LEMMA SegmentPiece ==
  ASSUME NEW q, NEW s, NEW n \in Nat, NEW m \in Nat, Lie(q, s, n, m), NEW i \in 1..n,
         NEW a \in Nat, NEW low, NEW x, NEW y, NEW w \in Nat, NEW b,
         Segment(s[i], a, low, x, y, w, b), a + 3 + w <= m
  PROVE  Segment(q, (i - 1) * m + a, low, x, y, w, b)
<1> DEFINE l == (i - 1) * m
           p == s[i]
<1>1. l \in Nat
  <2>1. i - 1 \in Nat
    OBVIOUS
  <2>2. QED
    BY <2>1
<1>2. \A r \in 1..m : q[l + r] = p[r]
  BY DEF Lie
<1> HIDE DEF l, p
<1>4. a + 1 \in 1..m /\ a + 2 \in 1..m /\ a + 3 \in 1..m
  OBVIOUS
<1>5. /\ l + (a + 1) = (l + a) + 1 /\ l + (a + 2) = (l + a) + 2 /\ l + (a + 3) = (l + a) + 3
  BY <1>1
<1>6. q[(l + a) + 1] = p[a + 1] /\ q[(l + a) + 2] = p[a + 2] /\ q[(l + a) + 3] = p[a + 3]
  BY <1>2, <1>4, <1>5
<1>7. ASSUME NEW k \in 1..w PROVE q[((l + a) + 3) + k] = p[(a + 3) + k]
  <2>1. (a + 3) + k \in 1..m /\ l + ((a + 3) + k) = ((l + a) + 3) + k
    BY <1>1
  <2>2. QED
    BY <1>2, <2>1
<1>8. Segment(p, a, low, x, y, w, b)
  BY DEF p
<1>9. Segment(q, l + a, low, x, y, w, b)
  BY <1>6, <1>7, <1>8 DEF Segment
<1>10. QED
  BY <1>9 DEF l

(* w bytes of a table, from a place on.                                     *)
Bytes(table, from, w) == [k \in 1..w |-> table[from + k]]

(* The cursor and a row of a picture are a segment.                         *)
IsRow(q, x, y, w, b) ==
  q \in Seq(Writes) /\ Len(q) = w + 3 /\ Segment(q, 0, FALSE, x, y, w, b)

(* OLED_Set_Pos() and the bytes that follow it draw a row.                  *)
LEMMA RowAt ==
  ASSUME NEW x \in Int, NEW y \in Int, NEW from \in Nat, NEW w \in Nat,
         NEW table, \A i \in 1..w : table[from + i] \in Byte
  PROVE  IsRow(OLED_Set_Pos(x, y) \o Glyph(table, from, w), x, y, w, Bytes(table, from, w))
<1> DEFINE a == OLED_Set_Pos(x, y)
           g == Glyph(table, from, w)
           q == a \o g
           l == 3
<1>1. a \in Seq(Writes) /\ g \in Seq(Writes)
  BY SetPosTyped, GlyphTyped DEF Closed
<1>2. /\ Len(a) = l
      /\ a[1] = CMD(176 + y) /\ a[2] = CMD(16 + ((x \div 16) % 16)) /\ a[3] = CMD(x % 16)
  BY DEF OLED_Set_Pos
<1>3. Len(g) = w /\ \A k \in 1..w : g[k] = DATA(table[from + k])
  BY DEF Glyph
<1> HIDE DEF a, g, l
<1>4. l \in Nat
  BY DEF l
<1>5. q \in Seq(Writes) /\ Len(q) = l + w /\ Extends(q, a, l, g, w)
  BY <1>1, <1>2, <1>3, <1>4, Joined
<1> HIDE DEF q
<1>6. \A i \in 1..3 : q[i] = a[i]
  BY <1>5, ExtendsLeft DEF l
<1>7. \A k \in 1..w : q[3 + k] = g[k]
  BY <1>5, ExtendsRight DEF l
<1>8. q[0 + 1] = a[1] /\ q[0 + 2] = a[2] /\ q[0 + 3] = a[3]
  BY <1>6
<1>9. \A k \in 1..w : q[(0 + 3) + k] = DATA(Bytes(table, from, w)[k])
  <2>1. ASSUME NEW k \in 1..w PROVE q[(0 + 3) + k] = DATA(Bytes(table, from, w)[k])
    <3>1. (0 + 3) + k = 3 + k
      OBVIOUS
    <3>2. q[3 + k] = DATA(table[from + k])
      BY <1>3, <1>7
    <3>3. Bytes(table, from, w)[k] = table[from + k]
      BY DEF Bytes
    <3>4. QED
      BY <3>1, <3>2, <3>3
  <2>2. QED
    BY <2>1
<1>10. Segment(q, 0, FALSE, x, y, w, Bytes(table, from, w))
  BY <1>2, <1>8, <1>9, Zenon DEF Segment
<1>11. Len(q) = w + 3
  BY <1>4, <1>5 DEF l
<1>12. QED
  BY <1>5, <1>10, <1>11 DEF IsRow, q, a, g

(* h rows of a picture, one below the other.                                *)
Rect(p, a, low, x, y, w, h, t) ==
  \A r \in 0..h - 1 : Segment(p, a + r * (w + 3), low, x, y + r, w, Bytes(t, r * w, w))

(* Writes that draw w columns of h pages, at x and y, from the bytes t.     *)
IsRect(p, x, y, w, h, t) ==
  p \in Seq(Writes) /\ Len(p) = h * (w + 3) /\ Rect(p, 0, FALSE, x, y, w, h, t)

(* One row is a rectangle one page high.                                    *)
LEMMA OneRow ==
  ASSUME NEW w \in Nat, NEW x, NEW y \in Int, NEW t, NEW q, IsRow(q, x, y, w, Bytes(t, 0, w))
  PROVE  IsRect(q, x, y, w, 1, t)
<1>1. ASSUME NEW r \in 0..1 - 1
      PROVE  Segment(q, 0 + r * (w + 3), FALSE, x, y + r, w, Bytes(t, r * w, w))
  <2>1. r * w = 0 /\ y + r = y /\ 0 + r * (w + 3) = 0
    OBVIOUS
  <2>2. QED
    BY <2>1 DEF IsRow
<1>2. Rect(q, 0, FALSE, x, y, w, 1, t)
  BY <1>1 DEF Rect
<1>3. Len(q) = 1 * (w + 3)
  BY DEF IsRow
<1>4. QED
  BY <1>2, <1>3 DEF IsRect, IsRow

(* Two rows, the second a page below the first, are a rectangle.            *)
LEMMA TwoRows ==
  ASSUME NEW w \in Nat, NEW x, NEW y \in Int, NEW t,
         NEW q, IsRow(q, x, y, w, Bytes(t, 0, w)),
         NEW r, IsRow(r, x, y + 1, w, Bytes(t, w, w))
  PROVE  IsRect(q \o r, x, y, w, 2, t)
<1> DEFINE n == w + 3
           z == 0
           u == q \o r
           b == Bytes(t, 0, w)
           b2 == Bytes(t, w, w)
<1>1. n \in Nat /\ z \in Nat /\ z + 3 + w <= n /\ n + z = n
  OBVIOUS
<1>2. /\ q \in Seq(Writes) /\ Len(q) = n /\ Segment(q, z, FALSE, x, y, w, b)
      /\ r \in Seq(Writes) /\ Len(r) = n /\ Segment(r, z, FALSE, x, y + 1, w, b2)
  BY DEF IsRow
<1> HIDE DEF n, z, b, b2
<1>3. u \in Seq(Writes) /\ Len(u) = n + n /\ Extends(u, q, n, r, n)
  BY <1>1, <1>2, Joined
<1> HIDE DEF u
<1>4. Segment(u, z, FALSE, x, y, w, b)
  BY <1>1, <1>2, <1>3, SegmentLeft
<1>5. Segment(u, n + z, FALSE, x, y + 1, w, b2)
  BY <1>1, <1>2, <1>3, SegmentRight
<1>6. Segment(u, n, FALSE, x, y + 1, w, b2)
  BY <1>1, <1>5
<1>7. ASSUME NEW i \in 0..2 - 1
      PROVE  Segment(u, 0 + i * (w + 3), FALSE, x, y + i, w, Bytes(t, i * w, w))
  <2>0. i = 0 \/ i = 1
    OBVIOUS
  <2>1. CASE i = 0
    <3>1. i * w = 0 /\ y + i = y /\ 0 + i * (w + 3) = 0
      BY <2>1
    <3>2. QED
      BY <1>4, <3>1 DEF z, b
  <2>2. CASE i = 1
    <3>1. i * w = w /\ y + i = y + 1 /\ 0 + i * (w + 3) = w + 3
      BY <2>2
    <3>2. QED
      BY <1>6, <3>1 DEF n, b2
  <2>3. QED
    BY <2>0, <2>1, <2>2, Zenon
<1>8. Len(u) = 2 * (w + 3)
  BY <1>3 DEF n
<1>9. Rect(u, 0, FALSE, x, y, w, 2, t)
  BY <1>7 DEF Rect
<1>10. QED
  BY <1>3, <1>8, <1>9 DEF IsRect, u

(* Two positions, each with bytes behind it, draw a rectangle two pages     *)
(* high.                                                                    *)
LEMMA TwoRowsAt ==
  ASSUME NEW x \in Int, NEW y \in Int, NEW w \in Nat, NEW t,
         NEW t1, NEW f1 \in Nat, NEW t2, NEW f2 \in Nat,
         \A i \in 1..w : t1[f1 + i] \in Byte /\ t1[f1 + i] = t[0 + i],
         \A i \in 1..w : t2[f2 + i] \in Byte /\ t2[f2 + i] = t[w + i]
  PROVE  IsRect(OLED_Set_Pos(x, y) \o Glyph(t1, f1, w)
                  \o OLED_Set_Pos(x, y + 1) \o Glyph(t2, f2, w), x, y, w, 2, t)
<1> DEFINE a1 == OLED_Set_Pos(x, y)
           a2 == OLED_Set_Pos(x, y + 1)
           g1 == Glyph(t1, f1, w)
           g2 == Glyph(t2, f2, w)
           q == a1 \o g1
           r == a2 \o g2
<1>1. y + 1 \in Int
  OBVIOUS
<1>2. a1 \in Seq(Writes) /\ a2 \in Seq(Writes)
  BY <1>1, SetPosTyped DEF Closed
<1>3. g1 \in Seq(Writes) /\ g2 \in Seq(Writes)
  BY GlyphTyped DEF Closed
<1>4. IsRow(q, x, y, w, Bytes(t1, f1, w))
  BY RowAt
<1>5. IsRow(r, x, y + 1, w, Bytes(t2, f2, w))
  BY <1>1, RowAt
<1>6. Bytes(t1, f1, w) = Bytes(t, 0, w) /\ Bytes(t2, f2, w) = Bytes(t, w, w)
  BY DEF Bytes
<1>7. IsRect(q \o r, x, y, w, 2, t)
  <2> HIDE DEF q, r
  <2>1. QED
    BY <1>4, <1>5, <1>6, TwoRows
<1> HIDE DEF a1, a2, g1, g2
<1>8. q \in Seq(Writes)
  BY <1>2, <1>3, ConcatProperties
<1>9. (q \o a2) \o g2 = q \o (a2 \o g2)
  <2> DEFINE S == Writes
  <2>1. q \in Seq(S) /\ a2 \in Seq(S) /\ g2 \in Seq(S)
    BY <1>2, <1>3, <1>8
  <2> HIDE DEF q, S
  <2>2. QED
    BY <2>1, ConcatAssociative
<1>10. QED
  BY <1>7, <1>9 DEF a1, a2, g1, g2

(* The pages a character takes, its columns, and the pictures of its size.  *)
Rows(csize) == IF csize = 16 THEN 2 ELSE 1
Wide(csize) == IF csize = 16 THEN 8 ELSE 6
Font(csize) == IF csize = 16 THEN OLED_F8X16 ELSE OLED_F6x8

(* A character that begins on the screen is drawn where the call says.      *)
LEMMA ShowCharAt ==
  ASSUME NEW x \in Nat, x <= COLUMNS - 1, NEW y \in Int, NEW csize, NEW c \in Characters(csize)
  PROVE  IsRect(OLED_ShowChar(x, y, c, csize), x, y, Wide(csize), Rows(csize), Font(csize)[c])
<1> DEFINE p == OLED_ShowChar(x, y, c, csize)
<1>1. ~ (x > COLUMNS - 1) /\ x \in Int
  BY ScreenAssumption
<1>2. CASE csize = 16
  <2> DEFINE t == OLED_F8X16[c]
             w == 8
  <2>1. p = OLED_Set_Pos(x, y) \o Glyph(t, 0, w) \o OLED_Set_Pos(x, y + 1) \o Glyph(t, w, w)
    BY <1>1, <1>2 DEF OLED_ShowChar
  <2>2. \A i \in 1..16 : t[i] \in Byte
    <3>1. c \in 0..94
      BY <1>2 DEF Characters
    <3>2. t \in [1..16 -> Byte]
      BY <3>1, FontsAssumption
    <3> HIDE DEF t
    <3>3. QED
      BY <3>2
  <2>3. \A i \in 1..w : t[0 + i] \in Byte /\ t[w + i] \in Byte
    BY <2>2
  <2>4. w \in Nat /\ 0 \in Nat
    OBVIOUS
  <2>5. Rows(csize) = 2 /\ Wide(csize) = w /\ Font(csize)[c] = t
    BY <1>2 DEF Rows, Wide, Font
  <2> HIDE DEF t, w, p
  <2>6. IsRect(OLED_Set_Pos(x, y) \o Glyph(t, 0, w) \o OLED_Set_Pos(x, y + 1) \o Glyph(t, w, w),
               x, y, w, 2, t)
    BY <1>1, <2>3, <2>4, TwoRowsAt
  <2>7. QED
    BY <2>1, <2>5, <2>6 DEF p
<1>3. CASE csize # 16
  <2> DEFINE t == OLED_F6x8[c]
             w == 6
  <2>1. p = OLED_Set_Pos(x, y) \o Glyph(t, 0, w)
    BY <1>1, <1>3 DEF OLED_ShowChar
  <2>2. \A i \in 1..w : t[0 + i] \in Byte
    <3>1. c \in 0..91
      BY <1>3 DEF Characters
    <3>2. t \in [1..6 -> Byte]
      BY <3>1, FontsAssumption
    <3> HIDE DEF t
    <3>3. QED
      BY <3>2
  <2>3. w \in Nat /\ 0 \in Nat
    OBVIOUS
  <2>4. Rows(csize) = 1 /\ Wide(csize) = w /\ Font(csize)[c] = t
    BY <1>3 DEF Rows, Wide, Font
  <2> HIDE DEF t, w, p
  <2>5. IsRow(OLED_Set_Pos(x, y) \o Glyph(t, 0, w), x, y, w, Bytes(t, 0, w))
    BY <1>1, <2>2, <2>3, RowAt
  <2>6. IsRect(p, x, y, w, 1, t)
    BY <2>1, <2>3, <2>5, OneRow
  <2>7. QED
    BY <2>4, <2>6 DEF p
<1>4. QED
  BY <1>2, <1>3

(* A function on 1..n is a sequence of n elements.                          *)
LEMMA Listed ==
  ASSUME NEW n \in Nat, NEW S, NEW f \in [1..n -> S]
  PROVE  f \in Seq(S) /\ Len(f) = n
OBVIOUS

(* OLED_ShowChinese() draws a rectangle 16 columns wide and two pages high. *)
LEMMA ShowChineseAt ==
  ASSUME NEW x \in Int, NEW y \in Int, NEW ch \in Nat,
         {2 * ch, 2 * ch + 1} \subseteq DOMAIN OLED_Hzk
  PROVE  IsRect(OLED_ShowChinese(x, y, ch), x, y, 16, 2, OLED_Hzk[2 * ch] \o OLED_Hzk[2 * ch + 1])
<1> DEFINE t1 == OLED_Hzk[2 * ch]
           t2 == OLED_Hzk[2 * ch + 1]
           t == t1 \o t2
           w == 16
<1>1. t1 \in [1..16 -> Byte] /\ t2 \in [1..16 -> Byte]
  <2> DEFINE i == 2 * ch
             j == 2 * ch + 1
  <2>1. i \in DOMAIN OLED_Hzk /\ j \in DOMAIN OLED_Hzk
    OBVIOUS
  <2> HIDE DEF i, j
  <2>2. OLED_Hzk[i] \in [1..16 -> Byte] /\ OLED_Hzk[j] \in [1..16 -> Byte]
    BY <2>1, FontsAssumption
  <2>3. QED
    BY <2>2 DEF i, j
<1>2. OLED_ShowChinese(x, y, ch) =
        OLED_Set_Pos(x, y) \o Glyph(t1, 0, w) \o OLED_Set_Pos(x, y + 1) \o Glyph(t2, 0, w)
  BY DEF OLED_ShowChinese
<1> HIDE DEF t1, t2
<1>3. t1 \in Seq(Byte) /\ t2 \in Seq(Byte) /\ Len(t1) = w /\ Len(t2) = w
  <2>1. w \in Nat /\ t1 \in [1..w -> Byte] /\ t2 \in [1..w -> Byte]
    BY <1>1
  <2> HIDE DEF w
  <2>2. QED
    BY <2>1, Listed
<1>4. w \in Nat /\ 0 \in Nat
  OBVIOUS
<1>5. \A i \in 1..w : t1[i] \in Byte /\ t2[i] \in Byte
  BY <1>1
<1>6. \A i \in 1..w : 0 + i = i
  OBVIOUS
<1> HIDE DEF w
<1>7. Extends(t, t1, w, t2, w)
  BY <1>3, <1>4, Joined
<1> HIDE DEF t
<1>8. (\A i \in 1..w : t[i] = t1[i]) /\ (\A i \in 1..w : t[w + i] = t2[i])
  BY <1>7, ExtendsLeft, ExtendsRight
<1>9. \A i \in 1..w : t1[0 + i] \in Byte /\ t1[0 + i] = t[0 + i]
  BY <1>5, <1>6, <1>8
<1>10. \A i \in 1..w : t2[0 + i] \in Byte /\ t2[0 + i] = t[w + i]
  BY <1>5, <1>6, <1>8
<1>11. IsRect(OLED_Set_Pos(x, y) \o Glyph(t1, 0, w) \o OLED_Set_Pos(x, y + 1) \o Glyph(t2, 0, w),
              x, y, w, 2, t)
  BY <1>4, <1>9, <1>10, TwoRowsAt
<1>12. QED
  BY <1>2, <1>11 DEF t, w, t1, t2

(* Within a sequence that another one extends.                              *)
LEMMA RectRight ==
  ASSUME NEW q, NEW p, NEW l \in Nat, NEW r, NEW n \in Nat, Extends(q, p, l, r, n),
         NEW a \in Nat, NEW low, NEW x, NEW y, NEW w \in Nat, NEW h \in Nat, NEW t,
         Rect(r, a, low, x, y, w, h, t), a + h * (w + 3) <= n
  PROVE  Rect(q, l + a, low, x, y, w, h, t)
<1> DEFINE m == w + 3
<1>1. ASSUME NEW i \in 0..h - 1
      PROVE  Segment(q, (l + a) + i * m, low, x, y + i, w, Bytes(t, i * w, w))
  <2> DEFINE b == Bytes(t, i * w, w)
             u == a + i * m
             v == y + i
  <2>1. i * m \in Nat /\ i * m + m <= h * m /\ h * m \in Nat
    <3>1. i \in Nat /\ m \in Nat /\ h - (i + 1) \in Nat
      OBVIOUS
    <3> HIDE DEF m
    <3>2. (h - (i + 1)) * m \in Nat /\ (h - (i + 1)) * m = h * m - (i * m + m)
      BY <3>1
    <3>3. i * m \in Nat /\ h * m \in Nat
      BY <3>1
    <3>4. QED
      BY <3>1, <3>2, <3>3
  <2>2. Segment(r, u, low, x, v, w, b)
    BY DEF Rect
  <2>3. u \in Nat /\ u + 3 + w <= n /\ l + u = (l + a) + i * m
    <3> DEFINE e == i * m
               f == h * m
    <3>1. e \in Nat /\ e + (w + 3) <= f /\ f \in Nat /\ a + f <= n
      BY <2>1
    <3> HIDE DEF e, f, m
    <3>2. QED
      BY <3>1 DEF e
  <2> HIDE DEF b, u, v, m
  <2>4. Segment(q, l + u, low, x, v, w, b)
    BY <2>2, <2>3, SegmentRight
  <2>5. QED
    BY <2>3, <2>4 DEF b, v
<1>2. QED
  BY <1>1 DEF Rect

(* Within one of the pieces of a flattened sequence.                        *)
LEMMA RectPiece ==
  ASSUME NEW q, NEW s, NEW n \in Nat, NEW w \in Nat, NEW h \in Nat,
         Lie(q, s, n, h * (w + 3)), NEW i \in 1..n,
         NEW low, NEW x, NEW y, NEW t, Rect(s[i], 0, low, x, y, w, h, t)
  PROVE  Rect(q, ((i - 1) * h) * (w + 3), low, x, y, w, h, t)
<1> DEFINE m == w + 3
           z == h * m
           o == ((i - 1) * h) * m
<1>1. m \in Nat /\ z \in Nat /\ o \in Nat /\ o = (i - 1) * z
  <2>1. m \in Nat /\ i - 1 \in Nat
    OBVIOUS
  <2> HIDE DEF m
  <2>2. z \in Nat /\ o = (i - 1) * z
    BY <2>1
  <2>3. (i - 1) * h \in Nat
    BY <2>1
  <2> DEFINE g == (i - 1) * h
  <2>4. g \in Nat /\ o = g * m
    BY <2>3
  <2> HIDE DEF g
  <2>5. o \in Nat
    BY <2>1, <2>4
  <2>6. QED
    BY <2>1, <2>2, <2>5
<1>2. ASSUME NEW r \in 0..h - 1
      PROVE  Segment(q, o + r * m, low, x, y + r, w, Bytes(t, r * w, w))
  <2> DEFINE b == Bytes(t, r * w, w)
             a == r * m
             v == y + r
  <2>1. a \in Nat /\ a + m <= z
    <3>1. r \in Nat /\ h - (r + 1) \in Nat
      OBVIOUS
    <3> HIDE DEF m
    <3>2. (h - (r + 1)) * m \in Nat /\ (h - (r + 1)) * m = h * m - (r * m + m)
      BY <1>1, <3>1
    <3>3. r * m \in Nat /\ h * m \in Nat
      BY <1>1, <3>1
    <3>4. QED
      BY <1>1, <3>2, <3>3
  <2>2. Segment(s[i], a, low, x, v, w, b)
    <3>1. 0 + a = a
      BY <2>1
    <3>2. QED
      BY <3>1 DEF Rect
  <2>3. Lie(q, s, n, z)
    OBVIOUS
  <2>4. a + 3 + w <= z
    <3> HIDE DEF a, z
    <3>1. QED
      BY <2>1, <1>1
  <2> HIDE DEF a, b, v, m, z
  <2>5. Segment(q, (i - 1) * z + a, low, x, v, w, b)
    BY <1>1, <2>1, <2>2, <2>3, <2>4, SegmentPiece
  <2>6. (i - 1) * z = o
    BY <1>1
  <2> HIDE DEF o
  <2>7. Segment(q, o + a, low, x, v, w, b)
    BY <2>5, <2>6
  <2>8. QED
    BY <2>7 DEF a, b, v
<1>3. QED
  BY <1>2 DEF Rect

(* Rows, one below the other.                                               *)
LEMMA RowsAt ==
  ASSUME NEW h \in Nat, h # 0, NEW w \in Nat, NEW s \in [1..h -> Seq(Writes)],
         NEW low, NEW x, NEW y \in Int, NEW t,
         \A i \in 1..h : /\ Len(s[i]) = w + 3
                         /\ Segment(s[i], 0, low, x, y + (i - 1), w, Bytes(t, (i - 1) * w, w))
  PROVE  Len(FlattenSeq(s)) = h * (w + 3) /\ Rect(FlattenSeq(s), 0, low, x, y, w, h, t)
<1> DEFINE m == w + 3
           q == FlattenSeq(s)
           z == 0
<1>1. m \in Nat /\ m # 0 /\ \A i \in 1..h : Len(s[i]) = m
  OBVIOUS
<1>2. Len(q) = h * m /\ Lie(q, s, h, m)
  <2> HIDE DEF m
  <2>1. QED
    BY <1>1, FlattenPieces
<1> HIDE DEF q
<1>3. ASSUME NEW r \in 0..h - 1
      PROVE  Segment(q, 0 + r * m, low, x, y + r, w, Bytes(t, r * w, w))
  <2> DEFINE i == r + 1
             v == y + r
             b == Bytes(t, r * w, w)
  <2>1. i \in 1..h /\ i - 1 = r
    OBVIOUS
  <2>2. Segment(s[i], 0, low, x, y + (i - 1), w, Bytes(t, (i - 1) * w, w))
    BY <2>1
  <2>3. Segment(s[i], z, low, x, v, w, b)
    <3> HIDE DEF i
    <3>1. QED
      BY <2>1, <2>2
  <2>4. z \in Nat /\ z + 3 + w <= m
    OBVIOUS
  <2> HIDE DEF i, v, b, m, z
  <2>5. Segment(q, (i - 1) * m + z, low, x, v, w, b)
    BY <1>1, <1>2, <2>1, <2>3, <2>4, SegmentPiece
  <2>6. (i - 1) * m + z = 0 + r * m
    BY <1>1, <2>1 DEF z
  <2>7. QED
    BY <2>5, <2>6 DEF v, b
<1>4. Rect(q, 0, low, x, y, w, h, t)
  BY <1>3 DEF Rect
<1>5. QED
  BY <1>2, <1>4 DEF q

-----------------------------------------------------------------------------
(* A drawing: o commands, and n boxes of h rows of w columns.               *)
Figure(p, o, low, w, h, n, B) ==
  /\ Len(p) = o + (n * h) * (w + 3)
  /\ \A i \in 1..n : Rect(p, o + ((i - 1) * h) * (w + 3), low, B[i].x, B[i].y, w, h, B[i].bytes)

(* Rectangles of one size, one behind the other, make a figure.             *)
LEMMA PiecesFigure ==
  ASSUME NEW n \in Nat, NEW w \in Nat, NEW h \in Nat, h # 0, NEW s \in [1..n -> Seq(Writes)],
         NEW B, \A i \in 1..n : IsRect(s[i], B[i].x, B[i].y, w, h, B[i].bytes)
  PROVE  Figure(FlattenSeq(s), 0, FALSE, w, h, n, B)
<1> DEFINE m == h * (w + 3)
           q == FlattenSeq(s)
<1>1. m \in Nat /\ m # 0
  <2> DEFINE k == w + 3
  <2>1. k \in Nat /\ k # 0
    OBVIOUS
  <2> HIDE DEF k
  <2>2. h * k \in Nat /\ h * k # 0
    BY <2>1
  <2>3. QED
    BY <2>2 DEF k
<1>2. CASE n = 0
  <2>1. Len(q) = 0
    <3>1. q = <<>>
      BY <1>2 DEF FlattenSeq
    <3>2. QED
      BY <3>1
  <2>2. 0 + (n * h) * (w + 3) = 0
    BY <1>2
  <2>3. 1..n = {}
    BY <1>2
  <2> HIDE DEF q
  <2>4. QED
    BY <2>1, <2>2, <2>3 DEF Figure, q
<1>3. CASE n # 0
  <2>1. \A i \in 1..n : Len(s[i]) = m
    BY DEF IsRect
  <2>2. Len(q) = n * m /\ Lie(q, s, n, m)
    <3> HIDE DEF m
    <3>1. QED
      BY <1>1, <1>3, <2>1, FlattenPieces
  <2> HIDE DEF q
  <2>3. ASSUME NEW i \in 1..n
        PROVE  Rect(q, 0 + ((i - 1) * h) * (w + 3), FALSE, B[i].x, B[i].y, w, h, B[i].bytes)
    <3> DEFINE a == ((i - 1) * h) * (w + 3)
    <3>1. Rect(s[i], 0, FALSE, B[i].x, B[i].y, w, h, B[i].bytes)
      BY DEF IsRect
    <3>2. Rect(q, a, FALSE, B[i].x, B[i].y, w, h, B[i].bytes)
      BY <2>2, <3>1, RectPiece
    <3>3. 0 + a = a
      <4>1. a \in Int
        OBVIOUS
      <4> HIDE DEF a
      <4>2. QED
        BY <4>1
    <3> HIDE DEF a
    <3>4. Rect(q, 0 + a, FALSE, B[i].x, B[i].y, w, h, B[i].bytes)
      BY <3>2, <3>3
    <3>5. QED
      BY <3>4 DEF a
  <2>4. n * m = 0 + (n * h) * (w + 3)
    OBVIOUS
  <2> HIDE DEF m
  <2>5. QED
    BY <2>2, <2>3, <2>4 DEF Figure, q
<1>4. QED
  BY <1>2, <1>3

(* A single box.                                                            *)
LEMMA BoxFigure ==
  ASSUME NEW w \in Nat, NEW h \in Nat, NEW p, NEW low, NEW b,
         Len(p) = h * (w + 3), Rect(p, 0, low, b.x, b.y, w, h, b.bytes)
  PROVE  Figure(p, 0, low, w, h, 1, [i \in 1..1 |-> b])
<1> DEFINE B == [i \in 1..1 |-> b]
<1>1. 0 + (1 * h) * (w + 3) = h * (w + 3)
  OBVIOUS
<1>2. ASSUME NEW i \in 1..1
      PROVE  Rect(p, 0 + ((i - 1) * h) * (w + 3), low, B[i].x, B[i].y, w, h, B[i].bytes)
  <2>1. B[i] = b
    OBVIOUS
  <2>2. 0 + ((i - 1) * h) * (w + 3) = 0
    <3>1. i - 1 = 0
      OBVIOUS
    <3>2. (i - 1) * h = 0
      BY <3>1
    <3>3. QED
      BY <3>2
  <2> HIDE DEF B
  <2>3. QED
    BY <2>1, <2>2
<1> HIDE DEF B
<1>3. Figure(p, 0, low, w, h, 1, B)
  BY <1>1, <1>2 DEF Figure
<1>4. QED
  BY <1>3 DEF B

(* The fields of a box.                                                     *)
LEMMA BoxIs ==
  ASSUME NEW x, NEW y, NEW w, NEW t
  PROVE  Box(x, y, w, t).x = x /\ Box(x, y, w, t).y = y /\ Box(x, y, w, t).w = w /\ Box(x, y, w, t).bytes = t
BY DEF Box

(* OLED_ShowBMP() draws one box, row by row.                                *)
LEMMA BMPFigure ==
  ASSUME NEW x0 \in Byte, NEW y0 \in Byte, NEW x1 \in Byte, NEW y1 \in Byte, x0 < x1, y0 < y1,
         NEW bmp \in Seq(Byte), Len(bmp) = (x1 - x0) * (y1 - y0)
  PROVE  Figure(OLED_ShowBMP(x0, y0, x1, y1, bmp), 0, FALSE, x1 - x0, y1 - y0, 1,
                [i \in 1..1 |-> Box(x0, y0, x1 - x0, bmp)])
<1> DEFINE w == x1 - x0
           h == y1 - y0
           s == [i \in 1..h |-> OLED_Set_Pos(x0, y0 + i - 1) \o Glyph(bmp, (i - 1) * w, w)]
           b == Box(x0, y0, w, bmp)
<1>0. x0 \in Int /\ y0 \in Int /\ x1 \in Int /\ y1 \in Int
  BY DEF Byte
<1>1. w \in Nat /\ h \in Nat /\ h # 0
  BY <1>0
<1>2. Len(bmp) = h * w
  BY <1>0
<1>3. OLED_ShowBMP(x0, y0, x1, y1, bmp) = FlattenSeq(s)
  BY DEF OLED_ShowBMP
<1> HIDE DEF w, h
<1>4. ASSUME NEW i \in 1..h
      PROVE  IsRow(s[i], x0, y0 + (i - 1), w, Bytes(bmp, (i - 1) * w, w))
  <2>1. y0 + i - 1 \in Int /\ y0 + i - 1 = y0 + (i - 1) /\ i - 1 \in Nat
    BY <1>0, <1>1
  <2> DEFINE from == (i - 1) * w
             y == y0 + i - 1
  <2>2. from \in Nat /\ y \in Int
    BY <1>1, <2>1
  <2>3. ASSUME NEW r \in 1..w PROVE bmp[from + r] \in Byte
    <3>1. from + r \in 1..h * w
      BY <1>1, Places
    <3>2. QED
      BY <1>2, <3>1
  <2>4. s[i] = OLED_Set_Pos(x0, y) \o Glyph(bmp, from, w)
    OBVIOUS
  <2> HIDE DEF from, y, s
  <2>5. IsRow(s[i], x0, y, w, Bytes(bmp, from, w))
    BY <1>0, <1>1, <2>2, <2>3, <2>4, RowAt
  <2>6. QED
    BY <2>1, <2>5 DEF from, y
<1>5. s \in [1..h -> Seq(Writes)]
  <2> DEFINE e(i) == OLED_Set_Pos(x0, y0 + i - 1) \o Glyph(bmp, (i - 1) * w, w)
  <2>1. \A i \in 1..h : e(i) \in Seq(Writes)
    BY <1>4 DEF IsRow
  <2> HIDE DEF e
  <2>2. [i \in 1..h |-> e(i)] \in [1..h -> Seq(Writes)]
    BY <2>1
  <2>3. QED
    BY <2>2 DEF e
<1>6. \A i \in 1..h : /\ Len(s[i]) = w + 3
                      /\ Segment(s[i], 0, FALSE, x0, y0 + (i - 1), w, Bytes(bmp, (i - 1) * w, w))
  BY <1>4 DEF IsRow
<1> DEFINE p == FlattenSeq(s)
<1>7. Len(p) = h * (w + 3) /\ Rect(p, 0, FALSE, x0, y0, w, h, bmp)
  <2> HIDE DEF s
  <2>1. QED
    BY <1>0, <1>1, <1>5, <1>6, RowsAt
<1>8. b.x = x0 /\ b.y = y0 /\ b.bytes = bmp
  BY BoxIs
<1> HIDE DEF b, p
<1>9. Rect(p, 0, FALSE, b.x, b.y, w, h, b.bytes)
  BY <1>7, <1>8
<1>10. Figure(p, 0, FALSE, w, h, 1, [i \in 1..1 |-> b])
  BY <1>1, <1>7, <1>9, BoxFigure
<1>11. QED
  BY <1>3, <1>10 DEF b, p, w, h

(* A screen of one byte.                                                    *)
Plain(d) == Box(0, 0, COLUMNS, [k \in 1..PAGES * COLUMNS |-> d])

(* Fill_picture() draws one box of the size of the screen.                  *)
LEMMA FillFigure ==
  ASSUME NEW d \in Byte
  PROVE  Figure(Fill_picture(d), 0, TRUE, COLUMNS, PAGES, 1, [i \in 1..1 |-> Plain(d)])
<1> DEFINE w == COLUMNS
           h == PAGES
           head(i) == <<CMD(175 + i), CMD(0), CMD(16)>>
           row == [n \in 1..w |-> DATA(d)]
           s == [i \in 1..h |-> head(i) \o row]
           t == [k \in 1..h * w |-> d]
<1>1. w \in Nat /\ h \in Nat /\ h # 0
  BY ScreenAssumption
<1>2. Fill_picture(d) = FlattenSeq(s)
  BY DEF Fill_picture
<1>3. row \in Seq(Writes) /\ Len(row) = w /\ \A k \in 1..w : row[k] = DATA(d)
  <2>1. DATA(d) \in Writes
    BY WriteTyped, ByteIsInt
  <2>2. row \in [1..w -> Writes]
    BY <2>1
  <2>3. \A k \in 1..w : row[k] = DATA(d)
    OBVIOUS
  <2> HIDE DEF row, w
  <2>4. QED
    BY <1>1, <2>2, <2>3, Listed
<1> HIDE DEF w, h, row, t
<1>4. ASSUME NEW i \in 1..h
      PROVE  /\ s[i] \in Seq(Writes) /\ Len(s[i]) = w + 3
             /\ Segment(s[i], 0, TRUE, 0, 0 + (i - 1), w, Bytes(t, (i - 1) * w, w))
  <2> DEFINE l == 3
             q == head(i)
             u == q \o row
             b == Bytes(t, (i - 1) * w, w)
             y == 0 + (i - 1)
  <2>1. q \in Seq(Writes)
    <3> DEFINE a == CMD(175 + i)
               e == CMD(0)
               f == CMD(16)
    <3>1. 175 + i \in Int
      OBVIOUS
    <3>2. a \in Writes /\ e \in Writes /\ f \in Writes
      BY <3>1, WriteTyped
    <3> HIDE DEF a, e, f
    <3>3. <<a, e, f>> \in Seq(Writes)
      BY <3>2
    <3>4. QED
      BY <3>3 DEF a, e, f
  <2>2. Len(q) = l /\ q[1] = CMD(175 + i) /\ q[2] = CMD(0) /\ q[3] = CMD(16) /\ l \in Nat
    OBVIOUS
  <2>3. s[i] = u
    OBVIOUS
  <2>4. 175 + i = 176 + y
    OBVIOUS
  <2>5. \A k \in 1..w : b[k] = d
    <3> DEFINE from == (i - 1) * w
    <3>1. ASSUME NEW k \in 1..w PROVE t[from + k] = d
      <4>1. from + k \in 1..h * w
        BY <1>1, Places
      <4> HIDE DEF from
      <4>2. QED
        BY <4>1 DEF t
    <3> HIDE DEF from
    <3>2. \A k \in 1..w : Bytes(t, from, w)[k] = d
      BY <3>1 DEF Bytes
    <3>3. QED
      BY <3>2 DEF from
  <2> HIDE DEF q, l, head, b, y
  <2>6. u \in Seq(Writes) /\ Len(u) = l + w /\ Extends(u, q, l, row, w)
    BY <1>1, <1>3, <2>1, <2>2, Joined
  <2> HIDE DEF u
  <2>7. (\A k \in 1..l : u[k] = q[k]) /\ (\A k \in 1..w : u[l + k] = row[k])
    BY <2>6, ExtendsLeft, ExtendsRight
  <2>8. u[0 + 1] = CMD(176 + y) /\ u[0 + 2] = CMD(0) /\ u[0 + 3] = CMD(16)
    <3>1. u[1] = q[1] /\ u[2] = q[2] /\ u[3] = q[3]
      BY <2>7 DEF l
    <3>2. QED
      BY <2>2, <2>4, <3>1
  <2>9. \A k \in 1..w : u[(0 + 3) + k] = DATA(b[k])
    BY <1>3, <2>5, <2>7 DEF l
  <2>10. Segment(u, 0, TRUE, 0, y, w, b)
    BY <2>8, <2>9, Zenon DEF Segment
  <2>11. Len(u) = w + 3
    BY <1>1, <2>6 DEF l
  <2>12. QED
    BY <2>3, <2>6, <2>10, <2>11 DEF b, y
<1>5. s \in [1..h -> Seq(Writes)]
  <2> DEFINE e(i) == head(i) \o row
  <2>1. \A i \in 1..h : e(i) \in Seq(Writes)
    BY <1>4
  <2> HIDE DEF e
  <2>2. [i \in 1..h |-> e(i)] \in [1..h -> Seq(Writes)]
    BY <2>1
  <2>3. QED
    BY <2>2 DEF e
<1> DEFINE p == FlattenSeq(s)
           b == Plain(d)
<1>6. Len(p) = h * (w + 3) /\ Rect(p, 0, TRUE, 0, 0, w, h, t)
  <2>1. \A i \in 1..h : /\ Len(s[i]) = w + 3
                        /\ Segment(s[i], 0, TRUE, 0, 0 + (i - 1), w, Bytes(t, (i - 1) * w, w))
    BY <1>4
  <2>2. 0 \in Int
    OBVIOUS
  <2> HIDE DEF s
  <2>3. QED
    BY <1>1, <1>5, <2>1, <2>2, RowsAt
<1>7. b.x = 0 /\ b.y = 0 /\ b.bytes = t
  BY BoxIs DEF Plain, t, w, h
<1> HIDE DEF b, p
<1>8. Rect(p, 0, TRUE, b.x, b.y, w, h, b.bytes)
  BY <1>6, <1>7
<1>9. Figure(p, 0, TRUE, w, h, 1, [i \in 1..1 |-> b])
  BY <1>1, <1>6, <1>8, BoxFigure
<1>10. QED
  BY <1>2, <1>9 DEF b, p, w, h

(* Behind other writes.                                                     *)
LEMMA FigureRight ==
  ASSUME NEW a \in Seq(Writes), NEW r \in Seq(Writes), NEW o \in Nat, Len(a) = o,
         NEW low, NEW w \in Nat, NEW h \in Nat, NEW n \in Nat, NEW B,
         Figure(r, 0, low, w, h, n, B)
  PROVE  Figure(a \o r, o, low, w, h, n, B)
<1> DEFINE q == a \o r
           m == w + 3
           l == (n * h) * m
<1>1. m \in Nat /\ n * h \in Nat
  OBVIOUS
<1>2. l \in Nat
  <2> DEFINE g == n * h
  <2> HIDE DEF m, g
  <2>1. g * m \in Nat
    BY <1>1 DEF g
  <2>2. QED
    BY <2>1 DEF g
<1>3. Len(r) = l
  <2>1. Len(r) = 0 + l
    BY DEF Figure
  <2> HIDE DEF l
  <2>2. QED
    BY <1>2, <2>1
<1>4. Len(q) = o + l /\ Extends(q, a, o, r, l)
  <2> HIDE DEF l
  <2>1. QED
    BY <1>2, <1>3, Joined
<1> HIDE DEF q
<1>5. ASSUME NEW i \in 1..n
      PROVE  Rect(q, o + ((i - 1) * h) * m, low, B[i].x, B[i].y, w, h, B[i].bytes)
  <2> DEFINE e == ((i - 1) * h) * m
             z == h * m
  <2>1. e \in Nat /\ e + z <= l
    <3>1. i - 1 \in Nat /\ n - i \in Nat
      OBVIOUS
    <3>2. z \in Nat
      <4> HIDE DEF m
      <4>1. QED
        BY <1>1
    <3> DEFINE j == i - 1
               k == n - i
    <3>3. j \in Nat /\ k \in Nat /\ n = j + 1 + k
      BY <3>1
    <3>4. e = j * z /\ l = n * z
      <4> HIDE DEF m
      <4>1. QED
        BY <1>1, <3>1
    <3> HIDE DEF j, k, e, l, z
    <3>5. j * z \in Nat /\ k * z \in Nat
      BY <3>2, <3>3
    <3>6. n * z = j * z + z + k * z
      BY <3>2, <3>3
    <3>7. QED
      BY <3>2, <3>4, <3>5, <3>6
  <2>2. Rect(r, 0 + e, low, B[i].x, B[i].y, w, h, B[i].bytes)
    BY DEF Figure
  <2>3. 0 + e = e /\ e + h * (w + 3) <= l
    <3>1. 0 + e = e
      <4> HIDE DEF e
      <4>1. QED
        BY <2>1
    <3>2. QED
      BY <2>1, <3>1
  <2> HIDE DEF e, l
  <2>4. Rect(r, e, low, B[i].x, B[i].y, w, h, B[i].bytes)
    BY <2>2, <2>3
  <2>5. Rect(q, o + e, low, B[i].x, B[i].y, w, h, B[i].bytes)
    BY <1>2, <1>4, <2>1, <2>3, <2>4, RectRight
  <2>6. QED
    BY <2>5 DEF e
<1>6. Figure(q, o, low, w, h, n, B)
  BY <1>4, <1>5 DEF Figure
<1>7. QED
  BY <1>6 DEF q

(* Behind its 27 settings OLED_Init() clears the screen.                    *)
LEMMA InitFigure ==
  Figure(OLED_Init, 27, TRUE, COLUMNS, PAGES, 1, [i \in 1..1 |-> Plain(0)])
<1> DEFINE a == [i \in DOMAIN Settings |-> CMD(Settings[i])]
           r == Fill_picture(0)
           o == 27
           w == COLUMNS
           h == PAGES
           n == 1
           B == [i \in 1..1 |-> Plain(0)]
<1>1. 0 \in Byte
  BY DEF Byte
<1>2. a \in Seq(Writes) /\ r \in Seq(Writes)
  BY <1>1, SetUpTyped, FillTyped DEF Closed
<1>3. Len(a) = o
  <2> DEFINE t == Settings
  <2>1. t \in Seq(Byte) /\ Len(t) = 27
    BY SettingsTyped
  <2> HIDE DEF t
  <2>2. DOMAIN t = 1..27
    BY <2>1
  <2>3. Len([i \in DOMAIN t |-> CMD(t[i])]) = 27
    BY <2>2
  <2>4. QED
    BY <2>3 DEF t
<1>4. Figure(r, 0, TRUE, w, h, n, B)
  BY <1>1, FillFigure
<1>5. w \in Nat /\ h \in Nat /\ o \in Nat /\ n \in Nat
  BY ScreenAssumption
<1>6. OLED_Init = a \o r
  BY DEF OLED_Init, OLED_Clear
<1> HIDE DEF a, r, o, w, h, n, B
<1>7. Figure(a \o r, o, TRUE, w, h, n, B)
  BY <1>2, <1>3, <1>4, <1>5, FigureRight
<1>8. QED
  BY <1>6, <1>7 DEF o, w, h, n, B

(* A box of w columns and h pages on the screen.                            *)
Boxed(b, w, h) ==
  /\ b.w = w /\ b.x \in Nat /\ b.y \in Nat /\ b.x + w <= COLUMNS /\ b.y + h <= PAGES
  /\ b.bytes \in Seq(Byte) /\ Len(b.bytes) = h * w

(* A product divided by a factor.                                           *)
LEMMA Quotient ==
  ASSUME NEW h \in Nat, NEW w \in Nat, w # 0
  PROVE  (h * w) \div w = h
OBVIOUS

(* A box of whole rows that is on the screen.                               *)
LEMMA BoxedIs ==
  ASSUME NEW x \in Nat, NEW y \in Nat, NEW w \in Nat, w # 0, NEW h \in Nat,
         NEW t \in Seq(Byte), Len(t) = h * w, NEW b, b = Box(x, y, w, t),
         b.x + b.w <= COLUMNS, b.y + (Len(b.bytes) \div b.w) <= PAGES
  PROVE  Boxed(b, w, h)
<1>1. b.x = x /\ b.y = y /\ b.w = w /\ b.bytes = t
  BY BoxIs
<1>2. Len(b.bytes) \div b.w = h
  BY <1>1, Quotient
<1>3. QED
  BY <1>1, <1>2 DEF Boxed

(* The size of a character and its picture.                                 *)
LEMMA FontIs ==
  ASSUME NEW csize, NEW c \in Characters(csize)
  PROVE  /\ Wide(csize) \in {6, 8} /\ Rows(csize) \in {1, 2}
         /\ Font(csize)[c] \in Seq(Byte) /\ Len(Font(csize)[c]) = Rows(csize) * Wide(csize)
<1>1. CASE csize = 16
  <2> DEFINE n == 16
             t == OLED_F8X16[c]
  <2>1. c \in 0..94
    BY <1>1 DEF Characters
  <2>2. t \in [1..n -> Byte] /\ n \in Nat
    BY <2>1, FontsAssumption
  <2>3. Rows(csize) = 2 /\ Wide(csize) = 8 /\ Font(csize)[c] = t /\ n = 2 * 8
    BY <1>1 DEF Rows, Wide, Font
  <2> HIDE DEF t, n
  <2>4. t \in Seq(Byte) /\ Len(t) = n
    BY <2>2, Listed
  <2>5. QED
    BY <2>3, <2>4
<1>2. CASE csize # 16
  <2> DEFINE n == 6
             t == OLED_F6x8[c]
  <2>1. c \in 0..91
    BY <1>2 DEF Characters
  <2>2. t \in [1..n -> Byte] /\ n \in Nat
    BY <2>1, FontsAssumption
  <2>3. Rows(csize) = 1 /\ Wide(csize) = 6 /\ Font(csize)[c] = t /\ n = 1 * 6
    BY <1>2 DEF Rows, Wide, Font
  <2> HIDE DEF t, n
  <2>4. t \in Seq(Byte) /\ Len(t) = n
    BY <2>2, Listed
  <2>5. QED
    BY <2>3, <2>4
<1>3. QED
  BY <1>1, <1>2

(* The box of a character.                                                  *)
LEMMA CharBoxIs ==
  ASSUME NEW x, NEW y, NEW c, NEW csize
  PROVE  CharBox(x, y, c, csize) = Box(x, y, Wide(csize), Font(csize)[c])
BY DEF CharBox, Wide, Font

(* Characters, each on the screen.                                          *)
OnScreen(b) == b.x + b.w <= COLUMNS /\ b.y + (Len(b.bytes) \div b.w) <= PAGES

(* OLED_ShowChar() draws the box of its character, if that is on the        *)
(* screen.                                                                  *)
LEMMA CharAt ==
  ASSUME NEW x \in Nat, NEW y \in Nat, NEW csize, NEW c \in Characters(csize),
         NEW b, b = CharBox(x, y, c, csize), OnScreen(b)
  PROVE  /\ Boxed(b, Wide(csize), Rows(csize))
         /\ IsRect(OLED_ShowChar(x, y, c, csize), b.x, b.y, Wide(csize), Rows(csize), b.bytes)
<1> DEFINE w == Wide(csize)
           h == Rows(csize)
           t == Font(csize)[c]
<1>1. w \in {6, 8} /\ h \in {1, 2} /\ t \in Seq(Byte) /\ Len(t) = h * w
  BY FontIs
<1>2. b = Box(x, y, w, t)
  BY CharBoxIs
<1>3. b.x = x /\ b.y = y /\ b.w = w /\ b.bytes = t
  BY <1>2, BoxIs
<1> HIDE DEF w, h, t
<1>4. w \in Nat /\ w # 0 /\ h \in Nat
  BY <1>1
<1>5. Boxed(b, w, h)
  BY <1>1, <1>2, <1>4, BoxedIs DEF OnScreen
<1>6. x <= COLUMNS - 1
  BY <1>3, <1>1, ScreenAssumption DEF OnScreen
<1>7. y \in Int
  OBVIOUS
<1>8. IsRect(OLED_ShowChar(x, y, c, csize), x, y, w, h, t)
  BY <1>6, <1>7, ShowCharAt DEF w, h, t
<1>9. QED
  BY <1>3, <1>5, <1>8 DEF w, h

(* Text: characters one after the other.                                    *)
LEMMA TextFigure ==
  ASSUME NEW n \in Nat, NEW csize, NEW X, NEW Y, NEW C,
         NEW B, B = [i \in 1..n |-> CharBox(X[i], Y[i], C[i], csize)],
         \A i \in 1..n : X[i] \in Nat /\ Y[i] \in Nat /\ C[i] \in Characters(csize),
         \A i \in 1..n : OnScreen(B[i]),
         NEW s, s = [i \in 1..n |-> OLED_ShowChar(X[i], Y[i], C[i], csize)]
  PROVE  /\ Figure(FlattenSeq(s), 0, FALSE, Wide(csize), Rows(csize), n, B)
         /\ \A i \in 1..n : Boxed(B[i], Wide(csize), Rows(csize))
<1> DEFINE w == Wide(csize)
           h == Rows(csize)
<1>1. ASSUME NEW i \in 1..n
      PROVE  Boxed(B[i], w, h) /\ IsRect(s[i], B[i].x, B[i].y, w, h, B[i].bytes)
  <2>1. s[i] = OLED_ShowChar(X[i], Y[i], C[i], csize) /\ B[i] = CharBox(X[i], Y[i], C[i], csize)
    OBVIOUS
  <2>2. X[i] \in Nat /\ Y[i] \in Nat /\ C[i] \in Characters(csize) /\ OnScreen(B[i])
    OBVIOUS
  <2>3. QED
    BY <2>1, <2>2, CharAt
<1>2. w \in Nat /\ h \in Nat /\ h # 0
  BY DEF Wide, Rows
<1> HIDE DEF w, h
<1>3. s \in [1..n -> Seq(Writes)]
  <2>1. \A i \in 1..n : s[i] \in Seq(Writes)
    BY <1>1 DEF IsRect
  <2>2. s = [i \in 1..n |-> s[i]]
    OBVIOUS
  <2>3. QED
    BY <2>1, <2>2
<1>4. \A i \in 1..n : IsRect(s[i], B[i].x, B[i].y, w, h, B[i].bytes)
  BY <1>1
<1>5. Figure(FlattenSeq(s), 0, FALSE, w, h, n, B)
  BY <1>2, <1>3, <1>4, PiecesFigure
<1>6. QED
  BY <1>1, <1>5 DEF w, h

(* Powers of ten are positive, each ten times the one before.               *)
LEMMA Ten ==
  ASSUME NEW e \in 0..10
  PROVE  10^e \in Nat \ {0} /\ (e # 10 => 10^(e + 1) = 10^e * 10)
<1>0. CASE e = 0 BY <1>0
<1>1. CASE e = 1 BY <1>1
<1>2. CASE e = 2 BY <1>2
<1>3. CASE e = 3 BY <1>3
<1>4. CASE e = 4 BY <1>4
<1>5. CASE e = 5 BY <1>5
<1>6. CASE e = 6 BY <1>6
<1>7. CASE e = 7 BY <1>7
<1>8. CASE e = 8 BY <1>8
<1>9. CASE e = 9 BY <1>9
<1>10. CASE e = 10 BY <1>10
<1>11. QED
  BY <1>0, <1>1, <1>2, <1>3, <1>4, <1>5, <1>6, <1>7, <1>8, <1>9, <1>10

(* Powers of ten grow.                                                      *)
LEMMA TenGrows ==
  ASSUME NEW i \in 0..10, NEW j \in 0..10, i <= j
  PROVE  10^i <= 10^j
<1> DEFINE T == {k \in Nat : i + k <= 10 => 10^i <= 10^(i + k)}
<1>1. 0 \in T
  <2>1. i + 0 = i
    OBVIOUS
  <2>2. 10^i \in Nat
    BY Ten
  <2> DEFINE a == 10^i
  <2>3. a <= a
    BY <2>2
  <2> HIDE DEF a
  <2>4. a <= 10^(i + 0)
    BY <2>1, <2>3 DEF a
  <2>5. QED
    BY <2>4 DEF a
<1>2. ASSUME NEW k \in Nat, k \in T PROVE k + 1 \in T
  <2> DEFINE e == i + k
  <2>1. i + (k + 1) = e + 1
    OBVIOUS
  <2>2. SUFFICES ASSUME e + 1 <= 10 PROVE 10^i <= 10^(e + 1)
    BY <2>1
  <2>3. e \in 0..10 /\ e # 10 /\ e <= 10
    BY <2>2
  <2>4. 10^i <= 10^e
    BY <1>2, <2>3
  <2> HIDE DEF e
  <2> DEFINE a == 10^i
             b == 10^e
             c == 10^(e + 1)
  <2>5. a \in Nat /\ b \in Nat /\ c = b * 10
    BY <2>3, Ten
  <2>6. a <= b
    BY <2>4
  <2> HIDE DEF a, b, c
  <2>7. a <= c
    BY <2>5, <2>6
  <2>8. QED
    BY <2>7 DEF a, c
<1>3. j - i \in T
  <2>1. 0 \in T /\ (\A k \in Nat : k \in T => k + 1 \in T)
    BY <1>1, <1>2
  <2> HIDE DEF T
  <2>2. j - i \in Nat
    OBVIOUS
  <2>3. QED
    BY <2>1, <2>2, Induction
<1>4. i + (j - i) = j
  OBVIOUS
<1>5. QED
  <2>1. i + (j - i) <= 10 => 10^i <= 10^(i + (j - i))
    BY <1>3
  <2>2. i + (j - i) <= 10
    BY <1>4
  <2> DEFINE k == i + (j - i)
  <2>3. 10^i <= 10^k /\ k = j
    BY <1>4, <2>1, <2>2
  <2> HIDE DEF k
  <2>4. QED
    BY <2>3

(* The digits of a number from the first on, down to that of 10^r.          *)
LEMMA Zeros ==
  ASSUME NEW num \in Nat, NEW len \in 1..10, num < 10^len, NEW r \in 0..len - 1
  PROVE  num < 10^r <=> \A e \in r..len - 1 : (num \div 10^e) % 10 = 0
<1>1. ASSUME num < 10^r, NEW e \in r..len - 1 PROVE (num \div 10^e) % 10 = 0
  <2> DEFINE a == 10^r
             b == 10^e
  <2>1. r \in 0..10 /\ e \in 0..10 /\ r <= e
    OBVIOUS
  <2>2. a <= b /\ a \in Nat \ {0} /\ b \in Nat \ {0} /\ num < a
    BY <1>1, <2>1, Ten, TenGrows
  <2> HIDE DEF a, b
  <2>3. num < b
    BY <2>2
  <2> DEFINE q == num \div b
  <2>4. q = 0
    BY <2>2, <2>3
  <2> HIDE DEF q
  <2>5. q % 10 = 0
    BY <2>4
  <2>6. QED
    BY <2>5 DEF q, b
<1>2. ASSUME \A e \in r..len - 1 : (num \div 10^e) % 10 = 0 PROVE num < 10^r
  <2> DEFINE T == {k \in Nat : k <= len - r => num < 10^(len - k)}
  <2>1. 0 \in T
    <3>1. len - 0 = len
      OBVIOUS
    <3> DEFINE k == len - 0
    <3>2. num < 10^k
      <4>1. k = len
        BY <3>1
      <4> HIDE DEF k
      <4>2. QED
        BY <4>1
    <3>3. QED
      BY <3>2
  <2>2. ASSUME NEW k \in Nat, k \in T PROVE k + 1 \in T
    <3> SUFFICES ASSUME k + 1 <= len - r PROVE num < 10^(len - (k + 1))
      OBVIOUS
    <3> DEFINE e == len - (k + 1)
    <3>1. e \in r..len - 1 /\ e \in 0..10 /\ e # 10 /\ e + 1 = len - k /\ k <= len - r
      OBVIOUS
    <3>2. num < 10^(len - k)
      BY <2>2, <3>1
    <3>3. (num \div 10^e) % 10 = 0
      BY <1>2, <3>1
    <3> HIDE DEF e
    <3> DEFINE b == 10^e
               c == 10^(e + 1)
    <3>4. b \in Nat \ {0} /\ c = b * 10
      BY <3>1, Ten
    <3>5. num < c
      <4> DEFINE g == len - k
      <4>1. num < 10^g /\ e + 1 = g
        BY <3>1, <3>2
      <4> HIDE DEF g
      <4>2. QED
        BY <4>1
    <3>6. (num \div b) % 10 = 0
      BY <3>3
    <3> HIDE DEF b, c
    <3> DEFINE q == num \div b
    <3>7. q \in Nat /\ q * b <= num /\ num < q * b + b
      BY <3>4
    <3>8. q % 10 = 0
      BY <3>6
    <3> HIDE DEF q
    <3>9. q < 10
      <4>1. SUFFICES ASSUME q >= 10 PROVE FALSE
        BY <3>7
      <4>2. (q - 10) * b >= 0
        <5>1. q - 10 \in Nat
          BY <3>7, <4>1
        <5>2. QED
          BY <3>4, <5>1
      <4>3. (q - 10) * b = q * b - b * 10
        BY <3>4, <3>7
      <4>4. q * b \in Nat
        BY <3>4, <3>7
      <4>5. QED
        BY <3>4, <3>5, <3>7, <4>2, <4>3, <4>4
    <3>10. q = 0
      BY <3>7, <3>8, <3>9
    <3>11. num < b
      BY <3>4, <3>7, <3>10
    <3>12. QED
      BY <3>11 DEF b, e
  <2>3. len - r \in T
    <3>1. 0 \in T /\ (\A k \in Nat : k \in T => k + 1 \in T)
      BY <2>1, <2>2
    <3> HIDE DEF T
    <3>2. len - r \in Nat
      OBVIOUS
    <3>3. QED
      BY <3>1, <3>2, Induction
  <2>4. len - (len - r) = r
    OBVIOUS
  <2> DEFINE k == len - (len - r)
  <2>5. num < 10^k /\ k = r
    BY <2>3, <2>4
  <2> HIDE DEF k
  <2>6. QED
    BY <2>5
<1>3. QED
  BY <1>1, <1>2

(* No cell is in two boxes.                                                 *)
In(cell, b, w, h) == cell[2] \in b.x..b.x + w - 1 /\ cell[1] \in b.y..b.y + h - 1

(* Boxes of one size, of which none overlaps another.                       *)
Apart(n, B, w, h) ==
  \A i \in 1..n, j \in 1..n : i # j =>
    \A cell \in Cells : ~ (In(cell, B[i], w, h) /\ In(cell, B[j], w, h))

(* The writes of a call are, from place o on, n boxes on the screen.        *)
Draws(c, o, low, w, h, n, B) ==
  /\ w \in Nat \ {0} /\ h \in Nat \ {0} /\ n \in Nat /\ o \in Nat
  /\ Figure(Program[c], o, low, w, h, n, B)
  /\ \A i \in 1..n : Boxed(B[i], w, h)
  /\ Apart(n, B, w, h)

(* The character for digit i of a number, as NumBoxes() has it.             *)
NumChar(num, len, i) ==
  LET r == len - 1 - i IN
  IF num < 10^r /\ r # 0 THEN SPACE ELSE ZERO + ((num \div 10^r) % 10)

(* A place of a number shows a digit or a space.                            *)
LEMMA NumCharTyped ==
  ASSUME NEW num \in Nat, NEW len \in 1..10, NEW i \in 0..len - 1, NEW csize
  PROVE  NumChar(num, len, i) \in Characters(csize)
<1> DEFINE r == len - 1 - i
           p == 10^r
           q == num \div p
<1>1. r \in 0..10
  OBVIOUS
<1>2. p \in Nat \ {0}
  BY <1>1, Ten
<1> HIDE DEF p
<1>3. q \in Int
  BY <1>2
<1> HIDE DEF q
<1>4. q % 10 \in 0..9
  BY <1>3
<1>5. NumChar(num, len, i) \in {SPACE, ZERO + (q % 10)}
  BY DEF NumChar, p, q
<1>6. NumChar(num, len, i) \in 0..91
  BY <1>4, <1>5 DEF SPACE, ZERO
<1>7. QED
  BY <1>6 DEF Characters

(* OLED_ShowNum() shows these characters.                                   *)
LEMMA NumShown ==
  ASSUME NEW num \in Nat, NEW len \in 1..10, 10^(len - 1) < WORD, num < 10^len,
         NEW t \in 0..len - 1,
         NEW D, \A u \in 0..len - 1 : D[u] = (num \div OLED_Pow(10, len - u - 1)) % 10
  PROVE  NumChar(num, len, t) =
           IF t < len - 1 /\ ~ (\E u \in 0..t : D[u] # 0) THEN SPACE ELSE ZERO + D[t]
<1> DEFINE r == len - 1 - t
           E(e) == (num \div 10^e) % 10
<1>1. ASSUME NEW u \in 0..len - 1 PROVE D[u] = E(len - 1 - u)
  <2> DEFINE e == len - u - 1
  <2>1. e \in 0..len - 1 /\ len - 1 - u = e
    OBVIOUS
  <2>2. OLED_Pow(10, e) = 10^e
    BY <2>1, PowIs
  <2>3. D[u] = (num \div OLED_Pow(10, e)) % 10
    OBVIOUS
  <2>4. D[u] = E(e)
    <3> HIDE DEF e
    <3>1. QED
      BY <2>2, <2>3
  <2> HIDE DEF E, e
  <2>5. QED
    BY <2>1, <2>4
<1>2. r \in 0..len - 1 /\ (r # 0 <=> t < len - 1)
  OBVIOUS
<1>3. num < 10^r <=> \A e \in r..len - 1 : E(e) = 0
  <2> HIDE DEF r
  <2>1. QED
    BY <1>2, Zeros
<1>4. (\A e \in r..len - 1 : E(e) = 0) <=> ~ (\E u \in 0..t : D[u] # 0)
  <2> HIDE DEF E
  <2>1. ASSUME \A e \in r..len - 1 : E(e) = 0, NEW u \in 0..t PROVE D[u] = 0
    <3>1. u \in 0..len - 1 /\ len - 1 - u \in r..len - 1
      OBVIOUS
    <3>2. QED
      BY <1>1, <2>1, <3>1
  <2>2. ASSUME \A u \in 0..t : D[u] = 0, NEW e \in r..len - 1 PROVE E(e) = 0
    <3> DEFINE u == len - 1 - e
    <3>1. u \in 0..t /\ u \in 0..len - 1 /\ len - 1 - u = e
      OBVIOUS
    <3> HIDE DEF u
    <3>2. D[u] = E(len - 1 - u)
      BY <1>1, <3>1
    <3>3. QED
      BY <2>2, <3>1, <3>2
  <2>3. QED
    BY <2>1, <2>2
<1>5. D[t] = E(r)
  <2>1. t \in 0..len - 1
    OBVIOUS
  <2> HIDE DEF E
  <2>2. QED
    BY <1>1, <2>1
<1>6. NumChar(num, len, t) = IF num < 10^r /\ r # 0 THEN SPACE ELSE ZERO + E(r)
  BY DEF NumChar
<1> HIDE DEF r, E
<1>7. QED
  BY <1>2, <1>3, <1>4, <1>5, <1>6

(* Boxes side by side.                                                      *)
LEMMA RowApart ==
  ASSUME NEW n \in Nat, NEW x \in Nat, NEW y \in Nat, NEW d \in Nat, NEW w \in Nat, w <= d,
         NEW h, NEW B, \A i \in 1..n : B[i].x = x + d * (i - 1)
  PROVE  Apart(n, B, w, h)
<1>1. ASSUME NEW i \in 1..n, NEW j \in 1..n, i < j, NEW cell \in Cells
      PROVE  ~ (In(cell, B[i], w, h) /\ In(cell, B[j], w, h))
  <2> DEFINE a == d * (i - 1)
             b == d * (j - 1)
  <2>1. a \in Nat /\ b \in Nat
    <3>1. i - 1 \in Nat /\ j - 1 \in Nat
      OBVIOUS
    <3>2. QED
      BY <3>1
  <2>2. a + d <= b
    <3>1. j - 1 - i \in Nat
      BY <1>1
    <3>2. d * (j - 1 - i) \in Nat
      BY <3>1
    <3>3. d * (j - 1 - i) = b - (a + d)
      OBVIOUS
    <3>4. QED
      BY <2>1, <3>2, <3>3
  <2>3. B[i].x = x + a /\ B[j].x = x + b
    OBVIOUS
  <2> HIDE DEF a, b
  <2>4. cell[2] \in Int
    BY ScreenAssumption DEF Cells
  <2>5. QED
    BY <2>1, <2>2, <2>3, <2>4 DEF In
<1>2. QED
  <2>1. ASSUME NEW i \in 1..n, NEW j \in 1..n, i # j, NEW cell \in Cells
        PROVE  ~ (In(cell, B[i], w, h) /\ In(cell, B[j], w, h))
    <3>1. i < j \/ j < i
      BY <2>1
    <3> HIDE DEF In
    <3>2. QED
      BY <1>1, <3>1
  <2> HIDE DEF In
  <2>2. QED
    BY <2>1 DEF Apart

(* The boxes of OLED_ShowNum(), from left to right.                         *)
NumBox(c) == [i \in 1..c.len |->
  CharBox(c.x + (c.csize \div 2) * (i - 1), c.y, NumChar(c.num, c.len, i - 1), c.csize)]

(* The boxes of OLED_ShowNum(), in a row.                                   *)
LEMMA NumBoxesAre ==
  ASSUME NEW c, c.len \in Nat
  PROVE  NumBoxes(c) = {NumBox(c)[i] : i \in 1..c.len}
<1> DEFINE b(i) == CharBox(c.x + (c.csize \div 2) * i, c.y, NumChar(c.num, c.len, i), c.csize)
           l == c.len
<1>1. NumBoxes(c) = {b(i) : i \in 0..l - 1}
  BY DEF NumBoxes, NumChar
<1>2. NumBox(c) = [i \in 1..l |-> b(i - 1)]
  BY DEF NumBox
<1> HIDE DEF b
<1>3. {b(i) : i \in 0..l - 1} = {b(i - 1) : i \in 1..l}
  <2>1. ASSUME NEW i \in 0..l - 1 PROVE \E j \in 1..l : b(i) = b(j - 1)
    <3>1. i + 1 \in 1..l /\ (i + 1) - 1 = i
      OBVIOUS
    <3>2. QED
      BY <3>1
  <2>2. \A j \in 1..l : j - 1 \in 0..l - 1
    OBVIOUS
  <2> HIDE DEF l
  <2>3. QED
    BY <2>1, <2>2
<1> HIDE DEF l
<1>4. {NumBox(c)[i] : i \in 1..l} = {b(i - 1) : i \in 1..l}
  BY <1>2
<1>5. QED
  BY <1>1, <1>3, <1>4 DEF l

(* OLED_ShowNum() draws the digits of its number, with spaces for leading   *)
(* zeros.                                                                   *)
LEMMA NumDraws ==
  ASSUME NEW c \in Calls, c.fn = "Num", Fits(c)
  PROVE  Draws(c, 0, FALSE, Wide(c.csize), Rows(c.csize), c.len, NumBox(c))
<1> DEFINE n == c.len
           d == c.csize \div 2
           w == Wide(c.csize)
           h == Rows(c.csize)
           X == [i \in 1..n |-> c.x + d * (i - 1)]
           Y == [i \in 1..n |-> c.y]
           C == [i \in 1..n |-> NumChar(c.num, n, i - 1)]
           B == NumBox(c)
           s == [i \in 1..n |-> OLED_ShowChar(X[i], Y[i], C[i], c.csize)]
<1>1. /\ c.x \in Byte /\ c.y \in Byte /\ c.num \in Nat /\ c.len \in 1..10
      /\ 10^(c.len - 1) < WORD /\ c.csize \in Byte
  <2>1. WellCalled(c)
    BY CallsAssumption
  <2>2. QED
    BY <2>1, Zenon DEF WellCalled
<1>2. c.num < 10^c.len /\ c.csize >= 12
  BY DEF Fits
<1>3. Boxes(c) = NumBoxes(c)
  BY DEF Boxes
<1>4. n \in Nat /\ c.x \in Nat /\ c.y \in Nat /\ d \in Nat /\ w \in {6, 8} /\ w <= d /\ h \in {1, 2}
  <2>1. n \in Nat /\ c.x \in Nat /\ c.y \in Nat
    BY <1>1 DEF Byte
  <2>2. w = (IF c.csize = 16 THEN 8 ELSE 6) /\ h = (IF c.csize = 16 THEN 2 ELSE 1)
    BY Zenon DEF Wide, Rows
  <2> DEFINE z == c.csize
  <2>3. z \in Nat /\ z >= 12
    BY <1>1, <1>2 DEF Byte
  <2> HIDE DEF z, n, w, h
  <2>4. z \div 2 \in Nat /\ z \div 2 >= 6 /\ (z = 16 => z \div 2 = 8)
    BY <2>3
  <2>5. QED
    BY <2>1, <2>2, <2>4 DEF z
<1>5. \A i \in 1..n : OnScreen(B[i])
  <2>1. NumBoxes(c) = {B[i] : i \in 1..n}
    BY <1>4, NumBoxesAre
  <2> HIDE DEF B, n
  <2>2. \A b \in NumBoxes(c) : OnScreen(b)
    BY <1>3 DEF Fits, OnScreen
  <2>3. QED
    BY <2>1, <2>2
<1>6. B = [i \in 1..n |-> CharBox(X[i], Y[i], C[i], c.csize)]
  BY DEF NumBox
<1>7. \A i \in 1..n : X[i] \in Nat /\ Y[i] \in Nat /\ C[i] \in Characters(c.csize)
  <2>1. ASSUME NEW i \in 1..n PROVE X[i] \in Nat /\ C[i] \in Characters(c.csize)
    <3>1. i - 1 \in Nat /\ i - 1 \in 0..n - 1
      BY <1>4
    <3>2. d * (i - 1) \in Nat
      <4> HIDE DEF d
      <4>1. QED
        BY <1>4, <3>1
    <3>3. X[i] \in Nat
      <4> DEFINE a == d * (i - 1)
      <4>1. X[i] = c.x + a
        OBVIOUS
      <4> HIDE DEF a, X
      <4>2. QED
        BY <1>4, <3>2, <4>1 DEF a
    <3>4. NumChar(c.num, n, i - 1) \in Characters(c.csize)
      BY <1>1, <3>1, NumCharTyped
    <3>5. QED
      BY <3>3, <3>4
  <2>2. \A i \in 1..n : Y[i] \in Nat
    BY <1>4
  <2> HIDE DEF X, Y, C
  <2>3. QED
    BY <2>1, <2>2
<1>8. \A i \in 1..n : B[i].x = X[i] /\ B[i].w = w
  <2> HIDE DEF X, Y, C
  <2>1. ASSUME NEW i \in 1..n PROVE B[i].x = X[i] /\ B[i].w = w
    <3>1. B[i] = Box(X[i], Y[i], w, Font(c.csize)[C[i]])
      BY <1>6, CharBoxIs
    <3> HIDE DEF B
    <3>2. QED
      BY <3>1, BoxIs
  <2>2. QED
    BY <2>1
<1>9. OLED_ShowNum(c.x, c.y, c.num, c.len, c.csize) = FlattenSeq(s)
  <2> DEFINE digit(t) == (c.num \div OLED_Pow(10, n - t - 1)) % 10
             enshow(t) == \E u \in 0..t : digit(u) # 0
             shown(t) == IF t < n - 1 /\ ~enshow(t) THEN SPACE ELSE ZERO + digit(t)
             at(i) == Uint8(c.x + d * (i - 1))
             s2 == [i \in 1..n |-> OLED_ShowChar(at(i), c.y, shown(i - 1), c.csize)]
             D == [u \in 0..n - 1 |-> digit(u)]
  <2>1. OLED_ShowNum(c.x, c.y, c.num, c.len, c.csize) = FlattenSeq(s2)
    BY DEF OLED_ShowNum
  <2>2. ASSUME NEW i \in 1..n PROVE at(i) = X[i] /\ Y[i] = c.y
    <3>1. X[i] + w <= COLUMNS /\ X[i] \in Nat
      BY <1>5, <1>7, <1>8 DEF OnScreen
    <3>2. X[i] = c.x + d * (i - 1)
      OBVIOUS
    <3>3. at(i) = X[i] % 256
      BY <3>2 DEF Uint8
    <3> HIDE DEF X
    <3>4. X[i] < 256
      BY <1>4, <3>1, ScreenAssumption
    <3>5. QED
      BY <3>1, <3>3, <3>4
  <2>3. ASSUME NEW i \in 1..n PROVE shown(i - 1) = C[i]
    <3> DEFINE t == i - 1
    <3>1. t \in 0..n - 1
      BY <1>4
    <3>2. \A u \in 0..n - 1 : D[u] = (c.num \div OLED_Pow(10, n - u - 1)) % 10
      OBVIOUS
    <3>3. C[i] = NumChar(c.num, n, t)
      OBVIOUS
    <3>4. \A u \in 0..t : D[u] = digit(u)
      BY <1>4
    <3>5. D[t] = digit(t)
      BY <3>1
    <3> HIDE DEF D, t, C
    <3>6. NumChar(c.num, n, t) =
            IF t < n - 1 /\ ~ (\E u \in 0..t : D[u] # 0) THEN SPACE ELSE ZERO + D[t]
      BY <1>1, <1>2, <3>1, <3>2, NumShown
    <3> HIDE DEF digit
    <3>7. shown(t) = C[i]
      BY <3>3, <3>4, <3>5, <3>6
    <3>8. QED
      BY <3>7 DEF t
  <2> HIDE DEF at, shown, X, Y, C
  <2>4. s2 = s
    BY <2>2, <2>3
  <2>5. QED
    BY <2>1, <2>4
<1>10. Program[c] = FlattenSeq(s)
  BY <1>9 DEF Program, ProgramOf
<1>11. Apart(n, B, w, h)
  <2>1. \A i \in 1..n : B[i].x = c.x + d * (i - 1)
    BY <1>8
  <2> HIDE DEF B, d, n, w, h
  <2>2. w \in Nat
    BY <1>4
  <2>3. QED
    BY <1>4, <2>1, <2>2, RowApart
<1> HIDE DEF X, Y, C, B, s, d, n
<1>12. Figure(FlattenSeq(s), 0, FALSE, w, h, n, B) /\ \A i \in 1..n : Boxed(B[i], w, h)
  BY <1>4, <1>5, <1>6, <1>7, TextFigure DEF s
<1>13. w \in Nat \ {0} /\ h \in Nat \ {0} /\ 0 \in Nat
  BY <1>4
<1> HIDE DEF w, h
<1>14. Draws(c, 0, FALSE, w, h, n, B)
  BY <1>4, <1>10, <1>11, <1>12, <1>13 DEF Draws
<1>15. QED
  BY <1>14 DEF w, h, n, B

(* The place of character i of a text that begins at (x, y).                *)
First(x) == (COLUMNS - x) \div 8
Full == COLUMNS \div 8
ColOf(x, i) == IF i <= First(x) THEN x + 8 * (i - 1) ELSE 8 * ((i - 1 - First(x)) % Full)
RowOf(x, y, i) == IF i <= First(x) THEN y ELSE y + 2 * (1 + (i - 1 - First(x)) \div Full)

(* Places counted in lines of f, from one to the next.                      *)
LEMMA Lines ==
  ASSUME NEW k \in Nat, NEW f \in 1..16
  PROVE  /\ k % f \in 0..f - 1 /\ k \div f \in Nat /\ k = f * (k \div f) + (k % f)
         /\ (k + 1) % f = IF k % f = f - 1 THEN 0 ELSE (k % f) + 1
         /\ (k + 1) \div f = IF k % f = f - 1 THEN k \div f + 1 ELSE k \div f
         /\ 0 % f = 0 /\ 0 \div f = 0
<1>1. CASE f = 1 BY <1>1
<1>2. CASE f = 2 BY <1>2
<1>3. CASE f = 3 BY <1>3
<1>4. CASE f = 4 BY <1>4
<1>5. CASE f = 5 BY <1>5
<1>6. CASE f = 6 BY <1>6
<1>7. CASE f = 7 BY <1>7
<1>8. CASE f = 8 BY <1>8
<1>9. CASE f = 9 BY <1>9
<1>10. CASE f = 10 BY <1>10
<1>11. CASE f = 11 BY <1>11
<1>12. CASE f = 12 BY <1>12
<1>13. CASE f = 13 BY <1>13
<1>14. CASE f = 14 BY <1>14
<1>15. CASE f = 15 BY <1>15
<1>16. CASE f = 16 BY <1>16
<1>17. QED
  BY <1>1, <1>2, <1>3, <1>4, <1>5, <1>6, <1>7, <1>8, <1>9, <1>10, <1>11, <1>12, <1>13,
     <1>14, <1>15, <1>16

(* A later place is further on in the same line, or in a later line.        *)
LEMMA LinesGrow ==
  ASSUME NEW k \in Nat, NEW l \in Nat, k < l, NEW f \in 1..16
  PROVE  l \div f > k \div f \/ (l \div f = k \div f /\ l % f > k % f)
<1> DEFINE a == k \div f
           b == l \div f
           c == k % f
           d == l % f
<1>1. a \in Nat /\ b \in Nat /\ c \in 0..f - 1 /\ d \in 0..f - 1 /\ k = f * a + c /\ l = f * b + d
  BY Lines
<1> HIDE DEF a, b, c, d
<1>2. b >= a
  <2>1. SUFFICES ASSUME b < a PROVE FALSE
    BY <1>1
  <2>2. a - (b + 1) \in Nat
    BY <1>1, <2>1
  <2>3. f * (a - (b + 1)) \in Nat
    BY <2>2
  <2>4. f * (a - (b + 1)) = f * a - (f * b + f)
    BY <1>1
  <2>5. f * a \in Nat /\ f * b \in Nat
    BY <1>1
  <2>6. QED
    BY <1>1, <2>3, <2>4, <2>5
<1>3. b = a => d > c
  <2>1. SUFFICES ASSUME b = a PROVE d > c
    OBVIOUS
  <2>2. f * a = f * b /\ f * a \in Nat
    BY <1>1, <2>1
  <2>3. QED
    BY <1>1, <2>2
<1>4. QED
  BY <1>1, <1>2, <1>3 DEF a, b, c, d

(* How many characters the first line of a text has, and a full one.        *)
LEMMA TextLines ==
  ASSUME NEW x \in Nat, x + 8 <= COLUMNS
  PROVE  /\ First(x) \in Nat /\ First(x) >= 1
         /\ x + 8 * First(x) <= COLUMNS /\ x + 8 * First(x) + 8 > COLUMNS
         /\ Full \in 1..16 /\ 8 * Full <= COLUMNS /\ 8 * Full + 8 > COLUMNS
<1>1. COLUMNS \in 8..128
  BY ScreenAssumption
<1>2. QED
  BY <1>1 DEF First, Full

(* The place OLED_ShowString() computes for the next character is the next  *)
(* one of the text.                                                         *)
LEMMA TextStep ==
  ASSUME NEW x \in Nat, x + 8 <= COLUMNS, NEW y \in Nat, NEW i \in Nat, i >= 1,
         RowOf(x, y, i + 1) <= 255
  PROVE  /\ ColOf(x, i) \in Nat /\ RowOf(x, y, i) \in Nat
         /\ Step(<<ColOf(x, i), RowOf(x, y, i)>>) = <<ColOf(x, i + 1), RowOf(x, y, i + 1)>>
<1> DEFINE f == First(x)
           g == Full
           a == ColOf(x, i)
           b == RowOf(x, y, i)
           a2 == ColOf(x, i + 1)
           b2 == RowOf(x, y, i + 1)
<1>1. /\ f \in Nat /\ f >= 1 /\ x + 8 * f <= COLUMNS /\ x + 8 * f + 8 > COLUMNS
      /\ g \in 1..16 /\ 8 * g <= COLUMNS /\ 8 * g + 8 > COLUMNS
  BY TextLines
<1>2. COLUMNS \in 8..128 /\ b2 <= 255
  BY ScreenAssumption
<1>3. Step(<<a, b>>) = IF Uint8(a + 8) > COLUMNS - 8 THEN <<0, Uint8(b + 2)>> ELSE <<Uint8(a + 8), b>>
  BY DEF Step
<1> SUFFICES /\ a \in Nat /\ b \in Nat
             /\ Step(<<a, b>>) = <<a2, b2>>
  OBVIOUS
<1>4. CASE i + 1 <= f
  <2>1. a = x + 8 * (i - 1) /\ b = y /\ a2 = x + 8 * i /\ b2 = y
    BY <1>4, <1>1 DEF ColOf, RowOf
  <2>2. a \in Nat /\ a + 8 = a2 /\ a2 <= COLUMNS - 8 /\ a2 \in Nat
    BY <1>1, <1>2, <1>4, <2>1
  <2> HIDE DEF a, b, a2, b2, f, g
  <2>3. Uint8(a + 8) = a2
    BY <1>2, <2>2 DEF Uint8
  <2>4. ~ (a2 > COLUMNS - 8)
    BY <1>2, <2>2
  <2>5. QED
    BY <1>3, <2>1, <2>2, <2>3, <2>4
<1>5. CASE i = f
  <2>0. i <= f
    <3> HIDE DEF f
    <3>1. QED
      BY <1>1, <1>5
  <2>1. a = x + 8 * (i - 1) /\ b = y
    BY <2>0 DEF ColOf, RowOf
  <2>2. ~ (i + 1 <= f) /\ (i + 1) - 1 - f = 0
    BY <1>1, <1>5
  <2>3. 0 % g = 0 /\ 0 \div g = 0
    BY <1>1, Lines
  <2>4. a2 = 8 * (((i + 1) - 1 - f) % g) /\ b2 = y + 2 * (1 + ((i + 1) - 1 - f) \div g)
    BY <2>2 DEF ColOf, RowOf
  <2> HIDE DEF a, b, a2, b2, f, g
  <2>5. a2 = 0 /\ b2 = y + 2
    BY <2>2, <2>3, <2>4
  <2>6. a \in Nat /\ a + 8 <= COLUMNS /\ a + 8 > COLUMNS - 8
    BY <1>1, <1>2, <1>5, <2>1
  <2>7. Uint8(a + 8) = a + 8 /\ Uint8(b + 2) = b2
    BY <1>2, <2>1, <2>5, <2>6 DEF Uint8
  <2>8. QED
    BY <1>3, <2>1, <2>5, <2>6, <2>7
<1>6. CASE i > f
  <2> DEFINE k == i - 1 - f
             r == k % g
             q == k \div g
  <2>1. k \in Nat /\ ~ (i <= f) /\ ~ (i + 1 <= f) /\ (i + 1) - 1 - f = k + 1
    BY <1>1, <1>6
  <2>2. a = 8 * r /\ b = y + 2 * (1 + q)
    BY <2>1 DEF ColOf, RowOf
  <2>3. a2 = 8 * ((k + 1) % g) /\ b2 = y + 2 * (1 + (k + 1) \div g)
    <3>1. a2 = 8 * (((i + 1) - 1 - f) % g) /\ b2 = y + 2 * (1 + ((i + 1) - 1 - f) \div g)
      BY <2>1 DEF ColOf, RowOf
    <3> HIDE DEF a2, b2, f, g, k
    <3>2. QED
      BY <2>1, <3>1
  <2> HIDE DEF a, b, a2, b2, f, g, k
  <2>4. /\ r \in 0..g - 1 /\ q \in Nat
        /\ (k + 1) % g = IF r = g - 1 THEN 0 ELSE r + 1
        /\ (k + 1) \div g = IF r = g - 1 THEN q + 1 ELSE q
    BY <1>1, <2>1, Lines
  <2> HIDE DEF r, q
  <2>5. a \in Nat /\ b \in Nat /\ a + 8 <= COLUMNS
    BY <1>1, <1>2, <2>2, <2>4
  <2>6. Uint8(a + 8) = a + 8
    BY <1>2, <2>5 DEF Uint8
  <2>7. CASE r = g - 1
    <3>1. a2 = 0 /\ b2 = b + 2
      BY <2>2, <2>3, <2>4, <2>7
    <3>2. a + 8 > COLUMNS - 8
      BY <1>1, <1>2, <2>2, <2>7
    <3>3. Uint8(b + 2) = b2
      BY <1>2, <2>5, <3>1 DEF Uint8
    <3>4. QED
      BY <1>3, <2>5, <2>6, <3>1, <3>2, <3>3
  <2>8. CASE r # g - 1
    <3>1. a2 = a + 8 /\ b2 = b
      BY <2>2, <2>3, <2>4, <2>8
    <3>2. ~ (a + 8 > COLUMNS - 8)
      BY <1>1, <1>2, <2>2, <2>4, <2>8
    <3>3. QED
      BY <1>3, <2>5, <2>6, <3>1, <3>2
  <2>9. QED
    BY <2>7, <2>8
<1>7. QED
  BY <1>1, <1>4, <1>5, <1>6

(* Later characters are to the right, or two pages below.                   *)
LEMMA TextGrows ==
  ASSUME NEW x \in Nat, x + 8 <= COLUMNS, NEW y \in Nat,
         NEW i \in Nat, i >= 1, NEW j \in Nat, i < j
  PROVE  /\ ColOf(x, i) \in Nat /\ RowOf(x, y, i) \in Nat
         /\ ColOf(x, j) \in Nat /\ RowOf(x, y, j) \in Nat
         /\ \/ RowOf(x, y, j) >= RowOf(x, y, i) + 2
            \/ ColOf(x, j) >= ColOf(x, i) + 8
<1> DEFINE f == First(x)
           g == Full
           a == ColOf(x, i)
           b == RowOf(x, y, i)
           a2 == ColOf(x, j)
           b2 == RowOf(x, y, j)
           k == i - 1 - f
           l == j - 1 - f
<1>1. f \in Nat /\ f >= 1 /\ g \in 1..16
  BY TextLines
<1>2. i <= f => a = x + 8 * (i - 1) /\ b = y
  BY DEF ColOf, RowOf
<1>3. ~ (i <= f) => a = 8 * (k % g) /\ b = y + 2 * (1 + k \div g)
  BY DEF ColOf, RowOf
<1>4. j <= f => a2 = x + 8 * (j - 1) /\ b2 = y
  BY DEF ColOf, RowOf
<1>5. ~ (j <= f) => a2 = 8 * (l % g) /\ b2 = y + 2 * (1 + l \div g)
  BY DEF ColOf, RowOf
<1> HIDE DEF f, g, a, b, a2, b2
<1>6. /\ ~ (i <= f) => k % g \in Nat /\ k \div g \in Nat
      /\ ~ (j <= f) => l % g \in Nat /\ l \div g \in Nat
  <2>1. /\ ~ (i <= f) => k \in Nat
        /\ ~ (j <= f) => l \in Nat
    BY <1>1
  <2> HIDE DEF k, l
  <2>2. ASSUME NEW n \in Nat PROVE n % g \in Nat /\ n \div g \in Nat
    BY <1>1, Lines
  <2>3. QED
    BY <2>1, <2>2
<1>7. ~ (i <= f) => l \div g > k \div g \/ (l \div g = k \div g /\ l % g > k % g)
  <2>1. ~ (i <= f) => k \in Nat /\ l \in Nat /\ k < l
    BY <1>1
  <2> HIDE DEF k, l
  <2>2. QED
    BY <1>1, <2>1, LinesGrow
<1> HIDE DEF k, l
<1> DEFINE kr == k % g
           kq == k \div g
           lr == l % g
           lq == l \div g
<1> HIDE DEF kr, kq, lr, lq
<1>8. /\ ~ (i <= f) => a = 8 * kr /\ b = y + 2 * (1 + kq) /\ kr \in Nat /\ kq \in Nat
      /\ ~ (j <= f) => a2 = 8 * lr /\ b2 = y + 2 * (1 + lq) /\ lr \in Nat /\ lq \in Nat
      /\ ~ (i <= f) => lq > kq \/ (lq = kq /\ lr > kr)
  BY <1>3, <1>5, <1>6, <1>7 DEF kr, kq, lr, lq
<1>9. a \in Nat /\ b \in Nat /\ a2 \in Nat /\ b2 \in Nat
  BY <1>1, <1>2, <1>4, <1>8
<1>10. b2 >= b + 2 \/ a2 >= a + 8
  <2>1. CASE j <= f
    BY <1>1, <1>2, <1>4, <2>1
  <2>2. CASE i <= f /\ ~ (j <= f)
    BY <1>2, <1>8, <2>2
  <2>3. CASE ~ (i <= f)
    <3>1. ~ (j <= f)
      BY <1>1, <2>3
    <3>2. QED
      BY <1>8, <2>3, <3>1
  <2>4. QED
    BY <2>1, <2>2, <2>3
<1>11. QED
  BY <1>9, <1>10 DEF a, b, a2, b2

(* The boxes of OLED_ShowString(), in the order of its characters.          *)
StringBox(c) == [i \in 1..Len(c.str) |->
  CharBox(ColOf(c.x, i), RowOf(c.x, c.y, i), c.str[i], c.csize)]

(* The boxes of OLED_ShowString(), in a row.                                *)
LEMMA StringBoxesAre ==
  ASSUME NEW c, NEW S, c.str \in Seq(S)
  PROVE  StringBoxes(c) = {StringBox(c)[i] : i \in 1..Len(c.str)}
<1> DEFINE first == (COLUMNS - c.x) \div 8
           full == COLUMNS \div 8
           e(i) == IF i <= first THEN CharBox(c.x + 8 * (i - 1), c.y, c.str[i], c.csize)
                   ELSE LET k == i - 1 - first IN
                        CharBox(8 * (k % full), c.y + 2 * (1 + k \div full), c.str[i], c.csize)
           b(i) == CharBox(ColOf(c.x, i), RowOf(c.x, c.y, i), c.str[i], c.csize)
           l == Len(c.str)
<1>1. StringBoxes(c) = {e(i) : i \in DOMAIN c.str}
  BY DEF StringBoxes
<1>2. DOMAIN c.str = 1..l
  OBVIOUS
<1>3. ASSUME NEW i \in 1..l PROVE e(i) = b(i)
  <2>1. CASE i <= first
    <3>1. ColOf(c.x, i) = c.x + 8 * (i - 1) /\ RowOf(c.x, c.y, i) = c.y
      BY <2>1 DEF ColOf, RowOf, First
    <3>2. QED
      BY <2>1, <3>1
  <2>2. CASE ~ (i <= first)
    <3>1. /\ ColOf(c.x, i) = 8 * ((i - 1 - first) % full)
          /\ RowOf(c.x, c.y, i) = c.y + 2 * (1 + (i - 1 - first) \div full)
      BY <2>2 DEF ColOf, RowOf, First, Full
    <3>2. QED
      BY <2>2, <3>1
  <2>3. QED
    BY <2>1, <2>2
<1>4. StringBox(c) = [i \in 1..l |-> b(i)]
  BY DEF StringBox
<1> HIDE DEF e, b, l
<1>5. {StringBox(c)[i] : i \in 1..l} = {b(i) : i \in 1..l}
  BY <1>4
<1>6. {e(i) : i \in 1..l} = {b(i) : i \in 1..l}
  BY <1>3
<1>7. QED
  BY <1>1, <1>2, <1>5, <1>6 DEF l

(* Characters of a text do not overlap.                                     *)
LEMMA TextApart ==
  ASSUME NEW n \in Nat, NEW x \in Nat, x + 8 <= COLUMNS, NEW y \in Nat,
         NEW w \in Nat, w <= 8, NEW h \in Nat, h <= 2,
         NEW B, \A i \in 1..n : B[i].x = ColOf(x, i) /\ B[i].y = RowOf(x, y, i)
  PROVE  Apart(n, B, w, h)
<1>1. ASSUME NEW i \in 1..n, NEW j \in 1..n, i < j, NEW cell \in Cells
      PROVE  ~ (In(cell, B[i], w, h) /\ In(cell, B[j], w, h))
  <2> DEFINE a == ColOf(x, i)
             b == RowOf(x, y, i)
             a2 == ColOf(x, j)
             b2 == RowOf(x, y, j)
  <2>0. i \in Nat /\ i >= 1 /\ j \in Nat
    OBVIOUS
  <2>1. a \in Nat /\ b \in Nat /\ a2 \in Nat /\ b2 \in Nat /\ (b2 >= b + 2 \/ a2 >= a + 8)
    BY <1>1, <2>0, TextGrows
  <2>2. B[i].x = a /\ B[i].y = b /\ B[j].x = a2 /\ B[j].y = b2
    OBVIOUS
  <2> HIDE DEF a, b, a2, b2
  <2>3. cell[1] \in Int /\ cell[2] \in Int
    BY ScreenAssumption DEF Cells
  <2>4. QED
    BY <2>1, <2>2, <2>3 DEF In
<1>2. QED
  <2>1. ASSUME NEW i \in 1..n, NEW j \in 1..n, i # j, NEW cell \in Cells
        PROVE  ~ (In(cell, B[i], w, h) /\ In(cell, B[j], w, h))
    <3>1. i < j \/ j < i
      BY <2>1
    <3> HIDE DEF In
    <3>2. QED
      BY <1>1, <3>1
  <2> HIDE DEF In
  <2>2. QED
    BY <2>1 DEF Apart

(* The places OLED_ShowString() puts its characters, as long as they are on *)
(* the screen.                                                              *)
IsText(place, a, l) == \A i \in 1..l + 1 : place[i] = IF i = 1 THEN a ELSE Step(place[i - 1])

(* The places of a text: the first, and each from the one before.           *)
LEMMA IsTextParts ==
  ASSUME NEW place, NEW a, NEW l \in Nat, IsText(place, a, l)
  PROVE  place[1] = a /\ \A k \in 1..l : place[k + 1] = Step(place[k])
<1>1. place[1] = a
  BY DEF IsText
<1>2. ASSUME NEW k \in 1..l PROVE place[k + 1] = Step(place[k])
  <2>1. k + 1 \in 1..l + 1 /\ k + 1 # 1 /\ (k + 1) - 1 = k
    OBVIOUS
  <2>2. place[k + 1] = IF k + 1 = 1 THEN a ELSE Step(place[(k + 1) - 1])
    BY <2>1 DEF IsText
  <2>3. QED
    BY <2>1, <2>2
<1>3. QED
  BY <1>1, <1>2

(* The places OLED_ShowString() computes are those of the text, as long as  *)
(* no row number wraps around.                                              *)
LEMMA TextPlaces ==
  ASSUME NEW x \in Byte, x + 8 <= COLUMNS, NEW y \in Byte, NEW l \in Nat,
         NEW place, IsText(place, <<x, y>>, l),
         \A i \in 1..l : RowOf(x, y, i) <= 255
  PROVE  \A i \in 1..l : place[i] = <<ColOf(x, i), RowOf(x, y, i)>>
<1> DEFINE p(i) == <<ColOf(x, i), RowOf(x, y, i)>>
           T == {k \in Nat : k \in 1..l => place[k] = p(k)}
<1>0. x \in Nat /\ y \in Nat
  BY DEF Byte
<1>1. place[1] = <<x, y>> /\ \A k \in 1..l : place[k + 1] = Step(place[k])
  BY IsTextParts
<1> HIDE DEF p
<1>2. 0 \in T
  OBVIOUS
<1>3. ASSUME NEW k \in Nat, k \in T PROVE k + 1 \in T
  <2>0. SUFFICES ASSUME k + 1 \in 1..l PROVE place[k + 1] = p(k + 1)
    OBVIOUS
  <2>1. CASE k = 0
    <3>1. First(x) >= 1
      BY <1>0, TextLines
    <3>2. ColOf(x, 1) = x /\ RowOf(x, y, 1) = y
      <4>1. 1 <= First(x)
        BY <1>0, TextLines
      <4>2. QED
        BY <1>0, <4>1 DEF ColOf, RowOf
    <3>3. place[1] = <<x, y>>
      BY <1>1
    <3>4. p(1) = <<x, y>>
      BY <3>2 DEF p
    <3>5. QED
      BY <2>1, <3>3, <3>4
  <2>2. CASE k # 0
    <3>1. k \in 1..l /\ k >= 1 /\ k + 1 \in 1..l + 1 /\ k + 1 # 1 /\ (k + 1) - 1 = k
      BY <2>0, <2>2
    <3>2. place[k] = p(k)
      BY <1>3, <3>1
    <3>3. place[k + 1] = Step(place[k])
      BY <1>1, <3>1
    <3>4. RowOf(x, y, k + 1) <= 255
      BY <2>0
    <3>5. Step(p(k)) = p(k + 1)
      BY <1>0, <3>1, <3>4, TextStep DEF p
    <3>6. QED
      BY <3>2, <3>3, <3>5
  <2>3. QED
    BY <2>1, <2>2
<1>4. ASSUME NEW i \in 1..l PROVE place[i] = p(i)
  <2>1. 0 \in T /\ (\A k \in Nat : k \in T => k + 1 \in T)
    BY <1>2, <1>3
  <2>2. i \in Nat
    OBVIOUS
  <2>3. i \in T
    <3> HIDE DEF T
    <3>1. QED
      BY <2>1, <2>2, Induction
  <2>4. QED
    BY <2>3
<1>5. QED
  BY <1>4 DEF p

(* OLED_ShowString() draws the characters of its string at their places.    *)
LEMMA StringDraws ==
  ASSUME NEW c \in Calls, c.fn = "String", Fits(c)
  PROVE  Draws(c, 0, FALSE, Wide(c.csize), Rows(c.csize), Len(c.str), StringBox(c))
<1> DEFINE n == Len(c.str)
           w == Wide(c.csize)
           h == Rows(c.csize)
           X == [i \in 1..n |-> ColOf(c.x, i)]
           Y == [i \in 1..n |-> RowOf(c.x, c.y, i)]
           C == c.str
           B == StringBox(c)
           s == [i \in 1..n |-> OLED_ShowChar(X[i], Y[i], C[i], c.csize)]
<1>1. c.x \in Byte /\ c.y \in Byte /\ c.str \in Seq(Characters(c.csize))
  <2>1. WellCalled(c)
    BY CallsAssumption
  <2>2. QED
    BY <2>1, Zenon DEF WellCalled
<1>2. c.x + 8 <= COLUMNS
  BY DEF Fits
<1>3. Boxes(c) = StringBoxes(c)
  BY DEF Boxes
<1>4. n \in Nat /\ c.x \in Nat /\ c.y \in Nat /\ w \in {6, 8} /\ h \in {1, 2}
  <2>0. c.x \in Nat /\ c.y \in Nat
    <3>1. c.x \in Byte /\ c.y \in Byte
      BY <1>1
    <3>2. QED
      BY <3>1 DEF Byte
  <2>1. w \in {6, 8} /\ h \in {1, 2}
    BY DEF Wide, Rows
  <2> DEFINE S == Characters(c.csize)
  <2>2. c.str \in Seq(S)
    BY <1>1
  <2> HIDE DEF S
  <2>3. Len(c.str) \in Nat
    BY <2>2
  <2>4. QED
    BY <2>0, <2>1, <2>3
<1>5. \A i \in 1..n : OnScreen(B[i])
  <2>1. StringBoxes(c) = {B[i] : i \in 1..n}
    BY <1>1, StringBoxesAre
  <2> HIDE DEF B, n
  <2>2. \A b \in StringBoxes(c) : OnScreen(b)
    BY <1>3 DEF Fits, OnScreen
  <2>3. QED
    BY <2>1, <2>2
<1>6. B = [i \in 1..n |-> CharBox(X[i], Y[i], C[i], c.csize)]
  BY DEF StringBox
<1>7. \A i \in 1..n : X[i] \in Nat /\ Y[i] \in Nat /\ C[i] \in Characters(c.csize)
  <2>1. ASSUME NEW i \in 1..n
        PROVE  X[i] \in Nat /\ Y[i] \in Nat /\ C[i] \in Characters(c.csize)
    <3>1. i \in Nat /\ i >= 1 /\ i + 1 \in Nat /\ i < i + 1
      OBVIOUS
    <3>2. ColOf(c.x, i) \in Nat /\ RowOf(c.x, c.y, i) \in Nat
      BY <1>2, <1>4, <3>1, TextGrows
    <3>3. C[i] \in Characters(c.csize)
      <4> DEFINE S == Characters(c.csize)
      <4> HIDE DEF S
      <4>1. C \in Seq(S)
        BY <1>1 DEF S
      <4>2. C[i] \in S
        BY <4>1
      <4>3. QED
        BY <4>2 DEF S
    <3>4. QED
      BY <3>2, <3>3
  <2> HIDE DEF X, Y, C
  <2>2. QED
    BY <2>1
<1>8. \A i \in 1..n : B[i].x = X[i] /\ B[i].y = Y[i]
  <2> HIDE DEF X, Y, C
  <2>1. ASSUME NEW i \in 1..n PROVE B[i].x = X[i] /\ B[i].y = Y[i]
    <3>1. B[i] = Box(X[i], Y[i], w, Font(c.csize)[C[i]])
      BY <1>6, CharBoxIs
    <3> HIDE DEF B
    <3>2. QED
      BY <3>1, BoxIs
  <2>2. QED
    BY <2>1
<1>9. Figure(FlattenSeq(s), 0, FALSE, w, h, n, B) /\ \A i \in 1..n : Boxed(B[i], w, h)
  <2> HIDE DEF X, Y, C, B, n
  <2>1. QED
    BY <1>4, <1>5, <1>6, <1>7, TextFigure DEF s
<1>10. OLED_ShowString(c.x, c.y, c.str, c.csize) = FlattenSeq(s)
  <2> DEFINE Solves(f) == f = [i \in 1..n + 1 |-> IF i = 1 THEN <<c.x, c.y>> ELSE Step(f[i - 1])]
             place == CHOOSE f : Solves(f)
             s2 == [i \in 1..n |-> OLED_ShowChar(place[i][1], place[i][2], c.str[i], c.csize)]
  <2>1. OLED_ShowString(c.x, c.y, c.str, c.csize) = FlattenSeq(s2)
    BY DEF OLED_ShowString, Step
  <2>2. Solves(place)
    <3>1. <<c.x, c.y>> \in Byte \X Byte /\ n + 1 \in Nat
      BY <1>1, <1>4
    <3> HIDE DEF n
    <3>2. \E f : Solves(f)
      BY <3>1, PlacesExist
    <3> HIDE DEF Solves
    <3>3. QED
      BY <3>2
  <2> HIDE DEF place
  <2>3. \A i \in 1..n : RowOf(c.x, c.y, i) <= 255
    <3>1. ASSUME NEW i \in 1..n PROVE RowOf(c.x, c.y, i) <= 255
      <4>1. B[i].y + h <= PAGES /\ B[i].y \in Nat
        BY <1>9 DEF Boxed
      <4>2. B[i].y = RowOf(c.x, c.y, i)
        BY <1>8
      <4> DEFINE r == RowOf(c.x, c.y, i)
      <4>3. r + h <= PAGES /\ r \in Nat
        BY <4>1, <4>2
      <4> HIDE DEF r, h
      <4>4. r <= 255
        BY <1>4, <4>3, ScreenAssumption
      <4>5. QED
        BY <4>4 DEF r
    <3>2. QED
      BY <3>1
  <2>4. \A i \in 1..n : place[i] = <<ColOf(c.x, i), RowOf(c.x, c.y, i)>>
    <3>1. IsText(place, <<c.x, c.y>>, n)
      BY <2>2 DEF IsText
    <3>2. c.x \in Byte /\ c.y \in Byte /\ n \in Nat
      BY <1>1, <1>4
    <3> HIDE DEF X, Y, C, B, s, s2, n, w, h, Solves
    <3>3. QED
      BY <1>2, <2>3, <3>1, <3>2, TextPlaces
  <2>5. \A i \in 1..n : place[i][1] = X[i] /\ place[i][2] = Y[i]
    BY <2>4
  <2> HIDE DEF X, Y
  <2>6. s2 = s
    BY <2>5
  <2>7. QED
    BY <2>1, <2>6
<1>11. Program[c] = FlattenSeq(s)
  BY <1>10 DEF Program, ProgramOf
<1>12. Apart(n, B, w, h)
  <2>1. \A i \in 1..n : B[i].x = ColOf(c.x, i) /\ B[i].y = RowOf(c.x, c.y, i)
    BY <1>8
  <2> HIDE DEF B, n, w, h
  <2>2. w \in Nat /\ w <= 8 /\ h \in Nat /\ h <= 2
    BY <1>4
  <2>3. QED
    BY <1>2, <1>4, <2>1, <2>2, TextApart
<1> HIDE DEF X, Y, C, B, s, n
<1>13. w \in Nat \ {0} /\ h \in Nat \ {0} /\ 0 \in Nat
  BY <1>4
<1> HIDE DEF w, h
<1>14. Draws(c, 0, FALSE, w, h, n, B)
  BY <1>4, <1>9, <1>11, <1>12, <1>13 DEF Draws
<1>15. QED
  BY <1>14 DEF w, h, n, B

(* The picture of a call over what was there: Picture, of any call and      *)
(* memory.                                                                  *)
PictureOf(c, ram) ==
  CASE c.fn \in {"Init", "Clear"} -> [cell \in Cells |-> 0]
    [] c.fn = "Fill" -> [cell \in Cells |-> c.byte]
    [] OTHER -> Over(Boxes(c), ram)

(* What o writes before the boxes are, and that the boxes are the picture.  *)
Heads(c, o, n) ==
  /\ \A i \in 1..o : Program[c][i][2] = OLED_CMD
  /\ o = 0 \/ (c.fn = "Init" /\ o = 27) \/ n = 0
  /\ c.fn = "Init" => o = 27

(* The boxes are the picture of the call.                                   *)
Pictures(c, n, B) ==
  \A ram \in [Cells -> Byte] : PictureOf(c, ram) = Over({B[i] : i \in 1..n}, ram)

(* The writes of a call draw its picture.                                   *)
Shows(c, o, low, w, h, n, B) == Draws(c, o, low, w, h, n, B) /\ Heads(c, o, n) /\ Pictures(c, n, B)

(* One box overlaps no other.                                               *)
LEMMA OneApart ==
  ASSUME NEW B, NEW w, NEW h
  PROVE  Apart(1, B, w, h)
<1>1. \A i \in 1..1, j \in 1..1 : i = j
  OBVIOUS
<1>2. QED
  BY <1>1 DEF Apart

(* Only OLED_Init() writes something before it draws.                       *)
LEMMA NoHead ==
  ASSUME NEW c, c.fn # "Init", NEW n
  PROVE  Heads(c, 0, n)
BY DEF Heads

(* A call with boxes, and with them for a picture.                          *)
LEMMA BoxesShow ==
  ASSUME NEW c \in Calls, c.fn \in {"Char", "Num", "String", "Chinese", "BMP"},
         NEW w, NEW h, NEW n, NEW B, Draws(c, 0, FALSE, w, h, n, B),
         Boxes(c) = {B[i] : i \in 1..n}
  PROVE  \E o, low, w2, h2, n2, B2 : Shows(c, o, low, w2, h2, n2, B2)
<1>1. Pictures(c, n, B)
  <2>1. ASSUME NEW ram \in [Cells -> Byte] PROVE PictureOf(c, ram) = Over({B[i] : i \in 1..n}, ram)
    <3>1. PictureOf(c, ram) = Over(Boxes(c), ram)
      BY DEF PictureOf
    <3>2. QED
      BY <3>1
  <2>2. QED
    BY <2>1 DEF Pictures
<1>2. Heads(c, 0, n)
  BY NoHead
<1>3. Shows(c, 0, FALSE, w, h, n, B)
  BY <1>1, <1>2 DEF Shows
<1>4. QED
  BY <1>3

(* A call that draws one box shows it.                                      *)
LEMMA OneBoxShows ==
  ASSUME NEW c \in Calls, c.fn \in {"Char", "Chinese", "BMP"},
         NEW w \in Nat \ {0}, NEW h \in Nat \ {0}, NEW b, Boxes(c) = {b}, Boxed(b, w, h),
         Figure(Program[c], 0, FALSE, w, h, 1, [i \in 1..1 |-> b])
  PROVE  \E o, low, w2, h2, n2, B2 : Shows(c, o, low, w2, h2, n2, B2)
<1> DEFINE B == [i \in 1..1 |-> b]
           n == 1
<1>1. \A i \in 1..1 : B[i] = b
  OBVIOUS
<1>2. {B[i] : i \in 1..1} = {b}
  OBVIOUS
<1>3. Figure(Program[c], 0, FALSE, w, h, n, B) /\ Boxes(c) = {B[i] : i \in 1..n}
  BY <1>2
<1>4. (\A i \in 1..n : Boxed(B[i], w, h)) /\ n \in Nat /\ 0 \in Nat
  BY <1>1
<1>5. Apart(n, B, w, h)
  BY OneApart
<1> HIDE DEF B, n
<1>6. Draws(c, 0, FALSE, w, h, n, B)
  BY <1>3, <1>4, <1>5 DEF Draws
<1>7. QED
  BY <1>3, <1>6, BoxesShow

(* OLED_ShowChar() shows its box.                                           *)
LEMMA CharShows ==
  ASSUME NEW c \in Calls, c.fn = "Char", Fits(c)
  PROVE  \E o, low, w2, h2, n2, B2 : Shows(c, o, low, w2, h2, n2, B2)
<1> DEFINE w == Wide(c.csize)
           h == Rows(c.csize)
           b == CharBox(c.x, c.y, c.ch, c.csize)
           p == OLED_ShowChar(c.x, c.y, c.ch, c.csize)
<1>1. c.x \in Nat /\ c.y \in Nat /\ c.ch \in Characters(c.csize)
  <2>1. c.x \in Byte /\ c.y \in Byte /\ c.ch \in Characters(c.csize)
    <3>1. WellCalled(c)
      BY CallsAssumption
    <3>2. QED
      BY <3>1, Zenon DEF WellCalled
  <2>2. QED
    BY <2>1 DEF Byte
<1>2. Boxes(c) = {b}
  BY DEF Boxes
<1>3. Program[c] = p
  BY DEF Program, ProgramOf
<1>4. w \in Nat \ {0} /\ h \in Nat \ {0}
  BY DEF Wide, Rows
<1>5. OnScreen(b)
  <2> HIDE DEF b
  <2>1. QED
    BY <1>2 DEF Fits, OnScreen
<1>6. Boxed(b, w, h) /\ IsRect(p, b.x, b.y, w, h, b.bytes)
  BY <1>1, <1>5, CharAt
<1> HIDE DEF b, p, w, h
<1>7. Figure(p, 0, FALSE, w, h, 1, [i \in 1..1 |-> b])
  BY <1>4, <1>6, BoxFigure DEF IsRect
<1>8. QED
  BY <1>2, <1>3, <1>4, <1>6, <1>7, OneBoxShows

(* OLED_ShowChinese() shows its box.                                        *)
LEMMA ChineseShows ==
  ASSUME NEW c \in Calls, c.fn = "Chinese", Fits(c)
  PROVE  \E o, low, w2, h2, n2, B2 : Shows(c, o, low, w2, h2, n2, B2)
<1> DEFINE w == 16
           h == 2
           t1 == OLED_Hzk[2 * c.ch]
           t2 == OLED_Hzk[2 * c.ch + 1]
           t == t1 \o t2
           b == Box(c.x, c.y, w, t)
           p == OLED_ShowChinese(c.x, c.y, c.ch)
<1>1. /\ c.x \in Nat /\ c.y \in Nat /\ c.ch \in Nat
      /\ {2 * c.ch, 2 * c.ch + 1} \subseteq DOMAIN OLED_Hzk
  <2>1. /\ c.x \in Byte /\ c.y \in Byte /\ c.ch \in Nat
        /\ {2 * c.ch, 2 * c.ch + 1} \subseteq DOMAIN OLED_Hzk
    <3>1. WellCalled(c)
      BY CallsAssumption
    <3>2. QED
      BY <3>1, Zenon DEF WellCalled
  <2>2. c.x \in Nat /\ c.y \in Nat
    BY <2>1 DEF Byte
  <2>3. QED
    BY <2>1, <2>2
<1>2. Boxes(c) = {b}
  BY DEF Boxes
<1>3. Program[c] = p
  BY DEF Program, ProgramOf
<1>4. w \in Nat \ {0} /\ h \in Nat \ {0}
  OBVIOUS
<1>5. t \in Seq(Byte) /\ Len(t) = h * w
  <2> DEFINE i == 2 * c.ch
             j == 2 * c.ch + 1
  <2>1. i \in DOMAIN OLED_Hzk /\ j \in DOMAIN OLED_Hzk
    BY <1>1
  <2> HIDE DEF i, j
  <2>2. OLED_Hzk[i] \in [1..16 -> Byte] /\ OLED_Hzk[j] \in [1..16 -> Byte]
    BY <2>1, FontsAssumption
  <2>3. t1 \in [1..w -> Byte] /\ t2 \in [1..w -> Byte]
    BY <2>2 DEF i, j
  <2>4. w + w = h * w
    OBVIOUS
  <2> HIDE DEF t1, t2, w, h
  <2>5. t1 \in Seq(Byte) /\ Len(t1) = w /\ t2 \in Seq(Byte) /\ Len(t2) = w
    BY <1>4, <2>3, Listed
  <2>6. t1 \o t2 \in Seq(Byte) /\ Len(t1 \o t2) = w + w
    BY <1>4, <2>5, Joined
  <2>7. QED
    BY <2>4, <2>6
<1>6. c.x \in Int /\ c.y \in Int
  BY <1>1
<1>7. IsRect(p, c.x, c.y, w, h, t)
  BY <1>1, <1>6, ShowChineseAt
<1> HIDE DEF w, h, t, p
<1>8. b.x = c.x /\ b.y = c.y /\ b.bytes = t
  BY BoxIs
<1>9. b.x + b.w <= COLUMNS /\ b.y + (Len(b.bytes) \div b.w) <= PAGES
  <2> HIDE DEF b
  <2>1. QED
    BY <1>2 DEF Fits
<1>10. Boxed(b, w, h)
  BY <1>1, <1>4, <1>5, <1>9, BoxedIs
<1> HIDE DEF b
<1>11. Len(p) = h * (w + 3) /\ Rect(p, 0, FALSE, b.x, b.y, w, h, b.bytes)
  BY <1>7, <1>8 DEF IsRect
<1>12. Figure(p, 0, FALSE, w, h, 1, [i \in 1..1 |-> b])
  BY <1>4, <1>11, BoxFigure
<1>13. QED
  BY <1>2, <1>3, <1>4, <1>10, <1>12, OneBoxShows

(* OLED_ShowBMP() shows its box.                                            *)
LEMMA BMPShows ==
  ASSUME NEW c \in Calls, c.fn = "BMP", Fits(c)
  PROVE  \E o, low, w2, h2, n2, B2 : Shows(c, o, low, w2, h2, n2, B2)
<1> DEFINE w == c.x1 - c.x
           h == c.y1 - c.y
           b == Box(c.x, c.y, w, c.bmp)
           p == OLED_ShowBMP(c.x, c.y, c.x1, c.y1, c.bmp)
<1>1. /\ c.x \in Byte /\ c.y \in Byte /\ c.x1 \in Byte /\ c.y1 \in Byte
      /\ c.x < c.x1 /\ c.y < c.y1
      /\ c.bmp \in Seq(Byte) /\ Len(c.bmp) = (c.x1 - c.x) * (c.y1 - c.y)
  <2>1. WellCalled(c)
    BY CallsAssumption
  <2>2. QED
    BY <2>1, Zenon DEF WellCalled
<1>2. Boxes(c) = {b}
  BY DEF Boxes
<1>3. Program[c] = p
  BY DEF Program, ProgramOf
<1>4. w \in Nat \ {0} /\ h \in Nat \ {0} /\ c.x \in Nat /\ c.y \in Nat
  <2> DEFINE x == c.x
             y == c.y
             x1 == c.x1
             y1 == c.y1
  <2>1. x \in Byte /\ y \in Byte /\ x1 \in Byte /\ y1 \in Byte /\ x < x1 /\ y < y1
    BY <1>1
  <2> HIDE DEF x, y, x1, y1
  <2>2. x \in Nat /\ y \in Nat /\ x1 - x \in Nat \ {0} /\ y1 - y \in Nat \ {0}
    BY <2>1 DEF Byte
  <2>3. QED
    BY <2>2 DEF x, y, x1, y1
<1>5. Figure(p, 0, FALSE, w, h, 1, [i \in 1..1 |-> b])
  <2> DEFINE x == c.x
             y == c.y
             x1 == c.x1
             y1 == c.y1
             t == c.bmp
  <2>1. x \in Byte /\ y \in Byte /\ x1 \in Byte /\ y1 \in Byte /\ x < x1 /\ y < y1
    BY <1>1
  <2>2. t \in Seq(Byte) /\ Len(t) = (x1 - x) * (y1 - y)
    BY <1>1
  <2> HIDE DEF x, y, x1, y1, t
  <2>3. Figure(OLED_ShowBMP(x, y, x1, y1, t), 0, FALSE, x1 - x, y1 - y, 1,
               [i \in 1..1 |-> Box(x, y, x1 - x, t)])
    BY <2>1, <2>2, BMPFigure
  <2>4. QED
    BY <2>3 DEF x, y, x1, y1, t
<1>6. Len(c.bmp) = h * w /\ c.bmp \in Seq(Byte)
  <2>1. Len(c.bmp) = w * h
    BY <1>1
  <2> HIDE DEF w, h
  <2>2. w * h = h * w
    BY <1>4
  <2>3. QED
    BY <1>1, <2>1, <2>2
<1> HIDE DEF w, h, p
<1>7. b.x + b.w <= COLUMNS /\ b.y + (Len(b.bytes) \div b.w) <= PAGES
  <2> HIDE DEF b
  <2>1. QED
    BY <1>2 DEF Fits
<1>8. Boxed(b, w, h)
  BY <1>4, <1>6, <1>7, BoxedIs
<1> HIDE DEF b
<1>9. QED
  BY <1>2, <1>3, <1>4, <1>5, <1>8, OneBoxShows

(* The screen has columns and pages.                                        *)
LEMMA Size ==
  /\ COLUMNS \in Nat \ {0} /\ PAGES \in Nat \ {0}
  /\ COLUMNS \in Nat /\ COLUMNS # 0 /\ PAGES \in Nat /\ PAGES # 0
BY ScreenAssumption

(* A plain screen is a box of the screen's size.                            *)
LEMMA PlainIs ==
  ASSUME NEW d \in Byte
  PROVE  Boxed(Plain(d), COLUMNS, PAGES)
<1> DEFINE n == PAGES * COLUMNS
           t == [k \in 1..n |-> d]
           b == Plain(d)
<1>1. n \in Nat
  BY Size
<1>2. t \in [1..n -> Byte]
  OBVIOUS
<1>3. t \in Seq(Byte) /\ Len(t) = n
  <2> HIDE DEF n, t
  <2>1. QED
    BY <1>1, <1>2, Listed
<1>4. b.x = 0 /\ b.y = 0 /\ b.w = COLUMNS /\ b.bytes = t
  BY BoxIs DEF Plain
<1> HIDE DEF t, b
<1>5. QED
  <2>1. 0 \in Nat /\ 0 + COLUMNS <= COLUMNS /\ 0 + PAGES <= PAGES
    BY Size
  <2>2. Boxed(b, COLUMNS, PAGES)
    BY <1>3, <1>4, <2>1 DEF Boxed
  <2>3. QED
    BY <2>2 DEF b

(* A plain screen is one box.                                               *)
LEMMA PlainOver ==
  ASSUME NEW d \in Byte, NEW ram
  PROVE  Over({Plain(d)}, ram) = [cell \in Cells |-> d]
<1> DEFINE b == Plain(d)
           n == PAGES * COLUMNS
           t == [k \in 1..n |-> d]
<1>1. Boxed(b, COLUMNS, PAGES)
  BY PlainIs
<1>2. b.x = 0 /\ b.y = 0 /\ b.w = COLUMNS /\ b.bytes = t
  BY BoxIs DEF Plain
<1> HIDE DEF b
<1>3. Len(b.bytes) \div b.w = PAGES
  BY <1>1, <1>2, Size, Quotient DEF Boxed
<1>4. ASSUME NEW cell \in Cells
      PROVE  Inside(cell, b) /\ b.bytes[b.w * (cell[1] - b.y) + cell[2] - b.x + 1] = d
  <2> DEFINE r == cell[1]
             k == cell[2]
  <2>1. r \in 0..PAGES - 1 /\ k \in 0..COLUMNS - 1
    BY DEF Cells
  <2> HIDE DEF r, k
  <2>2. k \in 0..0 + COLUMNS - 1 /\ r \in 0..0 + PAGES - 1
    BY <2>1, Size
  <2>3. Inside(cell, b)
    BY <1>2, <1>3, <2>2 DEF Inside, r, k
  <2>4. r + 1 \in 1..PAGES /\ k + 1 \in 1..COLUMNS /\ (r + 1) - 1 = r
    BY <2>1, Size
  <2>5. ((r + 1) - 1) * COLUMNS + (k + 1) \in 1..PAGES * COLUMNS
    <3> DEFINE i == r + 1
               j == k + 1
    <3> HIDE DEF i, j
    <3>1. i \in 1..PAGES /\ j \in 1..COLUMNS
      BY <2>4 DEF i, j
    <3>2. (i - 1) * COLUMNS + j \in 1..PAGES * COLUMNS
      BY <3>1, Size, Places
    <3>3. QED
      BY <3>2 DEF i, j
  <2>6. COLUMNS * (r - 0) + k - 0 + 1 = ((r + 1) - 1) * COLUMNS + (k + 1)
    <3> DEFINE e == COLUMNS * r
    <3>1. e \in Nat /\ COLUMNS * (r - 0) = e /\ ((r + 1) - 1) * COLUMNS = e
      BY <2>1, Size
    <3> HIDE DEF e
    <3>2. e + k - 0 + 1 = e + (k + 1)
      BY <2>1, <3>1
    <3>3. QED
      BY <3>1, <3>2
  <2>7. t[COLUMNS * (r - 0) + k - 0 + 1] = d
    BY <2>5, <2>6
  <2>8. b.bytes[b.w * (cell[1] - b.y) + cell[2] - b.x + 1] = d
    BY <1>2, <2>7 DEF r, k
  <2>9. QED
    BY <2>3, <2>8
<1> DEFINE e(cell) == IF \E c \in {b} : Inside(cell, c)
                      THEN LET c == CHOOSE c \in {b} : Inside(cell, c) IN
                           c.bytes[c.w * (cell[1] - c.y) + cell[2] - c.x + 1]
                      ELSE ram[cell]
<1>5. ASSUME NEW cell \in Cells PROVE e(cell) = d
  <2> DEFINE c == CHOOSE c \in {b} : Inside(cell, c)
  <2>1. \E a \in {b} : Inside(cell, a)
    BY <1>4
  <2>2. c = b
    <3> HIDE DEF Inside
    <3>1. QED
      BY <2>1
  <2>3. e(cell) = c.bytes[c.w * (cell[1] - c.y) + cell[2] - c.x + 1]
    BY <2>1
  <2> HIDE DEF c, e
  <2>4. QED
    BY <1>4, <2>2, <2>3
<1>6. Over({b}, ram) = [cell \in Cells |-> e(cell)]
  BY DEF Over
<1> HIDE DEF e
<1>7. QED
  BY <1>5, <1>6 DEF b

(* A call that draws a plain screen shows its picture.                      *)
LEMMA PlainShows ==
  ASSUME NEW c \in Calls, NEW d \in Byte, NEW o \in Nat,
         Figure(Program[c], o, TRUE, COLUMNS, PAGES, 1, [i \in 1..1 |-> Plain(d)]),
         Heads(c, o, 1), \A ram \in [Cells -> Byte] : PictureOf(c, ram) = [cell \in Cells |-> d]
  PROVE  \E o2, low, w, h, n, B : Shows(c, o2, low, w, h, n, B)
<1> DEFINE B == [i \in 1..1 |-> Plain(d)]
           n == 1
<1>1. \A i \in 1..n : Boxed(B[i], COLUMNS, PAGES)
  BY PlainIs
<1>2. {B[i] : i \in 1..n} = {Plain(d)}
  OBVIOUS
<1>3. Pictures(c, n, B)
  <2> HIDE DEF B, n
  <2>1. ASSUME NEW ram \in [Cells -> Byte] PROVE PictureOf(c, ram) = Over({B[i] : i \in 1..n}, ram)
    <3>1. Over({Plain(d)}, ram) = [cell \in Cells |-> d]
      BY PlainOver
    <3>2. PictureOf(c, ram) = [cell \in Cells |-> d]
      OBVIOUS
    <3>3. QED
      BY <1>2, <3>1, <3>2
  <2>2. QED
    BY <2>1 DEF Pictures
<1>4. Figure(Program[c], o, TRUE, COLUMNS, PAGES, n, B) /\ Heads(c, o, n) /\ n \in Nat
  OBVIOUS
<1>5. Apart(n, B, COLUMNS, PAGES)
  BY OneApart
<1> HIDE DEF B, n
<1>6. Draws(c, o, TRUE, COLUMNS, PAGES, n, B)
  BY <1>1, <1>4, <1>5, Size DEF Draws
<1>7. Shows(c, o, TRUE, COLUMNS, PAGES, n, B)
  BY <1>3, <1>4, <1>6 DEF Shows
<1>8. QED
  BY <1>7

(* OLED_Clear() and OLED_Fill() show a plain screen.                        *)
LEMMA FillShows ==
  ASSUME NEW c \in Calls, c.fn \in {"Clear", "Fill"}
  PROVE  \E o2, low, w, h, n, B : Shows(c, o2, low, w, h, n, B)
<1> DEFINE d == IF c.fn = "Fill" THEN c.byte ELSE 0
<1>1. d \in Byte
  <2>1. c.fn = "Fill" => c.byte \in Byte
    <3>1. WellCalled(c)
      BY CallsAssumption
    <3>2. QED
      BY <3>1, Zenon DEF WellCalled
  <2>2. 0 \in Byte
    BY DEF Byte
  <2>3. QED
    BY <2>1, <2>2
<1>2. Program[c] = Fill_picture(d)
  BY DEF Program, ProgramOf, OLED_Clear
<1>3. \A ram \in [Cells -> Byte] : PictureOf(c, ram) = [cell \in Cells |-> d]
  BY DEF PictureOf
<1>4. Heads(c, 0, 1)
  BY NoHead
<1> HIDE DEF d
<1>5. Figure(Program[c], 0, TRUE, COLUMNS, PAGES, 1, [i \in 1..1 |-> Plain(d)])
  BY <1>1, <1>2, FillFigure
<1>6. 0 \in Nat
  OBVIOUS
<1>7. QED
  BY <1>1, <1>3, <1>4, <1>5, <1>6, PlainShows

(* OLED_Init() shows an empty screen.                                       *)
LEMMA InitShows ==
  ASSUME NEW c \in Calls, c.fn = "Init"
  PROVE  \E o2, low, w, h, n, B : Shows(c, o2, low, w, h, n, B)
<1>1. Program[c] = OLED_Init
  BY DEF Program, ProgramOf
<1>2. \A ram \in [Cells -> Byte] : PictureOf(c, ram) = [cell \in Cells |-> 0]
  BY DEF PictureOf
<1>3. 0 \in Byte
  BY DEF Byte
<1> DEFINE o == 27
           p == Program[c]
<1>4. \A i \in 1..o : p[i][2] = OLED_CMD
  <2>1. \A i \in 1..27 : p[i] = CMD(Settings[i])
    BY InitProgram
  <2> HIDE DEF p
  <2>2. QED
    BY <2>1 DEF CMD
<1>5. Heads(c, o, 1)
  BY <1>4 DEF Heads
<1>6. Figure(p, o, TRUE, COLUMNS, PAGES, 1, [i \in 1..1 |-> Plain(0)])
  BY <1>1, InitFigure
<1>7. o \in Nat
  OBVIOUS
<1> HIDE DEF o
<1>8. QED
  BY <1>2, <1>3, <1>5, <1>6, <1>7, PlainShows

(* OLED_display_on() and OLED_display_off() draw nothing.                   *)
LEMMA SwitchShows ==
  ASSUME NEW c \in Calls, c.fn \in {"on", "off"}
  PROVE  \E o2, low, w, h, n, B : Shows(c, o2, low, w, h, n, B)
<1> DEFINE p == Program[c]
           B == [i \in 1..0 |-> 0]
<1>1. p = OLED_display_on \/ p = OLED_display_off
  BY DEF Program, ProgramOf
<1>2. Len(p) = 3 /\ p[1][2] = OLED_CMD /\ p[2][2] = OLED_CMD /\ p[3][2] = OLED_CMD
  <2>1. CASE p = OLED_display_on
    BY <2>1 DEF OLED_display_on, CMD
  <2>2. CASE p = OLED_display_off
    BY <2>2 DEF OLED_display_off, CMD
  <2>3. QED
    BY <1>1, <2>1, <2>2
<1> HIDE DEF p
<1>3. Figure(p, 3, FALSE, 1, 1, 0, B)
  <2>1. Len(p) = 3 + (0 * 1) * (1 + 3)
    BY <1>2
  <2>2. 1..0 = {}
    OBVIOUS
  <2> HIDE DEF B
  <2>3. QED
    BY <2>1, <2>2 DEF Figure
<1>4. Heads(c, 3, 0)
  <2>1. \A i \in 1..3 : p[i][2] = OLED_CMD
    <3>1. \A i \in 1..3 : i = 1 \/ i = 2 \/ i = 3
      OBVIOUS
    <3>2. QED
      BY <1>2, <3>1
  <2>2. QED
    BY <2>1 DEF Heads, p
<1>5. 1..0 = {}
  OBVIOUS
<1>6. Pictures(c, 0, B)
  <2>1. ASSUME NEW ram \in [Cells -> Byte] PROVE PictureOf(c, ram) = Over({B[i] : i \in 1..0}, ram)
    <3>1. PictureOf(c, ram) = Over(Boxes(c), ram)
      BY DEF PictureOf
    <3>2. Boxes(c) = {}
      BY DEF Boxes
    <3>3. {B[i] : i \in 1..0} = {}
      BY <1>5
    <3>4. QED
      BY <3>1, <3>2, <3>3
  <2>2. QED
    BY <2>1 DEF Pictures
<1>7. 1 \in Nat \ {0} /\ 0 \in Nat /\ 3 \in Nat
  OBVIOUS
<1> HIDE DEF B
<1>8. Draws(c, 3, FALSE, 1, 1, 0, B)
  BY <1>3, <1>5, <1>7 DEF Draws, Apart, p
<1>9. Shows(c, 3, FALSE, 1, 1, 0, B)
  BY <1>4, <1>6, <1>8 DEF Shows
<1>10. QED
  BY <1>9

(* The writes of every call whose picture fits on the screen draw that      *)
(* picture.                                                                 *)
LEMMA CallShows ==
  ASSUME NEW c \in Calls, Fits(c)
  PROVE  \E o2, low, w, h, n, B : Shows(c, o2, low, w, h, n, B)
<1>1. c.fn \in {"Init", "Clear", "on", "off", "Fill", "Char", "Num", "String", "Chinese", "BMP"}
  <2>1. WellCalled(c)
    BY CallsAssumption
  <2>2. QED
    BY <2>1, Zenon DEF WellCalled
<1>2. CASE c.fn = "Num"
  <2>1. Draws(c, 0, FALSE, Wide(c.csize), Rows(c.csize), c.len, NumBox(c))
    BY <1>2, NumDraws
  <2>2. c.len \in Nat
    BY <2>1 DEF Draws
  <2>3. Boxes(c) = {NumBox(c)[i] : i \in 1..c.len}
    <3>1. Boxes(c) = NumBoxes(c)
      BY <1>2 DEF Boxes
    <3>2. QED
      BY <2>2, <3>1, NumBoxesAre
  <2> DEFINE n == c.len
             B == NumBox(c)
             w == Wide(c.csize)
             h == Rows(c.csize)
  <2>4. Draws(c, 0, FALSE, w, h, n, B) /\ Boxes(c) = {B[i] : i \in 1..n}
    BY <2>1, <2>3
  <2>5. c.fn \in {"Char", "Num", "String", "Chinese", "BMP"}
    BY <1>2
  <2> HIDE DEF n, B, w, h
  <2>6. QED
    BY <2>4, <2>5, BoxesShow
<1>3. CASE c.fn = "String"
  <2>1. Draws(c, 0, FALSE, Wide(c.csize), Rows(c.csize), Len(c.str), StringBox(c))
    BY <1>3, StringDraws
  <2>2. c.str \in Seq(Characters(c.csize))
    <3>1. WellCalled(c)
      BY CallsAssumption
    <3>2. QED
      BY <1>3, <3>1, Zenon DEF WellCalled
  <2>3. Boxes(c) = {StringBox(c)[i] : i \in 1..Len(c.str)}
    <3>1. Boxes(c) = StringBoxes(c)
      BY <1>3 DEF Boxes
    <3>2. QED
      BY <2>2, <3>1, StringBoxesAre
  <2> DEFINE n == Len(c.str)
             B == StringBox(c)
             w == Wide(c.csize)
             h == Rows(c.csize)
  <2>4. Draws(c, 0, FALSE, w, h, n, B) /\ Boxes(c) = {B[i] : i \in 1..n}
    BY <2>1, <2>3
  <2>5. c.fn \in {"Char", "Num", "String", "Chinese", "BMP"}
    BY <1>3
  <2> HIDE DEF n, B, w, h
  <2>6. QED
    BY <2>4, <2>5, BoxesShow
<1>4. QED
  BY <1>1, <1>2, <1>3, CharShows, ChineseShows, BMPShows, FillShows, InitShows, SwitchShows

(* The drawing in progress: j writes of row r of box i.  Cell is covered by *)
(* box t once its byte has been written.                                    *)
Behind(b, r, j, cell) == cell[1] - b.y < r \/ (cell[1] - b.y = r /\ cell[2] - b.x + 4 <= j)

(* The cells written before write j of row r of box i, and what is in a     *)
(* cell of a box.                                                           *)
Covered(B, w, h, i, r, j, t, cell) ==
  In(cell, B[t], w, h) /\ (t < i \/ (t = i /\ Behind(B[t], r, j, cell)))

Value(b, cell) == b.bytes[b.w * (cell[1] - b.y) + cell[2] - b.x + 1]

(* The memory holds what is covered, and elsewhere what was there.          *)
Painted(ram, ram0, n, B, w, h, i, r, j) ==
  \A cell \in Cells :
    /\ \A t \in 1..n : Covered(B, w, h, i, r, j, t, cell) => ram[cell] = Value(B[t], cell)
    /\ (\A t \in 1..n : ~ Covered(B, w, h, i, r, j, t, cell)) => ram[cell] = ram0[cell]

(* A cell is a page and a column.                                           *)
LEMMA CellIs ==
  ASSUME NEW cell \in Cells
  PROVE  cell[1] \in Nat /\ cell[2] \in Nat /\ cell = <<cell[1], cell[2]>>
BY ScreenAssumption DEF Cells

(* What is painted depends only on what is covered.                         *)
LEMMA SamePainted ==
  ASSUME NEW ram, NEW ram0, NEW n, NEW B, NEW w, NEW h,
         NEW i, NEW r, NEW j, NEW i2, NEW r2, NEW j2,
         Painted(ram, ram0, n, B, w, h, i, r, j),
         \A cell \in Cells, t \in 1..n :
           Covered(B, w, h, i, r, j, t, cell) <=> Covered(B, w, h, i2, r2, j2, t, cell)
  PROVE  Painted(ram, ram0, n, B, w, h, i2, r2, j2)
<1>1. ASSUME NEW cell \in Cells
      PROVE  /\ \A t \in 1..n : Covered(B, w, h, i2, r2, j2, t, cell) => ram[cell] = Value(B[t], cell)
             /\ (\A t \in 1..n : ~ Covered(B, w, h, i2, r2, j2, t, cell)) => ram[cell] = ram0[cell]
  <2>1. /\ \A t \in 1..n : Covered(B, w, h, i, r, j, t, cell) => ram[cell] = Value(B[t], cell)
        /\ (\A t \in 1..n : ~ Covered(B, w, h, i, r, j, t, cell)) => ram[cell] = ram0[cell]
    BY DEF Painted
  <2>2. QED
    BY <2>1, Zenon
<1>2. QED
  BY <1>1, Zenon DEF Painted

(* Commands cover nothing.                                                  *)
LEMMA CommandCovers ==
  ASSUME NEW n \in Nat, NEW B, NEW w \in Nat, NEW h \in Nat, \A t \in 1..n : Boxed(B[t], w, h),
         NEW i \in Nat, NEW r \in Nat, NEW j \in 0..2, NEW cell \in Cells, NEW t \in 1..n
  PROVE  Covered(B, w, h, i, r, j, t, cell) <=> Covered(B, w, h, i, r, j + 1, t, cell)
<1> DEFINE b == B[t]
           y == cell[1]
           x == cell[2]
<1>1. y \in Nat /\ x \in Nat
  BY CellIs
<1>2. b.x \in Nat /\ b.y \in Nat
  BY DEF Boxed
<1> HIDE DEF b, x, y
<1>3. In(cell, b, w, h) => x >= b.x
  BY <1>1, <1>2 DEF In, x
<1>4. In(cell, b, w, h) => (Behind(b, r, j, cell) <=> Behind(b, r, j + 1, cell))
  BY <1>1, <1>2, <1>3 DEF Behind, x, y
<1>5. QED
  BY <1>4 DEF Covered, b

(* The end of a row is the beginning of the next one.                       *)
LEMMA RowCovers ==
  ASSUME NEW n \in Nat, NEW B, NEW w \in Nat, NEW h \in Nat, \A t \in 1..n : Boxed(B[t], w, h),
         NEW i \in Nat, NEW r \in Nat, NEW cell \in Cells, NEW t \in 1..n
  PROVE  Covered(B, w, h, i, r, w + 3, t, cell) <=> Covered(B, w, h, i, r + 1, 0, t, cell)
<1> DEFINE b == B[t]
           y == cell[1]
           x == cell[2]
<1>1. y \in Nat /\ x \in Nat
  BY CellIs
<1>2. b.x \in Nat /\ b.y \in Nat
  BY DEF Boxed
<1> HIDE DEF b, x, y
<1>3. In(cell, b, w, h) => x >= b.x /\ x <= b.x + w - 1
  BY <1>1, <1>2 DEF In, x
<1>4. In(cell, b, w, h) => (Behind(b, r, w + 3, cell) <=> Behind(b, r + 1, 0, cell))
  BY <1>1, <1>2, <1>3 DEF Behind, x, y
<1>5. QED
  BY <1>4 DEF Covered, b

(* The end of a box is the beginning of the next one.                       *)
LEMMA BoxCovers ==
  ASSUME NEW n \in Nat, NEW B, NEW w \in Nat, NEW h \in Nat, \A t \in 1..n : Boxed(B[t], w, h),
         NEW i \in Nat, NEW cell \in Cells, NEW t \in 1..n
  PROVE  Covered(B, w, h, i, h, 0, t, cell) <=> Covered(B, w, h, i + 1, 0, 0, t, cell)
<1> DEFINE b == B[t]
           y == cell[1]
           x == cell[2]
<1>1. y \in Nat /\ x \in Nat
  BY CellIs
<1>2. b.x \in Nat /\ b.y \in Nat
  BY DEF Boxed
<1> HIDE DEF b, x, y
<1>3. In(cell, b, w, h) => x >= b.x /\ y >= b.y /\ y <= b.y + h - 1
  BY <1>1, <1>2 DEF In, x, y
<1>4. In(cell, b, w, h) => Behind(b, h, 0, cell) /\ ~ Behind(b, 0, 0, cell)
  BY <1>1, <1>2, <1>3 DEF Behind, x, y
<1>5. t < i + 1 <=> t < i \/ t = i
  OBVIOUS
<1>6. QED
  BY <1>4, <1>5 DEF Covered, b

(* A byte of data covers the cell of the cursor, with the byte meant for it. *)
Puts(ram2, ram, spot, e) == \A cell \in Cells : ram2[cell] = IF cell = spot THEN e ELSE ram[cell]

(* A byte put into the cell at the cursor paints one cell more and disturbs *)
(* no other.                                                                *)
LEMMA DataPaints ==
  ASSUME NEW n \in Nat, NEW B, NEW w \in Nat, NEW h \in Nat, \A t \in 1..n : Boxed(B[t], w, h),
         Apart(n, B, w, h),
         NEW i \in 1..n, NEW r \in 0..h - 1, NEW j \in 3..w + 2,
         NEW ram, NEW ram0, Painted(ram, ram0, n, B, w, h, i, r, j),
         NEW ram2, NEW spot, spot = <<B[i].y + r, B[i].x + (j - 3)>>,
         Puts(ram2, ram, spot, Bytes(B[i].bytes, r * w, w)[j - 2])
  PROVE  Painted(ram2, ram0, n, B, w, h, i, r, j + 1)
<1> DEFINE b == B[i]
           e == Bytes(b.bytes, r * w, w)[j - 2]
<1>1. b.x \in Nat /\ b.y \in Nat /\ b.w = w
  BY DEF Boxed
<1>2. spot = <<b.y + r, b.x + (j - 3)>>
  OBVIOUS
<1>3. e = b.bytes[r * w + (j - 2)]
  <2>1. j - 2 \in 1..w
    OBVIOUS
  <2> HIDE DEF b
  <2>2. QED
    BY <2>1 DEF Bytes
<1>4. \A cell \in Cells : ram2[cell] = IF cell = spot THEN e ELSE ram[cell]
  BY Zenon DEF Puts
<1> HIDE DEF e
<1>5. ASSUME NEW cell \in Cells, cell = spot
      PROVE  /\ In(cell, b, w, h) /\ Behind(b, r, j + 1, cell) /\ Value(b, cell) = e
  <2> DEFINE y == cell[1]
             x == cell[2]
  <2>1. y = b.y + r /\ x = b.x + (j - 3)
    BY <1>2, <1>5
  <2> HIDE DEF b, x, y
  <2>2. In(cell, b, w, h)
    BY <1>1, <2>1 DEF In, x, y
  <2>3. Behind(b, r, j + 1, cell)
    BY <1>1, <2>1 DEF Behind, x, y
  <2>4. b.w * (y - b.y) + x - b.x + 1 = r * w + (j - 2)
    <3>1. y - b.y = r
      BY <1>1, <2>1
    <3> DEFINE a == r * w
    <3>2. b.w * (y - b.y) = a /\ a \in Nat
      BY <1>1, <3>1
    <3> HIDE DEF a
    <3>3. a + x - b.x + 1 = a + (j - 2)
      BY <1>1, <2>1, <3>2
    <3>4. QED
      BY <3>2, <3>3 DEF a
  <2>5. Value(b, cell) = e
    BY <1>3, <2>4 DEF Value, x, y
  <2>6. QED
    BY <2>2, <2>3, <2>5
<1>6. ASSUME NEW cell \in Cells, cell # spot, NEW t \in 1..n
      PROVE  Covered(B, w, h, i, r, j + 1, t, cell) <=> Covered(B, w, h, i, r, j, t, cell)
  <2>1. CASE t # i
    BY <2>1 DEF Covered
  <2>2. CASE t = i
    <3> DEFINE y == cell[1]
               x == cell[2]
    <3>1. y \in Nat /\ x \in Nat /\ cell = <<y, x>>
      BY CellIs
    <3>2. ~ (y = b.y + r /\ x = b.x + (j - 3))
      BY <1>2, <1>6, <3>1
    <3> HIDE DEF b, x, y
    <3>3. Behind(b, r, j + 1, cell) <=> Behind(b, r, j, cell)
      BY <1>1, <3>1, <3>2 DEF Behind, x, y
    <3>4. QED
      BY <2>2, <3>3 DEF Covered, b
  <2>3. QED
    BY <2>1, <2>2
<1>7. ASSUME NEW cell \in Cells
      PROVE  /\ \A t \in 1..n : Covered(B, w, h, i, r, j + 1, t, cell) => ram2[cell] = Value(B[t], cell)
             /\ (\A t \in 1..n : ~ Covered(B, w, h, i, r, j + 1, t, cell)) => ram2[cell] = ram0[cell]
  <2>1. CASE cell = spot
    <3>1. In(cell, b, w, h) /\ Behind(b, r, j + 1, cell) /\ Value(b, cell) = e
      BY <1>5, <2>1
    <3>2. ram2[cell] = e
      BY <1>4, <2>1
    <3>3. Covered(B, w, h, i, r, j + 1, i, cell)
      BY <3>1 DEF Covered
    <3>4. ASSUME NEW t \in 1..n, Covered(B, w, h, i, r, j + 1, t, cell) PROVE t = i
      <4>1. In(cell, B[t], w, h)
        BY <3>4 DEF Covered
      <4>2. QED
        BY <3>1, <4>1 DEF Apart
    <3>5. ASSUME NEW t \in 1..n, Covered(B, w, h, i, r, j + 1, t, cell)
          PROVE  ram2[cell] = Value(B[t], cell)
      <4>1. t = i
        BY <3>4, <3>5
      <4>2. QED
        BY <3>1, <3>2, <4>1
    <3>6. QED
      BY <3>3, <3>5
  <2>2. CASE cell # spot
    <3>1. ram2[cell] = ram[cell]
      BY <1>4, <2>2
    <3>2. \A t \in 1..n : Covered(B, w, h, i, r, j + 1, t, cell) <=> Covered(B, w, h, i, r, j, t, cell)
      BY <1>6, <2>2
    <3>3. /\ \A t \in 1..n : Covered(B, w, h, i, r, j, t, cell) => ram[cell] = Value(B[t], cell)
          /\ (\A t \in 1..n : ~ Covered(B, w, h, i, r, j, t, cell)) => ram[cell] = ram0[cell]
      BY DEF Painted
    <3>4. QED
      BY <3>1, <3>2, <3>3, Zenon
  <2>3. QED
    BY <2>1, <2>2
<1>8. QED
  BY <1>7, Zenon DEF Painted

(* Nothing is covered at the beginning, and every box at the end.           *)
LEMMA NothingPainted ==
  ASSUME NEW n \in Nat, NEW B, NEW w \in Nat, NEW h \in Nat, \A t \in 1..n : Boxed(B[t], w, h), NEW ram
  PROVE  Painted(ram, ram, n, B, w, h, 1, 0, 0)
<1>1. ASSUME NEW cell \in Cells, NEW t \in 1..n PROVE ~ Covered(B, w, h, 1, 0, 0, t, cell)
  <2> DEFINE b == B[t]
             y == cell[1]
             x == cell[2]
  <2>1. y \in Nat /\ x \in Nat
    BY CellIs
  <2>2. b.x \in Nat /\ b.y \in Nat
    BY DEF Boxed
  <2> HIDE DEF b, x, y
  <2>3. In(cell, b, w, h) => x >= b.x /\ y >= b.y
    BY <2>1, <2>2 DEF In, x, y
  <2>4. In(cell, b, w, h) => ~ Behind(b, 0, 0, cell)
    BY <2>1, <2>2, <2>3 DEF Behind, x, y
  <2>5. ~ (t < 1)
    OBVIOUS
  <2>6. QED
    BY <2>4, <2>5 DEF Covered, b
<1>2. QED
  BY <1>1 DEF Painted

(* The boxes of a drawing, as a set.                                        *)
Together(n, B) == {B[i] : i \in 1..n}

(* When all boxes are painted the memory is the picture.                    *)
LEMMA AllPainted ==
  ASSUME NEW n \in Nat, NEW B, NEW w \in Nat \ {0}, NEW h \in Nat, \A t \in 1..n : Boxed(B[t], w, h),
         NEW ram \in [Cells -> Byte], NEW ram0, Painted(ram, ram0, n, B, w, h, n + 1, 0, 0)
  PROVE  ram = Over(Together(n, B), ram0)
<1> DEFINE S == {B[i] : i \in 1..n}
<1>1. ASSUME NEW cell \in Cells, NEW t \in 1..n
      PROVE  Covered(B, w, h, n + 1, 0, 0, t, cell) <=> Inside(cell, B[t])
  <2> DEFINE b == B[t]
  <2>1. b.w = w /\ Len(b.bytes) = h * w
    BY DEF Boxed
  <2>2. Len(b.bytes) \div b.w = h
    BY <2>1, Quotient
  <2>3. In(cell, b, w, h) <=> Inside(cell, b)
    <3> HIDE DEF b
    <3>1. QED
      BY <2>1, <2>2 DEF In, Inside
  <2>4. t < n + 1
    OBVIOUS
  <2>5. QED
    BY <2>3, <2>4 DEF Covered
<1> DEFINE e(cell) == IF \E b \in S : Inside(cell, b)
                      THEN LET b == CHOOSE b \in S : Inside(cell, b) IN
                           b.bytes[b.w * (cell[1] - b.y) + cell[2] - b.x + 1]
                      ELSE ram0[cell]
<1>2. ASSUME NEW cell \in Cells PROVE ram[cell] = e(cell)
  <2>1. /\ \A t \in 1..n : Covered(B, w, h, n + 1, 0, 0, t, cell) => ram[cell] = Value(B[t], cell)
        /\ (\A t \in 1..n : ~ Covered(B, w, h, n + 1, 0, 0, t, cell)) => ram[cell] = ram0[cell]
    BY DEF Painted
  <2>2. /\ \A t \in 1..n : Inside(cell, B[t]) => ram[cell] = Value(B[t], cell)
        /\ (\A t \in 1..n : ~ Inside(cell, B[t])) => ram[cell] = ram0[cell]
    BY <1>1, <2>1
  <2>3. CASE \E b \in S : Inside(cell, b)
    <3> DEFINE b == CHOOSE b \in S : Inside(cell, b)
    <3>1. b \in S /\ Inside(cell, b)
      <4> HIDE DEF S, Inside
      <4>1. QED
        BY <2>3
    <3>2. e(cell) = Value(b, cell)
      BY <2>3 DEF Value
    <3> HIDE DEF b, e
    <3>3. PICK t \in 1..n : b = B[t]
      BY <3>1
    <3>4. QED
      BY <2>2, <3>1, <3>2, <3>3
  <2>4. CASE ~ (\E b \in S : Inside(cell, b))
    <3>1. e(cell) = ram0[cell]
      BY <2>4
    <3>2. \A t \in 1..n : ~ Inside(cell, B[t])
      BY <2>4
    <3> HIDE DEF e
    <3>3. QED
      BY <2>2, <3>1, <3>2
  <2>5. QED
    BY <2>3, <2>4
<1>3. Over(S, ram0) = [cell \in Cells |-> e(cell)]
  BY DEF Over
<1> HIDE DEF e, S
<1>4. ram = [cell \in Cells |-> e(cell)]
  BY <1>2
<1>5. QED
  BY <1>3, <1>4 DEF S, Together

(* A command that is not the argument of another one, and its effect.       *)
Moved(q, p, page, col) ==
  q.page = page /\ q.col = col /\ q.ram = p.ram /\ q.pending = FALSE

(* The fields of the controller.                                            *)
LEMMA PanelIs ==
  ASSUME NEW p \in Panels
  PROVE  /\ p = [page |-> p.page, col |-> p.col, ram |-> p.ram, on |-> p.on, pending |-> p.pending]
         /\ p.page \in 0..7 /\ p.col \in 0..127 /\ p.ram \in [Cells -> Byte]
         /\ p.on \in BOOLEAN /\ p.pending \in BOOLEAN
BY DEF Panels

(* What a write of a command does.                                          *)
LEMMA CommandIs ==
  ASSUME NEW p, NEW byte \in Byte
  PROVE  Apply(p, CMD(byte)) = Command(p, byte)
<1>1. byte % 256 = byte
  BY DEF Byte
<1>2. CMD(byte) = <<byte, OLED_CMD>>
  BY <1>1 DEF CMD, Uint8
<1>3. QED
  BY <1>2 DEF Apply

(* The page command moves the cursor to a page.                             *)
LEMMA PageMoves ==
  ASSUME NEW p \in Panels, p.pending = FALSE, NEW y \in 0..7
  PROVE  Moved(Apply(p, CMD(176 + y)), p, y, p.col)
<1> DEFINE byte == 176 + y
           nr == byte - 176
           page == p.page
           col == p.col
           ram == p.ram
           on == p.on
           pending == p.pending
<1>1. byte \in Byte /\ byte \notin TakesArgument /\ byte \notin 0..15 /\ byte \notin 16..23
        /\ byte \in 176..183 /\ nr = y
  BY DEF Byte, TakesArgument
<1>2. p = [page |-> page, col |-> col, ram |-> ram, on |-> on, pending |-> pending]
  BY PanelIs
<1>3. Apply(p, CMD(byte)) = Command(p, byte)
  <2>1. byte \in Byte
    BY <1>1
  <2> HIDE DEF byte
  <2>2. QED
    BY <2>1, CommandIs
<1>4. Command(p, byte) = [p EXCEPT !.page = nr]
  <2> HIDE DEF byte
  <2>1. QED
    BY <1>1 DEF Command
<1>5. pending = FALSE
  OBVIOUS
<1> HIDE DEF page, col, ram, on, pending, nr, byte
<1>6. [p EXCEPT !.page = nr] = [page |-> nr, col |-> col, ram |-> ram, on |-> on, pending |-> pending]
  BY <1>2
<1> DEFINE q == [page |-> nr, col |-> col, ram |-> ram, on |-> on, pending |-> pending]
<1>7. q.page = nr /\ q.col = col /\ q.ram = ram
  OBVIOUS
<1>8. q.pending = pending
  OBVIOUS
<1> HIDE DEF q
<1>9. Moved(q, p, y, p.col)
  <2>1. nr = y
    BY <1>1
  <2>2. q.page = y /\ q.col = p.col /\ q.ram = p.ram /\ q.pending = FALSE
    BY <1>5, <1>7, <1>8, <2>1, Zenon DEF col, ram
  <2>3. QED
    BY <2>2, Zenon DEF Moved
<1>10. Apply(p, CMD(byte)) = q
  BY <1>3, <1>4, <1>6 DEF q
<1>11. QED
  BY <1>9, <1>10, Zenon DEF byte

(* A command that sets the column moves the cursor within its page.         *)
LEMMA ColumnMoves ==
  ASSUME NEW p \in Panels, p.pending = FALSE, NEW byte \in Byte, NEW to,
         Command(p, byte) = [p EXCEPT !.col = to]
  PROVE  Moved(Apply(p, CMD(byte)), p, p.page, to)
<1> DEFINE page == p.page
           col == p.col
           ram == p.ram
           on == p.on
           pending == p.pending
<1>2. p = [page |-> page, col |-> col, ram |-> ram, on |-> on, pending |-> pending]
  BY PanelIs
<1>3. Apply(p, CMD(byte)) = Command(p, byte)
  BY CommandIs
<1>5. pending = FALSE
  OBVIOUS
<1> HIDE DEF page, col, ram, on, pending
<1>6. [p EXCEPT !.col = to] = [page |-> page, col |-> to, ram |-> ram, on |-> on, pending |-> pending]
  BY <1>2
<1> DEFINE q == [page |-> page, col |-> to, ram |-> ram, on |-> on, pending |-> pending]
<1>7. q.page = page /\ q.col = to /\ q.ram = ram
  OBVIOUS
<1>8. q.pending = pending
  OBVIOUS
<1> HIDE DEF q
<1>9. Moved(q, p, p.page, to)
  BY <1>5, <1>7, <1>8, Zenon DEF Moved, page, ram
<1>10. Apply(p, CMD(byte)) = q
  BY <1>3, <1>6 DEF q
<1>11. QED
  BY <1>9, <1>10, Zenon

(* The upper four bits of the column.                                       *)
LEMMA HighMoves ==
  ASSUME NEW p \in Panels, p.pending = FALSE, NEW k \in 0..7
  PROVE  Moved(Apply(p, CMD(16 + k)), p, p.page, k * 16 + (p.col % 16))
<1> DEFINE byte == 16 + k
           to == (byte - 16) * 16 + (p.col % 16)
<1>1. byte \in Byte /\ byte \notin TakesArgument /\ byte \notin 0..15 /\ byte \in 16..23
  BY DEF Byte, TakesArgument
<1>2. to = k * 16 + (p.col % 16)
  <2>1. p.col \in 0..127
    BY PanelIs
  <2>2. QED
    BY <2>1
<1>3. Command(p, byte) = [p EXCEPT !.col = to]
  <2> HIDE DEF byte
  <2>1. QED
    BY <1>1 DEF Command
<1>4. byte \in Byte
  BY <1>1
<1> HIDE DEF byte, to
<1>5. Moved(Apply(p, CMD(byte)), p, p.page, to)
  BY <1>3, <1>4, ColumnMoves
<1>6. QED
  BY <1>2, <1>5, Zenon DEF byte

(* The lower four bits of the column.                                       *)
LEMMA LowMoves ==
  ASSUME NEW p \in Panels, p.pending = FALSE, NEW k \in 0..15
  PROVE  Moved(Apply(p, CMD(k)), p, p.page, (p.col \div 16) * 16 + k)
<1> DEFINE to == (p.col \div 16) * 16 + k
<1>1. k \in Byte /\ k \notin TakesArgument
  BY DEF Byte, TakesArgument
<1>2. Command(p, k) = [p EXCEPT !.col = to]
  BY <1>1 DEF Command
<1> HIDE DEF to
<1>3. Moved(Apply(p, CMD(k)), p, p.page, to)
  BY <1>1, <1>2, ColumnMoves
<1>4. QED
  BY <1>3 DEF to

(* A byte of data.                                                          *)
Wrote(s, p, e) ==
  /\ s.page = p.page /\ s.col = (p.col + 1) % COLUMNS /\ s.pending = FALSE
  /\ Puts(s.ram, p.ram, <<p.page, p.col>>, e)

(* A byte of data goes into the cell at the cursor, which moves on.         *)
LEMMA DataMoves ==
  ASSUME NEW p \in Panels, p.pending = FALSE, NEW e \in Byte
  PROVE  Wrote(Apply(p, DATA(e)), p, e)
<1> DEFINE to == (p.col + 1) % COLUMNS
           ram2 == [c \in Cells |-> IF c = <<p.page, p.col>> THEN e ELSE p.ram[c]]
<1>1. p = [page |-> p.page, col |-> p.col, ram |-> p.ram, on |-> p.on, pending |-> p.pending]
  BY PanelIs
<1>2. Apply(p, DATA(e)) = Data(p, e)
  <2>1. e % 256 = e
    BY DEF Byte
  <2>2. DATA(e) = <<e, OLED_DATA>>
    BY <2>1 DEF DATA, Uint8
  <2>3. OLED_DATA # OLED_CMD
    BY DEF OLED_CMD, OLED_DATA
  <2>4. QED
    BY <2>2, <2>3 DEF Apply
<1>3. Data(p, e) = [p EXCEPT !.ram = ram2, !.col = to]
  BY DEF Data
<1>5. Puts(ram2, p.ram, <<p.page, p.col>>, e)
  BY Zenon DEF Puts
<1> HIDE DEF to, ram2
<1>6. Data(p, e) = [page |-> p.page, col |-> to, ram |-> ram2, on |-> p.on, pending |-> p.pending]
  BY <1>1, <1>3
<1> DEFINE on == p.on
           q == [page |-> p.page, col |-> to, ram |-> ram2, on |-> on, pending |-> p.pending]
<1> HIDE DEF on
<1>7. q.page = p.page /\ q.col = to /\ q.ram = ram2
  OBVIOUS
<1>8. q.pending = p.pending
  OBVIOUS
<1>9. Apply(p, DATA(e)) = q
  BY <1>2, <1>6 DEF on
<1> HIDE DEF q
<1>10. q.page = p.page /\ q.col = (p.col + 1) % COLUMNS /\ q.ram = ram2
  BY <1>7 DEF to
<1>11. q.pending = FALSE
  BY <1>8, Zenon
<1>12. QED
  BY <1>5, <1>9, <1>10, <1>11, Zenon DEF Wrote

(* The place of a write in a drawing, and the state of the screen there.    *)
At(o, w, h, i, r, j) == (o + ((i - 1) * h) * (w + 3)) + r * (w + 3) + j

(* A place in a drawing: a write of a row of a box, or the end.             *)
Spot(w, h, n, i, r, j) ==
  (i \in 1..n /\ r \in 0..h - 1 /\ j \in 0..w + 2) \/ (i = n + 1 /\ r = 0 /\ j = 0)

(* Page and column, after each of the three commands and at each byte of a  *)
(* row.                                                                     *)
Cursor(p, low, b, r, j) ==
  /\ j >= 1 => p.page = b.y + r
  /\ j = 2 => IF low THEN p.col % 16 = 0 ELSE p.col \div 16 = b.x \div 16
  /\ j >= 3 => p.col = b.x + (j - 3)

(* The screen when a drawing has come to write j of row r of box i.         *)
Half(p, ram0, low, w, h, n, B, i, r, j) ==
  /\ Painted(p.ram, ram0, n, B, w, h, i, r, j)
  /\ i \in 1..n => p.pending = FALSE /\ Cursor(p, low, B[i], r, j)

(* The same by the number of writes made.                                   *)
Shown(p, ram0, o, low, w, h, n, B, d) ==
  \E i, r, j : /\ Spot(w, h, n, i, r, j) /\ d = At(o, w, h, i, r, j)
               /\ Half(p, ram0, low, w, h, n, B, i, r, j)

(* Behind the last write of a row is the first of the next.                 *)
LEMMA NextRow ==
  ASSUME NEW o \in Nat, NEW w \in Nat, NEW h \in Nat, NEW i \in Nat, NEW r \in Nat
  PROVE  At(o, w, h, i, r, w + 3) = At(o, w, h, i, r + 1, 0)
<1> DEFINE m == w + 3
           a == o + ((i - 1) * h) * m
<1>1. m \in Nat /\ a \in Int
  OBVIOUS
<1> HIDE DEF m, a
<1>2. a + r * m + m = a + (r + 1) * m + 0
  BY <1>1
<1>3. QED
  BY <1>2 DEF At, m, a

(* Behind the last row of a box is the first of the next box.               *)
LEMMA NextBox ==
  ASSUME NEW o \in Nat, NEW w \in Nat, NEW h \in Nat, NEW i \in Nat
  PROVE  At(o, w, h, i, h, 0) = At(o, w, h, i + 1, 0, 0)
<1> DEFINE m == w + 3
           k == (i - 1) * h
           g == ((i + 1) - 1) * h
<1>1. m \in Nat /\ k \in Int /\ g \in Int
  OBVIOUS
<1>2. g = k + h
  OBVIOUS
<1> HIDE DEF m, k, g
<1>3. (o + k * m) + h * m + 0 = (o + g * m) + 0 * m + 0
  <2>1. g * m = k * m + h * m
    BY <1>1, <1>2
  <2> DEFINE u == k * m
             v == h * m
             z == g * m
  <2>2. u \in Int /\ v \in Int /\ z = u + v /\ 0 * m = 0
    BY <1>1, <2>1
  <2> HIDE DEF u, v, z
  <2>3. (o + u) + v + 0 = (o + z) + 0 + 0
    BY <2>2
  <2>4. QED
    BY <2>2, <2>3 DEF u, v, z
<1>4. QED
  BY <1>3 DEF At, m, k, g

(* A drawing begins behind its head.                                        *)
LEMMA FirstAt ==
  ASSUME NEW o \in Nat, NEW w \in Nat, NEW h \in Nat
  PROVE  At(o, w, h, 1, 0, 0) = o
<1>1. (1 - 1) * h = 0 /\ 0 * (w + 3) = 0
  OBVIOUS
<1>2. QED
  BY <1>1 DEF At

(* A drawing ends behind its last box.                                      *)
LEMMA LastAt ==
  ASSUME NEW o \in Nat, NEW w \in Nat, NEW h \in Nat, NEW n \in Nat
  PROVE  At(o, w, h, n + 1, 0, 0) = o + (n * h) * (w + 3)
<1> DEFINE k == ((n + 1) - 1) * h
           v == k * (w + 3)
<1>1. k = n * h /\ 0 * (w + 3) = 0
  OBVIOUS
<1>2. v \in Nat
  OBVIOUS
<1> HIDE DEF v
<1>3. (o + v) + 0 + 0 = o + v
  BY <1>2
<1>4. QED
  BY <1>1, <1>3 DEF At, v

(* What has been painted is right at the place, whichever way it is named.  *)
LEMMA Onward ==
  ASSUME NEW o \in Nat, NEW low, NEW w \in Nat \ {0}, NEW h \in Nat \ {0}, NEW n \in Nat, NEW B,
         \A t \in 1..n : Boxed(B[t], w, h),
         NEW p, NEW ram0, NEW i \in 1..n, NEW r \in 0..h - 1, NEW j \in 0..w + 3,
         Painted(p.ram, ram0, n, B, w, h, i, r, j), p.pending = FALSE,
         j < w + 3 => Cursor(p, low, B[i], r, j)
  PROVE  Shown(p, ram0, o, low, w, h, n, B, At(o, w, h, i, r, j))
<1>1. w \in Nat /\ h \in Nat /\ i \in Nat /\ r \in Nat /\ j \in Nat
  OBVIOUS
<1>2. CASE j < w + 3
  <2>1. Spot(w, h, n, i, r, j)
    BY <1>2 DEF Spot
  <2>2. Half(p, ram0, low, w, h, n, B, i, r, j)
    BY <1>2, Zenon DEF Half
  <2>3. QED
    BY <2>1, <2>2, Zenon DEF Shown
<1>3. CASE j = w + 3
  <2>1. Painted(p.ram, ram0, n, B, w, h, i, r + 1, 0)
    <3>1. \A cell \in Cells, t \in 1..n :
            Covered(B, w, h, i, r, w + 3, t, cell) <=> Covered(B, w, h, i, r + 1, 0, t, cell)
      BY <1>1, RowCovers
    <3>2. Painted(p.ram, ram0, n, B, w, h, i, r, w + 3)
      BY <1>3
    <3>3. QED
      BY <3>1, <3>2, SamePainted
  <2>2. At(o, w, h, i, r, j) = At(o, w, h, i, r + 1, 0)
    BY <1>1, <1>3, NextRow
  <2>3. \A q, b, k : Cursor(q, low, b, k, 0)
    BY DEF Cursor
  <2>4. CASE r + 1 < h
    <3>1. Spot(w, h, n, i, r + 1, 0)
      BY <1>1, <2>4 DEF Spot
    <3>2. Half(p, ram0, low, w, h, n, B, i, r + 1, 0)
      BY <2>1, <2>3, Zenon DEF Half
    <3>3. QED
      BY <2>2, <3>1, <3>2, Zenon DEF Shown
  <2>5. CASE r + 1 = h
    <3>1. Painted(p.ram, ram0, n, B, w, h, i + 1, 0, 0)
      <4>1. \A cell \in Cells, t \in 1..n :
              Covered(B, w, h, i, h, 0, t, cell) <=> Covered(B, w, h, i + 1, 0, 0, t, cell)
        BY <1>1, BoxCovers
      <4>2. Painted(p.ram, ram0, n, B, w, h, i, h, 0)
        BY <2>1, <2>5
      <4>3. QED
        BY <4>1, <4>2, SamePainted
    <3>2. At(o, w, h, i, r, j) = At(o, w, h, i + 1, 0, 0)
      <4>1. At(o, w, h, i, h, 0) = At(o, w, h, i + 1, 0, 0)
        BY <1>1, NextBox
      <4>2. At(o, w, h, i, r, j) = At(o, w, h, i, h, 0)
        BY <2>2, <2>5
      <4>3. QED
        BY <4>1, <4>2
    <3>3. Spot(w, h, n, i + 1, 0, 0)
      BY <1>1 DEF Spot
    <3>4. Half(p, ram0, low, w, h, n, B, i + 1, 0, 0)
      BY <2>3, <3>1, Zenon DEF Half
    <3>5. QED
      BY <3>2, <3>3, <3>4, Zenon DEF Shown
  <2>6. QED
    BY <1>1, <2>4, <2>5
<1>4. QED
  BY <1>1, <1>2, <1>3

(* The write at a place.                                                    *)
LEMMA WriteAt ==
  ASSUME NEW c, NEW o, NEW low, NEW w, NEW h, NEW n, NEW B, Draws(c, o, low, w, h, n, B),
         NEW i \in 1..n, NEW r \in 0..h - 1, NEW j \in 0..w + 2,
         NEW e, e = Program[c][At(o, w, h, i, r, j) + 1]
  PROVE  /\ j = 0 => e = CMD(176 + (B[i].y + r))
         /\ j = 1 /\ ~low => e = CMD(16 + ((B[i].x \div 16) % 16))
         /\ j = 2 /\ ~low => e = CMD(B[i].x % 16)
         /\ j = 1 /\ low => e = CMD(0)
         /\ j = 2 /\ low => e = CMD(16)
         /\ low => B[i].x = 0
         /\ j >= 3 => e = DATA(Bytes(B[i].bytes, r * w, w)[j - 2])
<1> DEFINE b == B[i]
           f == Program[c]
           s == o + ((i - 1) * h) * (w + 3)
           a == s + r * (w + 3)
           t == Bytes(b.bytes, r * w, w)
<1>1. w \in Nat \ {0} /\ h \in Nat \ {0} /\ o \in Nat
  BY DEF Draws
<1>2. Rect(f, s, low, b.x, b.y, w, h, b.bytes)
  <2>1. Figure(f, o, low, w, h, n, B)
    BY DEF Draws
  <2>2. QED
    BY <2>1 DEF Figure
<1>3. a \in Int
  BY <1>1
<1>4. Segment(f, a, low, b.x, b.y + r, w, t)
  <2> HIDE DEF s, f, b
  <2>1. QED
    BY <1>2 DEF Rect
<1>5. e = f[a + j + 1]
  BY DEF At
<1> HIDE DEF a, f, b, t
<1>6. /\ f[a + 1] = CMD(176 + (b.y + r))
      /\ ~low => f[a + 2] = CMD(16 + ((b.x \div 16) % 16)) /\ f[a + 3] = CMD(b.x % 16)
      /\ low => b.x = 0 /\ f[a + 2] = CMD(0) /\ f[a + 3] = CMD(16)
      /\ \A k \in 1..w : f[(a + 3) + k] = DATA(t[k])
  BY <1>4, Zenon DEF Segment
<1>7. j = 0 => a + j + 1 = a + 1
  BY <1>3
<1>8. j = 1 => a + j + 1 = a + 2
  BY <1>3
<1>9. j = 2 => a + j + 1 = a + 3
  BY <1>3
<1>10. j >= 3 => j - 2 \in 1..w /\ a + j + 1 = (a + 3) + (j - 2)
  BY <1>1, <1>3
<1>11. j >= 3 => e = DATA(t[j - 2])
  <2>1. SUFFICES ASSUME j >= 3 PROVE e = DATA(t[j - 2])
    OBVIOUS
  <2> DEFINE k == j - 2
  <2>2. k \in 1..w /\ e = f[(a + 3) + k]
    BY <1>5, <1>10, <2>1
  <2> HIDE DEF k
  <2>3. e = DATA(t[k])
    BY <1>6, <2>2
  <2>4. QED
    BY <2>3 DEF k
<1>12. QED
  BY <1>5, <1>6, <1>7, <1>8, <1>9, <1>11 DEF b, t

(* The rows of a box are pages of the controller.                           *)
LEMMA OnScreenAt ==
  ASSUME NEW b, NEW w \in Nat \ {0}, NEW h \in Nat \ {0}, Boxed(b, w, h), NEW r \in 0..h - 1
  PROVE  /\ b.x \in Nat /\ b.y \in Nat /\ b.x + w <= COLUMNS /\ b.x \in 0..127
         /\ b.y + r \in 0..7 /\ b.y + r \in 0..PAGES - 1
<1> DEFINE x == b.x
           y == b.y
<1>1. x \in Nat /\ y \in Nat /\ x + w <= COLUMNS /\ y + h <= PAGES
  BY DEF Boxed
<1>2. COLUMNS \in 1..128 /\ PAGES \in 1..8
  BY ScreenAssumption
<1> HIDE DEF x, y
<1>3. x \in 0..127 /\ y + r \in 0..7 /\ y + r \in 0..PAGES - 1
  BY <1>1, <1>2
<1>4. QED
  BY <1>1, <1>3 DEF x, y

(* The three commands before a row set the cursor to its beginning.         *)
Commanded(q, p, low, b, r, k) == q.ram = p.ram /\ q.pending = FALSE /\ Cursor(q, low, b, r, k)

(* One of the three commands of OLED_Set_Pos() moves the cursor towards the *)
(* row.                                                                     *)
LEMMA CommandSteps ==
  ASSUME NEW c, NEW o, NEW low, NEW w, NEW h, NEW n, NEW B, Draws(c, o, low, w, h, n, B),
         NEW p \in Panels, NEW i \in 1..n, NEW r \in 0..h - 1, NEW j \in 0..2,
         p.pending = FALSE, Cursor(p, low, B[i], r, j)
  PROVE  Commanded(Apply(p, Program[c][At(o, w, h, i, r, j) + 1]), p, low, B[i], r, j + 1)
<1> DEFINE b == B[i]
           x == B[i].x
           y == B[i].y + r
           e == Program[c][At(o, w, h, i, r, j) + 1]
           q == Apply(p, e)
           hi == x \div 16
           lo == x % 16
<1>1. w \in Nat \ {0} /\ h \in Nat \ {0} /\ Boxed(B[i], w, h)
  BY DEF Draws
<1>2. x \in 0..127 /\ y \in 0..7
  BY <1>1, OnScreenAt
<1>3. p.col \in 0..127
  BY PanelIs
<1>4. /\ j = 0 => e = CMD(176 + y)
      /\ j = 1 /\ ~low => e = CMD(16 + (hi % 16))
      /\ j = 2 /\ ~low => e = CMD(lo)
      /\ j = 1 /\ low => e = CMD(0)
      /\ j = 2 /\ low => e = CMD(16)
      /\ low => x = 0
  <2>1. j \in 0..w + 2
    BY <1>1
  <2>2. QED
    BY <2>1, WriteAt
<1>5. q = Apply(p, e)
  OBVIOUS
<1>6. /\ j >= 1 => p.page = y
      /\ j = 2 => IF low THEN p.col % 16 = 0 ELSE p.col \div 16 = hi
  BY DEF Cursor
<1>7. /\ (j + 1 = 1 => q.page = y)
      /\ (j + 1 = 2 => q.page = y /\ IF low THEN q.col % 16 = 0 ELSE q.col \div 16 = hi)
      /\ (j + 1 = 3 => q.page = y /\ q.col = x)
      => Cursor(q, low, b, r, j + 1)
  <2>1. j + 1 \in {1, 2, 3}
    OBVIOUS
  <2> DEFINE k == j + 1
  <2> HIDE DEF k, y
  <2>2. SUFFICES ASSUME k = 1 => q.page = y,
                        k = 2 => q.page = y /\ IF low THEN q.col % 16 = 0 ELSE q.col \div 16 = hi,
                        k = 3 => q.page = y /\ q.col = x
                 PROVE  Cursor(q, low, b, r, k)
    BY DEF k
  <2>3. k \in {1, 2, 3}
    BY <2>1 DEF k
  <2>4. k >= 1 => q.page = y
    BY <2>2, <2>3
  <2>5. k = 2 => IF low THEN q.col % 16 = 0 ELSE q.col \div 16 = hi
    BY <2>2
  <2>6. k >= 3 => q.col = x + (k - 3)
    <3>1. k >= 3 => k = 3
      BY <2>3
    <3>2. x + (3 - 3) = x
      BY <1>2
    <3>3. QED
      BY <2>2, <3>1, <3>2
  <2>7. QED
    BY <2>4, <2>5, <2>6 DEF Cursor, y
<1>8. hi \in 0..7 /\ hi % 16 = hi /\ lo \in 0..15 /\ hi * 16 + lo = x
  BY <1>2
<1> DEFINE col == p.col
<1>9. col \in 0..127
  BY <1>3
<1> SUFFICES q.ram = p.ram /\ q.pending = FALSE /\ Cursor(q, low, b, r, j + 1)
  BY Zenon DEF Commanded
<1> HIDE DEF b, x, y, e, hi, lo, col, q
<1>10. CASE j = 0
  <2>1. Moved(q, p, y, p.col)
    BY <1>2, <1>4, <1>5, <1>10, PageMoves
  <2>2. q.page = y /\ q.ram = p.ram /\ q.pending = FALSE
    BY <2>1, Zenon DEF Moved
  <2>3. j + 1 # 2 /\ j + 1 # 3
    BY <1>10
  <2>4. QED
    BY <1>7, <2>2, <2>3 DEF b
<1>11. CASE j = 1
  <2>1. j + 1 # 1 /\ j + 1 # 3
    BY <1>11
  <2>2. p.page = y
    BY <1>6, <1>11
  <2>3. CASE low
    <3>1. e = CMD(0) /\ 0 \in 0..15
      BY <1>4, <1>11, <2>3
    <3>2. Moved(q, p, p.page, (p.col \div 16) * 16 + 0)
      BY <1>5, <3>1, LowMoves
    <3>3. q.page = p.page /\ q.ram = p.ram /\ q.pending = FALSE /\ q.col = (p.col \div 16) * 16 + 0
      BY <3>2, Zenon DEF Moved
    <3>4. ((col \div 16) * 16 + 0) % 16 = 0
      BY <1>9
    <3>5. q.col % 16 = 0
      BY <3>3, <3>4 DEF col
    <3>6. QED
      BY <1>7, <2>1, <2>2, <2>3, <3>3, <3>5 DEF b
  <2>4. CASE ~low
    <3>1. e = CMD(16 + hi)
      BY <1>4, <1>8, <1>11, <2>4
    <3>2. Moved(q, p, p.page, hi * 16 + (p.col % 16))
      BY <1>5, <1>8, <3>1, HighMoves
    <3>3. q.page = p.page /\ q.ram = p.ram /\ q.pending = FALSE /\ q.col = hi * 16 + (p.col % 16)
      BY <3>2, Zenon DEF Moved
    <3>4. (hi * 16 + (col % 16)) \div 16 = hi
      BY <1>8, <1>9
    <3>5. q.col \div 16 = hi
      BY <3>3, <3>4 DEF col
    <3>6. QED
      BY <1>7, <2>1, <2>2, <2>4, <3>3, <3>5 DEF b
  <2>5. QED
    BY <2>3, <2>4
<1>12. CASE j = 2
  <2>1. j + 1 # 1 /\ j + 1 # 2
    BY <1>12
  <2>2. p.page = y
    BY <1>6, <1>12
  <2>3. CASE low
    <3>1. e = CMD(16 + 0) /\ 0 \in 0..7
      BY <1>4, <1>12, <2>3
    <3>2. Moved(q, p, p.page, 0 * 16 + (p.col % 16))
      BY <1>5, <3>1, HighMoves
    <3>3. q.page = p.page /\ q.ram = p.ram /\ q.pending = FALSE /\ q.col = 0 * 16 + (p.col % 16)
      BY <3>2, Zenon DEF Moved
    <3>4. col % 16 = 0
      BY <1>6, <1>12, <2>3 DEF col
    <3>5. 0 * 16 + (col % 16) = 0
      BY <3>4
    <3>6. q.col = x
      BY <1>4, <2>3, <3>3, <3>5 DEF col
    <3>7. QED
      BY <1>7, <2>1, <2>2, <3>3, <3>6 DEF b
  <2>4. CASE ~low
    <3>1. e = CMD(lo)
      BY <1>4, <1>12, <2>4
    <3>2. Moved(q, p, p.page, (p.col \div 16) * 16 + lo)
      BY <1>5, <1>8, <3>1, LowMoves
    <3>3. q.page = p.page /\ q.ram = p.ram /\ q.pending = FALSE /\ q.col = (p.col \div 16) * 16 + lo
      BY <3>2, Zenon DEF Moved
    <3>4. p.col \div 16 = hi
      BY <1>6, <1>12, <2>4
    <3>5. q.col = x
      BY <1>8, <3>3, <3>4
    <3>6. QED
      BY <1>7, <2>1, <2>2, <3>3, <3>5 DEF b
  <2>5. QED
    BY <2>3, <2>4
<1>13. j \in {0, 1, 2}
  OBVIOUS
<1>14. QED
  BY <1>10, <1>11, <1>12, <1>13

(* The bytes of a row are bytes of the box.                                 *)
LEMMA Under ==
  ASSUME NEW h \in Nat, NEW w \in Nat, NEW r \in 0..h - 1, NEW k \in 1..w
  PROVE  r * w + k \in 1..h * w
<1> DEFINE d == h - (r + 1)
           u == r * w
           v == d * w
           z == h * w
<1>1. d \in Nat /\ h = (r + 1) + d /\ r \in Nat
  OBVIOUS
<1>2. u \in Nat /\ v \in Nat
  <2> HIDE DEF d
  <2>1. QED
    BY <1>1
<1>3. z = u + w + v
  <2> HIDE DEF d
  <2>1. h * w = ((r + 1) + d) * w
    BY <1>1
  <2>2. QED
    BY <1>1, <2>1
<1> HIDE DEF u, v, z
<1>4. u + k \in 1..z
  BY <1>2, <1>3
<1>5. QED
  BY <1>4 DEF u, z

(* A column of the screen does not wrap around.                             *)
LEMMA Beyond ==
  ASSUME NEW m \in 1..128, NEW a \in 0..m - 1
  PROVE  a % m = a
OBVIOUS

(* The state of the screen behind a write of a row.                         *)
RowDone(q, ram0, low, w, h, n, B, i, r, k) ==
  /\ Painted(q.ram, ram0, n, B, w, h, i, r, k) /\ q.pending = FALSE
  /\ k < w + 3 => Cursor(q, low, B[i], r, k)

(* A byte of a row is written at the cursor, which moves on.                *)
LEMMA DataSteps ==
  ASSUME NEW c, NEW o, NEW low, NEW w, NEW h, NEW n, NEW B, Draws(c, o, low, w, h, n, B),
         NEW p \in Panels, NEW ram0, NEW i \in 1..n, NEW r \in 0..h - 1, NEW j \in 3..w + 2,
         Half(p, ram0, low, w, h, n, B, i, r, j),
         NEW q, q = Apply(p, Program[c][At(o, w, h, i, r, j) + 1])
  PROVE  RowDone(q, ram0, low, w, h, n, B, i, r, j + 1)
<1> DEFINE b == B[i]
           e == Program[c][At(o, w, h, i, r, j) + 1]
           v == Bytes(B[i].bytes, r * w, w)[j - 2]
           spot == <<B[i].y + r, B[i].x + (j - 3)>>
<1>0. Painted(p.ram, ram0, n, B, w, h, i, r, j) /\ p.pending = FALSE /\ Cursor(p, low, B[i], r, j)
  BY DEF Half
<1>1. /\ w \in Nat \ {0} /\ h \in Nat \ {0} /\ n \in Nat
      /\ (\A t \in 1..n : Boxed(B[t], w, h)) /\ Apart(n, B, w, h)
  BY DEF Draws
<1>2. Boxed(b, w, h) /\ w \in Nat /\ h \in Nat
  BY <1>1
<1>3. /\ b.x \in Nat /\ b.y \in Nat /\ b.x + w <= COLUMNS /\ b.x \in 0..127
      /\ b.y + r \in 0..7 /\ b.y + r \in 0..PAGES - 1
  <2> HIDE DEF b
  <2>1. QED
    BY <1>1, <1>2, OnScreenAt
<1>4. e = DATA(v)
  <2>1. j \in 0..w + 2 /\ j >= 3
    BY <1>1
  <2>2. e = Program[c][At(o, w, h, i, r, j) + 1]
    OBVIOUS
  <2> HIDE DEF e
  <2>3. j >= 3 => e = DATA(Bytes(B[i].bytes, r * w, w)[j - 2])
    BY <2>1, <2>2, WriteAt
  <2>4. QED
    BY <2>1, <2>3
<1>5. v \in Byte
  <2> DEFINE k == j - 2
             t == b.bytes
             u == r * w
  <2>1. k \in 1..w /\ t \in Seq(Byte) /\ Len(t) = h * w
    BY <1>2 DEF Boxed
  <2>2. v = Bytes(t, u, w)[k]
    OBVIOUS
  <2> HIDE DEF k, t, v
  <2>3. u + k \in 1..h * w
    BY <1>2, <2>1, Under
  <2> HIDE DEF u
  <2>4. v = t[u + k]
    BY <2>1, <2>2 DEF Bytes
  <2>5. QED
    BY <2>1, <2>3, <2>4
<1>6. p.page = b.y + r /\ p.col = b.x + (j - 3)
  BY <1>0 DEF Cursor
<1>7. /\ q.page = p.page /\ q.col = (p.col + 1) % COLUMNS /\ q.pending = FALSE
      /\ Puts(q.ram, p.ram, <<p.page, p.col>>, v)
  <2> HIDE DEF v, e
  <2>1. q = Apply(p, DATA(v))
    BY <1>4 DEF e
  <2>2. Wrote(q, p, v)
    BY <1>0, <1>5, <2>1, DataMoves
  <2>3. QED
    BY <2>2, Zenon DEF Wrote
<1>8. Painted(q.ram, ram0, n, B, w, h, i, r, j + 1)
  <2>1. spot = <<p.page, p.col>>
    BY <1>6
  <2>2. Puts(q.ram, p.ram, spot, v)
    BY <1>7, <2>1
  <2>3. spot = <<B[i].y + r, B[i].x + (j - 3)>>
    OBVIOUS
  <2> HIDE DEF spot
  <2>4. QED
    BY <1>0, <1>1, <1>2, <2>2, <2>3, DataPaints
<1>9. ASSUME j + 1 < w + 3 PROVE Cursor(q, low, B[i], r, j + 1)
  <2> DEFINE x == b.x
             a == (x + (j - 3)) + 1
             k == j + 1
  <2>1. COLUMNS \in 1..128
    BY ScreenAssumption
  <2>2. x \in Nat /\ x + w <= COLUMNS /\ w \in Nat /\ p.col = x + (j - 3)
    BY <1>2, <1>3, <1>6
  <2> HIDE DEF x
  <2>3. a \in 0..COLUMNS - 1
    BY <1>9, <2>1, <2>2
  <2>4. a % COLUMNS = a
    <3> HIDE DEF a
    <3>1. QED
      BY <2>1, <2>3, Beyond
  <2>5. q.col = a
    BY <1>7, <2>2, <2>4
  <2>6. a = x + (k - 3) /\ k # 2
    BY <2>2
  <2>7. q.page = b.y + r /\ q.col = b.x + (k - 3)
    BY <1>6, <1>7, <2>5, <2>6 DEF x
  <2> HIDE DEF k
  <2>8. Cursor(q, low, b, r, k)
    BY <2>6, <2>7 DEF Cursor
  <2>9. QED
    BY <2>8 DEF k
<1>10. QED
  BY <1>7, <1>8, <1>9 DEF RowDone

(* The next write of a drawing.                                             *)
LEMMA ShownNext ==
  ASSUME NEW c, NEW o, NEW low, NEW w, NEW h, NEW n, NEW B, Draws(c, o, low, w, h, n, B),
         NEW p \in Panels, NEW ram0, NEW d \in Nat, d < Len(Program[c]),
         Shown(p, ram0, o, low, w, h, n, B, d),
         NEW q, q = Apply(p, Program[c][d + 1])
  PROVE  Shown(q, ram0, o, low, w, h, n, B, d + 1)
<1>1. PICK i, r, j : /\ Spot(w, h, n, i, r, j) /\ d = At(o, w, h, i, r, j)
                     /\ Half(p, ram0, low, w, h, n, B, i, r, j)
  BY Zenon DEF Shown
<1>2. /\ w \in Nat \ {0} /\ h \in Nat \ {0} /\ n \in Nat /\ o \in Nat
      /\ \A t \in 1..n : Boxed(B[t], w, h)
      /\ Len(Program[c]) = o + (n * h) * (w + 3)
  BY DEF Draws, Figure
<1>3. i \in 1..n /\ r \in 0..h - 1 /\ j \in 0..w + 2
  <2>1. SUFFICES ASSUME i = n + 1 /\ r = 0 /\ j = 0 PROVE FALSE
    BY <1>1 DEF Spot
  <2>2. d = At(o, w, h, n + 1, 0, 0)
    BY <1>1, <2>1
  <2>3. d = o + (n * h) * (w + 3)
    BY <1>2, <2>2, LastAt
  <2>4. d < d
    BY <1>2, <2>3
  <2>5. QED
    BY <2>4
<1>4. Painted(p.ram, ram0, n, B, w, h, i, r, j) /\ p.pending = FALSE /\ Cursor(p, low, B[i], r, j)
  BY <1>1, <1>3 DEF Half
<1>5. q = Apply(p, Program[c][At(o, w, h, i, r, j) + 1])
  BY <1>1
<1>6. /\ Painted(q.ram, ram0, n, B, w, h, i, r, j + 1) /\ q.pending = FALSE
      /\ j + 1 < w + 3 => Cursor(q, low, B[i], r, j + 1)
  <2>1. CASE j <= 2
    <3>1. j \in 0..2
      BY <1>2, <1>3, <2>1
    <3>2. q.ram = p.ram /\ q.pending = FALSE /\ Cursor(q, low, B[i], r, j + 1)
      <4>1. Commanded(Apply(p, Program[c][At(o, w, h, i, r, j) + 1]), p, low, B[i], r, j + 1)
        BY <1>3, <1>4, <3>1, CommandSteps
      <4>2. QED
        BY <1>5, <4>1, Zenon DEF Commanded
    <3>3. Painted(q.ram, ram0, n, B, w, h, i, r, j)
      BY <1>4, <3>2
    <3>4. \A cell \in Cells, t \in 1..n :
            Covered(B, w, h, i, r, j, t, cell) <=> Covered(B, w, h, i, r, j + 1, t, cell)
      <4>1. w \in Nat /\ h \in Nat /\ i \in Nat /\ r \in Nat
        BY <1>2, <1>3
      <4>2. QED
        BY <1>2, <3>1, <4>1, CommandCovers
    <3>5. Painted(q.ram, ram0, n, B, w, h, i, r, j + 1)
      BY <3>3, <3>4, SamePainted
    <3>6. QED
      BY <3>2, <3>5
  <2>2. CASE ~ (j <= 2)
    <3>1. j \in 3..w + 2
      BY <1>2, <1>3, <2>2
    <3>2. Half(p, ram0, low, w, h, n, B, i, r, j)
      BY <1>1
    <3>3. RowDone(q, ram0, low, w, h, n, B, i, r, j + 1)
      BY <1>3, <1>5, <3>1, <3>2, DataSteps
    <3>4. QED
      BY <3>3 DEF RowDone
  <2>3. QED
    BY <2>1, <2>2
<1>7. At(o, w, h, i, r, j + 1) = d + 1
  <2> DEFINE s == o + ((i - 1) * h) * (w + 3)
             a == s + r * (w + 3)
  <2>1. a \in Int /\ j \in Int /\ d = a + j /\ At(o, w, h, i, r, j + 1) = a + (j + 1)
    BY <1>1, <1>2, <1>3 DEF At
  <2> HIDE DEF a
  <2>2. QED
    BY <2>1
<1>8. j + 1 \in 0..w + 3
  BY <1>2, <1>3
<1> DEFINE k == j + 1
<1> HIDE DEF k
<1>9. Shown(q, ram0, o, low, w, h, n, B, At(o, w, h, i, r, k))
  <2>1. Painted(q.ram, ram0, n, B, w, h, i, r, k)
    BY <1>6 DEF k
  <2>2. q.pending = FALSE
    BY <1>6
  <2>3. k < w + 3 => Cursor(q, low, B[i], r, k)
    BY <1>6 DEF k
  <2>4. k \in 0..w + 3
    BY <1>8 DEF k
  <2>5. QED
    BY <1>2, <1>3, <2>1, <2>2, <2>3, <2>4, Onward
<1>10. QED
  BY <1>7, <1>9 DEF k

(* The beginning of a drawing, and its end.                                 *)
LEMMA ShownFirst ==
  ASSUME NEW c, NEW o, NEW low, NEW w, NEW h, NEW n, NEW B, Draws(c, o, low, w, h, n, B),
         NEW p, n = 0 \/ p.pending = FALSE
  PROVE  Shown(p, p.ram, o, low, w, h, n, B, o)
<1>1. /\ w \in Nat \ {0} /\ h \in Nat \ {0} /\ n \in Nat /\ o \in Nat
      /\ \A t \in 1..n : Boxed(B[t], w, h)
  BY DEF Draws
<1>2. w \in Nat /\ h \in Nat
  BY <1>1
<1>3. Painted(p.ram, p.ram, n, B, w, h, 1, 0, 0)
  BY <1>1, <1>2, NothingPainted
<1>4. o = At(o, w, h, 1, 0, 0)
  BY <1>1, <1>2, FirstAt
<1>5. Spot(w, h, n, 1, 0, 0)
  <2>1. CASE n = 0
    BY <2>1 DEF Spot
  <2>2. CASE n # 0
    BY <1>1, <2>2 DEF Spot
  <2>3. QED
    BY <2>1, <2>2
<1>6. Half(p, p.ram, low, w, h, n, B, 1, 0, 0)
  <2>1. Cursor(p, low, B[1], 0, 0)
    BY DEF Cursor
  <2>2. 1 \in 1..n => p.pending = FALSE
    BY <1>1
  <2>3. QED
    BY <1>3, <2>1, <2>2, Zenon DEF Half
<1>7. QED
  BY <1>4, <1>5, <1>6, Zenon DEF Shown

(* When a call has made all its writes the memory holds its boxes over what *)
(* was there.                                                               *)
LEMMA ShownLast ==
  ASSUME NEW c, NEW o, NEW low, NEW w, NEW h, NEW n, NEW B, Draws(c, o, low, w, h, n, B),
         NEW p \in Panels, NEW ram0, Shown(p, ram0, o, low, w, h, n, B, Len(Program[c]))
  PROVE  p.ram = Over(Together(n, B), ram0)
<1> DEFINE d == Len(Program[c])
           m == w + 3
<1>1. /\ w \in Nat \ {0} /\ h \in Nat \ {0} /\ n \in Nat /\ o \in Nat
      /\ \A t \in 1..n : Boxed(B[t], w, h)
      /\ d = o + (n * h) * m
  BY DEF Draws, Figure
<1>2. PICK i, r, j : /\ Spot(w, h, n, i, r, j) /\ d = At(o, w, h, i, r, j)
                     /\ Half(p, ram0, low, w, h, n, B, i, r, j)
  BY Zenon DEF Shown
<1>3. ASSUME i \in 1..n, r \in 0..h - 1, j \in 0..w + 2 PROVE FALSE
  <2> DEFINE k == (i - 1) * h + r
             z == n * h
  <2>1. k \in 0..z - 1
    <3>1. h \in Nat /\ n \in Nat /\ i - 1 \in 0..n - 1 /\ r + 1 \in 1..h
      BY <1>1, <1>3
    <3> DEFINE f == i - 1
               g == r + 1
               t == f * h
    <3>2. f * h + g \in 1..n * h /\ t \in Int
      <4>1. f \in 0..n - 1 /\ g \in 1..h
        BY <3>1
      <4> HIDE DEF f, g
      <4>2. QED
        BY <3>1, <4>1, Under
    <3> HIDE DEF t, z
    <3>3. t + (r + 1) \in 1..z
      BY <3>2 DEF t, z
    <3>4. z \in Int /\ r \in Int
      BY <1>1, <1>3 DEF z
    <3>5. t + r \in 0..z - 1
      BY <3>2, <3>3, <3>4
    <3>6. QED
      BY <3>5 DEF t
  <2>2. m \in Nat /\ z \in Nat /\ j + 1 \in 1..m
    BY <1>1, <1>3
  <2>3. d = o + (k * m + j)
    <3> DEFINE u == (i - 1) * h
    <3>1. u \in Int /\ d = (o + u * m) + r * m + j
      BY <1>1, <1>2, <1>3 DEF At
    <3>2. (u + r) * m = u * m + r * m
      <4> HIDE DEF u, m
      <4>1. QED
        BY <1>1, <1>3, <2>2, <3>1
    <3> DEFINE a == u * m
               e == r * m
               f == (u + r) * m
    <3>3. a \in Int /\ e \in Int /\ f = a + e /\ d = (o + a) + e + j
      BY <1>3, <2>2, <3>1, <3>2
    <3>4. d = o + (f + j)
      <4> HIDE DEF a, e, f, d
      <4>1. QED
        BY <1>1, <1>3, <3>3
    <3>5. QED
      BY <3>4
  <2> HIDE DEF k, z, m
  <2>4. k * m + (j + 1) \in 1..z * m
    BY <2>1, <2>2, Under
  <2> DEFINE a == k * m
             e == z * m
  <2>5. a \in Int /\ e \in Int /\ d = o + (a + j) /\ d = o + e /\ a + (j + 1) \in 1..e
    BY <1>1, <2>1, <2>2, <2>3, <2>4 DEF z
  <2> HIDE DEF a, e, d
  <2>6. QED
    BY <1>1, <1>3, <2>5
<1>4. i = n + 1 /\ r = 0 /\ j = 0
  BY <1>2, <1>3 DEF Spot
<1>5. Painted(p.ram, ram0, n, B, w, h, n + 1, 0, 0)
  BY <1>2, <1>4, Zenon DEF Half
<1>6. p.ram \in [Cells -> Byte] /\ h \in Nat
  BY <1>1, PanelIs
<1>7. w \in Nat \ {0} /\ n \in Nat /\ \A t \in 1..n : Boxed(B[t], w, h)
  BY <1>1
<1> HIDE DEF d, m
<1>8. QED
  BY <1>5, <1>6, <1>7, AllPainted

(* A command leaves the screen memory alone.                                *)
LEMMA CommandKeeps ==
  ASSUME NEW p \in Panels, NEW byte
  PROVE  Command(p, byte).ram = p.ram
<1> DEFINE col == p.col
           page == p.page
           ram == p.ram
           on == p.on
           pending == p.pending
           low == (col \div 16) * 16 + byte
           high == (byte - 16) * 16 + (col % 16)
           nr == byte - 176
           sets == byte = 175
<1>1. p = [page |-> page, col |-> col, ram |-> ram, on |-> on, pending |-> pending]
  BY DEF Panels
<1>2. \/ Command(p, byte) = [p EXCEPT !.pending = FALSE]
      \/ Command(p, byte) = [p EXCEPT !.pending = TRUE]
      \/ Command(p, byte) = [p EXCEPT !.col = low]
      \/ Command(p, byte) = [p EXCEPT !.col = high]
      \/ Command(p, byte) = [p EXCEPT !.page = nr]
      \/ Command(p, byte) = [p EXCEPT !.on = sets]
      \/ Command(p, byte) = p
  BY DEF Command
<1> HIDE DEF col, page, ram, on, pending, low, high, nr, sets
<1>3. [p EXCEPT !.pending = FALSE].ram = ram /\ [p EXCEPT !.pending = TRUE].ram = ram
  BY <1>1
<1>4. [p EXCEPT !.col = low].ram = ram /\ [p EXCEPT !.col = high].ram = ram
  BY <1>1
<1>5. [p EXCEPT !.page = nr].ram = ram /\ [p EXCEPT !.on = sets].ram = ram
  BY <1>1
<1> DEFINE q == Command(p, byte)
<1> HIDE DEF q
<1>6. q.ram = ram
  <2>1. CASE q = [p EXCEPT !.pending = FALSE] \/ q = [p EXCEPT !.pending = TRUE]
    BY <1>3, <2>1, Zenon
  <2>2. CASE q = [p EXCEPT !.col = low] \/ q = [p EXCEPT !.col = high]
    BY <1>4, <2>2, Zenon
  <2>3. CASE q = [p EXCEPT !.page = nr] \/ q = [p EXCEPT !.on = sets]
    BY <1>5, <2>3, Zenon
  <2>4. CASE q = p
    BY <2>4 DEF ram
  <2>5. QED
    BY <1>2, <2>1, <2>2, <2>3, <2>4, Zenon DEF q
<1>7. QED
  BY <1>6 DEF q, ram

(* A half-given command after d writes of c is the last of them; none is    *)
(* half given when a call begins, unless it is OLED_Init().                 *)
Held(p, c, d) ==
  /\ d = 0 /\ c.fn # "Init" => ~ p.pending
  /\ d >= 1 /\ p.pending => Opener(Program[c][d])

(* A write leaves a command waiting only if it takes an argument itself.    *)
LEMMA HeldNext ==
  ASSUME NEW c \in Calls, NEW d \in Nat, d < Len(Program[c]), NEW p \in Panels, Held(p, c, d)
  PROVE  Held(Apply(p, Program[c][d + 1]), c, d + 1)
<1> DEFINE f == Program[c]
           w == f[d + 1]
           q == Apply(p, w)
<1>1. w \in Writes
  BY WriteIs
<1>2. w[1] \in Byte /\ w[2] \in {OLED_CMD, OLED_DATA}
  BY <1>1, WriteParts
<1>3. /\ Len(f) \in Nat
      /\ \A i \in 1..Len(f) : Opener(f[i]) => i < Len(f) /\ f[i + 1][2] = OLED_CMD
  <2>1. f \in Closed
    BY ProgramClosed
  <2> HIDE DEF f
  <2>2. QED
    BY <2>1, ClosedHas
<1>4. q.pending => Opener(w)
  <2>1. CASE w[2] = OLED_CMD
    <3> DEFINE b == w[1]
               s == Command(p, b)
    <3>1. q = s
      BY <2>1 DEF Apply
    <3>2. s.pending = (~p.pending /\ b \in TakesArgument)
      <4>1. b \in Byte
        BY <1>2
      <4> HIDE DEF b
      <4>2. QED
        BY <4>1, CommandFields
    <3> HIDE DEF q, s
    <3>3. q.pending => b \in TakesArgument
      BY <3>1, <3>2, Zenon
    <3>4. QED
      BY <2>1, <3>3, Zenon DEF Opener
  <2>2. CASE w[2] # OLED_CMD
    <3>1. q = Data(p, w[1])
      BY <2>2 DEF Apply
    <3>2. q.pending = p.pending
      BY <3>1, DataFields
    <3> HIDE DEF w, q
    <3>3. ~ p.pending
      <4>1. SUFFICES ASSUME p.pending PROVE FALSE
        OBVIOUS
      <4>2. CASE d = 0
        <5>1. c.fn = "Init"
          BY <4>1, <4>2, Zenon DEF Held
        <5>2. f[1] = CMD(Settings[1])
          <6>1. 1 \in 1..27
            OBVIOUS
          <6>2. QED
            BY <5>1, <6>1, InitProgram
        <5>3. w = f[1]
          BY <4>2 DEF w
        <5>4. CMD(Settings[1])[2] = OLED_CMD
          BY DEF CMD
        <5>5. QED
          BY <2>2, <5>2, <5>3, <5>4
      <4>3. CASE d # 0
        <5>1. d >= 1 /\ d \in 1..Len(f)
          BY <1>3, <4>3
        <5>2. Opener(f[d])
          BY <4>1, <5>1, Zenon DEF Held
        <5> HIDE DEF f
        <5>3. f[d + 1][2] = OLED_CMD
          BY <1>3, <5>1, <5>2
        <5>4. QED
          BY <2>2, <5>3 DEF w
      <4>4. QED
        BY <4>2, <4>3
    <3>4. QED
      BY <3>2, <3>3, Zenon
  <2>3. QED
    BY <2>1, <2>2
<1>5. d + 1 # 0
  OBVIOUS
<1> HIDE DEF q
<1>6. Held(q, c, d + 1)
  BY <1>4, <1>5, Zenon DEF Held
<1>7. QED
  BY <1>6 DEF q

(* Nothing is half given when a call has been drawn.                        *)
LEMMA HeldLast ==
  ASSUME NEW c \in Calls, NEW p, Held(p, c, Len(Program[c])), Len(Program[c]) # 0 \/ c.fn # "Init"
  PROVE  ~ p.pending
<1> DEFINE f == Program[c]
           l == Len(f)
<1>1. /\ l \in Nat
      /\ \A i \in 1..l : Opener(f[i]) => i < l /\ f[i + 1][2] = OLED_CMD
  <2>1. f \in Closed
    BY ProgramClosed
  <2> HIDE DEF f
  <2>2. QED
    BY <2>1, ClosedHas
<1>2. Held(p, c, l)
  OBVIOUS
<1>3. l # 0 \/ c.fn # "Init"
  OBVIOUS
<1> HIDE DEF l
<1>4. CASE l = 0
  BY <1>2, <1>3, <1>4, Zenon DEF Held
<1>5. CASE l # 0
  <2>1. l >= 1 /\ l \in 1..l /\ ~ (l < l)
    BY <1>1, <1>5
  <2>2. ~ Opener(f[l])
    BY <1>1, <2>1
  <2>3. QED
    BY <1>2, <2>1, <2>2, Zenon DEF Held
<1>6. QED
  BY <1>4, <1>5

-----------------------------------------------------------------------------
(* The screen after d writes of c, which found it as b4.  What OLED_Init()  *)
(* finds does not matter.                                                   *)
Begun(p, c, b4, d, ram0, o, low, w, h, n, B) ==
  /\ c.fn # "Init" => ram0 = b4
  /\ d < o => p.ram = ram0
  /\ d >= o => Shown(p, ram0, o, low, w, h, n, B, d)

(* The drawing of a call has come to its write d.                           *)
Drawing(p, c, b4, d) ==
  \A o, low, w, h, n, B : Shows(c, o, low, w, h, n, B) =>
    \E ram0 \in [Cells -> Byte] : Begun(p, c, b4, d, ram0, o, low, w, h, n, B)

(* A drawing that begins, on the memory as it is.                           *)
LEMMA DrawingFirst ==
  ASSUME NEW c, NEW p \in Panels, c.fn = "Init" \/ ~ p.pending
  PROVE  Drawing(p, c, p.ram, 0)
<1>1. ASSUME NEW o, NEW low, NEW w, NEW h, NEW n, NEW B, Shows(c, o, low, w, h, n, B)
      PROVE  \E ram0 \in [Cells -> Byte] : Begun(p, c, p.ram, 0, ram0, o, low, w, h, n, B)
  <2>1. Draws(c, o, low, w, h, n, B) /\ Heads(c, o, n)
    BY <1>1 DEF Shows
  <2>2. o \in Nat
    BY <2>1 DEF Draws
  <2>3. p.ram \in [Cells -> Byte] /\ p.pending \in BOOLEAN
    BY PanelIs
  <2>4. 0 >= o => Shown(p, p.ram, o, low, w, h, n, B, 0)
    <3>1. SUFFICES ASSUME o = 0 PROVE Shown(p, p.ram, o, low, w, h, n, B, o)
      BY <2>2
    <3>2. c.fn # "Init"
      BY <2>1, <3>1 DEF Heads
    <3>3. p.pending = FALSE
      BY <2>3, <3>2
    <3>4. QED
      BY <2>1, <3>3, ShownFirst
  <2>5. Begun(p, c, p.ram, 0, p.ram, o, low, w, h, n, B)
    BY <2>4, Zenon DEF Begun
  <2>6. QED
    BY <2>3, <2>5
<1>2. QED
  BY <1>1, Zenon DEF Drawing

(* A write brings the drawing on.                                           *)
LEMMA DrawingNext ==
  ASSUME NEW c \in Calls, NEW p \in Panels, NEW b4, NEW d \in Nat, d < Len(Program[c]),
         Drawing(p, c, b4, d), NEW q, q = Apply(p, Program[c][d + 1]),
         c.fn = "Init" => SetUp(q, d + 1)
  PROVE  Drawing(q, c, b4, d + 1)
<1>1. ASSUME NEW o, NEW low, NEW w, NEW h, NEW n, NEW B, Shows(c, o, low, w, h, n, B)
      PROVE  \E ram0 \in [Cells -> Byte] : Begun(q, c, b4, d + 1, ram0, o, low, w, h, n, B)
  <2>1. Draws(c, o, low, w, h, n, B) /\ Heads(c, o, n)
    BY <1>1 DEF Shows
  <2>2. o \in Nat
    BY <2>1 DEF Draws
  <2>3. PICK ram0 \in [Cells -> Byte] : Begun(p, c, b4, d, ram0, o, low, w, h, n, B)
    BY <1>1, Zenon DEF Drawing
  <2>4. /\ c.fn # "Init" => ram0 = b4
        /\ d < o => p.ram = ram0
        /\ d >= o => Shown(p, ram0, o, low, w, h, n, B, d)
    BY <2>3, Zenon DEF Begun
  <2>5. CASE d >= o
    <3>1. Shown(q, ram0, o, low, w, h, n, B, d + 1)
      BY <2>1, <2>4, <2>5, ShownNext
    <3>2. ~ (d + 1 < o)
      BY <2>2, <2>5
    <3>3. Begun(q, c, b4, d + 1, ram0, o, low, w, h, n, B)
      BY <2>4, <3>1, <3>2, Zenon DEF Begun
    <3>4. QED
      BY <3>3
  <2>6. CASE d < o
    <3> DEFINE e == Program[c][d + 1]
    <3>1. q.ram = ram0
      <4>1. e[2] = OLED_CMD
        <5>1. d + 1 \in 1..o
          BY <2>2, <2>6
        <5>2. QED
          BY <2>1, <5>1 DEF Heads
      <4>2. q = Command(p, e[1])
        BY <4>1 DEF Apply
      <4>3. QED
        BY <2>4, <2>6, <4>2, CommandKeeps
    <3>2. d + 1 >= o => Shown(q, ram0, o, low, w, h, n, B, d + 1)
      <4>1. SUFFICES ASSUME d + 1 = o PROVE Shown(q, ram0, o, low, w, h, n, B, o)
        BY <2>2, <2>6
      <4>2. o # 0
        BY <4>1
      <4>3. n = 0 \/ q.pending = FALSE
        <5>1. SUFFICES ASSUME c.fn = "Init", o = 27 PROVE q.pending = FALSE
          BY <2>1, <4>2 DEF Heads
        <5>2. SetUp(q, 27)
          BY <4>1, <5>1
        <5>3. ~ q.pending
          BY <5>2 DEF SetUp
        <5>4. e \in Writes
          BY WriteIs
        <5>5. q \in Panels
          <6> HIDE DEF e
          <6>1. QED
            BY <5>4, ApplyTyped DEF e
        <5>6. q.pending \in BOOLEAN
          BY <5>5, PanelIs
        <5>7. QED
          BY <5>3, <5>6
      <4>4. Shown(q, q.ram, o, low, w, h, n, B, o)
        BY <2>1, <4>3, ShownFirst
      <4>5. QED
        BY <3>1, <4>4
    <3>3. Begun(q, c, b4, d + 1, ram0, o, low, w, h, n, B)
      BY <2>4, <3>1, <3>2, Zenon DEF Begun
    <3>4. QED
      BY <3>3
  <2>7. QED
    BY <2>2, <2>5, <2>6
<1>2. QED
  BY <1>1, Zenon DEF Drawing

(* Before the first write OLED_Init() does not care for the screen.         *)
LEMMA DrawingLate ==
  ASSUME NEW c, c.fn = "Init", NEW p \in Panels, NEW b4
  PROVE  Drawing(p, c, b4, 0)
<1>1. ASSUME NEW o, NEW low, NEW w, NEW h, NEW n, NEW B, Shows(c, o, low, w, h, n, B)
      PROVE  \E ram0 \in [Cells -> Byte] : Begun(p, c, b4, 0, ram0, o, low, w, h, n, B)
  <2>1. Heads(c, o, n)
    BY <1>1 DEF Shows
  <2>2. o = 27
    BY <2>1 DEF Heads
  <2>3. ~ (0 >= o)
    BY <2>2
  <2>4. Begun(p, c, b4, 0, p.ram, o, low, w, h, n, B)
    BY <2>3, Zenon DEF Begun
  <2>5. p.ram \in [Cells -> Byte]
    BY PanelIs
  <2>6. QED
    BY <2>4, <2>5
<1>2. QED
  BY <1>1, Zenon DEF Drawing

(* When all writes are made the memory holds the picture of the call.       *)
LEMMA DrawingLast ==
  ASSUME NEW c \in Calls, Fits(c), NEW p \in Panels, NEW b4 \in [Cells -> Byte],
         Drawing(p, c, b4, Len(Program[c]))
  PROVE  p.ram = PictureOf(c, b4)
<1>1. PICK o, low, w, h, n, B : Shows(c, o, low, w, h, n, B)
  BY CallShows
<1>2. Draws(c, o, low, w, h, n, B) /\ Pictures(c, n, B)
  BY <1>1 DEF Shows
<1>3. PICK ram0 \in [Cells -> Byte] : Begun(p, c, b4, Len(Program[c]), ram0, o, low, w, h, n, B)
  BY <1>1, Zenon DEF Drawing
<1>4. Len(Program[c]) >= o
  <2> DEFINE l == Len(Program[c])
             v == (n * h) * (w + 3)
  <2>1. l = o + v /\ o \in Nat /\ v \in Nat
    BY <1>2 DEF Draws, Figure
  <2> HIDE DEF v, l
  <2>2. l >= o
    BY <2>1
  <2>3. QED
    BY <2>2 DEF l
<1>5. Shown(p, ram0, o, low, w, h, n, B, Len(Program[c]))
  BY <1>3, <1>4, Zenon DEF Begun
<1>6. p.ram = Over(Together(n, B), ram0)
  BY <1>2, <1>5, ShownLast
<1>7. PictureOf(c, ram0) = Over(Together(n, B), ram0)
  BY <1>2 DEF Pictures, Together
<1>8. PictureOf(c, ram0) = PictureOf(c, b4)
  <2>1. CASE c.fn = "Init"
    BY <2>1 DEF PictureOf
  <2>2. CASE c.fn # "Init"
    <3>1. ram0 = b4
      BY <1>3, <2>2, Zenon DEF Begun
    <3>2. QED
      BY <3>1
  <2>3. QED
    BY <2>1, <2>2
<1>9. QED
  BY <1>6, <1>7, <1>8

(* What is known of the screen during a call.                               *)
DrawInv ==
  call # NoCall => /\ Held(panel, call, DoneOf(sent, step))
                   /\ Fits(call) => Drawing(panel, call, before, DoneOf(sent, step))

(* A call that begins preserves DrawInv.                                    *)
LEMMA DrawDrawInv ==
  ASSUME IInv, DrawInv, NEW c \in Calls, Draw(c)
  PROVE  DrawInv'
<1>1. TypeOK
  BY DEF IInv
<1>2. /\ ~Writing /\ (call = NoCall => c.fn = "Init")
      /\ call' = c /\ sent' = 0 /\ before' = panel.ram /\ step' = step /\ panel' = panel
  BY DEF Draw
<1>3. step = 0 /\ panel \in Panels
  BY <1>1, <1>2 DEF TypeOK
<1>4. DoneOf(sent', step') = 0
  BY <1>2, <1>3 DEF DoneOf
<1>5. c.fn = "Init" \/ ~ panel.pending
  <2>1. CASE call = NoCall
    BY <1>2, <2>1
  <2>2. CASE call # NoCall
    <3>1. call \in Calls /\ sent \in Nat /\ sent <= Len(Program[call]) /\ ~ (sent < Len(Program[call]))
      BY <1>1, <1>2, <2>2 DEF TypeOK, Writing
    <3> DEFINE l == Len(Program[call])
    <3>2. l \in Nat
      <4>1. Program[call] \in Closed
        BY <3>1, ProgramClosed
      <4>2. QED
        BY <4>1, ClosedHas
    <3>3. call.fn = "Init" => l # 0
      <4>1. call.fn = "Init" => l >= 27
        BY <3>1, InitProgram
      <4> HIDE DEF l
      <4>2. QED
        BY <3>2, <4>1
    <3>4. sent = l
      <4>1. sent \in Nat /\ sent <= l /\ ~ (sent < l)
        BY <3>1
      <4> HIDE DEF l
      <4>2. QED
        BY <3>2, <4>1
    <3>5. DoneOf(sent, step) = l
      BY <1>3, <3>4 DEF DoneOf
    <3>6. Held(panel, call, l)
      BY <2>2, <3>5 DEF DrawInv
    <3>7. ~ panel.pending
      BY <3>1, <3>3, <3>6, HeldLast
    <3>8. QED
      BY <3>7
  <2>3. QED
    BY <2>1, <2>2
<1>6. Held(panel, c, 0)
  BY <1>5 DEF Held
<1>7. Drawing(panel, c, panel.ram, 0)
  BY <1>3, <1>5, DrawingFirst
<1>8. QED
  BY <1>2, <1>4, <1>6, <1>7 DEF DrawInv

(* So does every change of a line.                                          *)
LEMMA PinDrawInv ==
  ASSUME IInv, RecInv, DrawInv, Pin
  PROVE  DrawInv'
<1> DEFINE d == DoneOf(sent, step)
           d2 == DoneOf(sent', step')
           w == Program[call][sent + 1]
<1>1. TypeOK /\ LinesInv /\ Met
  BY DEF IInv
<1>2. /\ call \in Calls /\ sent \in Nat /\ sent < Len(Program[call]) /\ step \in 0..87
      /\ step = 87 => sent' = sent + 1 /\ step' = 0
      /\ step # 87 => sent' = sent /\ step' = step + 1
      /\ call' = call /\ before' = before
  BY <1>1, PinParts
<1>3. /\ step = 0 => panel' = IF Awaits(receiver) THEN Apply(panel, Written(receiver)) ELSE panel
      /\ step = 83 => panel' = Apply(panel, w)
      /\ step \notin {0, 83} => panel' = panel
  BY <1>1, PinPanel, Zenon
<1>4. panel \in Panels /\ receiver \in Receivers
  BY <1>1 DEF TypeOK
<1>5. call # NoCall
  BY <1>2, NoCallIsNone
<1>6. Held(panel, call, d) /\ (Fits(call) => Drawing(panel, call, before, d))
  BY <1>5 DEF DrawInv
<1>7. SUFFICES Held(panel', call, d2) /\ (Fits(call) => Drawing(panel', call, before, d2))
  BY <1>2 DEF DrawInv
<1>8. CASE step = 0 /\ Awaits(receiver)
  <2>1. receiver # Silent
    BY <1>8, SilentLeft
  <2>2. call.fn = "Init" /\ sent = 0
    BY <1>1, <1>5, <1>8, <2>1 DEF Met
  <2>3. d2 = 0
    BY <1>2, <1>8, <2>2 DEF DoneOf
  <2>4. panel' \in Panels
    <3>1. Written(receiver) \in Writes
      BY <1>4, WrittenTyped
    <3>2. Apply(panel, Written(receiver)) \in Panels
      BY <1>4, <3>1, ApplyTyped
    <3>3. QED
      BY <1>3, <1>8, <3>2
  <2> HIDE DEF d2
  <2>5. Held(panel', call, 0)
    BY <2>2 DEF Held
  <2>6. Drawing(panel', call, before, 0)
    BY <2>2, <2>4, DrawingLate
  <2>7. QED
    BY <2>3, <2>5, <2>6
<1>9. CASE step = 83
  <2>1. d = sent /\ d2 = sent + 1
    BY <1>2, <1>9 DEF DoneOf
  <2> DEFINE q == panel'
  <2>2. q = Apply(panel, Program[call][sent + 1])
    BY <1>3, <1>9
  <2>3. Held(panel, call, sent) /\ (Fits(call) => Drawing(panel, call, before, sent))
    BY <1>6, <2>1
  <2>4. call.fn = "Init" => SetUp(q, sent + 1)
    <3>1. RecInv'
      BY PinRecInv
    <3>2. call'.fn = "Init" => SetUp(q, d2)
      BY <3>1 DEF RecInv
    <3> HIDE DEF d2, q
    <3>3. QED
      BY <1>2, <2>1, <3>2
  <2> HIDE DEF d2, q
  <2>5. Held(q, call, sent + 1)
    BY <1>2, <1>4, <2>2, <2>3, HeldNext
  <2>6. Fits(call) => Drawing(q, call, before, sent + 1)
    BY <1>2, <1>4, <2>2, <2>3, <2>4, DrawingNext
  <2>7. QED
    BY <2>1, <2>5, <2>6 DEF q
<1>10. CASE step # 83 /\ ~ (step = 0 /\ Awaits(receiver))
  <2>1. panel' = panel
    BY <1>3, <1>10
  <2>2. d2 = d
    <3>1. CASE step = 87
      BY <1>2, <3>1 DEF DoneOf
    <3>2. CASE step # 87
      BY <1>2, <1>10, <3>2 DEF DoneOf
    <3>3. QED
      BY <3>1, <3>2
  <2>3. QED
    BY <1>6, <2>1, <2>2
<1>11. QED
  BY <1>8, <1>9, <1>10

(* When a drawing that fits on the screen returns and nothing was killed    *)
(* meanwhile, the screen shows exactly its picture over what was there      *)
(* before it: every character, digit and row at its place, and no cell      *)
(* beside it changed. A cursor command or a byte of data is never taken for *)
(* the argument of a command before it, OLED_ShowString() breaks its lines  *)
(* without overlap, and OLED_ShowNum() shows the digits of its number       *)
(* (NPDOLED.cpp:61-172, 302-322).                                           *)
THEOREM Pictured == Spec => []Drawn
<1>1. Init => RecInv /\ DrawInv
  <2>1. NoCall.fn # "Init"
    BY NoCallIsNone
  <2>2. QED
    BY <2>1 DEF Init, RecInv, DrawInv
<1>2. IInv /\ RecInv /\ DrawInv /\ [Next]_vars => RecInv' /\ DrawInv'
  <2>1. SUFFICES ASSUME IInv, RecInv, DrawInv, [Next]_vars PROVE RecInv' /\ DrawInv'
    OBVIOUS
  <2>2. CASE \E c \in Calls : Draw(c)
    <3>1. PICK c \in Calls : Draw(c)
      BY <2>2
    <3>2. RecInv'
      BY <2>1, <3>1, DrawRecInv
    <3>3. DrawInv'
      BY <2>1, <3>1, DrawDrawInv
    <3>4. QED
      BY <3>2, <3>3
  <2>3. CASE Pin
    BY <2>1, <2>3, PinRecInv, PinDrawInv
  <2>4. CASE Kill
    <3>1. call' = NoCall
      BY <2>4 DEF Kill
    <3>2. QED
      BY <3>1, NoCallIsNone DEF RecInv, DrawInv
  <2>5. CASE UNCHANGED vars
    BY <2>1, <2>5 DEF RecInv, DrawInv, vars
  <2>6. QED
    BY <2>1, <2>2, <2>3, <2>4, <2>5 DEF Next
<1>3. IInv /\ DrawInv => Drawn
  <2>1. SUFFICES ASSUME IInv, DrawInv, call # NoCall, ~Writing, Fits(call)
                 PROVE  panel.ram = Picture
    BY DEF Drawn
  <2>2. TypeOK
    BY <2>1 DEF IInv
  <2>3. call \in Calls /\ sent \in Nat /\ step = 0 /\ sent <= Len(Program[call])
          /\ panel \in Panels /\ before \in [Cells -> Byte]
    BY <2>1, <2>2 DEF TypeOK
  <2> DEFINE l == Len(Program[call])
  <2>4. l \in Nat
    <3>1. Program[call] \in Closed
      BY <2>3, ProgramClosed
    <3>2. QED
      BY <3>1, ClosedHas
  <2>5. ~ (sent < l) /\ sent <= l
    BY <2>1, <2>3 DEF Writing
  <2> HIDE DEF l
  <2>6. sent = l
    BY <2>3, <2>4, <2>5
  <2>7. DoneOf(sent, step) = l
    BY <2>3, <2>6 DEF DoneOf
  <2>8. Drawing(panel, call, before, l)
    BY <2>1, <2>7 DEF DrawInv
  <2>9. panel.ram = PictureOf(call, before)
    BY <2>1, <2>3, <2>8, DrawingLast DEF l
  <2>10. Picture = PictureOf(call, before)
    BY DEF Picture, PictureOf
  <2>11. QED
    BY <2>9, <2>10
<1>4. QED
  BY <1>1, <1>2, <1>3, Inductive, PTL DEF Spec
=============================================================================
