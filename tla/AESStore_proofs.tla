--------------------------- MODULE AESStore_proofs ---------------------------
(***************************************************************************)
(* For any keys, indices and contents, common texts included: the types of *)
(* AESStore, that records stay in pairs until a write has taken a content  *)
(* for its index, and that the file implements RecordStore, whatever fails *)
(* and how often.                                                          *)
(***************************************************************************)
EXTENDS AESStore, SequenceTheorems, WellFoundedInduction, TLAPS

(* What a write has in memory and on the disk when. *)
Writing ==
  /\ pc # "idle" => index \in Indices /\ text \in Values
  /\ pc \in {"open", "add"} => file = saved
  /\ pc = "restore" => file = <<>>

(* Under one key an index is at one place only.                             *)
Single(records) ==
  \A n \in 1..Len(records) :
    n % 2 = 1 /\ records[n].key \in Keys =>
      /\ records[n].text \in Indices
      /\ \A m \in 1..Len(records) : m % 2 = 1 /\ records[m] = records[n] => m = n

Sound(records) == Whole(records) /\ Single(records)

(* While no content has been taken for an index.                            *)
Apart ==
  /\ Sound(file) /\ Sound(saved)
  /\ pc # "idle" => ~Astray(saved, index)

IInv == TypeOK /\ Writing /\ (~mixed => Apart)

-----------------------------------------------------------------------------
(* A set of numbers has a smallest one.                                     *)
LEMMA SmallestOf ==
  ASSUME NEW T, T \subseteq Nat, T # {}
  PROVE  \E n \in T : \A m \in T : n <= m
<1> DEFINE R == OpToRel(<, Nat)
<1>1. IsWellFoundedOn(R, Nat)
  BY NatLessThanWellFounded
<1>2. \A x, y \in Nat : y < x => <<y, x>> \in R
  BY DEF OpToRel
<1> HIDE DEF R
<1>3. PICK n \in T : \A m \in T : ~ (<<m, n>> \in R)
  BY <1>1, WFMin
<1>4. ASSUME NEW m \in T PROVE n <= m
  <2>1. m \in Nat /\ n \in Nat
    OBVIOUS
  <2>2. ~ (<<m, n>> \in R)
    BY <1>3
  <2>3. ~ (m < n)
    BY <2>1, <2>2, <1>2
  <2>4. QED
    BY <2>1, <2>3
<1>5. QED
  BY <1>4

(* First() is the first.                                                    *)
LEMMA FirstIs ==
  ASSUME NEW T, T \subseteq Nat, T # {}
  PROVE  First(T) \in T /\ \A m \in T : First(T) <= m
BY SmallestOf DEF First

(* A number of whole disk blocks is a number of pairs.                      *)
LEMMA BlocksAreEven ==
  ASSUME NEW n \in Nat, AtBlockEnd(n)
  PROVE  n % 2 = 0
<1>1. PICK b \in Nat : n = b * BlockRecords
  BY DEF AtBlockEnd
<1>2. PICK h \in Nat : BlockRecords = 2 * h
  <2>1. BlockRecords = 2 * (BlockRecords \div 2)
    BY BlockAssumption
  <2>2. QED
    BY <2>1, BlockAssumption
<1>3. n = 2 * (b * h)
  BY <1>1, <1>2, Z3
<1>4. b * h \in Nat
  BY Z3
<1> DEFINE c == b * h
<1> HIDE DEF c
<1>5. n = 2 * c /\ c \in Nat
  BY <1>3, <1>4 DEF c
<1>6. QED
  BY <1>5

(* What has been encrypted is a record; read back with the same key it is   *)
(* the text.                                                                *)
LEMMA Encrypted ==
  ASSUME key \in Keys \cup {NoKey}, NEW t \in Texts
  PROVE  /\ EncryptionAES(t) \in Record
         /\ EncryptionAES(t).key = key
         /\ EncryptionAES(t).text = IF key = NoKey THEN Garbage ELSE t
BY DEF EncryptionAES, Record, Texts

LEMMA Decrypted ==
  ASSUME NEW r \in Record
  PROVE  DecryptionAES(r) \in Texts
BY DEF DecryptionAES, Record, Texts

(* A record that reads as an index is that index, under the key in use; at  *)
(* an odd place there is a content behind it.                               *)
LEMMA MatchesAre ==
  ASSUME NEW records \in Seq(Record), NEW i \in Indices, NEW n \in Matches(records, i)
  PROVE  /\ n \in 1..Len(records)
         /\ key # NoKey
         /\ records[n].key = key /\ records[n].text = i
         /\ Whole(records) /\ n % 2 = 1 => n + 1 <= Len(records)
<1>1. n \in 1..Len(records) /\ DecryptionAES(records[n]) = i
  BY DEF Matches
<1>2. i # Garbage
  BY TextsAssumption
<1>3. key # NoKey /\ records[n].key = key /\ records[n].text = i
  BY <1>1, <1>2 DEF DecryptionAES
<1>4. Whole(records) /\ n % 2 = 1 => n + 1 <= Len(records)
  BY <1>1 DEF Whole, Alternate
<1>5. QED
  BY <1>1, <1>3, <1>4

(* The first match, of a search that does not stop at a content.            *)
LEMMA FirstMatch ==
  ASSUME NEW records \in Seq(Record), NEW i \in Indices,
         Matches(records, i) # {}, ~Astray(records, i)
  PROVE  LET n == First(Matches(records, i)) IN
         /\ n \in Matches(records, i) /\ \A m \in Matches(records, i) : n <= m
         /\ n \in 1..Len(records) /\ n % 2 = 1
<1> DEFINE n == First(Matches(records, i))
<1>1. Matches(records, i) \subseteq Nat /\ Matches(records, i) \subseteq 1..Len(records)
  BY DEF Matches
<1>2. n \in Matches(records, i) /\ \A m \in Matches(records, i) : n <= m
  BY <1>1, FirstIs
<1>3. n % 2 # 0
  BY DEF Astray
<1>4. n \in 1..Len(records) /\ n % 2 = 1
  <2>1. n \in Nat /\ n \in 1..Len(records)
    BY <1>1, <1>2
  <2> HIDE DEF n
  <2>2. QED
    BY <1>3, <2>1
<1>5. QED
  BY <1>2, <1>4

-----------------------------------------------------------------------------
(* The three ways the file is written: a prefix, two records more, and one  *)
(* record replaced.                                                         *)
LEMMA Prefix ==
  ASSUME NEW records \in Seq(Record), NEW n \in 0..Len(records)
  PROVE  /\ SubSeq(records, 1, n) \in Seq(Record)
         /\ Len(SubSeq(records, 1, n)) = n
         /\ \A m \in 1..n : SubSeq(records, 1, n)[m] = records[m]
<1>1. n \in Int /\ 1 \in Int /\ \A m \in 1..n : records[m] \in Record
  BY ElementOfSeq, LenProperties
<1>2. /\ SubSeq(records, 1, n) \in Seq(Record)
      /\ Len(SubSeq(records, 1, n)) = IF 1 <= n THEN n - 1 + 1 ELSE 0
      /\ \A m \in 1..n - 1 + 1 : SubSeq(records, 1, n)[m] = records[1 + m - 1]
  BY <1>1, SubSeqProperties
<1>3. QED
  BY <1>2, LenProperties

LEMMA PrefixWhole ==
  ASSUME NEW records \in Seq(Record), Whole(records), NEW n \in 0..Len(records), n % 2 = 0
  PROVE  Whole(SubSeq(records, 1, n))
<1> DEFINE part == SubSeq(records, 1, n)
<1>1. part \in Seq(Record) /\ Len(part) = n /\ \A m \in 1..n : part[m] = records[m]
  BY Prefix
<1> HIDE DEF part
<1>2. ASSUME NEW m \in 1..n
      PROVE  /\ m % 2 = 1 => /\ part[m].text \in Indices \cup {Garbage}
                             /\ m + 1 <= n
                             /\ part[m + 1].key = part[m].key
             /\ m % 2 = 0 => part[m].text \in Values \cup {Garbage}
  <2>1. Len(records) \in Nat /\ m \in 1..Len(records)
    BY LenProperties
  <2>2. m % 2 = 1 => m + 1 <= n
    BY <2>1
  <2>3. QED
    BY <1>1, <2>1, <2>2 DEF Whole, Alternate
<1>3. QED
  BY <1>1, <1>2 DEF Whole, Alternate, part

LEMMA PrefixSound ==
  ASSUME NEW records \in Seq(Record), Sound(records), NEW n \in 0..Len(records), n % 2 = 0
  PROVE  Sound(SubSeq(records, 1, n))
<1> DEFINE part == SubSeq(records, 1, n)
<1>1. /\ Len(records) \in Nat /\ part \in Seq(Record) /\ Len(part) = n
      /\ \A m \in 1..n : part[m] = records[m]
  BY Prefix, LenProperties
<1>2. Whole(part)
  BY PrefixWhole DEF Sound
<1> HIDE DEF part
<1>3. \A m \in 1..n : m \in 1..Len(records)
  BY <1>1
<1>4. Single(part)
  BY <1>1, <1>3 DEF Single, Sound
<1>5. QED
  BY <1>2, <1>4 DEF Sound, part

LEMMA TwoMore ==
  ASSUME NEW records \in Seq(Record), NEW a \in Record, NEW b \in Record
  PROVE  /\ records \o <<a, b>> \in Seq(Record)
         /\ Len(records \o <<a, b>>) = Len(records) + 2
         /\ \A m \in 1..Len(records) : (records \o <<a, b>>)[m] = records[m]
         /\ (records \o <<a, b>>)[Len(records) + 1] = a
         /\ (records \o <<a, b>>)[Len(records) + 2] = b
<1>1. <<a, b>> \in Seq(Record) /\ Len(<<a, b>>) = 2
  OBVIOUS
<1>2. /\ records \o <<a, b>> \in Seq(Record)
      /\ Len(records \o <<a, b>>) = Len(records) + Len(<<a, b>>)
      /\ \A m \in 1..Len(records) + Len(<<a, b>>) :
           (records \o <<a, b>>)[m] =
             IF m <= Len(records) THEN records[m] ELSE <<a, b>>[m - Len(records)]
  BY <1>1, ConcatProperties
<1>3. QED
  BY <1>1, <1>2, LenProperties

LEMMA TwoMoreWhole ==
  ASSUME NEW records \in Seq(Record), Whole(records), NEW a \in Record, NEW b \in Record,
         a.text \in Indices \cup {Garbage}, b.text \in Values \cup {Garbage}, b.key = a.key
  PROVE  Whole(records \o <<a, b>>)
<1> DEFINE more == records \o <<a, b>>
<1>1. /\ Len(records) \in Nat /\ Len(more) = Len(records) + 2
      /\ \A m \in 1..Len(records) : more[m] = records[m]
      /\ more[Len(records) + 1] = a /\ more[Len(records) + 2] = b
  BY TwoMore, LenProperties
<1> HIDE DEF more
<1>2. Len(more) % 2 = 0
  BY <1>1 DEF Whole
<1>3. ASSUME NEW m \in 1..Len(more)
      PROVE  /\ m % 2 = 1 => /\ more[m].text \in Indices \cup {Garbage}
                             /\ m + 1 <= Len(more)
                             /\ more[m + 1].key = more[m].key
             /\ m % 2 = 0 => more[m].text \in Values \cup {Garbage}
  <2>1. CASE m \in 1..Len(records)
    BY <1>1, <2>1 DEF Whole, Alternate
  <2>2. CASE m = Len(records) + 1
    BY <1>1, <2>2 DEF Whole
  <2>3. CASE m = Len(records) + 2
    BY <1>1, <2>3 DEF Whole
  <2>4. QED
    BY <1>1, <2>1, <2>2, <2>3
<1>4. QED
  BY <1>2, <1>3 DEF Whole, Alternate, more

LEMMA TwoMoreSound ==
  ASSUME NEW records \in Seq(Record), Sound(records), NEW a \in Record, NEW b \in Record,
         a.text \in Indices \cup {Garbage}, b.text \in Values \cup {Garbage}, b.key = a.key,
         a.key \in Keys => /\ a.text \in Indices
                          /\ \A m \in 1..Len(records) : records[m] # a
  PROVE  Sound(records \o <<a, b>>)
<1> DEFINE more == records \o <<a, b>>
           len == Len(records)
<1>1. /\ len \in Nat /\ Len(more) = len + 2
      /\ \A m \in 1..len : more[m] = records[m]
      /\ more[len + 1] = a
  BY TwoMore, LenProperties
<1>2. Whole(more)
  BY TwoMoreWhole DEF Sound
<1>3. len % 2 = 0
  BY DEF Sound, Whole
<1>4. Single(records)
  BY DEF Sound
<1>5. \A m \in 1..len : a.key \in Keys => records[m] # a
  OBVIOUS
<1> HIDE DEF more, len
<1>6. ASSUME NEW m \in 1..Len(more), m % 2 = 1
      PROVE  m \in 1..len \/ m = len + 1
  BY <1>1, <1>3, <1>6
<1>7. ASSUME NEW n \in 1..Len(more), n % 2 = 1, more[n].key \in Keys
      PROVE  /\ more[n].text \in Indices
             /\ \A m \in 1..Len(more) : m % 2 = 1 /\ more[m] = more[n] => m = n
  <2>1. CASE n \in 1..len
    <3>1. more[n] = records[n] /\ records[n].text \in Indices
      BY <1>1, <1>4, <1>7, <2>1 DEF Single, len
    <3>2. ASSUME NEW m \in 1..Len(more), m % 2 = 1, more[m] = more[n] PROVE m = n
      <4>1. m # len + 1
        BY <1>1, <1>5, <1>7, <2>1, <3>1, <3>2
      <4>2. m \in 1..len /\ records[m] = records[n]
        BY <1>1, <1>6, <3>1, <3>2, <4>1
      <4>3. QED
        BY <1>1, <1>4, <1>7, <2>1, <3>2, <4>2 DEF Single, len
    <3>3. QED
      BY <3>1, <3>2
  <2>2. CASE n = len + 1
    <3>1. more[n] = a /\ a.key \in Keys
      BY <1>1, <1>7, <2>2
    <3>2. ASSUME NEW m \in 1..Len(more), m % 2 = 1, more[m] = more[n] PROVE m = n
      <4>1. m \notin 1..len
        BY <1>1, <1>5, <3>1, <3>2
      <4>2. QED
        BY <1>6, <2>2, <3>2, <4>1
    <3>3. QED
      BY <3>1, <3>2
  <2>3. QED
    BY <1>6, <1>7, <2>1, <2>2
<1>8. Single(more)
  BY <1>7 DEF Single
<1>9. QED
  BY <1>2, <1>8 DEF Sound, more

Replaced(records, n, r) ==
  SubSeq(records, 1, n) \o <<r>> \o SubSeq(records, n + 2, Len(records))

LEMMA ReplacedSeq ==
  ASSUME NEW records \in Seq(Record), NEW n \in 1..Len(records), NEW r \in Record
  PROVE  Replaced(records, n, r) \in Seq(Record)
<1> DEFINE len == Len(records)
           after == SubSeq(records, n + 2, len)
<1>1. len \in Nat /\ n \in Nat /\ n + 2 \in Int /\ len \in Int /\ n \in 0..len
  BY LenProperties
<1>2. SubSeq(records, 1, n) \in Seq(Record)
  BY <1>1, Prefix
<1>3. after \in Seq(Record)
  <2>1. \A m \in n + 2..len : records[m] \in Record
    BY <1>1, ElementOfSeq
  <2> HIDE DEF len
  <2>2. QED
    BY <1>1, <2>1, SubSeqProperties
<1>4. <<r>> \in Seq(Record)
  OBVIOUS
<1>5. SubSeq(records, 1, n) \o <<r>> \in Seq(Record)
  BY <1>2, <1>4, ConcatProperties
<1> HIDE DEF after
<1>6. QED
  BY <1>3, <1>5, ConcatProperties DEF Replaced, after, len

LEMMA ReplacedIs ==
  ASSUME NEW records \in Seq(Record), NEW n \in 1..Len(records), n + 1 <= Len(records),
         NEW r \in Record
  PROVE  /\ Replaced(records, n, r) \in Seq(Record)
         /\ Len(Replaced(records, n, r)) = Len(records)
         /\ \A m \in 1..Len(records) :
              Replaced(records, n, r)[m] = IF m = n + 1 THEN r ELSE records[m]
<1> DEFINE before == SubSeq(records, 1, n)
           len == Len(records)
           after == SubSeq(records, n + 2, len)
<1>1. len \in Nat /\ n \in Nat /\ n + 2 \in Int /\ len \in Int
  BY LenProperties
<1>2. before \in Seq(Record) /\ Len(before) = n /\ \A m \in 1..n : before[m] = records[m]
  BY Prefix, <1>1
<1>3. /\ after \in Seq(Record)
      /\ Len(after) = IF n + 2 <= len THEN len - (n + 2) + 1 ELSE 0
      /\ \A m \in 1..len - (n + 2) + 1 : after[m] = records[n + 2 + m - 1]
  <2>1. \A m \in n + 2..len : records[m] \in Record
    BY <1>1, ElementOfSeq
  <2> HIDE DEF len
  <2>2. QED
    BY <1>1, <2>1, SubSeqProperties
<1>4. <<r>> \in Seq(Record) /\ Len(<<r>>) = 1 /\ <<r>>[1] = r
  OBVIOUS
<1> HIDE DEF before, after
<1>5. /\ before \o <<r>> \in Seq(Record)
      /\ Len(before \o <<r>>) = n + 1
      /\ \A m \in 1..n + 1 : (before \o <<r>>)[m] = IF m <= n THEN before[m] ELSE <<r>>[m - n]
  BY <1>2, <1>4, ConcatProperties
<1> DEFINE front == before \o <<r>>
<1>6. /\ front \in Seq(Record) /\ Len(front) = n + 1
      /\ \A m \in 1..n : front[m] = records[m]
      /\ front[n + 1] = r
  BY <1>1, <1>2, <1>4, <1>5
<1> HIDE DEF front
<1>7. /\ front \o after \in Seq(Record)
      /\ Len(front \o after) = Len(front) + Len(after)
      /\ \A m \in 1..Len(front) + Len(after) :
           (front \o after)[m] = IF m <= Len(front) THEN front[m] ELSE after[m - Len(front)]
  BY <1>3, <1>6, ConcatProperties
<1>8. Len(after) = len - n - 1
  BY <1>1, <1>3
<1>9. ASSUME NEW m \in 1..len
      PROVE  (front \o after)[m] = IF m = n + 1 THEN r ELSE records[m]
  <2>1. CASE m <= n + 1
    BY <1>1, <1>6, <1>7, <1>8, <2>1
  <2>2. CASE m > n + 1
    <3>1. (front \o after)[m] = after[m - (n + 1)]
      BY <1>1, <1>6, <1>7, <1>8, <2>2
    <3>2. m - (n + 1) \in 1..len - (n + 2) + 1 /\ n + 2 + (m - (n + 1)) - 1 = m
      BY <1>1, <2>2
    <3>3. QED
      BY <1>1, <1>3, <2>2, <3>1, <3>2
  <2>3. m <= n + 1 \/ m > n + 1
    BY <1>1
  <2>4. QED
    BY <2>1, <2>2, <2>3, Zenon
<1>10. Replaced(records, n, r) = front \o after
  BY DEF Replaced, front, before, after
<1>11. Len(front \o after) = len
  BY <1>1, <1>6, <1>7, <1>8
<1>12. QED
  BY <1>7, <1>9, <1>10, <1>11

LEMMA ReplacedWhole ==
  ASSUME NEW records \in Seq(Record), Whole(records),
         NEW n \in 1..Len(records), n % 2 = 1, n + 1 <= Len(records),
         NEW r \in Record, r.key = records[n].key, r.text \in Values \cup {Garbage}
  PROVE  Whole(Replaced(records, n, r))
<1> DEFINE new == Replaced(records, n, r)
<1>1. /\ Len(records) \in Nat /\ Len(new) = Len(records)
      /\ \A m \in 1..Len(records) : new[m] = IF m = n + 1 THEN r ELSE records[m]
  BY ReplacedIs, LenProperties
<1> HIDE DEF new
<1>2. ASSUME NEW m \in 1..Len(new)
      PROVE  /\ m % 2 = 1 => /\ new[m].text \in Indices \cup {Garbage}
                             /\ m + 1 <= Len(new)
                             /\ new[m + 1].key = new[m].key
             /\ m % 2 = 0 => new[m].text \in Values \cup {Garbage}
  <2>1. CASE m = n
    <3>1. new[m] = records[n] /\ new[m + 1] = r
      BY <1>1, <2>1
    <3>2. records[n].text \in Indices \cup {Garbage}
      BY <1>1 DEF Whole, Alternate
    <3>3. QED
      BY <1>1, <2>1, <3>1, <3>2
  <2>2. CASE m = n + 1
    BY <1>1, <2>2
  <2>3. CASE m # n /\ m # n + 1
    BY <1>1, <2>3 DEF Whole, Alternate
  <2>4. QED
    BY <2>1, <2>2, <2>3
<1>3. QED
  BY <1>1, <1>2 DEF Whole, Alternate, new
LEMMA ReplacedSound ==
  ASSUME NEW records \in Seq(Record), Sound(records),
         NEW n \in 1..Len(records), n % 2 = 1, n + 1 <= Len(records),
         NEW r \in Record, r.key = records[n].key, r.text \in Values \cup {Garbage}
  PROVE  Sound(Replaced(records, n, r))
<1> DEFINE new == Replaced(records, n, r)
<1>1. /\ Len(records) \in Nat /\ Len(new) = Len(records)
      /\ \A m \in 1..Len(records) : new[m] = IF m = n + 1 THEN r ELSE records[m]
  BY ReplacedIs, LenProperties
<1>2. Whole(new)
  BY ReplacedWhole DEF Sound
<1> HIDE DEF new
<1>3. \A m \in 1..Len(records) : m % 2 = 1 => new[m] = records[m]
  BY <1>1
<1>4. Single(new)
  BY <1>1, <1>3 DEF Single, Sound
<1>5. QED
  BY <1>2, <1>4 DEF Sound, new
-----------------------------------------------------------------------------
LEMMA EmptySound == <<>> \in Seq(Record) /\ Sound(<<>>)
<1>1. <<>> \in Seq(Record) /\ Len(<<>>) = 0
  OBVIOUS
<1>2. QED
  BY <1>1 DEF Sound, Whole, Alternate, Single

(* Nothing has been written at the start.                                   *)
LEMMA InitInv == Init => IInv
<1> SUFFICES ASSUME Init PROVE IInv
  OBVIOUS
<1>1. TypeOK
  <2>1. file \in Seq(Record) /\ saved \in Seq(Record)
    BY EmptySound DEF Init
  <2>2. writes \in 0..MaxWrites /\ failures \in 0..MaxFailures
    BY BoundsAssumption DEF Init
  <2>3. dir \in BOOLEAN /\ mixed \in BOOLEAN
    BY Zenon DEF Init
  <2>4. QED
    BY <2>1, <2>2, <2>3 DEF Init, TypeOK
<1>2. Apart
  BY EmptySound DEF Init, Apart
<1>3. QED
  BY <1>1, <1>2 DEF Init, IInv, Writing

(* What a read answers is a text.                                           *)
LEMMA FoundType ==
  ASSUME IInv, NEW i \in Indices, Matches(file, i) # {}
  PROVE  Found(i) \in Texts
<1> DEFINE n == First(Matches(file, i))
<1>1. file \in Seq(Record) /\ Len(file) \in Nat
  BY LenProperties DEF IInv, TypeOK
<1>2. n \in 1..Len(file)
  <2>1. Matches(file, i) \subseteq Nat /\ Matches(file, i) \subseteq 1..Len(file)
    BY <1>1 DEF Matches
  <2>2. QED
    BY <2>1, FirstIs
<1>3. Found(i) = DecryptionAES(file[IF n < Len(file) THEN n + 1 ELSE n])
  BY DEF Found
<1> HIDE DEF n
<1>4. (IF n < Len(file) THEN n + 1 ELSE n) \in 1..Len(file)
  BY <1>1, <1>2
<1>5. QED
  BY <1>1, <1>3, <1>4, ElementOfSeq, Decrypted

(* It is the content behind the index.                                      *)
LEMMA FoundIs ==
  ASSUME file \in Seq(Record), Whole(file), NEW i \in Indices,
         Matches(file, i) # {}, ~Astray(file, i)
  PROVE  LET n == First(Matches(file, i)) IN
         /\ n \in Matches(file, i) /\ \A m \in Matches(file, i) : n <= m
         /\ n \in 1..Len(file) /\ n % 2 = 1 /\ n + 1 <= Len(file)
         /\ key # NoKey /\ file[n].key = key /\ file[n].text = i
         /\ Found(i) = DecryptionAES(file[n + 1])
<1> DEFINE n == First(Matches(file, i))
<1>1. /\ n \in Matches(file, i) /\ \A m \in Matches(file, i) : n <= m
      /\ n \in 1..Len(file) /\ n % 2 = 1
  BY FirstMatch
<1>2. n + 1 <= Len(file) /\ key # NoKey /\ file[n].key = key /\ file[n].text = i
  <2> HIDE DEF n
  <2>1. QED
    BY <1>1, MatchesAre
<1>3. n < Len(file)
  <2> HIDE DEF n
  <2>1. QED
    BY <1>1, <1>2, LenProperties
<1>4. Found(i) = DecryptionAES(file[n + 1])
  BY <1>3 DEF Found
<1>5. QED
  BY <1>1, <1>2, <1>4

(* Calls that leave the file alone.                                         *)
LEMMA QuietInv ==
  ASSUME IInv,
         \/ \E k \in Keys \cup {NoKey} : LoadKey(k)
         \/ \E i \in Indices : Read(i)
         \/ DirectoryFails \/ OpenFails
  PROVE  IInv'
<1>1. TypeOK'
  <2>1. CASE \E k \in Keys \cup {NoKey} : LoadKey(k)
    BY <2>1 DEF IInv, TypeOK, LoadKey, argvars
  <2>2. ASSUME NEW i \in Indices, Read(i) PROVE TypeOK'
    <3>1. answer' \in Texts \cup {NotFound}
      BY <2>2, FoundType DEF Read
    <3>2. QED
      BY <2>2, <3>1 DEF IInv, TypeOK, Read, argvars
  <2>3. CASE DirectoryFails \/ OpenFails
    BY <2>3, BoundsAssumption DEF IInv, TypeOK, DirectoryFails, OpenFails, Failure, Return, argvars
  <2>4. QED
    BY <2>1, <2>2, <2>3
<1>2. UNCHANGED <<file, saved, mixed, index, text>> /\ (pc' = pc \/ pc' = "idle")
  BY DEF LoadKey, Read, DirectoryFails, OpenFails, Return, argvars
<1>3. Writing'
  BY <1>2 DEF IInv, Writing
<1>4. ~mixed' => Apart'
  <2>1. Sound(file)' = Sound(file) /\ Sound(saved)' = Sound(saved)
    BY <1>2 DEF Sound, Whole, Alternate, Single
  <2>2. pc' = "idle"
    BY DEF LoadKey, Read, DirectoryFails, OpenFails, Return
  <2>3. QED
    BY <1>2, <2>1, <2>2 DEF IInv, Apart
<1>5. QED
  BY <1>1, <1>3, <1>4 DEF IInv

LEMMA WriteBeginInv ==
  ASSUME IInv, NEW i \in Indices, NEW v \in Values, WriteBegin(i, v)
  PROVE  IInv'
<1>1. TypeOK'
  BY BoundsAssumption DEF IInv, TypeOK, WriteBegin
<1>2. Writing'
  BY DEF Writing, WriteBegin
<1>3. ASSUME ~mixed' PROVE Apart'
  <2>1. ~mixed /\ ~Astray(file, i)
    BY <1>3 DEF WriteBegin
  <2>2. Sound(file)' /\ Sound(saved)'
    BY <2>1 DEF IInv, Apart, WriteBegin, Sound, Whole, Alternate, Single
  <2>3. Astray(saved, index)' = Astray(file, i)
    BY DEF WriteBegin, Astray, Matches, DecryptionAES
  <2>4. QED
    BY <2>1, <2>2, <2>3 DEF Apart
<1>4. QED
  BY <1>1, <1>2, <1>3 DEF IInv

(* What is searched does not change during a write.                         *)
LEMMA AstrayStays ==
  ASSUME UNCHANGED <<key, saved, index>>
  PROVE  Astray(saved, index)' = Astray(saved, index)
BY DEF Astray, Matches, DecryptionAES

(* The rest of a write leaves what has been read and searched.              *)
LEMMA ApartStays ==
  ASSUME IInv, UNCHANGED <<saved, index, mixed>>,
         pc' = "idle" \/ (pc # "idle" /\ key' = key),
         ~mixed => Sound(file')
  PROVE  ~mixed' => Apart'
<1>1. Sound(saved)' = Sound(saved) /\ Sound(file)' = Sound(file')
  BY DEF Sound, Whole, Alternate, Single
<1>2. pc' # "idle" => Astray(saved, index)' = Astray(saved, index)
  BY AstrayStays
<1>3. QED
  BY <1>1, <1>2 DEF IInv, Apart

(* A write, up to the place where it has the old file back.                 *)
LEMMA TruncateInv == IInv /\ Truncate => IInv'
<1> SUFFICES ASSUME IInv, Truncate PROVE IInv'
  OBVIOUS
<1>1. TypeOK'
  BY EmptySound DEF IInv, Truncate, argvars, TypeOK
<1>2. Writing'
  BY DEF IInv, Truncate, argvars, Writing
<1>3. ~mixed' => Apart'
  BY EmptySound, ApartStays DEF Truncate, argvars
<1>4. QED
  BY <1>1, <1>2, <1>3 DEF IInv

LEMMA RestoreInv == IInv /\ Restore => IInv'
<1> SUFFICES ASSUME IInv, Restore PROVE IInv'
  OBVIOUS
<1>1. TypeOK'
  BY DEF IInv, Restore, argvars, TypeOK
<1>2. Writing'
  BY DEF IInv, Restore, argvars, Writing
<1>3. ~mixed => Sound(file')
  BY DEF IInv, Restore, Apart
<1>4. ~mixed' => Apart'
  BY <1>3, ApartStays DEF Restore, argvars
<1>5. QED
  BY <1>1, <1>2, <1>4 DEF IInv

LEMMA RestoreShortInv == IInv /\ RestoreShort => IInv'
<1> SUFFICES ASSUME IInv, RestoreShort PROVE IInv'
  OBVIOUS
<1>1. PICK n \in 0..(Len(saved) - 1) : AtBlockEnd(n) /\ file' = SubSeq(saved, 1, n)
  BY DEF RestoreShort
<1>2. saved \in Seq(Record) /\ n \in 0..Len(saved) /\ n \in Nat
  BY <1>1, LenProperties DEF IInv, TypeOK
<1>3. file' \in Seq(Record)
  BY <1>1, <1>2, Prefix
<1>4. TypeOK'
  BY <1>3, BoundsAssumption DEF IInv, TypeOK, RestoreShort, Failure, Return, argvars
<1>5. Writing'
  BY DEF IInv, Writing, RestoreShort, Return, argvars
<1>6. ASSUME ~mixed PROVE Sound(file')
  BY <1>1, <1>2, <1>6, BlocksAreEven, PrefixSound DEF IInv, Apart
<1>7. ~mixed' => Apart'
  BY <1>6, ApartStays DEF RestoreShort, Return, argvars
<1>8. QED
  BY <1>4, <1>5, <1>7 DEF IInv

(* What Replace does, in terms of the records.                              *)
LEMMA ReplaceIs ==
  ASSUME IInv, ~mixed, Replace
  PROVE  LET n == Offset  r == EncryptionAES(text) IN
         /\ file = saved /\ index \in Indices /\ text \in Values
         /\ n \in Matches(file, index) /\ \A m \in Matches(file, index) : n <= m
         /\ n \in 1..Len(file) /\ n % 2 = 1 /\ n + 1 <= Len(file)
         /\ key \in Keys /\ file[n].key = key /\ file[n].text = index
         /\ r \in Record /\ r.key = key /\ r.text = text
         /\ file' = Replaced(file, n, r)
<1>1. file = saved /\ index \in Indices /\ text \in Values /\ ~Astray(file, index)
  BY DEF IInv, Apart, Writing, Replace
<1>2. Offset = First(Matches(file, index)) /\ Matches(file, index) # {}
  BY <1>1 DEF Offset, Replace
<1>3. file \in Seq(Record) /\ Whole(file)
  BY DEF IInv, TypeOK, Apart, Sound
<1>4. /\ Offset \in Matches(file, index) /\ \A m \in Matches(file, index) : Offset <= m
      /\ Offset \in 1..Len(file) /\ Offset % 2 = 1 /\ Offset + 1 <= Len(file)
      /\ key # NoKey /\ file[Offset].key = key /\ file[Offset].text = index
  BY <1>1, <1>2, <1>3, FoundIs
<1>5. key \in Keys
  BY <1>4 DEF IInv, TypeOK
<1>6. EncryptionAES(text) \in Record /\ EncryptionAES(text).key = key /\ EncryptionAES(text).text = text
  BY <1>1, <1>4, <1>5, Encrypted DEF Texts
<1>7. file' = Replaced(file, Offset, EncryptionAES(text))
  BY DEF Replace, Replaced
<1>8. QED
  BY <1>1, <1>4, <1>5, <1>6, <1>7

(* The place that is written at is in the file, or at its end.              *)
LEMMA OffsetIn ==
  ASSUME IInv, pc = "add", Matches(saved, index) # {}
  PROVE  Offset \in 1..Len(file)
<1>1. file = saved
  BY DEF IInv, Writing
<1>2. Matches(saved, index) \subseteq Nat /\ Matches(saved, index) \subseteq 1..Len(file)
  BY <1>1, LenProperties DEF IInv, TypeOK, Matches
<1>3. QED
  BY <1>2, FirstIs DEF Offset

LEMMA ReplaceInv == IInv /\ Replace => IInv'
<1> SUFFICES ASSUME IInv, Replace PROVE IInv'
  OBVIOUS
<1> DEFINE n == Offset
           r == EncryptionAES(text)
<1>1. file' \in Seq(Record)
  <2>1. n \in 1..Len(file)
    BY OffsetIn DEF Replace
  <2>2. text \in Texts /\ key \in Keys \cup {NoKey} /\ file \in Seq(Record)
    BY DEF IInv, TypeOK, Writing, Replace, Texts
  <2>3. r \in Record
    BY <2>2, Encrypted
  <2>4. file' = Replaced(file, n, r)
    BY DEF Replace, Replaced
  <2>5. QED
    BY <2>1, <2>2, <2>3, <2>4, ReplacedSeq
<1>2. TypeOK'
  BY <1>1 DEF IInv, TypeOK, Replace, Return, argvars
<1>3. Writing'
  BY DEF IInv, Writing, Replace, Return, argvars
<1>4. ASSUME ~mixed PROVE Sound(file')
  <2>1. /\ n \in 1..Len(file) /\ n % 2 = 1 /\ n + 1 <= Len(file)
        /\ file[n].key = key /\ text \in Values
        /\ r \in Record /\ r.key = key /\ r.text = text
        /\ file' = Replaced(file, n, r)
    BY <1>4, ReplaceIs
  <2>2. file \in Seq(Record) /\ Sound(file)
    BY <1>4 DEF IInv, TypeOK, Apart
  <2> HIDE DEF n, r
  <2>3. QED
    BY <2>1, <2>2, ReplacedSound
<1>5. ~mixed' => Apart'
  BY <1>4, ApartStays DEF Replace, Return, argvars
<1>6. QED
  BY <1>2, <1>3, <1>5 DEF IInv

LEMMA ReplaceShortInv == IInv /\ ReplaceShort => IInv'
<1> SUFFICES ASSUME IInv, ReplaceShort PROVE IInv'
  OBVIOUS
<1>1. TypeOK'
  BY BoundsAssumption DEF IInv, TypeOK, ReplaceShort, Failure, Return, argvars
<1>2. Writing'
  BY DEF IInv, Writing, ReplaceShort, Return, argvars
<1>3. ~mixed => Sound(file')
  BY DEF IInv, Apart, ReplaceShort
<1>4. ~mixed' => Apart'
  BY <1>3, ApartStays DEF ReplaceShort, Return, argvars
<1>5. QED
  BY <1>1, <1>2, <1>4 DEF IInv

(* What is appended is an index and a content, with one key.                *)
LEMMA AddedIs ==
  ASSUME IInv, pc = "add"
  PROVE  LET a == EncryptionAES(index)  b == EncryptionAES(text) IN
         /\ file = saved /\ index \in Indices /\ text \in Values
         /\ Added = <<a, b>>
         /\ a \in Record /\ a.key = key /\ a.text = IF key = NoKey THEN Garbage ELSE index
         /\ b \in Record /\ b.key = key /\ b.text = IF key = NoKey THEN Garbage ELSE text
<1>1. /\ file = saved /\ index \in Indices /\ text \in Values
      /\ key \in Keys \cup {NoKey}
  BY DEF IInv, Writing, TypeOK
<1>2. index \in Texts /\ text \in Texts
  BY <1>1 DEF Texts
<1>3. QED
  BY <1>1, <1>2, Encrypted DEF Added

LEMMA AppendBothInv == IInv /\ AppendBoth => IInv'
<1> SUFFICES ASSUME IInv, AppendBoth PROVE IInv'
  OBVIOUS
<1> DEFINE a == EncryptionAES(index)
           b == EncryptionAES(text)
<1>1. /\ file = saved /\ index \in Indices /\ text \in Values
      /\ file' = file \o <<a, b>>
      /\ a \in Record /\ a.key = key /\ a.text = IF key = NoKey THEN Garbage ELSE index
      /\ b \in Record /\ b.key = key /\ b.text = IF key = NoKey THEN Garbage ELSE text
  BY AddedIs DEF AppendBoth
<1> HIDE DEF a, b
<1>2. file' \in Seq(Record)
  BY <1>1, TwoMore DEF IInv, TypeOK
<1>3. TypeOK'
  BY <1>2 DEF IInv, TypeOK, AppendBoth, Return, argvars
<1>4. Writing'
  BY DEF IInv, Writing, AppendBoth, Return, argvars
<1>5. ASSUME ~mixed PROVE Sound(file')
  <2>1. a.text \in Indices \cup {Garbage} /\ b.text \in Values \cup {Garbage} /\ b.key = a.key
    BY <1>1
  <2>2. a.key \in Keys => a.text \in Indices /\ \A m \in 1..Len(file) : file[m] # a
    <3>1. SUFFICES ASSUME a.key \in Keys
                   PROVE  a.text \in Indices /\ \A m \in 1..Len(file) : file[m] # a
      OBVIOUS
    <3>2. key # NoKey /\ a.text = index
      BY <1>1, <3>1, NoKeyAssumption
    <3>3. Matches(file, index) = {}
      BY <1>1 DEF AppendBoth
    <3>4. \A m \in 1..Len(file) : file[m] # a
      BY <1>1, <3>2, <3>3 DEF Matches, DecryptionAES
    <3>5. QED
      BY <1>1, <3>2, <3>4
  <2>3. file \in Seq(Record) /\ Sound(file)
    BY <1>5 DEF IInv, TypeOK, Apart
  <2>4. QED
    BY <1>1, <2>1, <2>2, <2>3, TwoMoreSound
<1>6. ~mixed' => Apart'
  BY <1>5, ApartStays DEF AppendBoth, Return, argvars
<1>7. QED
  BY <1>3, <1>4, <1>6 DEF IInv

(* One record never ends a block, so nothing of the two is written.         *)
LEMMA AppendShortIs ==
  ASSUME IInv, ~mixed, AppendShort
  PROVE  file' = file
<1>1. PICK n \in 0..1 : AtBlockEnd(Len(file) + n) /\ file' = file \o SubSeq(Added, 1, n)
  BY DEF AppendShort
<1>2. file \in Seq(Record) /\ Len(file) \in Nat /\ Len(file) % 2 = 0
  BY LenProperties DEF IInv, TypeOK, Apart, Sound, Whole
<1>3. (Len(file) + n) % 2 = 0
  BY <1>1, <1>2, BlocksAreEven
<1>4. n = 0
  BY <1>2, <1>3
<1>5. SubSeq(Added, 1, n) = <<>>
  BY <1>4, SubSeqEmpty
<1>6. QED
  BY <1>1, <1>2, <1>5, ConcatEmptySeq

LEMMA AppendShortInv == IInv /\ AppendShort => IInv'
<1> SUFFICES ASSUME IInv, AppendShort PROVE IInv'
  OBVIOUS
<1>1. file' \in Seq(Record)
  <2>1. PICK n \in 0..1 : file' = file \o SubSeq(Added, 1, n)
    BY DEF AppendShort
  <2>2. Added \in Seq(Record) /\ Len(Added) = 2
    <3> DEFINE a == EncryptionAES(index)
               b == EncryptionAES(text)
    <3>1. Added = <<a, b>> /\ a \in Record /\ b \in Record
      BY AddedIs DEF AppendShort
    <3> HIDE DEF a, b
    <3>2. QED
      BY <3>1
  <2>3. SubSeq(Added, 1, n) \in Seq(Record)
    <3>1. n \in 0..Len(Added)
      BY <2>2
    <3>2. QED
      BY <2>2, <3>1, Prefix
  <2>4. QED
    BY <2>1, <2>3, ConcatProperties DEF IInv, TypeOK
<1>2. TypeOK'
  BY <1>1, BoundsAssumption DEF IInv, TypeOK, AppendShort, Failure, Return, argvars
<1>3. Writing'
  BY DEF IInv, Writing, AppendShort, Return, argvars
<1>4. ASSUME ~mixed PROVE Sound(file')
  BY <1>4, AppendShortIs DEF IInv, Apart
<1>5. ~mixed' => Apart'
  BY <1>4, ApartStays DEF AppendShort, Return, argvars
<1>6. QED
  BY <1>2, <1>3, <1>5 DEF IInv

(* A killed process leaves the file as it is.                               *)
LEMMA CrashInv == IInv /\ Crash => IInv'
<1> SUFFICES ASSUME IInv, Crash PROVE IInv'
  OBVIOUS
<1>1. TypeOK'
  BY BoundsAssumption DEF IInv, TypeOK, Crash, Failure, argvars
<1>2. Writing'
  BY DEF IInv, Writing, Crash, argvars
<1>3. ~mixed => Sound(file')
  BY DEF IInv, Apart, Crash
<1>4. ~mixed' => Apart'
  BY <1>3, ApartStays DEF Crash, argvars
<1>5. QED
  BY <1>1, <1>2, <1>4 DEF IInv

LEMMA StutterInv == IInv /\ UNCHANGED vars => IInv'
BY DEF IInv, TypeOK, Apart, Sound, Whole, Alternate, Single, Writing, Astray, Matches,
   DecryptionAES, vars, argvars

-----------------------------------------------------------------------------
(* IInv holds of every state.                                               *)
THEOREM Invariant == Spec => []IInv
<1>1. IInv /\ [Next]_vars => IInv'
  BY QuietInv, WriteBeginInv, TruncateInv, RestoreInv, RestoreShortInv, ReplaceInv,
     ReplaceShortInv, AppendBothInv, AppendShortInv, CrashInv, StutterInv DEF Next
<1>2. QED
  BY InitInv, <1>1, PTL DEF Spec

(* Types, whatever fails.                                                   *)
THEOREM TypeCorrect == Spec => []TypeOK
BY Invariant, PTL DEF IInv

(* Records stay in pairs, an index first, under one key: no short write, no *)
(* crash and no write at an offset separates an index from its content,     *)
(* until a write has taken a content for its index.                         *)
THEOREM PairedCorrect == Spec => []Paired
<1>1. IInv => Paired
  BY DEF IInv, Apart, Sound, Paired
<1>2. QED
  BY Invariant, <1>1, PTL
-----------------------------------------------------------------------------
(* The refinement.  Where records of an index are, and what is kept for it. *)
Places(records, k, i) ==
  {n \in 1..(Len(records) - 1) : n % 2 = 1 /\ records[n] = [key |-> k, text |-> i]}

KeptIn(records, k, i) ==
  IF Places(records, k, i) = {} THEN NotFound
  ELSE records[First(Places(records, k, i)) + 1].text

LEMMA KeptIs ==
  ASSUME NEW k, NEW i
  PROVE  Kept(k, i) = KeptIn(Content, k, i)
BY DEF Kept, KeptIn, Places

LEMMA RecordIs ==
  ASSUME NEW r \in Record, NEW k, NEW i
  PROVE  r = [key |-> k, text |-> i] <=> r.key = k /\ r.text = i
BY DEF Record

(* What is kept is behind the first place.                                  *)
LEMMA KeptFirst ==
  ASSUME NEW records, Len(records) \in Nat, NEW k, NEW i,
         NEW n \in Places(records, k, i), \A m \in Places(records, k, i) : n <= m
  PROVE  KeptIn(records, k, i) = records[n + 1].text
<1> DEFINE places == Places(records, k, i)
<1>1. places \subseteq Nat /\ n \in places
  BY DEF Places
<1>2. First(places) \in places /\ First(places) <= n
  <2> HIDE DEF places
  <2>1. QED
    BY <1>1, FirstIs
<1>3. n <= First(places)
  BY <1>2
<1>4. First(places) = n
  <2> DEFINE f == First(places)
  <2>1. f \in Nat /\ n \in Nat /\ f <= n /\ n <= f
    BY <1>1, <1>2, <1>3
  <2> HIDE DEF f
  <2>2. f = n
    BY <2>1
  <2>3. QED
    BY <2>2 DEF f
<1>5. QED
  BY <1>1, <1>4 DEF KeptIn

LEMMA FirstPlace ==
  ASSUME NEW records, Len(records) \in Nat, NEW k, NEW i, Places(records, k, i) # {}
  PROVE  \E n \in Places(records, k, i) : \A m \in Places(records, k, i) : n <= m
<1>1. Places(records, k, i) \subseteq Nat
  BY DEF Places
<1>2. QED
  BY <1>1, SmallestOf

(* An index is at an odd place, its content is behind it, with its key.     *)
LEMMA PlaceOdd ==
  ASSUME NEW records \in Seq(Record), Whole(records), NEW k, NEW i,
         NEW n \in Places(records, k, i)
  PROVE  /\ n \in 1..Len(records) /\ n % 2 = 1 /\ n + 1 <= Len(records)
         /\ records[n].key = k /\ records[n].text = i
         /\ records[n + 1].key = k
<1>1. n \in 1..(Len(records) - 1) /\ n % 2 = 1 /\ records[n].key = k /\ records[n].text = i
  BY DEF Places
<1>2. n \in 1..Len(records) /\ n + 1 <= Len(records)
  BY <1>1, LenProperties
<1>3. records[n + 1].key = records[n].key
  BY <1>1, <1>2 DEF Whole, Alternate
<1>4. QED
  BY <1>1, <1>2, <1>3

(* A prefix loses what is behind it.                                        *)
LEMMA KeptInPrefix ==
  ASSUME NEW records \in Seq(Record), Whole(records), NEW n \in 0..Len(records), n % 2 = 0,
         NEW k, NEW i \in Indices
  PROVE  KeptIn(SubSeq(records, 1, n), k, i) \in {KeptIn(records, k, i), NotFound}
<1> DEFINE part == SubSeq(records, 1, n)
<1>1. /\ Len(records) \in Nat /\ n \in Nat /\ n <= Len(records)
      /\ part \in Seq(Record) /\ Len(part) = n /\ \A m \in 1..n : part[m] = records[m]
      /\ Whole(part)
  BY Prefix, PrefixWhole, LenProperties
<1> HIDE DEF part
<1>2. CASE Places(part, k, i) = {}
  BY <1>2 DEF KeptIn, part
<1>3. CASE Places(part, k, i) # {}
  <2>1. PICK f \in Places(part, k, i) : \A m \in Places(part, k, i) : f <= m
    BY <1>1, <1>3, FirstPlace
  <2>2. f \in 1..n /\ f + 1 <= n
    BY <1>1, PlaceOdd
  <2>3. f \in Places(records, k, i)
    BY <1>1, <2>2 DEF Places
  <2>4. ASSUME NEW m \in Places(records, k, i) PROVE f <= m
    <3>1. m \in 1..Len(records) /\ m % 2 = 1
      BY <1>1 DEF Places
    <3>2. CASE m <= n
      <4>1. m \in Places(part, k, i)
        <5>1. m \in 1..(n - 1)
          BY <1>1, <3>1, <3>2
        <5>2. QED
          BY <1>1, <3>1, <5>1 DEF Places
      <4>2. QED
        BY <2>1, <4>1
    <3>3. CASE m > n
      BY <1>1, <2>2, <3>1, <3>3
    <3>4. QED
      BY <1>1, <3>1, <3>2, <3>3
  <2>5. KeptIn(part, k, i) = part[f + 1].text
    BY <1>1, <2>1, KeptFirst
  <2>6. KeptIn(records, k, i) = records[f + 1].text
    BY <1>1, <2>3, <2>4, KeptFirst
  <2>7. part[f + 1] = records[f + 1]
    BY <1>1, <2>2
  <2>8. QED
    BY <2>5, <2>6, <2>7 DEF part
<1>4. QED
  BY <1>2, <1>3

(* Two records more count for an index that was not there before.           *)
LEMMA KeptInTwoMore ==
  ASSUME NEW records \in Seq(Record), Whole(records), NEW a \in Record, NEW b \in Record,
         NEW k, NEW i \in Indices,
         a = [key |-> k, text |-> i] => Places(records, k, i) = {}
  PROVE  KeptIn(records \o <<a, b>>, k, i) =
           IF a = [key |-> k, text |-> i] THEN b.text ELSE KeptIn(records, k, i)
<1> DEFINE more == records \o <<a, b>>
           len == Len(records)
<1>1. /\ len \in Nat /\ Len(more) = len + 2 /\ Len(more) \in Nat
      /\ \A m \in 1..len : more[m] = records[m]
      /\ more[len + 1] = a /\ more[len + 2] = b
  BY TwoMore, LenProperties
<1>2. len % 2 = 0
  BY DEF Whole
<1> HIDE DEF more, len
<1>3. Places(more, k, i) =
        Places(records, k, i) \cup (IF a = [key |-> k, text |-> i] THEN {len + 1} ELSE {})
  <2>1. \A m \in 1..(len + 1) : m % 2 = 1 => m \in 1..(len - 1) \/ m = len + 1
    BY <1>1, <1>2
  <2>2. (len + 1) % 2 = 1 /\ len + 1 \in 1..(len + 1) /\ 1..(len - 1) \subseteq 1..len
    BY <1>1, <1>2
  <2>3. Places(more, k, i) = {n \in 1..(len + 1) : n % 2 = 1 /\ more[n] = [key |-> k, text |-> i]}
    <3>1. Len(more) - 1 = len + 1
      BY <1>1
    <3>2. QED
      BY <3>1 DEF Places
  <2>4. Places(records, k, i) =
          {n \in 1..(len - 1) : n % 2 = 1 /\ records[n] = [key |-> k, text |-> i]}
    BY DEF Places, len
  <2>5. 1..(len - 1) \subseteq 1..(len + 1)
    BY <1>1
  <2>6. QED
    BY <1>1, <2>1, <2>2, <2>3, <2>4, <2>5
<1>4. CASE a = [key |-> k, text |-> i]
  <2>1. Places(more, k, i) = {len + 1}
    BY <1>3, <1>4
  <2>2. KeptIn(more, k, i) = more[(len + 1) + 1].text
    <3>1. len + 1 \in Places(more, k, i) /\ \A m \in Places(more, k, i) : len + 1 <= m
      BY <1>1, <2>1
    <3>2. QED
      BY <1>1, <3>1, KeptFirst
  <2>3. QED
    BY <1>1, <1>4, <2>2 DEF more
<1>5. CASE a # [key |-> k, text |-> i] /\ Places(records, k, i) = {}
  BY <1>3, <1>5 DEF KeptIn, more
<1>6. CASE a # [key |-> k, text |-> i] /\ Places(records, k, i) # {}
  <2>1. PICK f \in Places(records, k, i) : \A m \in Places(records, k, i) : f <= m
    BY <1>1, <1>6, FirstPlace DEF len
  <2>2. KeptIn(records, k, i) = records[f + 1].text
    BY <1>1, <2>1, KeptFirst DEF len
  <2>3. Places(more, k, i) = Places(records, k, i)
    BY <1>3, <1>6
  <2>4. KeptIn(more, k, i) = more[f + 1].text
    BY <1>1, <2>1, <2>3, KeptFirst
  <2>5. f + 1 \in 1..len
    BY <1>1, PlaceOdd DEF len
  <2>6. QED
    BY <1>1, <1>6, <2>2, <2>4, <2>5 DEF more
<1>7. QED
  BY <1>4, <1>5, <1>6

(* A replaced content counts for the index in front of it, and no other.    *)
LEMMA KeptInReplaced ==
  ASSUME NEW records \in Seq(Record), Whole(records), NEW k0, NEW i0 \in Indices,
         NEW n \in Places(records, k0, i0), \A m \in Places(records, k0, i0) : n <= m,
         NEW r \in Record, r.text \in Values, NEW k, NEW i \in Indices
  PROVE  KeptIn(Replaced(records, n, r), k, i) =
           IF k = k0 /\ i = i0 THEN r.text ELSE KeptIn(records, k, i)
<1> DEFINE new == Replaced(records, n, r)
           len == Len(records)
<1>1. len \in Nat /\ n \in 1..len /\ n % 2 = 1 /\ n + 1 <= len
  BY PlaceOdd, LenProperties
<1>2. Len(new) = len /\ \A m \in 1..len : new[m] = IF m = n + 1 THEN r ELSE records[m]
  BY <1>1, ReplacedIs
<1> HIDE DEF new, len
<1>3. Places(new, k, i) = Places(records, k, i)
  <2>1. \A m \in 1..(len - 1) : m % 2 = 1 => m # n + 1 /\ m \in 1..len
    BY <1>1
  <2>2. \A m \in 1..(len - 1) : m % 2 = 1 => new[m] = records[m]
    BY <1>2, <2>1
  <2>3. QED
    BY <1>2, <2>2 DEF Places, len
<1>4. CASE Places(records, k, i) = {}
  <2>1. ~ (k = k0 /\ i = i0)
    BY <1>4
  <2>2. KeptIn(new, k, i) = KeptIn(records, k, i)
    BY <1>3, <1>4 DEF KeptIn
  <2>3. QED
    BY <2>1, <2>2 DEF new
<1>5. CASE Places(records, k, i) # {}
  <2>1. PICK f \in Places(records, k, i) : \A m \in Places(records, k, i) : f <= m
    BY <1>1, <1>5, FirstPlace DEF len
  <2>2. f \in 1..len /\ f % 2 = 1 /\ f + 1 \in 1..len
    BY <1>1, PlaceOdd DEF len
  <2>3. KeptIn(records, k, i) = records[f + 1].text
    BY <1>1, <2>1, KeptFirst DEF len
  <2>4. KeptIn(new, k, i) = new[f + 1].text
    BY <1>1, <1>2, <1>3, <2>1, KeptFirst
  <2>5. CASE k = k0 /\ i = i0
    <3>1. f = n
      BY <1>1, <2>1, <2>2, <2>5
    <3>2. QED
      BY <1>2, <2>2, <2>4, <2>5, <3>1 DEF new
  <2>6. CASE ~ (k = k0 /\ i = i0)
    <3>1. f # n
      BY <2>6 DEF Places
    <3>2. new[f + 1] = records[f + 1]
      BY <1>1, <1>2, <2>2, <3>1
    <3>3. QED
      BY <2>3, <2>4, <2>6, <3>2 DEF new
  <2>7. QED
    BY <2>5, <2>6
<1>6. QED
  BY <1>4, <1>5
-----------------------------------------------------------------------------
(* Steps of the detailed module as steps of the abstract one.               *)
MapStep == [Abstract!Next]_(Abstract!vars)

(* A step with the same contents, key, failures and answer is a stutter.    *)
LEMMA Stutter ==
  ASSUME Content' = Content, UNCHANGED <<key, failures, answer, mixed>>
  PROVE  MapStep
<1>1. \A k \in Keys, i \in Indices : Kept(k, i)' = Kept(k, i)
  BY DEF Kept
<1>2. QED
  BY <1>1 DEF MapStep, Abstract!vars

(* A failure that loses contents and changes none.                          *)
LEMMA Lose ==
  ASSUME \A k \in Keys, i \in Indices : Kept(k, i)' \in {Kept(k, i), NotFound},
         failures' = failures + 1, key' \in {key, NoKey}, UNCHANGED <<answer, mixed>>
  PROVE  MapStep
<1> DEFINE lost == {ki \in Keys \X Indices : Kept(ki[1], ki[2])' = NotFound}
           Map == [k \in Keys |-> [i \in Indices |-> Kept(k, i)]]
<1>1. lost \in SUBSET (Keys \X Indices)
  OBVIOUS
<1>2. ASSUME NEW k \in Keys, NEW i \in Indices
      PROVE  Kept(k, i)' = IF <<k, i>> \in lost THEN NotFound ELSE Kept(k, i)
  OBVIOUS
<1> HIDE DEF lost
<1>3. Map' = [k \in Keys |-> [i \in Indices |->
                 IF <<k, i>> \in lost THEN NotFound ELSE Map[k][i]]]
  BY <1>2
<1>4. Abstract!Fail(lost)
  BY <1>3 DEF Abstract!Fail
<1>5. QED
  BY <1>1, <1>4 DEF MapStep, Abstract!Next

(* A failure that loses nothing.                                            *)
LEMMA LoseNothing ==
  ASSUME Content' = Content, failures' = failures + 1, UNCHANGED <<key, answer, mixed>>
  PROVE  MapStep
<1>1. \A k, i : Kept(k, i)' = Kept(k, i)
  BY DEF Kept
<1>2. QED
  BY <1>1, Lose

(* A content that is kept, and no other change.                             *)
LEMMA Keep ==
  ASSUME key \in Keys, NEW i0 \in Indices, NEW v \in Values,
         \A k \in Keys, i \in Indices :
           Kept(k, i)' = IF k = key /\ i = i0 THEN v ELSE Kept(k, i),
         UNCHANGED <<key, failures, answer, mixed>>
  PROVE  MapStep
<1> DEFINE Map == [k \in Keys |-> [i \in Indices |-> Kept(k, i)]]
<1>1. Map' = [Map EXCEPT ![key][i0] = v]
  OBVIOUS
<1>2. Abstract!Put(i0, v)
  BY <1>1 DEF Abstract!Put
<1>3. QED
  BY <1>2 DEF MapStep, Abstract!Next

-----------------------------------------------------------------------------
LEMMA InitMaps == Init => Abstract!Init
<1> SUFFICES ASSUME Init PROVE Abstract!Init
  OBVIOUS
<1>1. Content = <<>> /\ Len(<<>>) = 0
  BY DEF Init, Content
<1>2. \A k \in Keys, i \in Indices : Kept(k, i) = NotFound
  BY <1>1 DEF Kept
<1>3. QED
  BY <1>2 DEF Init, Abstract!Init

LEMMA LoadMaps ==
  ASSUME NEW k0 \in Keys \cup {NoKey}, LoadKey(k0)
  PROVE  MapStep
<1>1. Content' = Content
  BY DEF LoadKey, Content, argvars
<1>2. \A k \in Keys, i \in Indices : Kept(k, i)' = Kept(k, i)
  BY <1>1 DEF Kept
<1>3. Abstract!Load(k0)
  BY <1>2 DEF LoadKey, Abstract!Load
<1>4. QED
  BY <1>3 DEF MapStep, Abstract!Next

(* A search that stops at a content is for a text that is kept.             *)
LEMMA AstrayHeld ==
  ASSUME file \in Seq(Record), Sound(file), key \in Keys \cup {NoKey}, Content = file,
         NEW i \in Indices, Astray(file, i)
  PROVE  Abstract!Held(i)
<1> DEFINE n == First(Matches(file, i))
           j == file[n - 1].text
<1>1. n \in Matches(file, i) /\ n % 2 = 0 /\ n \in 1..Len(file) /\ Len(file) \in Nat
  <2>1. Matches(file, i) \subseteq Nat /\ Matches(file, i) \subseteq 1..Len(file)
    BY LenProperties DEF Matches
  <2>2. QED
    BY <2>1, FirstIs, LenProperties DEF Astray
<1> HIDE DEF n
<1>2. key \in Keys /\ file[n].key = key /\ file[n].text = i
  BY <1>1, MatchesAre
<1> DEFINE m == n - 1
<1>3. m \in 1..(Len(file) - 1) /\ m \in 1..Len(file) /\ m % 2 = 1 /\ m + 1 = n
  BY <1>1
<1> HIDE DEF m
<1>4. file[m].key = key
  BY <1>2, <1>3 DEF Sound, Whole, Alternate
<1>5. /\ file[m].text \in Indices
      /\ \A p \in 1..Len(file) : p % 2 = 1 /\ file[p] = file[m] => p = m
  BY <1>2, <1>3, <1>4 DEF Sound, Single
<1>6. j = file[m].text
  BY DEF m
<1> HIDE DEF j
<1>7. file[m] = [key |-> key, text |-> j]
  <2>1. file[m] \in Record
    BY <1>3, ElementOfSeq
  <2>2. QED
    BY <2>1, <1>4, <1>6, RecordIs
<1>8. m \in Places(file, key, j)
  BY <1>3, <1>7 DEF Places
<1>9. \A p \in Places(file, key, j) : m <= p
  <2>1. ASSUME NEW p \in Places(file, key, j) PROVE m <= p
    <3>1. p \in 1..Len(file) /\ p % 2 = 1 /\ file[p] = file[m]
      BY <1>1, <1>7 DEF Places
    <3>2. p = m
      BY <1>5, <3>1
    <3>3. QED
      BY <1>3, <3>2
  <2>2. QED
    BY <2>1
<1>10. KeptIn(file, key, j) = i
  BY <1>1, <1>2, <1>3, <1>8, <1>9, KeptFirst
<1>11. Kept(key, j) = i
  BY <1>10, KeptIs
<1>12. j \in Indices
  BY <1>5, <1>6
<1>13. [k \in Keys |-> [x \in Indices |-> Kept(k, x)]][key][j] = i
  BY <1>2, <1>11, <1>12
<1>14. QED
  BY <1>2, <1>12, <1>13 DEF Abstract!Held

(* A read answers what is kept, unless it is for a text that is kept.       *)
LEMMA ReadMaps ==
  ASSUME IInv, ~mixed, NEW i \in Indices, Read(i)
  PROVE  MapStep
<1>1. Content' = Content /\ Content = file
  BY DEF Read, Content, argvars
<1>2. \A k \in Keys, j \in Indices : Kept(k, j)' = Kept(k, j)
  BY <1>1 DEF Kept
<1>3. /\ file \in Seq(Record) /\ Sound(file) /\ Whole(file) /\ Len(file) \in Nat
      /\ key \in Keys \cup {NoKey}
  BY LenProperties DEF IInv, TypeOK, Apart, Sound
<1>4. ASSUME ~Astray(file, i)
      PROVE  answer' = IF key \in Keys THEN KeptIn(file, key, i) ELSE NotFound
  <2>1. CASE key = NoKey
    <3>1. Matches(file, i) = {}
      BY <2>1, <1>3, MatchesAre
    <3>2. QED
      BY <2>1, <3>1, NoKeyAssumption DEF Read
  <2>2. CASE key \in Keys
    <3>1. \A m \in Places(file, key, i) : m \in Matches(file, i)
      <4>1. ASSUME NEW m \in Places(file, key, i) PROVE m \in Matches(file, i)
        <5>1. m \in 1..Len(file) /\ file[m].key = key /\ file[m].text = i
          BY <1>3, PlaceOdd
        <5>2. QED
          BY <2>2, <5>1, NoKeyAssumption DEF Matches, DecryptionAES
      <4>2. QED
        BY <4>1
    <3>2. CASE Matches(file, i) = {}
      <4>1. Places(file, key, i) = {}
        BY <3>1, <3>2
      <4>2. QED
        BY <2>2, <3>2, <4>1 DEF Read, KeptIn
    <3>3. CASE Matches(file, i) # {}
      <4> DEFINE n == First(Matches(file, i))
      <4>1. /\ n \in 1..Len(file) /\ n % 2 = 1 /\ n + 1 <= Len(file)
            /\ file[n].key = key /\ file[n].text = i
            /\ \A m \in Matches(file, i) : n <= m
            /\ Found(i) = DecryptionAES(file[n + 1])
        BY <1>3, <1>4, <3>3, FoundIs
      <4> HIDE DEF n
      <4>2. n \in Places(file, key, i)
        <5>1. file[n] = [key |-> key, text |-> i]
          BY <1>3, <4>1, ElementOfSeq, RecordIs
        <5>2. n \in 1..(Len(file) - 1)
          BY <1>3, <4>1
        <5>3. QED
          BY <4>1, <5>1, <5>2 DEF Places
      <4>3. \A m \in Places(file, key, i) : n <= m
        BY <3>1, <4>1
      <4>4. file[n + 1].key = key
        BY <1>3, <4>2, PlaceOdd
      <4>5. Found(i) = file[n + 1].text
        BY <2>2, <4>1, <4>4, NoKeyAssumption DEF DecryptionAES
      <4>6. KeptIn(file, key, i) = file[n + 1].text
        BY <1>3, <4>2, <4>3, KeptFirst
      <4>7. QED
        BY <2>2, <3>3, <4>5, <4>6 DEF Read
    <3>4. QED
      BY <3>2, <3>3
  <2>3. QED
    BY <1>3, <2>1, <2>2
<1>5. Abstract!Get(i)
  <2>1. ~Abstract!Held(i) =>
          answer' = IF key \in Keys
                    THEN [k \in Keys |-> [j \in Indices |-> Kept(k, j)]][key][i] ELSE NotFound
    <3>1. ~Abstract!Held(i) => ~Astray(file, i)
      BY <1>1, <1>3, AstrayHeld
    <3>2. QED
      BY <1>1, <1>4, <3>1, KeptIs
  <2>2. UNCHANGED <<key, failures, mixed>>
    BY DEF Read
  <2>3. QED
    BY <1>2, <2>1, <2>2 DEF Abstract!Get
<1>6. QED
  BY <1>5 DEF MapStep, Abstract!Next

(* Beginning a write changes no content; if the search stops at a content,  *)
(* the promise ends.                                                        *)
LEMMA WriteBeginMaps ==
  ASSUME IInv, ~mixed, NEW i \in Indices, NEW v \in Values, WriteBegin(i, v)
  PROVE  MapStep
<1>1. Content' = Content /\ Content = file
  BY DEF WriteBegin, Content
<1>2. UNCHANGED <<key, failures, answer>>
  BY DEF WriteBegin
<1>3. CASE ~Astray(file, i)
  <2>1. mixed' = mixed
    BY <1>3, Zenon DEF WriteBegin, IInv, TypeOK
  <2>2. QED
    BY <1>1, <1>2, <2>1, Stutter
<1>4. CASE Astray(file, i)
  <2>1. Abstract!Held(i)
    BY <1>1, <1>4, AstrayHeld DEF IInv, TypeOK, Apart
  <2>2. mixed' = TRUE
    BY <1>4, Zenon DEF WriteBegin
  <2>3. \A k \in Keys, j \in Indices : Kept(k, j)' = Kept(k, j)
    BY <1>1 DEF Kept
  <2>4. Abstract!Mix(i)
    BY <1>2, <2>1, <2>2, <2>3 DEF Abstract!Mix
  <2>5. QED
    BY <2>4 DEF MapStep, Abstract!Next
<1>5. QED
  BY <1>3, <1>4

(* Truncating the file and writing it back change no content: in between    *)
(* the contents are those in memory.                                        *)
LEMMA SilentMaps ==
  ASSUME IInv, Truncate \/ Restore
  PROVE  MapStep
<1>1. Content' = Content
  BY DEF IInv, Writing, Truncate, Restore, Content, argvars
<1>2. UNCHANGED <<key, failures, answer, mixed>>
  BY DEF Truncate, Restore
<1>3. QED
  BY <1>1, <1>2, Stutter

(* Without a directory or an output nothing happens.                        *)
LEMMA FailsMaps ==
  ASSUME IInv, ~mixed, DirectoryFails \/ OpenFails \/ ReplaceShort \/ AppendShort
  PROVE  MapStep
<1>1. Content' = Content
  BY AppendShortIs
  DEF DirectoryFails, OpenFails, ReplaceShort, AppendShort, Content, Return, argvars
<1>2. failures' = failures + 1 /\ UNCHANGED <<key, answer, mixed>>
  BY DEF DirectoryFails, OpenFails, ReplaceShort, AppendShort, Failure
<1>3. QED
  BY <1>1, <1>2, LoseNothing

(* A file that is not written back whole has lost its last pairs.           *)
LEMMA RestoreShortMaps ==
  ASSUME IInv, ~mixed, RestoreShort
  PROVE  MapStep
<1>1. PICK n \in 0..(Len(saved) - 1) : AtBlockEnd(n) /\ file' = SubSeq(saved, 1, n)
  BY DEF RestoreShort
<1>2. /\ saved \in Seq(Record) /\ Whole(saved)
      /\ n \in 0..Len(saved) /\ n % 2 = 0
  <2>1. saved \in Seq(Record) /\ Whole(saved) /\ Len(saved) \in Nat
    BY LenProperties DEF IInv, TypeOK, Apart, Sound
  <2>2. QED
    BY <1>1, <2>1, BlocksAreEven
<1>3. Content = saved /\ Content' = SubSeq(saved, 1, n)
  BY <1>1 DEF RestoreShort, Content, Return
<1>4. \A k \in Keys, i \in Indices : Kept(k, i)' = KeptIn(Content', k, i)
  BY DEF Kept, KeptIn, Places
<1>5. \A k \in Keys, i \in Indices : Kept(k, i)' \in {Kept(k, i), NotFound}
  BY <1>2, <1>3, <1>4, KeptIs, KeptInPrefix
<1>6. failures' = failures + 1 /\ UNCHANGED <<key, answer, mixed>>
  BY DEF RestoreShort, Failure
<1>7. QED
  BY <1>5, <1>6, Lose

(* The content behind the first match is the one of key and index.          *)
LEMMA ReplaceMaps ==
  ASSUME IInv, ~mixed, Replace
  PROVE  MapStep
<1> DEFINE n == Offset
           r == EncryptionAES(text)
<1>1. /\ index \in Indices /\ text \in Values /\ key \in Keys
      /\ n \in Matches(file, index) /\ \A m \in Matches(file, index) : n <= m
      /\ n \in 1..Len(file) /\ n % 2 = 1 /\ n + 1 <= Len(file)
      /\ file[n].key = key /\ file[n].text = index
      /\ r \in Record /\ r.text = text
      /\ file' = Replaced(file, n, r)
  BY ReplaceIs
<1> HIDE DEF n, r
<1>2. file \in Seq(Record) /\ Whole(file) /\ Len(file) \in Nat
  BY LenProperties DEF IInv, TypeOK, Apart, Sound
<1>3. n \in Places(file, key, index)
  <2>1. file[n] = [key |-> key, text |-> index]
    BY <1>1, <1>2, ElementOfSeq, RecordIs
  <2>2. n \in 1..(Len(file) - 1)
    BY <1>1, <1>2
  <2>3. QED
    BY <1>1, <2>1, <2>2 DEF Places
<1>4. \A m \in Places(file, key, index) : n <= m
  <2>1. ASSUME NEW m \in Places(file, key, index) PROVE m \in Matches(file, index)
    <3>1. m \in 1..Len(file) /\ file[m].key = key /\ file[m].text = index
      BY <1>2, PlaceOdd
    <3>2. QED
      BY <1>1, <3>1, NoKeyAssumption DEF Matches, DecryptionAES
  <2>2. QED
    BY <1>1, <2>1
<1>5. Content = file /\ Content' = Replaced(file, n, r)
  BY <1>1 DEF Replace, Content, Return
<1>6. \A k \in Keys, i \in Indices : Kept(k, i)' = KeptIn(Content', k, i)
  BY DEF Kept, KeptIn, Places
<1>7. \A k \in Keys, i \in Indices :
        Kept(k, i)' = IF k = key /\ i = index THEN text ELSE Kept(k, i)
  BY <1>1, <1>2, <1>3, <1>4, <1>5, <1>6, KeptIs, KeptInReplaced
<1>8. UNCHANGED <<key, failures, answer, mixed>>
  BY DEF Replace
<1>9. QED
  BY <1>1, <1>7, <1>8, Keep

(* Two records that are appended are the first of key and index; without a  *)
(* key they are no one's.                                                   *)
LEMMA AppendBothMaps ==
  ASSUME IInv, ~mixed, AppendBoth
  PROVE  MapStep
<1> DEFINE a == EncryptionAES(index)
           b == EncryptionAES(text)
<1>1. /\ file = saved /\ index \in Indices /\ text \in Values /\ file' = file \o <<a, b>>
      /\ a \in Record /\ a.key = key /\ a.text = IF key = NoKey THEN Garbage ELSE index
      /\ b \in Record /\ b.text = IF key = NoKey THEN Garbage ELSE text
  BY AddedIs DEF AppendBoth
<1> HIDE DEF a, b
<1>2. /\ file \in Seq(Record) /\ Whole(file) /\ key \in Keys \cup {NoKey}
      /\ Matches(file, index) = {}
  BY <1>1 DEF IInv, TypeOK, Apart, Sound, AppendBoth
<1>3. \A k \in Keys, i \in Indices :
        a = [key |-> k, text |-> i] <=> k = key /\ i = index
  BY <1>1, RecordIs, NoKeyAssumption
<1>4. key \in Keys => Places(file, key, index) = {}
  <2>1. SUFFICES ASSUME key \in Keys, NEW m \in Places(file, key, index) PROVE FALSE
    OBVIOUS
  <2>2. m \in 1..Len(file) /\ file[m].key = key /\ file[m].text = index
    BY <1>2, <2>1, PlaceOdd
  <2>3. m \in Matches(file, index)
    BY <2>1, <2>2, NoKeyAssumption DEF Matches, DecryptionAES
  <2>4. QED
    BY <1>2, <2>3
<1>5. Content = file /\ Content' = file \o <<a, b>>
  BY <1>1 DEF AppendBoth, Content, Return
<1>6. \A k \in Keys, i \in Indices : Kept(k, i)' = KeptIn(Content', k, i)
  BY DEF Kept, KeptIn, Places
<1>7. ASSUME NEW k \in Keys, NEW i \in Indices
      PROVE  Kept(k, i)' = IF k = key /\ i = index THEN b.text ELSE Kept(k, i)
  <2>1. a = [key |-> k, text |-> i] => Places(file, k, i) = {}
    BY <1>3, <1>4
  <2>2. KeptIn(file \o <<a, b>>, k, i) =
          IF a = [key |-> k, text |-> i] THEN b.text ELSE KeptIn(file, k, i)
    BY <1>1, <1>2, <2>1, KeptInTwoMore
  <2>3. QED
    BY <1>3, <1>5, <1>6, <2>2, KeptIs
<1>8. UNCHANGED <<key, failures, answer, mixed>>
  BY DEF AppendBoth
<1>9. CASE key \in Keys
  <2>1. b.text = text
    BY <1>1, <1>9, NoKeyAssumption
  <2>2. QED
    BY <1>1, <1>7, <1>8, <1>9, <2>1, Keep
<1>10. CASE key = NoKey
  <2>1. \A k \in Keys, i \in Indices : Kept(k, i)' = Kept(k, i)
    BY <1>7, <1>10, NoKeyAssumption
  <2>2. QED
    BY <1>8, <2>1 DEF MapStep, Abstract!vars
<1>11. QED
  BY <1>2, <1>9, <1>10

(* A killed process has lost all contents or none.                          *)
LEMMA CrashMaps ==
  ASSUME IInv, Crash
  PROVE  MapStep
<1>1. Content' = Content \/ Content' = <<>>
  BY DEF IInv, Writing, Crash, Content, argvars
<1>2. \A k \in Keys, i \in Indices : Kept(k, i)' \in {Kept(k, i), NotFound}
  <2>1. CASE Content' = Content
    BY <2>1 DEF Kept
  <2>2. CASE Content' = <<>>
    <3>1. Len(<<>>) = 0
      OBVIOUS
    <3>2. QED
      BY <2>2, <3>1 DEF Kept
  <2>3. QED
    BY <1>1, <2>1, <2>2
<1>3. failures' = failures + 1 /\ key' \in {key, NoKey} /\ UNCHANGED <<answer, mixed>>
  BY DEF Crash, Failure
<1>4. QED
  BY <1>2, <1>3, Lose

LEMMA NextMaps ==
  ASSUME IInv, [Next]_vars
  PROVE  MapStep
<1>1. CASE UNCHANGED vars
  <2>1. Content' = Content /\ UNCHANGED <<key, failures, answer, mixed>>
    BY <1>1 DEF vars, argvars, Content
  <2>2. QED
    BY <2>1, Stutter
<1>2. CASE Next /\ ~mixed
  BY <1>2, LoadMaps, ReadMaps, WriteBeginMaps, SilentMaps, FailsMaps, RestoreShortMaps,
     ReplaceMaps, AppendBothMaps, CrashMaps DEF Next
<1>3. CASE Next /\ mixed
  <2>1. mixed'
    BY <1>3, Zenon DEF Next, LoadKey, Read, WriteBegin, DirectoryFails, OpenFails, Truncate,
       Restore, RestoreShort, Replace, ReplaceShort, AppendBoth, AppendShort, Crash
  <2>2. Abstract!Mixed
    BY <1>3, <2>1 DEF Abstract!Mixed
  <2>3. QED
    BY <2>2 DEF MapStep, Abstract!Next
<1>4. QED
  BY <1>1, <1>2, <1>3

(* The file implements RecordStore: whatever fails, and however often, a    *)
(* content is found under the key and the index it was last written with,   *)
(* or has been lost to a failure, until a write is for a text that is held  *)
(* as a content.                                                            *)
THEOREM IsStoreCorrect == Spec => IsStore
<1>1. IInv /\ [Next]_vars => [Abstract!Next]_(Abstract!vars)
  BY NextMaps DEF MapStep
<1>2. QED
  BY InitMaps, Invariant, <1>1, PTL DEF Spec, IsStore, Abstract!Spec
=============================================================================
