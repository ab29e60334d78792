------------------------------- MODULE AESStore -------------------------------
(***************************************************************************)
(* The file of encrypted records that AES::WriteToFile() and               *)
(* AES::ReadFromFile() keep (LibNPDBase/NPDAES/AES/AES.cpp): records of 64 *)
(* bytes, an index and then its content, each encrypted with the key in    *)
(* use.  An index is searched by decrypting every record.  A write reads   *)
(* the whole file, truncates it, writes it back, and then replaces the     *)
(* content or appends both records.                                        *)
(*                                                                         *)
(* A key stands for key, initial value and mode; a record for its text, as *)
(* what does not fit 64 bytes is not modelled.  The process may be killed  *)
(* between two writes of the file, and the disk may be full: a short write *)
(* ends where a disk block ends, at a multiple of BlockRecords records.    *)
(***************************************************************************)
EXTENDS Integers, Sequences, FiniteSets

CONSTANTS
  Keys, NoKey,
  Indices, Values,    \* texts
  Garbage,            \* the text of a record under another key or without one
  NotFound,           \* the answer "" of a read
  BlockRecords,       \* records in a disk block
  MaxWrites,          \* bound: calls of WriteToFile()
  MaxFailures         \* bound: failures of the system

ASSUME NoKeyAssumption == NoKey \notin Keys
ASSUME TextsAssumption == Garbage \notin Indices \cup Values
ASSUME NotFoundAssumption == NotFound \notin Indices \cup Values \cup {Garbage}
ASSUME BlockAssumption == BlockRecords \in Nat \ {0} /\ BlockRecords % 2 = 0
ASSUME BoundsAssumption == MaxWrites \in Nat /\ MaxFailures \in Nat

VARIABLES
  key,        \* g_key, g_iv
  dir, file,  \* the directory pwstore and the records in the file
  pc,         \* place in WriteToFile()
  index, text, saved,     \* locals: Index, strSrc, InputStream
  result,     \* what the last call of WriteToFile() returned
  answer,     \* what the last call of ReadFromFile() returned
  writes, failures,
  mixed       \* history: a write has taken a content for its index

argvars == <<index, text, saved>>
vars == <<key, dir, file, pc, argvars, result, answer, writes, failures, mixed>>

Texts == Indices \cup Values \cup {Garbage}
Record == [key : Keys \cup {NoKey}, text : Texts]

TypeOK ==
  /\ key \in Keys \cup {NoKey}
  /\ dir \in BOOLEAN
  /\ file \in Seq(Record) /\ saved \in Seq(Record)
  /\ pc \in {"idle", "open", "restore", "add"}
  /\ index \in Indices \cup {NotFound} /\ text \in Values \cup {NotFound}
  /\ result \in {"none", "true", "false"}
  /\ answer \in Texts \cup {NotFound}
  /\ writes \in 0..MaxWrites /\ failures \in 0..MaxFailures
  /\ mixed \in BOOLEAN

(* A file that is not there reads like an empty one. *)
Init ==
  /\ key = NoKey
  /\ dir = FALSE
  /\ file = <<>> /\ saved = <<>>
  /\ pc = "idle"
  /\ index = NotFound /\ text = NotFound
  /\ result = "none" /\ answer = NotFound
  /\ writes = 0 /\ failures = 0
  /\ mixed = FALSE

-----------------------------------------------------------------------------
(* Without a key both functions answer "NULL". *)
MutEncryptionAES(t) ==        \* without a key, the empty text
  [key |-> key, text |-> IF key = NoKey THEN NotFound ELSE t]

EncryptionAES(t) == [key |-> key, text |-> IF key = NoKey THEN Garbage ELSE t]
DecryptionAES(r) == IF key # NoKey /\ r.key = key THEN r.text ELSE Garbage

(* The records equal to an index, and the first of them. *)
Matches(records, i) == {n \in 1..Len(records) : DecryptionAES(records[n]) = i}
First(places) == CHOOSE n \in places : \A m \in places : n <= m

(* Contents, at the even places, are searched with the rest: the search     *)
(* stops at one that is equal to the index.                                 *)
Astray(records, i) ==
  Matches(records, i) # {} /\ First(Matches(records, i)) % 2 = 0

(* ReadFromFile(): the record after the first match; the match itself if    *)
(* that is the last record.                                                 *)
Found(i) ==
  LET n == First(Matches(file, i))
  IN  DecryptionAES(file[IF n < Len(file) THEN n + 1 ELSE n])

Read(i) ==
  /\ pc = "idle"
  /\ answer' = IF Matches(file, i) = {} THEN NotFound ELSE Found(i)
  /\ result' = "none"
  /\ UNCHANGED <<key, dir, file, pc, argvars, writes, failures, mixed>>

(* Load(): key and initial value, or two empty strings. *)
LoadKey(k) ==
  /\ pc = "idle"
  /\ key' = k
  /\ result' = "none"
  /\ UNCHANGED <<dir, file, pc, argvars, answer, writes, failures, mixed>>

-----------------------------------------------------------------------------
(* WriteToFile() *)

Failure ==
  /\ failures < MaxFailures
  /\ failures' = failures + 1

(* The directory is made, the records are searched and the file is read.    *)
WriteBegin(i, v) ==
  /\ pc = "idle" /\ writes < MaxWrites
  /\ writes' = writes + 1
  /\ dir' = TRUE
  /\ index' = i /\ text' = v /\ saved' = file
  /\ mixed' = (mixed \/ Astray(file, i))
  /\ pc' = "open"
  /\ result' = "none"
  /\ UNCHANGED <<key, file, answer, failures>>

DirectoryFails ==
  /\ pc = "idle" /\ writes < MaxWrites
  /\ ~dir
  /\ writes' = writes + 1
  /\ result' = "false"
  /\ Failure
  /\ UNCHANGED <<key, dir, file, pc, argvars, answer, mixed>>

Return(v) == pc' = "idle" /\ result' = v

(* The output does not open: nothing is written, and true is returned. *)
OpenFails ==
  /\ pc = "open"
  /\ Return("true")
  /\ Failure
  /\ UNCHANGED <<key, dir, file, argvars, answer, writes, mixed>>

Truncate ==
  /\ pc = "open"
  /\ file' = <<>>
  /\ pc' = "restore"
  /\ UNCHANGED <<key, dir, argvars, result, answer, writes, failures, mixed>>

(* The seekp() flushes what the file held before. *)
Restore ==
  /\ pc = "restore"
  /\ file' = saved
  /\ pc' = "add"
  /\ UNCHANGED <<key, dir, argvars, result, answer, writes, failures, mixed>>

(* n records fill whole disk blocks. *)
AtBlockEnd(n) == \E blocks \in 0..n : n = blocks * BlockRecords

(* The disk is full: the stream has failed and ignores the rest. *)
RestoreShort ==
  /\ pc = "restore"
  /\ \E n \in 0..(Len(saved) - 1) :
       AtBlockEnd(n) /\ file' = SubSeq(saved, 1, n)
  /\ Return("true")
  /\ Failure
  /\ UNCHANGED <<key, dir, argvars, answer, writes, mixed>>

(* The offset of the record to replace, counted in records: the one after   *)
(* the match, which is behind the last record if a content there matched.   *)
MutOffset == First(Matches(saved, index)) - 1     \* not advanced on a match
Offset == First(Matches(saved, index))

Replace ==
  /\ pc = "add" /\ Matches(saved, index) # {}
  /\ file' = SubSeq(file, 1, Offset) \o <<EncryptionAES(text)>>
             \o SubSeq(file, Offset + 2, Len(file))
  /\ Return("true")
  /\ UNCHANGED <<key, dir, argvars, answer, writes, failures, mixed>>

MutAdded == <<EncryptionAES(text)>>                 \* without its index
Added == <<EncryptionAES(index), EncryptionAES(text)>>

AppendBoth ==
  /\ pc = "add" /\ Matches(saved, index) = {}
  /\ file' = file \o Added
  /\ Return("true")
  /\ UNCHANGED <<key, dir, argvars, answer, writes, failures, mixed>>

(* The disk is full when the last records are flushed. *)
ReplaceShort ==
  /\ pc = "add" /\ Matches(saved, index) # {}
  /\ Offset = Len(file) /\ AtBlockEnd(Len(file))
  /\ Return("true")
  /\ Failure
  /\ UNCHANGED <<key, dir, file, argvars, answer, writes, mixed>>

AppendShort ==
  /\ pc = "add" /\ Matches(saved, index) = {}
  /\ \E n \in 0..1 :
       AtBlockEnd(Len(file) + n) /\ file' = file \o SubSeq(Added, 1, n)
  /\ Return("true")
  /\ Failure
  /\ UNCHANGED <<key, dir, argvars, answer, writes, mixed>>

(* The process is killed in the middle of a write; its successor has no key *)
(* yet.                                                                     *)
Crash ==
  /\ pc # "idle"
  /\ pc' = "idle"
  /\ key' = NoKey
  /\ result' = "none"
  /\ Failure
  /\ UNCHANGED <<dir, file, argvars, answer, writes, mixed>>

Next ==
  \/ \E k \in Keys \cup {NoKey} : LoadKey(k)
  \/ \E i \in Indices : Read(i)
  \/ \E i \in Indices, v \in Values : WriteBegin(i, v)
  \/ DirectoryFails \/ OpenFails \/ Truncate
  \/ Restore \/ RestoreShort
  \/ Replace \/ ReplaceShort \/ AppendBoth \/ AppendShort
  \/ Crash

Spec == Init /\ [][Next]_vars

-----------------------------------------------------------------------------
(* The refinement: between truncation and restoring, the contents are those *)
(* in memory.                                                               *)
Content == IF pc = "restore" THEN saved ELSE file

Kept(k, i) ==
  LET places == {n \in 1..(Len(Content) - 1) :
                   n % 2 = 1 /\ Content[n] = [key |-> k, text |-> i]}
  IN  IF places = {} THEN NotFound ELSE Content[First(places) + 1].text

Abstract == INSTANCE RecordStore
  WITH map <- [k \in Keys |-> [i \in Indices |-> Kept(k, i)]], loaded <- key

(* A content is found under the key and index it was written with, as it    *)
(* was last written, unless a content is itself the text that is searched.  *)
(* Full disks and crashes lose contents, but never mix one up with another  *)
(* or bring an older one back; only a write for such a text does that.      *)
IsStore == Abstract!Spec

(* Indices have the odd places and contents the even ones, unless they were *)
(* encrypted without a key; an index and its content have one key.          *)
Alternate(records) ==
  \A n \in 1..Len(records) :
    /\ n % 2 = 1 => /\ records[n].text \in Indices \cup {Garbage}
                    /\ n + 1 <= Len(records)
                    /\ records[n + 1].key = records[n].key
    /\ n % 2 = 0 => records[n].text \in Values \cup {Garbage}

Whole(records) == Len(records) % 2 = 0 /\ Alternate(records)

(* The records come in pairs, whatever fails: no short write leaves an      *)
(* index without its content, and no content is written over an index, over *)
(* another key's content or beside its place (AES.cpp:309-364), until a     *)
(* write has taken a content for its index (AES.cpp:320).                   *)
Paired == ~mixed => Whole(file)
=============================================================================
