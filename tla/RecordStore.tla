----------------------------- MODULE RecordStore -----------------------------
(***************************************************************************)
(* What a store of named, encrypted contents promises (AES.h:98-117): a    *)
(* content is found under the key and the index it was written with.  A    *)
(* failure may lose contents; it never changes, revives or swaps one.      *)
(* Indices are told from contents by nothing: for a text that the store    *)
(* holds as a content under the key in use, a read may answer anything,    *)
(* and a write may end every promise.                                      *)
(***************************************************************************)
EXTENDS Naturals

CONSTANTS Keys, Indices, Values, NoKey, NotFound

VARIABLES
  map,        \* the content under each key and index
  loaded,     \* the key in use, or NoKey
  failures,   \* crashes, and files that could not be opened or written
  answer,     \* what the last read returned
  mixed       \* a write was for a text that was held as a content

vars == <<map, loaded, failures, answer, mixed>>

Init ==
  /\ map = [k \in Keys |-> [i \in Indices |-> NotFound]]
  /\ loaded = NoKey
  /\ failures = 0
  /\ answer = NotFound
  /\ mixed = FALSE

(* The store holds the text i as a content under the key in use. *)
Held(i) == loaded \in Keys /\ \E j \in Indices : map[loaded][j] = i

Load(k) ==
  /\ loaded' = k
  /\ UNCHANGED <<map, failures, answer, mixed>>

(* Nothing is kept, and nothing is found, without a key. *)
Put(i, v) ==
  /\ loaded \in Keys
  /\ map' = [map EXCEPT ![loaded][i] = v]
  /\ UNCHANGED <<loaded, failures, answer, mixed>>

Get(i) ==
  /\ ~Held(i) => answer' = IF loaded \in Keys THEN map[loaded][i] ELSE NotFound
  /\ UNCHANGED <<map, loaded, failures, mixed>>

(* A failure loses the contents of some places. *)
Fail(lost) ==
  /\ failures' = failures + 1
  /\ map' = [k \in Keys |-> [i \in Indices |->
               IF <<k, i>> \in lost THEN NotFound ELSE map[k][i]]]
  /\ loaded' \in {loaded, NoKey}
  /\ UNCHANGED <<answer, mixed>>

Mix(i) ==
  /\ Held(i)
  /\ mixed' = TRUE
  /\ UNCHANGED <<map, loaded, failures, answer>>

(* Once a content has been taken for an index, nothing is promised. *)
Mixed == mixed /\ mixed'

Next ==
  \/ \E k \in Keys \cup {NoKey} : Load(k)
  \/ \E i \in Indices, v \in Values : Put(i, v)
  \/ \E i \in Indices : Get(i) \/ Mix(i)
  \/ Mixed
  \/ \E lost \in SUBSET (Keys \X Indices) : Fail(lost)

Spec == Init /\ [][Next]_vars
=============================================================================
