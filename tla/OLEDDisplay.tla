----------------------------- MODULE OLEDDisplay -----------------------------
(***************************************************************************)
(* What the drawing functions of NPDOLED rely on: the writes of a call     *)
(* reach the screen, each once, in order and unchanged.  A process that is *)
(* killed leaves the rest of them undone; the write it was sending may     *)
(* still arrive.  When a second one is killed before it has put the bus at *)
(* rest, a write may arrive of which only the first bits were sent.        *)
(***************************************************************************)
EXTENDS SSD1306

CONSTANT Programs   \* the sequences of writes that calls may consist of

VARIABLES
  queue,    \* writes still to be done
  panel,
  rest      \* has the bus been at rest since the last kill?

vars == <<queue, panel, rest>>

(* The first bits of a write and zeros for the others; or, if nothing was   *)
(* sent of the byte itself, zeros alone or behind the bit that the stop     *)
(* condition clocks in.                                                     *)
Torn ==
  {<<(w[1] \div 2^n) * 2^n, w[2]>> : w \in UNION {Range(p) : p \in Programs}, n \in 0..7}
    \cup ({0, 128} \X {OLED_CMD, OLED_DATA})

Init == queue = <<>> /\ panel \in Panels /\ rest = TRUE

Begin ==
  /\ Len(queue) <= 1
  /\ \E program \in Programs : queue' = queue \o program
  /\ UNCHANGED <<panel, rest>>

Write ==
  /\ queue # <<>>
  /\ panel' = Apply(panel, Head(queue))
  /\ queue' = Tail(queue)
  /\ UNCHANGED rest

Settle == rest' = TRUE /\ UNCHANGED <<queue, panel>>

Kill ==
  /\ \/ \E n \in {0, 1} : n <= Len(queue) /\ queue' = SubSeq(queue, 1, n)
     \/ ~rest /\ \E w \in Torn : queue' = <<w>>
  /\ rest' \in BOOLEAN
  /\ UNCHANGED panel

Next == Begin \/ Write \/ Settle \/ Kill

Spec == Init /\ [][Next]_vars
=============================================================================
