------------------------------- MODULE MCOLED --------------------------------
(* A display of 24 columns and 3 pages, with a call of each kind.           *)
EXTENDS OLED

(* Characters by their place in the font; that of the space is empty. *)
Columns16(seed) == [i \in 1..16 |-> 1 + ((seed + 7 * i) % 255)]
F8X16 == [c \in 0..94 |-> IF c = 0 THEN [i \in 1..16 |-> 0] ELSE Columns16(c)]
F6x8 == [c \in 0..91 |-> SubSeq(F8X16[c], 3, 8)]
Hzk == [r \in 0..3 |-> Columns16(40 * r)]

(* Over the edge, and its page makes the command 141, which takes the next  *)
(* one for its argument.                                                    *)
Stray == [fn |-> "Char", x |-> 20, y |-> 221, ch |-> 33, csize |-> 16]

Drawings == {
  Stray,
  [fn |-> "Init"], [fn |-> "off"], [fn |-> "on"], [fn |-> "Clear"],
  [fn |-> "Fill", byte |-> 165],
  [fn |-> "Char", x |-> 15, y |-> 1, ch |-> 33, csize |-> 16],
  [fn |-> "String", x |-> 8, y |-> 0, str |-> <<33, 16, 20>>, csize |-> 12],
  [fn |-> "Num", x |-> 1, y |-> 2, num |-> 40, len |-> 3, csize |-> 12],
  [fn |-> "Chinese", x |-> 5, y |-> 0, ch |-> 1],
  [fn |-> "BMP", x |-> 7, y |-> 1, x1 |-> 10, y1 |-> 3, bmp |-> <<1, 2, 3, 4, 5, 6>>]}

Killed == {c \in Drawings : c.fn \in {"Init", "on", "BMP"}}

Dirty == {[cell \in Cells |-> IF cell[2] = COLUMNS - 1 THEN 255 ELSE 0]}

(* The other pictures fit, so that Drawn says something of each call. *)
ASSUME DrawingsFit == \A c \in Calls : Fits(c) <=> c # Stray
=============================================================================
