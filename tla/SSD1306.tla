------------------------------- MODULE SSD1306 -------------------------------
(***************************************************************************)
(* External: the display controller that src/LibNPDOLED/NPDOLED.cpp        *)
(* drives, as far as that code relies on it - a receiver of bytes on a     *)
(* two-wire bus, and a screen memory with page addressing.  A write is a   *)
(* pair <<byte, OLED_DATA or OLED_CMD>>.                                   *)
(***************************************************************************)
EXTENDS Integers, Sequences, SequencesExt

CONSTANTS
  COLUMNS,    \* 128 in the code
  PAGES       \* rows of 8 pixels: 8 in the code

ASSUME ScreenAssumption == COLUMNS \in 1..128 /\ PAGES \in 1..8

OLED_CMD == 0
OLED_DATA == 1

Byte == 0..255
Writes == Byte \X {OLED_CMD, OLED_DATA}
Cells == (0..PAGES - 1) \X (0..COLUMNS - 1)

(* pending: the next command byte is the argument of the last one. *)
Panels == [page : 0..7, col : 0..127, ram : [Cells -> Byte],
           on : BOOLEAN, pending : BOOLEAN]

(* Commands of two bytes, of those the code sends. *)
TakesArgument == {129, 141, 168, 211, 213, 216, 217, 218, 219}

Command(p, byte) ==
  CASE p.pending -> [p EXCEPT !.pending = FALSE]
    [] ~p.pending /\ byte \in TakesArgument -> [p EXCEPT !.pending = TRUE]
    [] ~p.pending /\ byte \in 0..15 -> [p EXCEPT !.col = (@ \div 16) * 16 + byte]
    [] ~p.pending /\ byte \in 16..23 -> [p EXCEPT !.col = (byte - 16) * 16 + (@ % 16)]
    [] ~p.pending /\ byte \in 176..183 -> [p EXCEPT !.page = byte - 176]
    [] ~p.pending /\ byte \in {174, 175} -> [p EXCEPT !.on = (byte = 175)]
    [] OTHER -> p

(* A byte of data goes to the cursor, which moves on within its page. *)
Data(p, byte) ==
  [p EXCEPT !.ram = [c \in Cells |-> IF c = <<p.page, p.col>> THEN byte ELSE @[c]],
            !.col = (@ + 1) % COLUMNS]

Apply(p, write) ==
  IF write[2] = OLED_CMD THEN Command(p, write[1]) ELSE Data(p, write[1])

-----------------------------------------------------------------------------
(* The receiver.  bits: how many bits of a byte have come, and value what   *)
(* they amount to; heard: the address and the control byte of this transfer. *)
Receivers == [active : BOOLEAN, bits : 0..8, value : Byte, heard : Seq(Byte)]

Silent == [active |-> FALSE, bits |-> 0, value |-> 0, heard |-> <<>>]
Addressed == [active |-> TRUE, bits |-> 0, value |-> 0, heard |-> <<>>]

(* The clock rises: a bit, or after eight of them the acknowledgement, with *)
(* which the byte counts as received.                                       *)
Clocked(r, sda) ==
  IF ~r.active THEN r
  ELSE IF r.bits < 8 THEN [r EXCEPT !.bits = @ + 1, !.value = 2 * @ + sda]
  ELSE [active |-> r.heard # <<>> \/ r.value = 120, bits |-> 0, value |-> 0,
        heard |-> IF Len(r.heard) < 2 THEN Append(r.heard, r.value) ELSE r.heard]

(* The acknowledgement of a byte behind the control byte is a write. *)
Awaits(r) == r.active /\ r.bits = 8 /\ Len(r.heard) = 2
Written(r) == <<r.value, IF r.heard[2] = 64 THEN OLED_DATA ELSE OLED_CMD>>
=============================================================================
