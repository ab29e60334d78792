-------------------------------- MODULE OLED ---------------------------------
(***************************************************************************)
(* NPDOLED (src/LibNPDOLED/NPDOLED.cpp): the drawing functions as the      *)
(* sequences of writes they make, and every write as the changes of the    *)
(* clock and data lines that OLED_WR_Byte() makes, down to the display     *)
(* controller (SSD1306).  The process may be killed between any two of     *)
(* them.  128 columns are COLUMNS, 8 pages PAGES, 2^32 is WORD.            *)
(*                                                                         *)
(* In the class the lines are ints that are not volatile (NPDOLED.h:14-30) *)
(* and that nothing outputs.  Assumed, as on the board the driver was      *)
(* written for: every store is a change of a line, in the order of the     *)
(* code, and a line whose process has been killed is low.                  *)
(***************************************************************************)
EXTENDS SSD1306

CONSTANTS
  Calls,               \* the drawing calls, as records
  OLED_F8X16, OLED_F6x8, OLED_Hzk,  \* the fonts
  WORD,                \* the values of a uint32_t
  Screens,             \* what the screen memory holds at power on
  Interrupted,         \* bound: the calls in which the process may be killed
  MaxCalls, MaxKills   \* bounds

ASSUME BoundsAssumption ==
  WORD \in Nat /\ MaxCalls \in Nat /\ MaxKills \in Nat /\ Interrupted \subseteq Calls

ASSUME ScreensAssumption == Screens \subseteq [Cells -> Byte]

ASSUME FontsAssumption ==
  /\ OLED_F8X16 \in [0..94 -> [1..16 -> Byte]]
  /\ OLED_F6x8 \in [0..91 -> [1..6 -> Byte]]
  /\ OLED_Hzk \in [DOMAIN OLED_Hzk -> [1..16 -> Byte]]

(* Arguments of their C++ types, characters that have a picture, numbers of *)
(* at most ten digits (beyond 31 OLED_Pow() is 0), pictures of their size,  *)
(* strings whose end a uint8_t reaches (NPDOLED.cpp:123, :133): behind 255  *)
(* characters OLED_ShowString() begins anew, and never returns.             *)
Characters(csize) == IF csize = 16 THEN 0..94 ELSE 0..91

WellCalled(c) ==
  \/ c.fn \in {"Init", "Clear", "on", "off"}
  \/ c.fn = "Fill" /\ c.byte \in Byte
  \/ /\ c.fn \in {"Char", "Num", "String", "Chinese", "BMP"}
     /\ c.x \in Byte /\ c.y \in Byte
     /\ c.fn \in {"Char", "Num", "String"} => c.csize \in Byte
     /\ c.fn = "Char" => c.ch \in Characters(c.csize)
     /\ c.fn = "Num" => c.num \in Nat /\ c.len \in 1..10 /\ 10^(c.len - 1) < WORD
     /\ c.fn = "String" => c.str \in Seq(Characters(c.csize)) /\ Len(c.str) <= 255
     /\ c.fn = "Chinese" => c.ch \in Nat /\ {2 * c.ch, 2 * c.ch + 1} \subseteq DOMAIN OLED_Hzk
     /\ c.fn = "BMP" => /\ c.x1 \in Byte /\ c.y1 \in Byte /\ c.x < c.x1 /\ c.y < c.y1
                        /\ c.bmp \in Seq(Byte) /\ Len(c.bmp) = (c.x1 - c.x) * (c.y1 - c.y)

ASSUME CallsAssumption == \A c \in Calls : WellCalled(c)

VARIABLES
  OLED_SCL, OLED_SDIN,  \* the lines
  receiver, panel,      \* the controller
  call,                 \* the drawing call, or the last one
  sent,                 \* writes of it that have been made
  step,                 \* changes of the lines made for the next one
  before,               \* history: the screen memory when the call began
  calls, kills          \* history: how many of each

lines == <<OLED_SCL, OLED_SDIN>>
vars == <<lines, receiver, panel, call, sent, step, before, calls, kills>>

Uint8(n) == n % 256
CMD(b) == <<Uint8(b), OLED_CMD>>
DATA(b) == <<Uint8(b), OLED_DATA>>

-----------------------------------------------------------------------------
(* The drawing functions, as sequences of OLED_WR_Byte().                   *)
OLED_Set_Pos(x, y) ==
  <<CMD(176 + y), CMD(16 + ((x \div 16) % 16)), CMD(x % 16)>>

Fill_picture(fill_Data) ==
  FlattenSeq([i \in 1..PAGES |->
    <<CMD(175 + i), CMD(0), CMD(16)>> \o [n \in 1..COLUMNS |-> DATA(fill_Data)]])

OLED_Clear == Fill_picture(0)

MutSettings ==
  <<174, 0, 16, 64, 176, 129, 255, 161, 166, 168, 63, 200, 211, 0,
    213, 128, 216, 5, 217, 241, 218, 18, 219, 48, 141, 175>>

Settings ==
  <<174, 0, 16, 64, 176, 129, 255, 161, 166, 168, 63, 200, 211, 0,
    213, 128, 216, 5, 217, 241, 218, 18, 219, 48, 141, 20, 175>>

OLED_Init == [i \in DOMAIN Settings |-> CMD(Settings[i])] \o OLED_Clear

OLED_display_on == <<CMD(141), CMD(20), CMD(175)>>
OLED_display_off == <<CMD(141), CMD(16), CMD(174)>>

Glyph(table, from, n) == [i \in 1..n |-> DATA(table[from + i])]

(* c: the character's place in the font. *)
OLED_ShowChar(x0, y0, c, csize) ==
  LET x == IF x0 > COLUMNS - 1 THEN 0 ELSE x0
      y == IF x0 > COLUMNS - 1 THEN Uint8(y0 + 2) ELSE y0 IN
  IF csize = 16
  THEN OLED_Set_Pos(x, y) \o Glyph(OLED_F8X16[c], 0, 8)
         \o OLED_Set_Pos(x, y + 1) \o Glyph(OLED_F8X16[c], 8, 8)
  ELSE OLED_Set_Pos(x, y) \o Glyph(OLED_F6x8[c], 0, 6)

OLED_Pow(m, n) ==
  LET result[k \in 0..n] == IF k = 0 THEN 1 ELSE (result[k - 1] * m) % WORD
  IN  result[n]

SPACE == 0    \* ' ' - ' '
ZERO == 16    \* '0' - ' '

(* enshow: has a digit other than 0 been shown? *)
OLED_ShowNum(x, y, num, len, csize) ==
  LET digit(t) == (num \div OLED_Pow(10, len - t - 1)) % 10
      enshow(t) == \E u \in 0..t : digit(u) # 0
      shown(t) == IF t < len - 1 /\ ~enshow(t) THEN SPACE ELSE ZERO + digit(t) IN
  FlattenSeq([i \in 1..len |->
    OLED_ShowChar(Uint8(x + (csize \div 2) * (i - 1)), y, shown(i - 1), csize)])

MutShowString(x0, y0, str, csize) ==
  LET place[i \in 1..Len(str) + 1] ==
        IF i = 1 THEN <<x0, y0>>
        ELSE LET x == Uint8(place[i - 1][1] + 8) IN
             IF x >= COLUMNS - 8 THEN <<0, Uint8(place[i - 1][2] + 2)>>
                                 ELSE <<x, place[i - 1][2]>> IN
  FlattenSeq([i \in 1..Len(str) |-> OLED_ShowChar(place[i][1], place[i][2], str[i], csize)])

OLED_ShowString(x0, y0, str, csize) ==
  LET place[i \in 1..Len(str) + 1] ==
        IF i = 1 THEN <<x0, y0>>
        ELSE LET x == Uint8(place[i - 1][1] + 8) IN
             IF x > COLUMNS - 8 THEN <<0, Uint8(place[i - 1][2] + 2)>>
                                ELSE <<x, place[i - 1][2]>> IN
  FlattenSeq([i \in 1..Len(str) |-> OLED_ShowChar(place[i][1], place[i][2], str[i], csize)])

(* ch: a character of two rows of the table. *)
OLED_ShowChinese(x, y, ch) ==
  OLED_Set_Pos(x, y) \o Glyph(OLED_Hzk[2 * ch], 0, 16)
    \o OLED_Set_Pos(x, y + 1) \o Glyph(OLED_Hzk[2 * ch + 1], 0, 16)

OLED_ShowBMP(x0, y0, x1, y1, BMP) ==
  FlattenSeq([i \in 1..y1 - y0 |->
    OLED_Set_Pos(x0, y0 + i - 1) \o Glyph(BMP, (i - 1) * (x1 - x0), x1 - x0)])

ProgramOf(c) ==
  CASE c.fn = "Init" -> OLED_Init
    [] c.fn = "Clear" -> OLED_Clear
    [] c.fn = "Fill" -> Fill_picture(c.byte)
    [] c.fn = "on" -> OLED_display_on
    [] c.fn = "off" -> OLED_display_off
    [] c.fn = "Char" -> OLED_ShowChar(c.x, c.y, c.ch, c.csize)
    [] c.fn = "Num" -> OLED_ShowNum(c.x, c.y, c.num, c.len, c.csize)
    [] c.fn = "String" -> OLED_ShowString(c.x, c.y, c.str, c.csize)
    [] c.fn = "Chinese" -> OLED_ShowChinese(c.x, c.y, c.ch)
    [] c.fn = "BMP" -> OLED_ShowBMP(c.x, c.y, c.x1, c.y1, c.bmp)

Program == [c \in Calls |-> ProgramOf(c)]

-----------------------------------------------------------------------------
(* OLED_WR_Byte() as changes of the two lines.                              *)
SCLK(level) == <<"SCLK", level>>
SDIN(level) == <<"SDIN", level>>

IIC_Start == <<SCLK(1), SDIN(1), SDIN(0), SCLK(0)>>
IIC_Stop == <<SCLK(1), SDIN(0), SDIN(1)>>
IIC_Wait_Ack == <<SCLK(1), SCLK(0)>>

(* The most significant bit first, and the data line settled before the     *)
(* clock rises.                                                             *)
Bit(byte, i) == (byte \div 2^(7 - i)) % 2

MutWrite_IIC_Byte(byte) ==
  <<SCLK(0)>> \o FlattenSeq([i \in 1..8 |-> <<SCLK(1), SDIN(Bit(byte, i - 1)), SCLK(0)>>])

Write_IIC_Byte(byte) ==
  <<SCLK(0)>> \o FlattenSeq([i \in 1..8 |-> <<SDIN(Bit(byte, i - 1)), SCLK(1), SCLK(0)>>])

Write_IIC(control, byte) ==
  IIC_Start \o Write_IIC_Byte(120) \o IIC_Wait_Ack
    \o Write_IIC_Byte(control) \o IIC_Wait_Ack
    \o Write_IIC_Byte(byte) \o IIC_Wait_Ack \o IIC_Stop

OLED_WR_Byte ==
  [dat \in Byte |-> [cmd \in {OLED_CMD, OLED_DATA} |->
     Write_IIC(IF cmd = OLED_DATA THEN 64 ELSE 0, dat)]]

-----------------------------------------------------------------------------
(* fn = "none": no call yet in this process. *)
NoCall == [fn |-> "none"]

Writing == call # NoCall /\ sent < Len(Program[call])

(* The changes of the lines for the next write. *)
Frame == LET write == Program[call][sent + 1] IN OLED_WR_Byte[write[1]][write[2]]

TypeOK ==
  /\ OLED_SCL \in {0, 1} /\ OLED_SDIN \in {0, 1}
  /\ receiver \in Receivers /\ Len(receiver.heard) <= 2
  /\ panel \in Panels
  /\ call \in Calls \cup {NoCall}
  /\ sent \in Nat /\ (call = NoCall => sent = 0)
  /\ call # NoCall => sent <= Len(Program[call])
  /\ step \in Nat /\ (step # 0 => Writing)
  /\ Writing => step < Len(Frame)
  /\ before \in [Cells -> Byte]
  /\ calls \in 0..MaxCalls /\ kills \in 0..MaxKills

(* The lines are globals of the program, and start as 0. *)
Init ==
  /\ OLED_SCL = 0 /\ OLED_SDIN = 0
  /\ receiver = Silent
  /\ \E ram \in Screens :
       panel = [page |-> 0, col |-> 0, ram |-> ram, on |-> FALSE, pending |-> FALSE]
  /\ call = NoCall /\ sent = 0 /\ step = 0
  /\ before = panel.ram
  /\ calls = 0 /\ kills = 0

MutDraw(c) ==
  /\ ~Writing /\ calls < MaxCalls
  /\ call = NoCall => c.fn = "Init"
  /\ call' = c /\ before' = panel.ram
  /\ calls' = calls + 1
  /\ UNCHANGED <<lines, receiver, panel, sent, step, kills>>

(* A call; the first one of a process is OLED_Init(). *)
Draw(c) ==
  /\ ~Writing /\ calls < MaxCalls
  /\ call = NoCall => c.fn = "Init"
  /\ call' = c /\ sent' = 0
  /\ before' = panel.ram
  /\ calls' = calls + 1
  /\ UNCHANGED <<lines, receiver, panel, step, kills>>

(* The next change of a line.  The controller takes a bit when the clock    *)
(* rises; the data line moving while the clock is high is a start or a      *)
(* stop.                                                                    *)
Pin ==
  LET pin == Frame[step + 1][1]
      level == Frame[step + 1][2] IN
  /\ Writing
  /\ IF step + 1 = Len(Frame) THEN sent' = sent + 1 /\ step' = 0
                              ELSE sent' = sent /\ step' = step + 1
  /\ \/ /\ pin = "SCLK" /\ OLED_SCL' = level /\ UNCHANGED OLED_SDIN
        /\ IF level > OLED_SCL
           THEN /\ receiver' = Clocked(receiver, OLED_SDIN)
                /\ panel' = IF Awaits(receiver) THEN Apply(panel, Written(receiver))
                                                ELSE panel
           ELSE UNCHANGED <<receiver, panel>>
     \/ /\ pin = "SDIN" /\ OLED_SDIN' = level /\ UNCHANGED <<OLED_SCL, panel>>
        /\ receiver' = IF OLED_SCL = 0 \/ level = OLED_SDIN THEN receiver
                       ELSE IF level = 1 THEN Silent ELSE Addressed
  /\ UNCHANGED <<call, before, calls, kills>>

(* The process is killed and started again: its lines are 0 again, and when *)
(* both were 1 the data line may have fallen first, which is a start.       *)
Kill ==
  /\ Writing /\ call \in Interrupted /\ kills < MaxKills
  /\ OLED_SCL' = 0 /\ OLED_SDIN' = 0
  /\ receiver' \in {receiver} \cup (IF lines = <<1, 1>> THEN {Addressed} ELSE {})
  /\ call' = NoCall /\ sent' = 0 /\ step' = 0
  /\ kills' = kills + 1
  /\ UNCHANGED <<panel, before, calls>>

Next == (\E c \in Calls : Draw(c)) \/ Pin \/ Kill

Spec == Init /\ [][Next]_vars

-----------------------------------------------------------------------------
(* The writes the controller has not performed: the one that the killed     *)
(* process had sent but for the acknowledgement, and those of the call;     *)
(* that of the call has been performed once its last byte is acknowledged   *)
(* (four changes before the end).                                           *)
Pending ==
  LET late == IF step = 0 /\ Awaits(receiver) THEN <<Written(receiver)>> ELSE <<>>
      done == IF Writing /\ step > Len(Frame) - 5
              THEN sent + 1 ELSE sent IN
  late \o (IF Writing THEN SubSeq(Program[call], done + 1, Len(Program[call])) ELSE <<>>)

(* Between a kill and the first stop condition of the next process the      *)
(* receiver is not at rest.                                                 *)
AtRest == step \in {0, 1} => receiver = Silent

Display == INSTANCE OLEDDisplay WITH
  Programs <- {Program[c] : c \in Calls}, queue <- Pending, rest <- AtRest

(* The two lines carry the writes of the drawing calls to the screen: each  *)
(* once, in order, bit by bit as given; a process that is killed adds none, *)
(* but for the one it was sending, unless the next is killed within the     *)
(* first two changes of its lines, which is why Display has Torn            *)
(* (IIC_Start() to OLED_WR_Byte(), NPDOLED.cpp:203-300).                    *)
IsDisplay == Display!Spec

(* What a call should show, stated by place rather than by write: boxes of  *)
(* w columns and h pages with their bytes, row by row.                      *)
Box(x, y, w, bytes) == [x |-> x, y |-> y, w |-> w, bytes |-> bytes]

CharBox(x, y, ch, csize) ==
  IF csize = 16 THEN Box(x, y, 8, OLED_F8X16[ch]) ELSE Box(x, y, 6, OLED_F6x8[ch])

(* A number, right-aligned in len digits, without leading zeros. *)
NumBoxes(c) ==
  {LET r == c.len - 1 - i
       ch == IF c.num < 10^r /\ r # 0 THEN SPACE ELSE ZERO + ((c.num \div 10^r) % 10) IN
   CharBox(c.x + (c.csize \div 2) * i, c.y, ch, c.csize) : i \in 0..c.len - 1}

(* Eight columns a character, two pages a line, as many as fit. *)
StringBoxes(c) ==
  LET first == (COLUMNS - c.x) \div 8
      full == COLUMNS \div 8 IN
  {IF i <= first THEN CharBox(c.x + 8 * (i - 1), c.y, c.str[i], c.csize)
   ELSE LET k == i - 1 - first IN
        CharBox(8 * (k % full), c.y + 2 * (1 + k \div full), c.str[i], c.csize)
     : i \in DOMAIN c.str}

Boxes(c) ==
  CASE c.fn = "Char" -> {CharBox(c.x, c.y, c.ch, c.csize)}
    [] c.fn = "Num" -> NumBoxes(c)
    [] c.fn = "String" -> StringBoxes(c)
    [] c.fn = "Chinese" -> {Box(c.x, c.y, 16, OLED_Hzk[2 * c.ch] \o OLED_Hzk[2 * c.ch + 1])}
    [] c.fn = "BMP" -> {Box(c.x, c.y, c.x1 - c.x, c.bmp)}
    [] OTHER -> {}

(* The calls whose picture fits the screen and whose characters do not      *)
(* overlap: what the code leaves to its callers.                            *)
Fits(c) ==
  /\ \A b \in Boxes(c) : b.x + b.w <= COLUMNS /\ b.y + (Len(b.bytes) \div b.w) <= PAGES
  /\ c.fn = "Num" => c.num < 10^c.len /\ c.csize >= 12
  /\ c.fn = "String" => c.x + 8 <= COLUMNS

Inside(cell, b) ==
  /\ cell[2] \in b.x..b.x + b.w - 1
  /\ cell[1] \in b.y..b.y + (Len(b.bytes) \div b.w) - 1

Over(boxes, ram) ==
  [cell \in Cells |->
     IF \E b \in boxes : Inside(cell, b)
     THEN LET b == CHOOSE b \in boxes : Inside(cell, b) IN
          b.bytes[b.w * (cell[1] - b.y) + cell[2] - b.x + 1]
     ELSE ram[cell]]

Picture ==
  CASE call.fn \in {"Init", "Clear"} -> [cell \in Cells |-> 0]
    [] call.fn = "Fill" -> [cell \in Cells |-> call.byte]
    [] OTHER -> Over(Boxes(call), before)

(* When a drawing call has returned whose picture fits the screen, the      *)
(* screen shows what the call names at the place it names, and the rest of  *)
(* it is as it was, whatever the calls before it drew: characters do not    *)
(* run over the right edge or into each other, numbers have their digits,   *)
(* lines their place (NPDOLED.cpp:61-172, 302-322).                         *)
Drawn == call # NoCall /\ ~Writing /\ Fits(call) => panel.ram = Picture

(* Whatever state a killed process left the controller in, in the middle of *)
(* a byte, of a write or of a command of two bytes, OLED_Init() leaves it   *)
(* on, with no command half given, and with nothing on the bus              *)
(* (NPDOLED.cpp:21-59, 203-218).                                            *)
Recovered ==
  call.fn = "Init" /\ ~Writing =>
    panel.on /\ ~panel.pending /\ receiver = Silent
=============================================================================
