---- MODULE TextBox ----
(***************************************************************************)
(* The console of the 32-bit kernel: console_main (src/kernel.c) with the  *)
(* text box and line buffer of src/drivers/graphic/videomode.c.  The scan  *)
(* codes come one at a time from the event loop, which keeps those that    *)
(* arrive while the console is not on top.  A cell of the text box holds   *)
(* the glyphs drawn over each other since it was last filled.              *)
(***************************************************************************)
EXTENDS Keyboard, SequencesExt, FiniteSetsExt

CONSTANTS bufXS, bufYS, bufXE, bufYE, \* the text box in the sheet's buffer
          LineBufferSize,             \* OS_TEXTBOX_LINE_BUFFER_SIZE
          Scans,                      \* the scan codes that occur
          cls, whoami, OsName,        \* the commands and the answer, as sequences
          MaxKeys

(* The last row of characters ends where the box does, as it does for the box
   that sheet_initialize makes. *)
ASSUME TextAssumption ==
  /\ bufXS + 8 =< bufXE /\ bufYS + 16 =< bufYE /\ (bufYE - bufYS) % 28 = 16
  /\ LineBufferSize > 1 /\ Scans \subseteq 0 .. 255

VARIABLES boxX, boxY, cells,          \* where the next glyph goes, and what is drawn
          lineBuf, lineEolPos,        \* the line typed so far (lineCharPos is its end too)
          LRShift,                    \* the shift keys taken to be held, and "caps"
          focus,                      \* the console is the sheet below the mouse
          held, missed,               \* the shift keys held, and those the console
                                      \* did not hear of when they last went up or down
          line, keys                  \* what was typed since the prompt

consoleVars == <<boxX, boxY, cells, lineBuf, lineEolPos, LRShift, line>>
textVars == <<consoleVars, focus, held, missed, keys>>

incrementX == 8
incrementY == 28
CharHeight == 16

Columns == {x \in 0 .. bufXE : x % incrementX = 0}
Rows == {y \in 0 .. bufYE : y % incrementY = 0}

----
(* A screen is the position and the cells: t.x, t.y and t.cells. *)
Filled(t, x0) ==
  [t EXCEPT !.cells = [c \in Columns \X Rows |-> IF c[2] = t.y /\ c[1] >= x0 THEN {} ELSE @[c]]]
Erased(t) == [t EXCEPT !.cells[<<t.x, t.y>>] = {}]

(* v_textbox_putfonts8_asc, one character. *)
WrapY(y) == IF y + bufYS > bufYE THEN 0 ELSE y
NewlineKeepsOld(t) == [Filled(t, t.x) EXCEPT !.x = 0, !.y = WrapY(t.y + incrementY)]

Newline(t) ==
  LET next == [Filled(t, t.x) EXCEPT !.x = 0, !.y = WrapY(t.y + incrementY)]
  IN Filled(next, 0)

Glyph(t, c) ==
  LET full == t.x + incrementX + bufXS + incrementX > bufXE
  IN [t EXCEPT !.cells[<<t.x, t.y>>] = @ \cup {c},
               !.x = IF full THEN 0 ELSE t.x + incrementX,
               !.y = WrapY(IF full THEN t.y + incrementY ELSE t.y)]

putfonts8_asc(t, s) == FoldLeft(LAMBDA u, c : IF c = "\n" THEN Newline(u) ELSE Glyph(u, c), t, s)

Screen == [x |-> boxX, y |-> boxY, cells |-> cells]
Becomes(t) == boxX' = t.x /\ boxY' = t.y /\ cells' = t.cells

(* The line buffer: the bytes up to the first that is zero. *)
Contents == SubSeq(lineBuf, 1, SelectInSeq(lineBuf, LAMBDA c : c = Nul) - 1)
LinebufClear ==
  /\ lineBuf' = [i \in DOMAIN lineBuf |-> IF i =< lineEolPos THEN Nul ELSE lineBuf[i]]
  /\ lineEolPos' = 0
LinebufAdd(c) ==
  IF lineEolPos >= LineBufferSize - 1 THEN UNCHANGED <<lineBuf, lineEolPos>>
  ELSE lineBuf' = [lineBuf EXCEPT ![lineEolPos + 1] = c] /\ lineEolPos' = lineEolPos + 1

----
(* sheet_textbox_alloc, and the first prompt. *)
TextInit ==
  LET t == putfonts8_asc([x |-> 0, y |-> 0, cells |-> [c \in Columns \X Rows |-> {}]], <<">">>)
  IN /\ boxX = t.x /\ boxY = t.y /\ cells = t.cells
     /\ lineBuf = [i \in 1 .. LineBufferSize |-> Nul] /\ lineEolPos = 0
     /\ LRShift = {} /\ line = <<>> /\ keys = 0
     /\ focus = TRUE /\ held = {} /\ missed = {}

Prompted(t) == Becomes(t) /\ line' = <<>>

(* The Enter key: the rest of the line is filled; then the command is run, the
   prompt drawn and the line buffer cleared. *)
Enter ==
  LET t == Filled(Screen, boxX)
      blank == [t EXCEPT !.x = 0, !.y = 0, !.cells = [c \in DOMAIN t.cells |-> {}]]
  IN /\ CASE Contents = cls -> Prompted(putfonts8_asc(blank, <<">">>))
          [] Contents = whoami ->
               Prompted(putfonts8_asc(t, <<"\n">> \o OsName \o <<"\n", ">">>))
          [] OTHER -> Prompted(putfonts8_asc(t, <<"\n", ">">>))
     /\ LinebufClear
     /\ UNCHANGED LRShift

(* The shift keys are followed as they go down and up; CapsLock toggles on every
   press. *)
ShiftKey == [left |-> 42, right |-> 54]
CapsLock == 58
Shifts(raw) ==
  {k \in {"left", "right"} : \/ raw = ShiftKey[k]
                             \/ k \in LRShift /\ raw # ShiftKey[k] + BREAK_MASK}
  \cup {k \in {"caps"} : (k \in LRShift) # (raw = CapsLock)}

(* Any other key: the cell is filled and the glyph drawn.  Then the cursor is
   painted over the next cell, as it is on every blink.  A key without a
   character leaves the screen as it is. *)
Typed(c) ==
  /\ LinebufAdd(c)
  /\ Becomes(Erased(putfonts8_asc(Erased(Screen), <<c>>)))
  /\ line' = Append(line, c)
Char(raw) ==
  LET now == Shifts(raw)
      isShift == (now \cap {"left", "right"} # {}) # ("caps" \in now)
  IN /\ LRShift' = now
     /\ \E c \in input_get_char(raw, isShift) :
          IF c = Nul THEN UNCHANGED <<boxX, boxY, cells, lineBuf, lineEolPos, line>> ELSE Typed(c)

(* console_main takes a scan code: back space and tab do nothing. *)
Take(raw) ==
  CASE raw \in {14, 15} -> UNCHANGED consoleVars
    [] raw = 28 -> Enter
    [] OTHER -> Char(raw)

(* The event loop passes a scan code on while the console is below the mouse,
   and drops it otherwise.  A shift key that goes up was held. *)
Scan(raw) ==
  LET moved == {k \in DOMAIN ShiftKey : raw % BREAK_MASK = ShiftKey[k]}
      up == raw >= BREAK_MASK
  IN /\ up => moved \subseteq held
     /\ held' = IF up THEN held \ moved ELSE held \cup moved
     /\ missed' = IF focus THEN missed \ moved ELSE missed \cup moved
     /\ IF focus THEN Take(raw) ELSE UNCHANGED consoleVars
     /\ UNCHANGED focus

Blinks ==
  /\ Becomes(Erased(Screen))
  /\ UNCHANGED <<lineBuf, lineEolPos, LRShift, line, focus, held, missed>>

(* A click raises the console or the window. *)
Click == focus' = ~ focus /\ UNCHANGED <<consoleVars, held, missed>>

TextNext ==
  /\ keys < MaxKeys /\ keys' = keys + 1
  /\ \/ Blinks \/ Click
     \/ \E raw \in Scans : Scan(raw)

----
(* The characters of the box in reading order. *)
PerRow == (bufXE - bufXS) \div incrementX
PerBox == PerRow * ((bufYE - bufYS + incrementY - CharHeight) \div incrementY)
Place(k) == <<incrementX * (k % PerRow), incrementY * ((k % PerBox) \div PerRow)>>
Cursor == CHOOSE k \in 0 .. PerBox - 1 : Place(k) = <<boxX, boxY>>

(* The console shows what was typed and runs what it shows: the cursor is at a
   whole character of the box; as many of the last letters as the box holds stand
   in order before it, each drawn over nothing else; and the line buffer holds
   the line, as much of it as fits, however often text has wrapped at the right
   edge and at the bottom, and whatever lines were drawn there before.  A shift
   key is taken to be held exactly while it is, unless it went up or down while
   the window had the keyboard. *)
ConsoleText ==
  /\ \E k \in 0 .. PerBox - 1 : Place(k) = <<boxX, boxY>>
  /\ \A j \in 1 .. Min({Len(line), PerBox - 1}) :
       cells[Place(Cursor + PerBox - j)] = {line[Len(line) - j + 1]}
  /\ Len(line) < PerBox - 1 => cells[Place(Cursor + PerBox - Len(line) - 1)] = {">"}
  /\ Contents = SubSeq(line, 1, Min({Len(line), LineBufferSize - 1}))
  /\ \A k \in DOMAIN ShiftKey \ missed : k \in LRShift <=> k \in held
====
