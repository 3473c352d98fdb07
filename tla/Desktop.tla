---- MODULE Desktop ----
(***************************************************************************)
(* The desktop of the 32-bit kernel: the screen that sheet_initialize      *)
(* (src/drivers/graphic/videomode.c) sets up, the mouse (int2ch_handler of *)
(* src/kernel.c, which decodes a byte, moves the pointer and drags         *)
(* windows), the clock task that redraws a counter in the window, and the  *)
(* console task that draws its text.                                       *)
(*                                                                         *)
(* The first two draw with interrupts off and are atomic.  The console     *)
(* draws with interrupts on, so the task switcher may run the others       *)
(* between any two of its accesses to the compositor's state.              *)
(***************************************************************************)
EXTENDS Sheets

CONSTANTS ConsoleAt, WindowAt, \* where the two start
          TitleRows,           \* rows of a title bar
          CounterPixel,        \* the counter in the window's buffer
          TextPixel,           \* the cell at the console's cursor, in its buffer
          TextOrigin,          \* bufXS and bufYS of the console's text box
          Bytes, MaxBytes,     \* what the mouse sends, and how much of it
          MaxDraws             \* drawing operations of the console and the clock

(* The desktop's sheet is as large as the screen and shows everywhere. *)
ASSUME DesktopAssumption ==
  /\ XSize \in Nat /\ YSize \in Nat
  /\ Sheet = {"desktop", "window", "console", "mouse"}
  /\ Width \in [Sheet -> Nat] /\ Height \in [Sheet -> Nat]
  /\ Width["desktop"] = XSize /\ Height["desktop"] = YSize /\ Invisible["desktop"] = {}
  /\ ConsoleAt \in Int \X Int /\ WindowAt \in Int \X Int
  /\ Bytes \subseteq 0 .. 255

VARIABLES g,       \* the compositor
          mouse,   \* mouse_one_move: phase, buf, x, y and btn
          pointer, \* mouseX and mouseY
          con,     \* where a drawing operation of the console stands
          smeared, \* wrong pixels the console wrote from what was out of date
          unflushed, \* the cell has changed in the buffer only
          bytes, draws

desktopVars == <<g, mouse, pointer, con, smeared, unflushed, bytes, draws>>

----
(* sheet_initialize: the sheets are placed while hidden and then shown from
   the bottom up, and the whole screen is drawn.  The mouse sheet is placed by
   a local mouseX and mouseY; the global ones are half the screen. *)
Blank ==
  [sheets |-> <<>>,
   pos |-> [s \in Sheet |-> CASE s = "desktop" -> <<0, 0>> [] s = "window" -> WindowAt
              [] s = "console" -> ConsoleAt
              [] s = "mouse" -> <<(XSize - Width[s]) \div 2, (YSize - Height[s]) \div 2>>],
   zMap |-> [p \in Pixels |-> "desktop"],
   vram |-> [p \in Pixels |-> <<"boot", p, 0>>],
   buf |-> [s \in Sheet |-> [b \in BufPixels(s) |-> 0]]]

sheet_initialize ==
  LET shown == updown(updown(updown(updown(Blank, "desktop", 0), "window", 1), "console", 2), "mouse", 3)
  IN update_with_screenxy(update_zmap(shown, Area(0, 0, XSize, YSize), 0),
                          Area(0, 0, XSize, YSize), 0, -1)

Idle == [pc |-> "idle"]

DesktopInit ==
  /\ g = sheet_initialize
  /\ mouse = [phase |-> 0, buf |-> <<0, 0>>, x |-> 0, y |-> 0, btn |-> 0]
  /\ pointer = <<XSize \div 2, YSize \div 2>>
  /\ con = Idle /\ smeared = {} /\ unflushed = FALSE /\ bytes = 0 /\ draws = 0

----
(* ps2mouse_decode.  0xfa acknowledges the command that enables the mouse and
   is taken for that acknowledgement wherever it comes. *)
glue(negative, tail) == IF negative THEN tail - 256 ELSE tail
IsSet(byte, bit) == (byte \div bit) % 2 = 1

decode(m, byte) ==
  LET n == IF byte = 250 THEN [m EXCEPT !.phase = 1] ELSE m
  IN CASE n.phase = 1 /\ IsSet(byte, 8) /\ byte < 64 -> [n EXCEPT !.phase = 2, !.buf[1] = byte]
       [] n.phase = 2 -> [n EXCEPT !.phase = 3, !.buf[2] = byte]
       [] n.phase = 3 -> [n EXCEPT !.phase = 1, !.btn = n.buf[1] % 8,
                                   !.x = glue(IsSet(n.buf[1], 16), n.buf[2]),
                                   !.y = glue(IsSet(n.buf[1], 32), byte)]
       [] OTHER -> n

(* graphic_move_mouse: the pointer stays on the screen, its sheet follows. *)
Pointed(m) == <<Clamped(pointer[1] + m.x, XSize), Clamped(pointer[2] - m.y, YSize)>>

(* isCursorWithinSheet takes the column and the row past the sheet for its own. *)
Within(at, s) ==
  /\ at[1] >= g.pos[s][1] /\ at[1] - Width[s] =< g.pos[s][1]
  /\ at[2] >= g.pos[s][2] /\ at[2] - Height[s] =< g.pos[s][2]

(* get_sheet_by_cursor: from the sheet below the mouse down. *)
Under(at) == SheetAt(g, Max({k \in 0 .. zTop(g) - 1 : Within(at, SheetAt(g, k))}))

(* make_wtitle8: the title bar of an active and of an inactive window. *)
Titled(h, s, active) ==
  [h EXCEPT !.buf[s] = [b \in BufPixels(s) |->
     IF b[2] < TitleRows THEN (IF active THEN 1 ELSE 0) ELSE h.buf[s][b]]]
Other(s) == IF s = "window" THEN "console" ELSE "window"
RedrawTitle(h, s) == update_sheet(h, s, 0, 0, Width[s], TitleRows)

(* A click: a window is activated, raised to just below the mouse and dragged
   along; a click on the desktop deactivates both. *)
Raised(h, s) ==
  RedrawTitle(updown(Titled(Titled(h, s, TRUE), Other(s), FALSE), s, zTop(h) - 1), Other(s))
Dragged(h, s, to) ==
  slide(h, s, <<h.pos[s][1] + to[1] - pointer[1], h.pos[s][2] + to[2] - pointer[2]>>)
Deactivated(h) ==
  RedrawTitle(RedrawTitle(Titled(Titled(h, "window", FALSE), "console", FALSE), "window"), "console")

(* int2ch_handler: every byte moves the mouse by the last packet's distance. *)
MouseByte(byte) ==
  /\ bytes < MaxBytes /\ bytes' = bytes + 1
  /\ LET m == decode(mouse, byte)
         to == Pointed(m)
         h == slide(g, "mouse", to)
         selected == Under(pointer)
     IN /\ mouse' = m /\ pointer' = to
        /\ g' = CASE ~ IsSet(m.btn, 1) -> h
                  [] IsSet(m.btn, 1) /\ selected \in {"window", "console"} ->
                       Dragged(Raised(h, selected), selected, to)
                  [] OTHER -> Deactivated(h)
        /\ smeared' = smeared \cap Wrong(g')
  /\ UNCHANGED <<con, unflushed, draws>>

(* The clock task's timer_render: the counter is painted and copied. *)
RenderClock ==
  /\ draws < MaxDraws /\ draws' = draws + 1
  /\ LET h == [g EXCEPT !.buf["window"][CounterPixel] = 1 - @]
     IN g' = update_sheet(h, "window", CounterPixel[1], CounterPixel[2],
                          CounterPixel[1] + 1, CounterPixel[2] + 1)
  /\ smeared' = smeared \cap Wrong(g')
  /\ UNCHANGED <<mouse, pointer, con, unflushed, bytes>>

----
(* The console paints the cell in its buffer: a character, which it copies with
   v_textbox_update_sheet, or the blinking cursor, which it copies with
   sheet_update_sheet and so without the text box's place in the buffer. *)
Paint(origin) ==
  /\ con = Idle /\ draws < MaxDraws /\ draws' = draws + 1
  /\ g' = [g EXCEPT !.buf["console"][TextPixel] = 1 - @]
  /\ con' = [pc |-> "call", from |-> <<TextPixel[1] - origin[1], TextPixel[2] - origin[2]>>]
  /\ unflushed' = TRUE
  /\ UNCHANGED <<mouse, pointer, smeared, bytes>>

PutChar == Paint(<<0, 0>>)
Blink == Paint(TextOrigin)

(* sheet_update_sheet reads the sheet's place and depth ... *)
UpdateSheet ==
  /\ con.pc = "call"
  /\ LET at == OnScreen(g, "console", con.from)
     IN con' = [pc |-> "enter", z |-> z(g, "console"), from |-> con.from,
                area |-> Area(at[1], at[2], at[1] + 1, at[2] + 1)]
  /\ UNCHANGED <<g, mouse, pointer, smeared, unflushed, bytes, draws>>

(* ... and sheet_update_with_screenxy takes whichever sheet is at that depth
   now, and the part of its buffer that the area covers now. *)
UpdateEnter ==
  /\ con.pc = "enter"
  /\ LET s == SheetAt(g, con.z)
     IN con' = [pc |-> "row", sheet |-> s, row |-> -1, flushes |-> s = "console" /\ con.from = TextPixel,
                todo |-> {b \in BufPixels(s) : OnScreen(g, s, b) \in con.area}]
  /\ UNCHANGED <<g, mouse, pointer, smeared, unflushed, bytes, draws>>

(* The loops over rows and columns.  The row on the screen is read once for a
   row of the buffer; for each pixel of it the column, the colour and zMap are
   read one after the other ... *)
Row(k) == {b \in con.todo : b[2] = k}

UpdateRow ==
  /\ con.pc = "row" /\ con.todo # {} /\ Row(con.row) = {}
  /\ LET k == Min({b[2] : b \in con.todo})
     IN con' = [pc |-> "row", sheet |-> con.sheet, flushes |-> con.flushes, todo |-> con.todo,
                row |-> k, y |-> g.pos[con.sheet][2] + k]
  /\ UNCHANGED <<g, mouse, pointer, smeared, unflushed, bytes, draws>>

UpdateColumn ==
  /\ con.pc = "row" /\ Row(con.row) # {}
  /\ LET k == Min({b[1] : b \in Row(con.row)})
     IN con' = [pc |-> "color", bufX |-> k, x |-> g.pos[con.sheet][1] + k,
                loop |-> [con EXCEPT !.todo = @ \ {<<k, con.row>>}]]
  /\ UNCHANGED <<g, mouse, pointer, smeared, unflushed, bytes, draws>>

UpdateColor ==
  /\ con.pc = "color"
  /\ LET b == <<con.bufX, con.loop.row>>
         s == con.loop.sheet
     IN con' = [pc |-> "test", at |-> XSize * con.loop.y + con.x, bufX |-> con.bufX,
                color |-> <<s, b, g.buf[s][b]>>, loop |-> con.loop]
  /\ UNCHANGED <<g, mouse, pointer, smeared, unflushed, bytes, draws>>

(* ... zMap at an index that the moves of the sheet since may have put on
   another pixel, or outside zMap, where anything may be found. *)
IsPixel(i) == i \in 0 .. XSize * YSize - 1
PixelAt(i) == <<i % XSize, i \div XSize>>

UpdateTest ==
  /\ con.pc = "test"
  /\ \/ /\ IsPixel(con.at) => g.zMap[PixelAt(con.at)] = con.loop.sheet
        /\ con' = [con EXCEPT !.pc = "write"]
     \/ /\ IsPixel(con.at) => g.zMap[PixelAt(con.at)] # con.loop.sheet
        /\ con' = con.loop
  /\ UNCHANGED <<g, mouse, pointer, smeared, unflushed, bytes, draws>>

(* ... and then the pixel is written, whatever has happened since.  What lies
   outside the screen is not seen. *)
UpToDate ==
  LET p == PixelAt(con.at)
  IN Covers(g, con.loop.sheet, p) /\ con.color = Color(g, con.loop.sheet, p) /\ g.zMap[p] = con.loop.sheet

UpdateWrite ==
  /\ con.pc = "write"
  /\ IF IsPixel(con.at)
       THEN /\ g' = [g EXCEPT !.vram[PixelAt(con.at)] = con.color]
            /\ smeared' = Wrong(g') \cap (smeared \cup (IF UpToDate THEN {} ELSE {PixelAt(con.at)}))
       ELSE UNCHANGED <<g, smeared>>
  /\ con' = con.loop
  /\ UNCHANGED <<mouse, pointer, unflushed, bytes, draws>>

UpdateDone ==
  /\ con.pc = "row" /\ con.todo = {}
  /\ unflushed' = (unflushed /\ ~ con.flushes)
  /\ con' = Idle
  /\ UNCHANGED <<g, mouse, pointer, smeared, bytes, draws>>

ConsoleStep ==
  \/ PutChar \/ Blink \/ UpdateSheet \/ UpdateEnter \/ UpdateRow \/ UpdateColumn \/ UpdateColor
  \/ UpdateTest \/ UpdateWrite \/ UpdateDone
DesktopNext == (\E byte \in Bytes : MouseByte(byte)) \/ RenderClock \/ ConsoleStep
DesktopSpec == DesktopInit /\ [][DesktopNext]_desktopVars

----
(* zMap, which update_sheet takes to be right, is right after every handler: it
   names the topmost sheet that is visible at each pixel, wherever the windows
   have been dragged and in whatever order they were raised. *)
ZMapTop == \A p \in Pixels : g.zMap[p] = TopSheet(g, p)

(* The screen shows the topmost sheet's pixel everywhere but at the pixels the
   console wrote when the place, the colour or the map it had read for them was
   out of date, and at the cell whose last change in the buffer has not been
   copied: the cursor, which is copied from the wrong place, or a character whose
   copy found another sheet at the console's old depth.  Partial redraws by
   updown, slide and update_sheet, and the pixels a preempted copy passes over,
   leave nothing else behind. *)
ScreenShowsTop ==
  Wrong(g) \subseteq smeared \cup (IF unflushed THEN {OnScreen(g, "console", TextPixel)} ELSE {})
====
