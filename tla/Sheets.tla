---- MODULE Sheets ----
(***************************************************************************)
(* The window compositor of the 32-bit kernel (src/drivers/graphic/        *)
(* sheet.c) as operators on its state, a record g:                         *)
(*   sheets  the visible sheets from the bottom up (z is the index less 1) *)
(*   pos     xStart and yStart of each sheet                               *)
(*   zMap    the sheet each screen pixel belongs to                        *)
(*   vram    what each screen pixel shows                                  *)
(*   buf     the colour of each pixel of a sheet's buffer                  *)
(* A colour on the screen is named by the sheet and the buffer pixel it    *)
(* was copied from and the colour that pixel had then.                     *)
(***************************************************************************)
EXTENDS Integers, Sequences, FiniteSets, FiniteSetsExt, SequencesExt

CONSTANTS XSize, YSize,  \* the screen
          Width, Height, \* of each sheet's buffer
          Invisible      \* of each sheet, the buffer pixels of color_invisible

Sheet == DOMAIN Width
Pixels == (0 .. XSize - 1) \X (0 .. YSize - 1)
BufPixels(s) == (0 .. Width[s] - 1) \X (0 .. Height[s] - 1)

zTop(g) == Len(g.sheets) - 1
SheetAt(g, z) == g.sheets[z + 1]
z(g, s) == IF s \in Range(g.sheets) THEN (CHOOSE k \in DOMAIN g.sheets : g.sheets[k] = s) - 1
           ELSE -1

InBuf(g, s, p) == <<p[1] - g.pos[s][1], p[2] - g.pos[s][2]>>
OnScreen(g, s, b) == <<g.pos[s][1] + b[1], g.pos[s][2] + b[2]>>
Covers(g, s, p) == InBuf(g, s, p) \in BufPixels(s)
Shows(g, s, p) == Covers(g, s, p) /\ InBuf(g, s, p) \notin Invisible[s]
Color(g, s, p) == <<s, InBuf(g, s, p), g.buf[s][InBuf(g, s, p)]>>

(* The pixels an update looks at: the corners it was given, one pixel further
   on each side, brought back onto the screen. *)
Clamped(v, size) == IF v < 0 THEN 0 ELSE IF v >= size THEN size - 1 ELSE v
Area(x0, y0, x1, y1) ==
  (Clamped(x0 - 1, XSize) .. Clamped(x1 + 1, XSize))
    \X (Clamped(y0 - 1, YSize) .. Clamped(y1 + 1, YSize))

(* What updown and slide pass: the sheet's corner and its corner plus size. *)
AreaOf(s, at) == Area(at[1], at[2], at[1] + Width[s], at[2] + Height[s])

(* sheet_update_zmap: the sheets from zStart up claim their pixels, the higher
   ones last. *)
update_zmap(g, area, zStart) ==
  [g EXCEPT !.zMap = [p \in Pixels |->
     LET claims == {k \in zStart .. zTop(g) : Shows(g, SheetAt(g, k), p)}
     IN IF p \in area /\ claims # {} THEN SheetAt(g, Max(claims)) ELSE g.zMap[p]]]

(* sheet_update_with_screenxy: the sheets from zStart to zEnd, or to the top
   when zEnd is -1, copy the pixels that zMap says are theirs. *)
update_with_screenxy(g, area, zStart, zEnd) ==
  LET last == IF zEnd = -1 THEN zTop(g) ELSE zEnd
      drawn == {SheetAt(g, k) : k \in zStart .. last}
  IN [g EXCEPT !.vram = [p \in Pixels |->
        IF p \in area /\ g.zMap[p] \in drawn /\ Covers(g, g.zMap[p], p)
          THEN Color(g, g.zMap[p], p) ELSE g.vram[p]]]

(* sheet_update_sheet: zMap is taken to be right and one sheet is copied. *)
update_sheet(g, s, x0, y0, x1, y1) ==
  IF z(g, s) < 0 THEN g
  ELSE update_with_screenxy(g, Area(g.pos[s][1] + x0, g.pos[s][2] + y0,
                                    g.pos[s][1] + x1, g.pos[s][2] + y1), z(g, s), z(g, s))

(* sheet_updown, as the kernel uses it: a hidden sheet is shown on top of the
   others, a visible one is moved among them.  (Nothing hides a sheet; and the
   code's loop that shows one further down forgets the sheet on top.) *)
Reordered(g, s, zNew) ==
  LET from == z(g, s) + 1
      to == zNew + 1
  IN [k \in DOMAIN g.sheets |->
        CASE k = to -> s
          [] from =< k /\ k < to -> g.sheets[k + 1]
          [] to < k /\ k =< from -> g.sheets[k - 1]
          [] OTHER -> g.sheets[k]]

Show(g, s) ==
  LET h == update_zmap([g EXCEPT !.sheets = Append(@, s)], AreaOf(s, g.pos[s]), zTop(g) + 1)
  IN update_with_screenxy(h, AreaOf(s, g.pos[s]), zTop(g) + 1, zTop(g) + 1)

Move(g, s, zNew) ==
  LET h == update_zmap([g EXCEPT !.sheets = Reordered(g, s, zNew)], AreaOf(s, g.pos[s]), zNew)
  IN update_with_screenxy(h, AreaOf(s, g.pos[s]), zNew,
                          IF z(g, s) > zNew THEN z(g, s) - 1 ELSE zNew)

updown(g, s, zNew) ==
  CASE z(g, s) = zNew -> g
    [] z(g, s) < 0 /\ zNew > zTop(g) -> Show(g, s)
    [] z(g, s) >= 0 /\ zNew \in (0 .. zTop(g)) \ {z(g, s)} -> Move(g, s, zNew)

SlideMapsNewOnly(g, s, at) ==
  LET old == AreaOf(s, g.pos[s])
      new == AreaOf(s, at)
      mapped == update_zmap([g EXCEPT !.pos[s] = at], new, z(g, s))
      uncovered == update_with_screenxy(mapped, old, 0, z(g, s) - 1)
  IN IF z(g, s) < 0 THEN [g EXCEPT !.pos[s] = at]
     ELSE update_with_screenxy(uncovered, new, z(g, s), z(g, s))

SlideDrawsNewOnly(g, s, at) ==
  LET new == AreaOf(s, at)
      mapped == update_zmap(update_zmap([g EXCEPT !.pos[s] = at], AreaOf(s, g.pos[s]), 0), new, z(g, s))
  IN IF z(g, s) < 0 THEN [g EXCEPT !.pos[s] = at]
     ELSE update_with_screenxy(mapped, new, z(g, s), z(g, s))

(* sheet_slide: the place left behind is recomputed from the bottom, the new
   place from this sheet up; then both are drawn. *)
slide(g, s, at) ==
  LET old == AreaOf(s, g.pos[s])
      new == AreaOf(s, at)
      moved == [g EXCEPT !.pos[s] = at]
      mapped == update_zmap(update_zmap(moved, old, 0), new, z(g, s))
      uncovered == update_with_screenxy(mapped, old, 0, z(g, s) - 1)
  IN IF z(g, s) < 0 THEN moved
     ELSE update_with_screenxy(uncovered, new, z(g, s), z(g, s))

(* What the screen should show: at each pixel the topmost sheet that is not
   invisible there. *)
TopSheet(g, p) == SheetAt(g, Max({k \in 0 .. zTop(g) : Shows(g, SheetAt(g, k), p)}))
Wrong(g) == {p \in Pixels : g.vram[p] # Color(g, TopSheet(g, p), p)}

====
