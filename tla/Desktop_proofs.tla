---- MODULE Desktop_proofs ----
(***************************************************************************)
(* Proof that the compositor's map is exact, for a screen and windows of   *)
(* any size, wherever the mouse drags them: DesktopSpec => []ZMapTop.      *)
(*                                                                         *)
(* The desktop and the mouse keep their depths, 0 and 3, and the two       *)
(* windows change places.  That zMap is right is put as TopFrom: the sheet *)
(* it names shows at the pixel and no higher one does.  A sheet that is    *)
(* moved or raised shows nowhere outside the area its update recomputes    *)
(* (OutOfArea), so what is not recomputed stays right.                     *)
(***************************************************************************)
EXTENDS Desktop, SequenceTheorems, TLAPS

Fields == {"sheets", "pos", "zMap", "vram", "buf"}
Orders == {<<"desktop", "window", "console", "mouse">>, <<"desktop", "console", "window", "mouse">>}

(* A state of the compositor with all four sheets on the screen. *)
IsState(h) ==
  /\ DOMAIN h = Fields
  /\ h.sheets \in Orders
  /\ h.pos \in [Sheet -> Int \X Int] /\ h.pos["desktop"] = <<0, 0>>

On(h, k, p) == Shows(h, SheetAt(h, k), p)

(* t is the highest of the sheets from depth a up that show at p. *)
TopFrom(h, p, a, t) ==
  \E k \in a .. 3 : t = SheetAt(h, k) /\ On(h, k, p) /\ \A j \in k + 1 .. 3 : ~ On(h, j, p)

Exact(h) == \A p \in Pixels : TopFrom(h, p, 0, h.zMap[p])

MouseOK(m) ==
  /\ DOMAIN m = {"phase", "buf", "x", "y", "btn"}
  /\ m.buf \in (0 .. 255) \X (0 .. 255) /\ m.x \in Int /\ m.y \in Int

Inv == IsState(g) /\ Exact(g) /\ MouseOK(mouse) /\ pointer \in Int \X Int

----
(* The greatest element of a set is its Max. *)
LEMMA MaxIs ==
  ASSUME NEW S, S \subseteq Int, NEW m \in S, \A y \in S : m >= y
  PROVE  Max(S) = m
<1>1. \A x \in S : (\A y \in S : x >= y) => x = m
  OBVIOUS
<1> QED
  BY <1>1 DEF Max

(* The four depths. *)
LEMMA Depths ==
  ASSUME NEW h, IsState(h)
  PROVE  /\ zTop(h) = 3
         /\ SheetAt(h, 0) = "desktop" /\ SheetAt(h, 3) = "mouse"
         /\ \/ SheetAt(h, 1) = "window" /\ SheetAt(h, 2) = "console"
            \/ SheetAt(h, 1) = "console" /\ SheetAt(h, 2) = "window"
  BY DEF IsState, Orders, zTop, SheetAt

(* What the claims on a pixel have to do with its top sheet. *)
LEMMA ClaimsTop ==
  ASSUME NEW h, IsState(h), NEW p, NEW a \in 0 .. 3
  PROVE  LET C == {k \in a .. zTop(h) : Shows(h, SheetAt(h, k), p)}
         IN /\ C # {} => TopFrom(h, p, a, SheetAt(h, Max(C)))
            /\ C = {} => \A k \in a .. 3 : ~ On(h, k, p)
<1> DEFINE C == {k \in a .. zTop(h) : Shows(h, SheetAt(h, k), p)}
<1>1. C = {k \in a .. 3 : On(h, k, p)}
  BY Depths DEF On
<1>2. ASSUME C # {} PROVE TopFrom(h, p, a, SheetAt(h, Max(C)))
  <2> HIDE DEF C
  <2>1. C \subseteq 0 .. 3
    BY <1>1
  <2>2. \E m \in C : \A y \in C : m >= y
    <3>1. CASE 3 \in C
      BY <2>1, <3>1
    <3>2. CASE 3 \notin C /\ 2 \in C
      BY <2>1, <3>2
    <3>3. CASE 3 \notin C /\ 2 \notin C /\ 1 \in C
      BY <2>1, <3>3
    <3>4. CASE 3 \notin C /\ 2 \notin C /\ 1 \notin C
      <4>1. \A y \in C : y = 0
        BY <2>1, <3>4
      <4> QED
        BY <1>2, <4>1
    <3> QED
      BY <3>1, <3>2, <3>3, <3>4
  <2>3. PICK m \in C : \A y \in C : m >= y
    BY <2>2
  <2>4. Max(C) = m
    <3>1. C \subseteq Int
      BY <2>1
    <3> QED
      BY <3>1, <2>3, MaxIs, Zenon
  <2>5. m \in a .. 3 /\ On(h, m, p)
    BY <1>1, <2>3
  <2>6. ASSUME NEW j \in m + 1 .. 3 PROVE ~ On(h, j, p)
    BY <1>1, <2>1, <2>3, <2>5
  <2> QED
    BY <2>4, <2>5, <2>6 DEF TopFrom
<1>3. ASSUME C = {} PROVE \A k \in a .. 3 : ~ On(h, k, p)
  BY <1>1, <1>3
<1> QED
  BY <1>2, <1>3

(* A pixel has one top sheet. *)
LEMMA TopUnique ==
  ASSUME NEW h, NEW p, NEW t, NEW u, TopFrom(h, p, 0, t), TopFrom(h, p, 0, u)
  PROVE  t = u
<1>1. PICK k \in 0 .. 3 : t = SheetAt(h, k) /\ On(h, k, p) /\ \A j \in k + 1 .. 3 : ~ On(h, j, p)
  BY DEF TopFrom
<1>2. PICK l \in 0 .. 3 : u = SheetAt(h, l) /\ On(h, l, p) /\ \A j \in l + 1 .. 3 : ~ On(h, j, p)
  BY DEF TopFrom
<1>3. k = l
  BY <1>1, <1>2
<1> QED
  BY <1>1, <1>2, <1>3

(* The desktop shows everywhere. *)
LEMMA DesktopShows ==
  ASSUME NEW h, IsState(h), NEW p \in Pixels
  PROVE  On(h, 0, p)
<1>1. p[1] \in 0 .. XSize - 1 /\ p[2] \in 0 .. YSize - 1
  BY DEF Pixels
<1>2. InBuf(h, "desktop", p) = <<p[1], p[2]>>
  BY <1>1, DesktopAssumption DEF IsState, InBuf
<1>3. SheetAt(h, 0) = "desktop"
  BY Depths
<1> QED
  BY <1>1, <1>2, <1>3, DesktopAssumption DEF On, Shows, Covers, BufPixels

(* A sheet shows nowhere on the screen outside the area of its update. *)
LEMMA OutOfArea ==
  ASSUME NEW h, NEW s \in Sheet, h.pos[s] \in Int \X Int,
         NEW p \in Pixels, p \notin AreaOf(s, h.pos[s])
  PROVE  ~ Shows(h, s, p)
<1> DEFINE at == h.pos[s]
<1>1. p[1] \in 0 .. XSize - 1 /\ p[2] \in 0 .. YSize - 1 /\ p = <<p[1], p[2]>>
  BY DEF Pixels
<1>2. Width[s] \in Nat /\ Height[s] \in Nat /\ XSize \in Nat /\ YSize \in Nat
  BY DesktopAssumption
<1>3. at[1] \in Int /\ at[2] \in Int
  OBVIOUS
<1> SUFFICES ASSUME Covers(h, s, p) PROVE FALSE
  BY DEF Shows
<1>4. p[1] - at[1] \in 0 .. Width[s] - 1 /\ p[2] - at[2] \in 0 .. Height[s] - 1
  BY DEF Covers, InBuf, BufPixels
<1>5. p[1] \in Clamped(at[1] - 1, XSize) .. Clamped(at[1] + Width[s] + 1, XSize)
  BY <1>1, <1>2, <1>3, <1>4 DEF Clamped
<1>6. p[2] \in Clamped(at[2] - 1, YSize) .. Clamped(at[2] + Height[s] + 1, YSize)
  BY <1>1, <1>2, <1>3, <1>4 DEF Clamped
<1> QED
  BY <1>1, <1>5, <1>6 DEF AreaOf, Area

(* Showing depends on order and places only. *)
LEMMA SamePlaces ==
  ASSUME NEW h, NEW u, u.sheets = h.sheets, u.pos = h.pos
  PROVE  /\ \A k, p : On(u, k, p) <=> On(h, k, p)
         /\ \A p, a, t : TopFrom(u, p, a, t) <=> TopFrom(h, p, a, t)
<1>1. \A k, p : On(u, k, p) <=> On(h, k, p)
  BY DEF On, Shows, Covers, InBuf, SheetAt
<1>2. \A k : SheetAt(u, k) = SheetAt(h, k)
  BY DEF SheetAt
<1> QED
  BY <1>1, <1>2 DEF TopFrom

(* What leaves order, places and map alone keeps the map exact. *)
LEMMA SameMap ==
  ASSUME NEW h, IsState(h), Exact(h),
         NEW u, DOMAIN u = DOMAIN h, u.sheets = h.sheets, u.pos = h.pos, u.zMap = h.zMap
  PROVE  IsState(u) /\ Exact(u)
  BY SamePlaces DEF IsState, Exact

(* sheet_update_zmap: a pixel of the area gets the top of the sheets from a
   up, if one of them shows there, and all else stays. *)
LEMMA ZMapEffect ==
  ASSUME NEW h, IsState(h), NEW area, NEW a \in 0 .. 3
  PROVE  LET u == update_zmap(h, area, a)
         IN /\ IsState(u) /\ u.sheets = h.sheets /\ u.pos = h.pos /\ u.vram = h.vram /\ u.buf = h.buf
            /\ \A p \in Pixels :
                 \/ p \in area /\ TopFrom(h, p, a, u.zMap[p])
                 \/ (p \in area => \A k \in a .. 3 : ~ On(h, k, p)) /\ u.zMap[p] = h.zMap[p]
<1> DEFINE u == update_zmap(h, area, a)
           C(p) == {k \in a .. zTop(h) : Shows(h, SheetAt(h, k), p)}
           m == [p \in Pixels |->
                   IF p \in area /\ C(p) # {} THEN SheetAt(h, Max(C(p))) ELSE h.zMap[p]]
<1>1. u = [h EXCEPT !.zMap = m]
  BY DEF update_zmap
<1>2. /\ DOMAIN u = Fields /\ u.sheets = h.sheets /\ u.pos = h.pos /\ u.vram = h.vram
      /\ u.buf = h.buf /\ u.zMap = m
  <2> HIDE DEF u, m
  <2> QED
    BY <1>1 DEF IsState, Fields
<1>3. IsState(u)
  <2> HIDE DEF u, m
  <2> QED
    BY <1>2 DEF IsState
<1>4. ASSUME NEW p \in Pixels
      PROVE  \/ p \in area /\ TopFrom(h, p, a, u.zMap[p])
             \/ (p \in area => \A k \in a .. 3 : ~ On(h, k, p)) /\ u.zMap[p] = h.zMap[p]
  <2>1. u.zMap[p] = IF p \in area /\ C(p) # {} THEN SheetAt(h, Max(C(p))) ELSE h.zMap[p]
    <3> HIDE DEF u, C
    <3> QED
      BY <1>2
  <2>2. /\ C(p) # {} => TopFrom(h, p, a, SheetAt(h, Max(C(p))))
        /\ C(p) = {} => \A k \in a .. 3 : ~ On(h, k, p)
    BY ClaimsTop
  <2> HIDE DEF u, C
  <2> QED
    BY <2>1, <2>2
<1> HIDE DEF u
<1> QED
  BY <1>2, <1>3, <1>4 DEF u

(* sheet_update_with_screenxy changes the screen only. *)
LEMMA DrawEffect ==
  ASSUME NEW h, IsState(h), NEW area, NEW a, NEW b
  PROVE  LET u == update_with_screenxy(h, area, a, b)
         IN /\ DOMAIN u = DOMAIN h /\ u.sheets = h.sheets /\ u.pos = h.pos
            /\ u.zMap = h.zMap /\ u.buf = h.buf
<1> DEFINE last == IF b = -1 THEN zTop(h) ELSE b
           drawn == {SheetAt(h, k) : k \in a .. last}
           v == [p \in Pixels |->
                  IF p \in area /\ h.zMap[p] \in drawn /\ Covers(h, h.zMap[p], p)
                    THEN Color(h, h.zMap[p], p) ELSE h.vram[p]]
           u == update_with_screenxy(h, area, a, b)
<1>1. u = [h EXCEPT !.vram = v]
  BY DEF update_with_screenxy
<1> HIDE DEF u, v
<1>2. /\ DOMAIN u = DOMAIN h /\ u.sheets = h.sheets /\ u.pos = h.pos
      /\ u.zMap = h.zMap /\ u.buf = h.buf
  BY <1>1 DEF IsState, Fields
<1> QED
  BY <1>2 DEF u

LEMMA DrawKeeps ==
  ASSUME NEW h, IsState(h), Exact(h), NEW area, NEW a, NEW b
  PROVE  /\ IsState(update_with_screenxy(h, area, a, b))
         /\ Exact(update_with_screenxy(h, area, a, b))
<1> DEFINE u == update_with_screenxy(h, area, a, b)
<1>1. /\ DOMAIN u = DOMAIN h /\ u.sheets = h.sheets /\ u.pos = h.pos /\ u.zMap = h.zMap
  BY DrawEffect
<1> HIDE DEF u
<1>2. IsState(u) /\ Exact(u)
  BY <1>1, SameMap
<1> QED
  BY <1>2 DEF u

Movable == {"window", "console", "mouse"}

(* The depth of a sheet other than the desktop. *)
LEMMA Depth ==
  ASSUME NEW h, IsState(h), NEW s \in Movable
  PROVE  /\ z(h, s) \in 1 .. 3
         /\ \A k \in 0 .. 3 : SheetAt(h, k) = s <=> k = z(h, s)
<1>1. DOMAIN h.sheets = 1 .. 4
  BY DEF IsState, Orders
<1>2. \A j, k \in 1 .. 4 : h.sheets[j] = h.sheets[k] => j = k
  BY DEF IsState, Orders
<1>3. \E k \in 2 .. 4 : h.sheets[k] = s
  BY DEF IsState, Orders, Movable
<1>4. PICK k \in 2 .. 4 : h.sheets[k] = s
  BY <1>3
<1>5. s \in Range(h.sheets)
  BY <1>1, <1>4 DEF Range
<1>6. (CHOOSE j \in DOMAIN h.sheets : h.sheets[j] = s) = k
  BY <1>1, <1>2, <1>4
<1>7. z(h, s) = k - 1
  BY <1>5, <1>6 DEF z
<1> QED
  BY <1>2, <1>4, <1>7 DEF SheetAt

(* A sheet that is moved shows elsewhere, the others where they did. *)
LEMMA MovedPlaces ==
  ASSUME NEW h, IsState(h), NEW s \in Movable, NEW at \in Int \X Int
  PROVE  LET m == [h EXCEPT !.pos[s] = at]
         IN /\ IsState(m) /\ m.sheets = h.sheets /\ m.zMap = h.zMap /\ m.pos[s] = at
            /\ m.vram = h.vram /\ m.buf = h.buf
            /\ \A t \in Sheet : t # s => m.pos[t] = h.pos[t]
            /\ \A k \in 0 .. 3 : \A p : k # z(h, s) => (On(m, k, p) <=> On(h, k, p))
<1> DEFINE m == [h EXCEPT !.pos[s] = at]
<1>0. s \in Sheet /\ s # "desktop"
  BY DesktopAssumption DEF Movable
<1>1. /\ DOMAIN m = Fields /\ m.sheets = h.sheets /\ m.zMap = h.zMap /\ m.vram = h.vram
      /\ m.buf = h.buf /\ m.pos = [h.pos EXCEPT ![s] = at]
  BY DEF IsState, Fields
<1> HIDE DEF m
<1>2. m.pos \in [Sheet -> Int \X Int] /\ m.pos[s] = at /\ \A t \in Sheet : t # s => m.pos[t] = h.pos[t]
  BY <1>0, <1>1 DEF IsState
<1>3. "desktop" \in Sheet
  BY DesktopAssumption
<1>4. IsState(m)
  BY <1>0, <1>1, <1>2, <1>3 DEF IsState
<1>5. ASSUME NEW k \in 0 .. 3, NEW p, k # z(h, s)
      PROVE  On(m, k, p) <=> On(h, k, p)
  <2>1. SheetAt(m, k) = SheetAt(h, k)
    BY <1>1 DEF SheetAt
  <2>2. SheetAt(h, k) # s
    BY <1>5, Depth
  <2>3. SheetAt(h, k) \in Sheet
    BY Depths, DesktopAssumption
  <2>4. m.pos[SheetAt(h, k)] = h.pos[SheetAt(h, k)]
    BY <1>2, <2>2, <2>3
  <2> QED
    BY <2>1, <2>4 DEF On, Shows, Covers, InBuf
<1>6. /\ IsState(m) /\ m.sheets = h.sheets /\ m.zMap = h.zMap /\ m.pos[s] = at
      /\ m.vram = h.vram /\ m.buf = h.buf
      /\ \A t \in Sheet : t # s => m.pos[t] = h.pos[t]
      /\ \A k \in 0 .. 3 : \A p : k # z(h, s) => (On(m, k, p) <=> On(h, k, p))
  BY <1>1, <1>2, <1>4, <1>5
<1> QED
  BY <1>6 DEF m

(* The map after both recomputations of sheet_slide. *)
LEMMA SlideMaps ==
  ASSUME NEW h, IsState(h), Exact(h), NEW s \in Movable, NEW at \in Int \X Int
  PROVE  LET m == [h EXCEPT !.pos[s] = at]
             u == update_zmap(update_zmap(m, AreaOf(s, h.pos[s]), 0), AreaOf(s, at), z(h, s))
         IN /\ IsState(u) /\ Exact(u)
            /\ u.sheets = h.sheets /\ u.pos = m.pos /\ u.vram = h.vram /\ u.buf = h.buf
<1> DEFINE m == [h EXCEPT !.pos[s] = at]
           old == AreaOf(s, h.pos[s])
           new == AreaOf(s, at)
           d == z(h, s)
           v == update_zmap(m, old, 0)
           u == update_zmap(v, new, d)
<1>0. s \in Sheet /\ h.pos[s] \in Int \X Int
  BY DesktopAssumption DEF Movable, IsState
<1>1. /\ IsState(m) /\ m.sheets = h.sheets /\ m.zMap = h.zMap /\ m.pos[s] = at
      /\ m.vram = h.vram /\ m.buf = h.buf
      /\ \A t \in Sheet : t # s => m.pos[t] = h.pos[t]
      /\ \A k \in 0 .. 3 : \A p : k # d => (On(m, k, p) <=> On(h, k, p))
  BY MovedPlaces, Zenon
<1>2. d \in 1 .. 3 /\ SheetAt(h, d) = s
  BY Depth
<1> HIDE DEF m, d, old, new
<1>3. /\ IsState(v) /\ v.sheets = m.sheets /\ v.pos = m.pos /\ v.vram = m.vram /\ v.buf = m.buf
      /\ \A p \in Pixels :
           \/ p \in old /\ TopFrom(m, p, 0, v.zMap[p])
           \/ (p \in old => \A k \in 0 .. 3 : ~ On(m, k, p)) /\ v.zMap[p] = m.zMap[p]
  BY <1>1, ZMapEffect
<1> HIDE DEF v
<1>4. /\ IsState(u) /\ u.sheets = v.sheets /\ u.pos = v.pos /\ u.vram = v.vram /\ u.buf = v.buf
      /\ \A p \in Pixels :
           \/ p \in new /\ TopFrom(v, p, d, u.zMap[p])
           \/ (p \in new => \A k \in d .. 3 : ~ On(v, k, p)) /\ u.zMap[p] = v.zMap[p]
  BY <1>2, <1>3, ZMapEffect
<1> HIDE DEF u
<1>5. ASSUME NEW p \in Pixels PROVE TopFrom(u, p, 0, u.zMap[p])
  <2>1. /\ \A k : On(v, k, p) <=> On(m, k, p)
        /\ \A a, t : TopFrom(v, p, a, t) <=> TopFrom(m, p, a, t)
        /\ \A a, t : TopFrom(u, p, a, t) <=> TopFrom(m, p, a, t)
    BY <1>3, <1>4, SamePlaces
  <2>2. CASE p \in new /\ TopFrom(v, p, d, u.zMap[p])
    <3>1. TopFrom(m, p, d, u.zMap[p])
      BY <2>1, <2>2
    <3>2. TopFrom(m, p, 0, u.zMap[p])
      BY <1>2, <3>1 DEF TopFrom
    <3> QED
      BY <2>1, <3>2
  <2>3. CASE (p \in new => \A k \in d .. 3 : ~ On(v, k, p)) /\ u.zMap[p] = v.zMap[p]
    <3>1. ~ On(m, d, p)
      <4>1. CASE p \in new
        BY <1>2, <2>1, <2>3, <4>1
      <4>2. CASE p \notin new
        <5>1. ~ Shows(m, s, p)
          BY <1>0, <1>1, <4>2, OutOfArea DEF new
        <5> QED
          BY <1>1, <1>2, <5>1 DEF On, SheetAt
      <4> QED
        BY <4>1, <4>2
    <3>2. CASE p \in old
      <4>1. On(m, 0, p)
        BY <1>1, DesktopShows
      <4> QED
        BY <1>3, <2>1, <2>3, <3>2, <4>1
    <3>3. CASE p \notin old
      <4>1. ~ Shows(h, s, p)
        BY <1>0, <3>3, OutOfArea DEF old
      <4>2. ~ On(h, d, p)
        BY <1>2, <4>1 DEF On
      <4>3. \A k \in 0 .. 3 : On(m, k, p) <=> On(h, k, p)
        BY <1>1, <3>1, <4>2
      <4>4. \A k : SheetAt(m, k) = SheetAt(h, k)
        BY <1>1 DEF SheetAt
      <4>5. TopFrom(h, p, 0, h.zMap[p])
        BY DEF Exact
      <4>6. TopFrom(m, p, 0, h.zMap[p])
        <5>1. PICK k \in 0 .. 3 : /\ h.zMap[p] = SheetAt(h, k) /\ On(h, k, p)
                                  /\ \A j \in k + 1 .. 3 : ~ On(h, j, p)
          BY <4>5 DEF TopFrom
        <5>2. h.zMap[p] = SheetAt(m, k) /\ On(m, k, p)
          BY <4>3, <4>4, <5>1
        <5>3. ASSUME NEW j \in k + 1 .. 3 PROVE ~ On(m, j, p)
          BY <4>3, <5>1
        <5> QED
          BY <5>2, <5>3 DEF TopFrom
      <4>7. u.zMap[p] = h.zMap[p]
        BY <1>1, <1>3, <2>3, <3>3
      <4> QED
        BY <2>1, <4>6, <4>7
    <3> QED
      BY <3>2, <3>3
  <2> QED
    BY <1>4, <2>2, <2>3
<1>6. /\ IsState(u) /\ Exact(u)
      /\ u.sheets = h.sheets /\ u.pos = m.pos /\ u.vram = h.vram /\ u.buf = h.buf
  BY <1>1, <1>3, <1>4, <1>5 DEF Exact
<1> QED
  BY <1>6 DEF u, v, m, old, new, d

(* sheet_slide keeps the map exact. *)
LEMMA SlideKeeps ==
  ASSUME NEW h, IsState(h), Exact(h), NEW s \in Movable, NEW at \in Int \X Int
  PROVE  IsState(slide(h, s, at)) /\ Exact(slide(h, s, at))
<1> DEFINE m == [h EXCEPT !.pos[s] = at]
           old == AreaOf(s, h.pos[s])
           new == AreaOf(s, at)
           mapped == update_zmap(update_zmap(m, old, 0), new, z(h, s))
           uncovered == update_with_screenxy(mapped, old, 0, z(h, s) - 1)
           drawn == update_with_screenxy(uncovered, new, z(h, s), z(h, s))
<1>1. IsState(mapped) /\ Exact(mapped)
  BY SlideMaps
<1>2. ~ (z(h, s) < 0)
  BY Depth
<1>3. slide(h, s, at) = drawn
  BY <1>2 DEF slide
<1> HIDE DEF mapped, old, new
<1>4. IsState(uncovered) /\ Exact(uncovered)
  BY <1>1, DrawKeeps
<1> HIDE DEF uncovered
<1>5. IsState(drawn) /\ Exact(drawn)
  BY <1>4, DrawKeeps
<1> QED
  BY <1>3, <1>5

(* A window that is raised changes places with the other one. *)
LEMMA RaisedOrder ==
  ASSUME NEW h, IsState(h), NEW s \in {"window", "console"}, z(h, s) = 1
  PROVE  LET r == [h EXCEPT !.sheets = Reordered(h, s, 2)]
         IN /\ IsState(r) /\ r.pos = h.pos /\ r.zMap = h.zMap /\ r.vram = h.vram /\ r.buf = h.buf
            /\ SheetAt(r, 0) = SheetAt(h, 0) /\ SheetAt(r, 1) = SheetAt(h, 2)
            /\ SheetAt(r, 2) = SheetAt(h, 1) /\ SheetAt(r, 3) = SheetAt(h, 3)
            /\ SheetAt(h, 1) = s
<1> DEFINE r == [h EXCEPT !.sheets = Reordered(h, s, 2)]
           o == Reordered(h, s, 2)
<1>0. DOMAIN h.sheets = 1 .. 4
  BY DEF IsState, Orders
<1>1. SheetAt(h, 1) = s
  BY Depth DEF Movable
<1>2. o = [k \in 1 .. 4 |-> CASE k = 3 -> s
                              [] 2 =< k /\ k < 3 -> h.sheets[k + 1]
                              [] 3 < k /\ k =< 2 -> h.sheets[k - 1]
                              [] OTHER -> h.sheets[k]]
  BY <1>0 DEF Reordered
<1>3. o[1] = h.sheets[1] /\ o[2] = h.sheets[3] /\ o[3] = s /\ o[4] = h.sheets[4] /\ DOMAIN o = 1 .. 4
  <2> HIDE DEF o
  <2> QED
    BY <1>2
<1>4. h.sheets[2] = s
  BY <1>1 DEF SheetAt
<1>5. o \in Orders
  <2>1. o = <<o[1], o[2], o[3], o[4]>>
    <3> HIDE DEF o
    <3> QED
      BY <1>2
  <2> HIDE DEF o
  <2>2. o = <<h.sheets[1], h.sheets[3], s, h.sheets[4]>>
    BY <1>3, <2>1
  <2>3. CASE h.sheets = <<"desktop", "window", "console", "mouse">>
    BY <1>4, <2>2, <2>3 DEF Orders
  <2>4. CASE h.sheets = <<"desktop", "console", "window", "mouse">>
    BY <1>4, <2>2, <2>4 DEF Orders
  <2> QED
    BY <2>3, <2>4 DEF IsState, Orders
<1> HIDE DEF o
<1>6. /\ DOMAIN r = Fields /\ r.sheets = o /\ r.pos = h.pos /\ r.zMap = h.zMap
      /\ r.vram = h.vram /\ r.buf = h.buf
  BY DEF IsState, Fields, o
<1> HIDE DEF r
<1>7. IsState(r)
  BY <1>5, <1>6 DEF IsState
<1>8. /\ SheetAt(r, 0) = SheetAt(h, 0) /\ SheetAt(r, 1) = SheetAt(h, 2)
      /\ SheetAt(r, 2) = SheetAt(h, 1) /\ SheetAt(r, 3) = SheetAt(h, 3)
  BY <1>3, <1>4, <1>6 DEF SheetAt
<1> QED
  BY <1>1, <1>6, <1>7, <1>8 DEF r

(* The map after the recomputation of sheet_updown. *)
LEMMA RaiseMaps ==
  ASSUME NEW h, IsState(h), Exact(h), NEW s \in {"window", "console"}, z(h, s) = 1
  PROVE  LET r == [h EXCEPT !.sheets = Reordered(h, s, 2)]
             u == update_zmap(r, AreaOf(s, h.pos[s]), 2)
         IN /\ IsState(u) /\ Exact(u)
            /\ u.sheets = r.sheets /\ u.pos = h.pos /\ u.vram = h.vram /\ u.buf = h.buf
<1> DEFINE r == [h EXCEPT !.sheets = Reordered(h, s, 2)]
           area == AreaOf(s, h.pos[s])
           u == update_zmap(r, area, 2)
<1>0. s \in Sheet /\ h.pos[s] \in Int \X Int
  BY DesktopAssumption DEF IsState
<1>1. /\ IsState(r) /\ r.pos = h.pos /\ r.zMap = h.zMap /\ r.vram = h.vram /\ r.buf = h.buf
      /\ SheetAt(r, 0) = SheetAt(h, 0) /\ SheetAt(r, 1) = SheetAt(h, 2)
      /\ SheetAt(r, 2) = SheetAt(h, 1) /\ SheetAt(r, 3) = SheetAt(h, 3)
      /\ SheetAt(h, 1) = s
  BY RaisedOrder
<1> HIDE DEF r, area
<1>2. /\ IsState(u) /\ u.sheets = r.sheets /\ u.pos = r.pos /\ u.vram = r.vram /\ u.buf = r.buf
      /\ \A p \in Pixels :
           \/ p \in area /\ TopFrom(r, p, 2, u.zMap[p])
           \/ (p \in area => \A k \in 2 .. 3 : ~ On(r, k, p)) /\ u.zMap[p] = r.zMap[p]
  BY <1>1, ZMapEffect
<1> HIDE DEF u
<1>3. ASSUME NEW p \in Pixels PROVE TopFrom(u, p, 0, u.zMap[p])
  <2>1. \A a, t : TopFrom(u, p, a, t) <=> TopFrom(r, p, a, t)
    BY <1>2, SamePlaces
  <2>2. CASE p \in area /\ TopFrom(r, p, 2, u.zMap[p])
    BY <2>1, <2>2 DEF TopFrom
  <2>3. CASE (p \in area => \A k \in 2 .. 3 : ~ On(r, k, p)) /\ u.zMap[p] = r.zMap[p]
    <3>1. /\ On(r, 0, p) <=> On(h, 0, p)
          /\ On(r, 1, p) <=> On(h, 2, p)
          /\ On(r, 2, p) <=> On(h, 1, p)
          /\ On(r, 3, p) <=> On(h, 3, p)
      BY <1>1 DEF On, Shows, Covers, InBuf
    <3>2. ~ On(h, 1, p)
      <4>1. CASE p \in area
        BY <2>3, <3>1, <4>1
      <4>2. CASE p \notin area
        <5>1. ~ Shows(h, s, p)
          BY <1>0, <4>2, OutOfArea DEF area
        <5> QED
          BY <1>1, <5>1 DEF On
      <4> QED
        BY <4>1, <4>2
    <3>3. PICK k \in 0 .. 3 : /\ h.zMap[p] = SheetAt(h, k) /\ On(h, k, p)
                              /\ \A j \in k + 1 .. 3 : ~ On(h, j, p)
      BY DEF Exact, TopFrom
    <3>4. TopFrom(r, p, 0, h.zMap[p])
      <4>1. CASE k = 0
        BY <1>1, <3>1, <3>2, <3>3, <4>1 DEF TopFrom
      <4>2. CASE k = 2
        <5>1. ~ On(h, 3, p)
          BY <3>3, <4>2
        <5>2. \A j \in 2 .. 3 : ~ On(r, j, p)
          BY <3>1, <3>2, <5>1
        <5> QED
          BY <1>1, <3>1, <3>3, <4>2, <5>2 DEF TopFrom
      <4>3. CASE k = 3
        BY <1>1, <3>1, <3>3, <4>3 DEF TopFrom
      <4> QED
        BY <3>2, <3>3, <4>1, <4>2, <4>3
    <3> QED
      BY <1>1, <2>1, <2>3, <3>4
  <2> QED
    BY <1>2, <2>2, <2>3
<1>4. /\ IsState(u) /\ Exact(u)
      /\ u.sheets = r.sheets /\ u.pos = h.pos /\ u.vram = h.vram /\ u.buf = h.buf
  BY <1>1, <1>2, <1>3 DEF Exact
<1> QED
  BY <1>4 DEF u, r, area

(* sheet_updown, as a click uses it, keeps the map exact. *)
LEMMA RaiseKeeps ==
  ASSUME NEW h, IsState(h), Exact(h), NEW s \in {"window", "console"}
  PROVE  IsState(updown(h, s, 2)) /\ Exact(updown(h, s, 2))
<1>1. z(h, s) \in 1 .. 2
  <2>1. z(h, s) \in 1 .. 3 /\ \A k \in 0 .. 3 : SheetAt(h, k) = s <=> k = z(h, s)
    BY Depth DEF Movable
  <2> QED
    BY <2>1, Depths
<1>2. CASE z(h, s) = 2
  <2>1. updown(h, s, 2) = h
    BY <1>2 DEF updown
  <2> QED
    BY <2>1
<1>3. CASE z(h, s) = 1
  <2> DEFINE r == [h EXCEPT !.sheets = Reordered(h, s, 2)]
             u == update_zmap(r, AreaOf(s, h.pos[s]), 2)
  <2>1. updown(h, s, 2) = Move(h, s, 2)
    BY <1>3, Depths DEF updown
  <2>2. Move(h, s, 2) = update_with_screenxy(u, AreaOf(s, h.pos[s]), 2, 2)
    BY <1>3 DEF Move
  <2>3. IsState(u) /\ Exact(u)
    BY <1>3, RaiseMaps
  <2> HIDE DEF u
  <2> QED
    BY <2>1, <2>2, <2>3, DrawKeeps
<1> QED
  BY <1>1, <1>2, <1>3

----
(* ps2mouse_decode keeps bytes and distances. *)
LEMMA DecodeKeeps ==
  ASSUME MouseOK(mouse), NEW byte \in Bytes
  PROVE  MouseOK(decode(mouse, byte))
<1> DEFINE n == IF byte = 250 THEN [mouse EXCEPT !.phase = 1] ELSE mouse
           m1 == [n EXCEPT !.phase = 2, !.buf[1] = byte]
           m2 == [n EXCEPT !.phase = 3, !.buf[2] = byte]
           m3 == [n EXCEPT !.phase = 1, !.btn = n.buf[1] % 8,
                           !.x = glue(IsSet(n.buf[1], 16), n.buf[2]),
                           !.y = glue(IsSet(n.buf[1], 32), byte)]
<1>0. byte \in 0 .. 255
  BY DesktopAssumption
<1>1. MouseOK(n)
  BY DEF MouseOK
<1>2. decode(mouse, byte) \in {m1, m2, m3, n}
  BY DEF decode
<1> HIDE DEF n
<1>3. MouseOK(m1)
  BY <1>0, <1>1 DEF MouseOK
<1>4. MouseOK(m2)
  BY <1>0, <1>1 DEF MouseOK
<1>5. MouseOK(m3)
  <2>1. /\ glue(IsSet(n.buf[1], 16), n.buf[2]) \in Int
        /\ glue(IsSet(n.buf[1], 32), byte) \in Int
    BY <1>0, <1>1 DEF MouseOK, glue
  <2> QED
    BY <1>1, <2>1 DEF MouseOK
<1> HIDE DEF m1, m2, m3
<1> QED
  BY <1>1, <1>2, <1>3, <1>4, <1>5

(* Painting into a buffer. *)
LEMMA BufferKeeps ==
  ASSUME NEW h, IsState(h), Exact(h), NEW b
  PROVE  LET u == [h EXCEPT !.buf = b] IN IsState(u) /\ Exact(u)
<1> DEFINE u == [h EXCEPT !.buf = b]
<1>1. DOMAIN u = DOMAIN h /\ u.sheets = h.sheets /\ u.pos = h.pos /\ u.zMap = h.zMap
  BY DEF IsState, Fields
<1> HIDE DEF u
<1>2. IsState(u) /\ Exact(u)
  BY <1>1, SameMap
<1> QED
  BY <1>2 DEF u

LEMMA TitledKeeps ==
  ASSUME NEW h, IsState(h), Exact(h), NEW s, NEW active
  PROVE  IsState(Titled(h, s, active)) /\ Exact(Titled(h, s, active))
<1> DEFINE t == [b \in BufPixels(s) |-> IF b[2] < TitleRows THEN (IF active THEN 1 ELSE 0) ELSE h.buf[s][b]]
           bb == [h.buf EXCEPT ![s] = t]
<1>1. Titled(h, s, active) = [h EXCEPT !.buf = bb]
  BY DEF Titled, IsState, Fields
<1> HIDE DEF bb
<1> QED
  BY <1>1, BufferKeeps

(* Copying a sheet's rectangle. *)
LEMMA UpdateKeeps ==
  ASSUME NEW h, IsState(h), Exact(h), NEW s, NEW x0, NEW y0, NEW x1, NEW y1
  PROVE  IsState(update_sheet(h, s, x0, y0, x1, y1)) /\ Exact(update_sheet(h, s, x0, y0, x1, y1))
  BY DrawKeeps DEF update_sheet

LEMMA MouseByteKeeps ==
  ASSUME Inv, NEW byte \in Bytes, MouseByte(byte)
  PROVE  Inv'
<1> DEFINE m == decode(mouse, byte)
           to == Pointed(m)
           h == slide(g, "mouse", to)
           selected == Under(pointer)
<1>0. IsState(g) /\ Exact(g) /\ MouseOK(mouse) /\ pointer \in Int \X Int
  BY DEF Inv
<1>1. MouseOK(m)
  BY <1>0, DecodeKeeps
<1>2. to \in Int \X Int
  <2>1. m.x \in Int /\ m.y \in Int /\ pointer[1] \in Int /\ pointer[2] \in Int
    BY <1>0, <1>1 DEF MouseOK
  <2> HIDE DEF m
  <2> QED
    BY <2>1, DesktopAssumption DEF Pointed, Clamped
<1>3. mouse' = m /\ pointer' = to
  BY DEF MouseByte
<1>4. \/ g' = h
      \/ selected \in {"window", "console"} /\ g' = Dragged(Raised(h, selected), selected, to)
      \/ g' = Deactivated(h)
  BY DEF MouseByte
<1> HIDE DEF m, to, selected
<1>5. IsState(h) /\ Exact(h)
  BY <1>0, <1>2, SlideKeeps DEF Movable
<1> HIDE DEF h
<1>6. ASSUME selected \in {"window", "console"}, g' = Dragged(Raised(h, selected), selected, to)
      PROVE  IsState(g') /\ Exact(g')
  <2> DEFINE s == selected
             t == Titled(Titled(h, s, TRUE), Other(s), FALSE)
             r == updown(t, s, 2)
             w == Raised(h, s)
  <2>1. IsState(Titled(h, s, TRUE)) /\ Exact(Titled(h, s, TRUE))
    BY <1>5, TitledKeeps
  <2>2. IsState(t) /\ Exact(t)
    BY <2>1, TitledKeeps
  <2>3. zTop(h) - 1 = 2
    BY <1>5, Depths
  <2>4. w = RedrawTitle(r, Other(s))
    BY <2>3 DEF Raised
  <2> HIDE DEF t
  <2>5. IsState(r) /\ Exact(r)
    BY <1>6, <2>2, RaiseKeeps
  <2> HIDE DEF r, w
  <2>6. IsState(w) /\ Exact(w)
    BY <2>4, <2>5, UpdateKeeps DEF RedrawTitle
  <2>7. <<w.pos[s][1] + to[1] - pointer[1], w.pos[s][2] + to[2] - pointer[2]>> \in Int \X Int
    <3>1. w.pos[s] \in Int \X Int
      BY <1>6, <2>6, DesktopAssumption DEF IsState
    <3> HIDE DEF s
    <3> QED
      BY <1>0, <1>2, <3>1
  <2>8. s \in Movable
    BY <1>6 DEF Movable
  <2>9. g' = slide(w, s, <<w.pos[s][1] + to[1] - pointer[1], w.pos[s][2] + to[2] - pointer[2]>>)
    BY <1>6 DEF Dragged, w
  <2> HIDE DEF s
  <2> QED
    BY <2>6, <2>7, <2>8, <2>9, SlideKeeps
<1>7. ASSUME g' = Deactivated(h) PROVE IsState(g') /\ Exact(g')
  <2> DEFINE t == Titled(Titled(h, "window", FALSE), "console", FALSE)
             r == RedrawTitle(t, "window")
  <2>1. IsState(Titled(h, "window", FALSE)) /\ Exact(Titled(h, "window", FALSE))
    BY <1>5, TitledKeeps
  <2>2. IsState(t) /\ Exact(t)
    BY <2>1, TitledKeeps
  <2> HIDE DEF t
  <2>3. IsState(r) /\ Exact(r)
    BY <2>2, UpdateKeeps DEF RedrawTitle
  <2>4. g' = RedrawTitle(r, "console")
    BY <1>7 DEF Deactivated, t
  <2> HIDE DEF r
  <2> QED
    BY <2>3, <2>4, UpdateKeeps DEF RedrawTitle
<1>8. IsState(g') /\ Exact(g')
  BY <1>4, <1>5, <1>6, <1>7
<1>9. IsState(g)' /\ Exact(g)' /\ MouseOK(mouse)' /\ (pointer \in Int \X Int)'
  BY <1>1, <1>2, <1>3, <1>8
<1> QED
  BY <1>9 DEF Inv

LEMMA RenderClockKeeps ==
  ASSUME Inv, RenderClock
  PROVE  Inv'
<1> DEFINE b == [g.buf EXCEPT !["window"][CounterPixel] = 1 - @]
           h == [g EXCEPT !.buf = b]
<1>1. IsState(g) /\ Exact(g)
  BY DEF Inv
<1>2. [g EXCEPT !.buf["window"][CounterPixel] = 1 - @] = h
  BY <1>1 DEF IsState, Fields
<1> HIDE DEF b
<1>3. IsState(h) /\ Exact(h)
  BY <1>1, BufferKeeps
<1> HIDE DEF h
<1>4. g' = update_sheet(h, "window", CounterPixel[1], CounterPixel[2], CounterPixel[1] + 1, CounterPixel[2] + 1)
  BY <1>2 DEF RenderClock
<1>5. IsState(g') /\ Exact(g')
  BY <1>3, <1>4, UpdateKeeps
<1>6. UNCHANGED <<mouse, pointer>>
  BY DEF RenderClock
<1> QED
  BY <1>5, <1>6 DEF Inv

LEMMA ConsoleKeeps ==
  ASSUME Inv, ConsoleStep
  PROVE  Inv'
<1>0. IsState(g) /\ Exact(g) /\ MouseOK(mouse) /\ pointer \in Int \X Int
  BY DEF Inv
<1>1. ASSUME NEW origin, Paint(origin) PROVE Inv'
  <2> DEFINE b == [g.buf EXCEPT !["console"][TextPixel] = 1 - @]
  <2>1. g' = [g EXCEPT !.buf = b]
    BY <1>0, <1>1 DEF Paint, IsState, Fields
  <2> HIDE DEF b
  <2>2. IsState(g') /\ Exact(g')
    BY <1>0, <2>1, BufferKeeps
  <2>3. UNCHANGED <<mouse, pointer>>
    BY <1>1 DEF Paint
  <2> QED
    BY <1>0, <2>2, <2>3 DEF Inv
<1>2. ASSUME UpdateWrite PROVE Inv'
  <2>1. /\ g' = [g EXCEPT !.vram[PixelAt(con.at)] = con.color] \/ g' = g
        /\ UNCHANGED <<mouse, pointer>>
    BY <1>2 DEF UpdateWrite
  <2>2. DOMAIN g' = DOMAIN g /\ g'.sheets = g.sheets /\ g'.pos = g.pos /\ g'.zMap = g.zMap
    BY <1>0, <2>1 DEF IsState, Fields
  <2>3. IsState(g') /\ Exact(g')
    BY <1>0, <2>2, SameMap
  <2> QED
    BY <1>0, <2>1, <2>3 DEF Inv
<1>3. ASSUME \/ UpdateSheet \/ UpdateEnter \/ UpdateRow \/ UpdateColumn \/ UpdateColor
             \/ UpdateTest \/ UpdateDone
      PROVE  Inv'
  <2>1. UNCHANGED <<g, mouse, pointer>>
    BY <1>3 DEF UpdateSheet, UpdateEnter, UpdateRow, UpdateColumn, UpdateColor, UpdateTest, UpdateDone
  <2> QED
    BY <1>0, <2>1 DEF Inv
<1> QED
  BY <1>1, <1>2, <1>3 DEF ConsoleStep, PutChar, Blink

(* sheet_updown puts a sheet that was hidden at the end of the list. *)
LEMMA Push2 ==
  ASSUME NEW a, NEW b
  PROVE  Append(<<a>>, b) = <<a, b>>
<1> DEFINE S == {a, b}
           t == Append(<<a>>, b)
           u == <<a, b>>
<1>1. <<a>> \in Seq(S) /\ b \in S /\ u \in Seq(S)
  OBVIOUS
<1>2. t \in Seq(S)
  BY <1>1
<1>3. Len(t) = 2 /\ Len(u) = 2 /\ t[1] = u[1] /\ t[2] = u[2]
  BY <1>1
<1> HIDE DEF t, u
<1>4. Len(t) = Len(u) /\ \A i \in 1 .. Len(t) : t[i] = u[i]
  BY <1>3
<1>5. t = u
  BY <1>1, <1>2, <1>4, SeqEqual, Zenon
<1> QED
  BY <1>5 DEF t, u

LEMMA Push3 ==
  ASSUME NEW a, NEW b, NEW c
  PROVE  Append(<<a, b>>, c) = <<a, b, c>>
<1> DEFINE S == {a, b, c}
           t == Append(<<a, b>>, c)
           u == <<a, b, c>>
<1>1. <<a, b>> \in Seq(S) /\ c \in S /\ u \in Seq(S)
  OBVIOUS
<1>2. t \in Seq(S)
  BY <1>1
<1>3. Len(t) = 3 /\ Len(u) = 3 /\ t[1] = u[1] /\ t[2] = u[2] /\ t[3] = u[3]
  BY <1>1
<1> HIDE DEF t, u
<1>4. Len(t) = Len(u) /\ \A i \in 1 .. Len(t) : t[i] = u[i]
  BY <1>3
<1>5. t = u
  BY <1>1, <1>2, <1>4, SeqEqual, Zenon
<1> QED
  BY <1>5 DEF t, u

LEMMA Push4 ==
  ASSUME NEW a, NEW b, NEW c, NEW d
  PROVE  Append(<<a, b, c>>, d) = <<a, b, c, d>>
<1> DEFINE S == {a, b, c, d}
           t == Append(<<a, b, c>>, d)
           u == <<a, b, c, d>>
<1>1. <<a, b, c>> \in Seq(S) /\ d \in S /\ u \in Seq(S)
  OBVIOUS
<1>2. t \in Seq(S)
  BY <1>1
<1>3. Len(t) = 4 /\ Len(u) = 4 /\ t[1] = u[1] /\ t[2] = u[2] /\ t[3] = u[3] /\ t[4] = u[4]
  BY <1>1
<1> HIDE DEF t, u
<1>4. Len(t) = Len(u) /\ \A i \in 1 .. Len(t) : t[i] = u[i]
  BY <1>3
<1>5. t = u
  BY <1>1, <1>2, <1>4, SeqEqual, Zenon
<1> QED
  BY <1>5 DEF t, u

(* sheet_initialize shows all four sheets and computes the map of the whole
   screen. *)
LEMMA InitKeeps == DesktopInit => Inv
<1> SUFFICES ASSUME DesktopInit PROVE Inv
  OBVIOUS
<1> DEFINE b0 == Blank
           b1 == updown(b0, "desktop", 0)
           b2 == updown(b1, "window", 1)
           b3 == updown(b2, "console", 2)
           b4 == updown(b3, "mouse", 3)
           area == Area(0, 0, XSize, YSize)
           mapped == update_zmap(b4, area, 0)
<1>1. g = update_with_screenxy(mapped, area, 0, -1)
  BY DEF DesktopInit, sheet_initialize
<1>2. /\ DOMAIN b0 = Fields /\ b0.sheets = <<>>
      /\ b0.pos \in [Sheet -> Int \X Int] /\ b0.pos["desktop"] = <<0, 0>>
  <2>1. XSize - Width["mouse"] \in Int /\ YSize - Height["mouse"] \in Int
    BY DesktopAssumption
  <2>2. (XSize - Width["mouse"]) \div 2 \in Int /\ (YSize - Height["mouse"]) \div 2 \in Int
    BY <2>1
  <2>3. "desktop" \in Sheet
    BY DesktopAssumption
  <2> DEFINE ps == [s \in Sheet |-> CASE s = "desktop" -> <<0, 0>> [] s = "window" -> WindowAt
              [] s = "console" -> ConsoleAt
              [] s = "mouse" -> <<(XSize - Width[s]) \div 2, (YSize - Height[s]) \div 2>>]
  <2>4. ASSUME NEW s \in Sheet PROVE ps[s] \in Int \X Int
    BY <2>2, DesktopAssumption
  <2>5. ps \in [Sheet -> Int \X Int] /\ ps["desktop"] = <<0, 0>>
    BY <2>3, <2>4
  <2>6. b0.pos = ps /\ b0.sheets = <<>> /\ DOMAIN b0 = Fields
    BY DEF Blank, Fields
  <2> QED
    BY <2>5, <2>6
<1> HIDE DEF b0
<1>3. ASSUME NEW h, DOMAIN h = Fields, NEW s, h.sheets \in Seq(Sheet), s \notin Range(h.sheets)
      PROVE  LET u == updown(h, s, Len(h.sheets))
             IN DOMAIN u = Fields /\ u.pos = h.pos /\ u.sheets = Append(h.sheets, s)
  <2> DEFINE n == Len(h.sheets)
             a == AreaOf(s, h.pos[s])
             r == [h EXCEPT !.sheets = Append(@, s)]
             m == update_zmap(r, a, zTop(h) + 1)
             u == update_with_screenxy(m, a, zTop(h) + 1, zTop(h) + 1)
  <2>1. z(h, s) = -1 /\ n \in Nat /\ zTop(h) = n - 1
    BY <1>3 DEF z, zTop
  <2>2. updown(h, s, n) = u
    <3>1. z(h, s) # n /\ z(h, s) < 0 /\ n > zTop(h) /\ ~ (z(h, s) >= 0)
      BY <2>1
    <3>2. updown(h, s, n) = Show(h, s)
      BY <3>1 DEF updown
    <3> QED
      BY <3>2 DEF Show
  <2>3. DOMAIN r = Fields /\ r.pos = h.pos /\ r.sheets = Append(h.sheets, s)
    BY <1>3 DEF Fields
  <2> HIDE DEF r
  <2>4. DOMAIN m = Fields /\ m.pos = r.pos /\ m.sheets = r.sheets
    BY <2>3 DEF update_zmap, Fields
  <2> HIDE DEF m
  <2>5. DOMAIN u = Fields /\ u.pos = m.pos /\ u.sheets = m.sheets
    BY <2>4 DEF update_with_screenxy, Fields
  <2> QED
    BY <2>2, <2>3, <2>4, <2>5
<1>4. DOMAIN b1 = Fields /\ b1.pos = b0.pos /\ b1.sheets = <<"desktop">>
  <2>1. b0.sheets \in Seq(Sheet) /\ "desktop" \notin Range(b0.sheets) /\ Len(b0.sheets) = 0
    BY <1>2 DEF Range
  <2>2. b1 = updown(b0, "desktop", Len(b0.sheets))
    BY <2>1
  <2> HIDE DEF b1
  <2>3. DOMAIN b1 = Fields /\ b1.pos = b0.pos /\ b1.sheets = Append(b0.sheets, "desktop")
    BY <1>2, <1>3, <2>1, <2>2, Zenon
  <2>4. Append(<<>>, "desktop") = <<"desktop">>
    OBVIOUS
  <2> QED
    BY <1>2, <2>3, <2>4
<1> HIDE DEF b1
<1>5. DOMAIN b2 = Fields /\ b2.pos = b0.pos /\ b2.sheets = <<"desktop", "window">>
  <2>1. b1.sheets \in Seq(Sheet) /\ "window" \notin Range(b1.sheets) /\ Len(b1.sheets) = 1
    BY <1>4, DesktopAssumption DEF Range
  <2>2. b2 = updown(b1, "window", Len(b1.sheets))
    BY <2>1
  <2> HIDE DEF b2
  <2>3. DOMAIN b2 = Fields /\ b2.pos = b1.pos /\ b2.sheets = Append(b1.sheets, "window")
    BY <1>4, <1>3, <2>1, <2>2, Zenon
  <2>4. Append(<<"desktop">>, "window") = <<"desktop", "window">>
    BY Push2, Zenon
  <2> QED
    BY <1>4, <2>3, <2>4
<1> HIDE DEF b2
<1>6. DOMAIN b3 = Fields /\ b3.pos = b0.pos /\ b3.sheets = <<"desktop", "window", "console">>
  <2>1. b2.sheets \in Seq(Sheet) /\ "console" \notin Range(b2.sheets) /\ Len(b2.sheets) = 2
    BY <1>5, DesktopAssumption DEF Range
  <2>2. b3 = updown(b2, "console", Len(b2.sheets))
    BY <2>1
  <2> HIDE DEF b3
  <2>3. DOMAIN b3 = Fields /\ b3.pos = b2.pos /\ b3.sheets = Append(b2.sheets, "console")
    BY <1>5, <1>3, <2>1, <2>2, Zenon
  <2>4. Append(<<"desktop", "window">>, "console") = <<"desktop", "window", "console">>
    BY Push3, Zenon
  <2> QED
    BY <1>5, <2>3, <2>4
<1> HIDE DEF b3
<1>7. DOMAIN b4 = Fields /\ b4.pos = b0.pos /\ b4.sheets = <<"desktop", "window", "console", "mouse">>
  <2>1. b3.sheets \in Seq(Sheet) /\ "mouse" \notin Range(b3.sheets) /\ Len(b3.sheets) = 3
    BY <1>6, DesktopAssumption DEF Range
  <2>2. b4 = updown(b3, "mouse", Len(b3.sheets))
    BY <2>1
  <2> HIDE DEF b4
  <2>3. DOMAIN b4 = Fields /\ b4.pos = b3.pos /\ b4.sheets = Append(b3.sheets, "mouse")
    BY <1>6, <1>3, <2>1, <2>2, Zenon
  <2>4. Append(<<"desktop", "window", "console">>, "mouse") = <<"desktop", "window", "console", "mouse">>
    BY Push4, Zenon
  <2> QED
    BY <1>6, <2>3, <2>4
<1> HIDE DEF b4
<1>8. IsState(b4)
  BY <1>2, <1>7 DEF IsState, Orders
<1>9. Pixels \subseteq area
  BY DesktopAssumption DEF Area, Clamped, Pixels
<1> HIDE DEF area
<1>10. /\ IsState(mapped) /\ mapped.sheets = b4.sheets /\ mapped.pos = b4.pos
       /\ \A p \in Pixels :
            \/ p \in area /\ TopFrom(b4, p, 0, mapped.zMap[p])
            \/ (p \in area => \A k \in 0 .. 3 : ~ On(b4, k, p)) /\ mapped.zMap[p] = b4.zMap[p]
  BY <1>8, ZMapEffect
<1> HIDE DEF mapped
<1>11. ASSUME NEW p \in Pixels PROVE TopFrom(mapped, p, 0, mapped.zMap[p])
  <2>1. On(b4, 0, p)
    BY <1>8, DesktopShows
  <2>2. TopFrom(b4, p, 0, mapped.zMap[p])
    BY <1>9, <1>10, <2>1
  <2> QED
    BY <1>10, <2>2, SamePlaces
<1>12. IsState(g) /\ Exact(g)
  BY <1>1, <1>10, <1>11, DrawKeeps DEF Exact
<1>13. MouseOK(mouse)
  BY DEF DesktopInit, MouseOK
<1>14. pointer \in Int \X Int
  BY DesktopAssumption DEF DesktopInit
<1> QED
  BY <1>12, <1>13, <1>14 DEF Inv

LEMMA StepKeeps == Inv /\ [DesktopNext]_desktopVars => Inv'
<1> SUFFICES ASSUME Inv, [DesktopNext]_desktopVars PROVE Inv'
  OBVIOUS
<1>1. CASE UNCHANGED desktopVars
  <2>1. UNCHANGED <<g, mouse, pointer>>
    BY <1>1 DEF desktopVars
  <2> QED
    BY <2>1 DEF Inv
<1> QED
  BY <1>1, MouseByteKeeps, RenderClockKeeps, ConsoleKeeps DEF DesktopNext

(* zMap names the topmost visible sheet at every pixel, after every handler,
   for a screen and sheets of any size, wherever sheet_slide has put them and
   in whatever order sheet_updown has raised them. *)
THEOREM ZMapAlwaysTop == DesktopSpec => []ZMapTop
<1>1. Inv => ZMapTop
  <2> SUFFICES ASSUME Inv, NEW p \in Pixels PROVE g.zMap[p] = TopSheet(g, p)
    BY DEF ZMapTop
  <2> DEFINE C == {k \in 0 .. zTop(g) : Shows(g, SheetAt(g, k), p)}
  <2>1. IsState(g) /\ TopFrom(g, p, 0, g.zMap[p])
    BY DEF Inv, Exact
  <2>2. /\ C # {} => TopFrom(g, p, 0, SheetAt(g, Max(C)))
        /\ C = {} => \A k \in 0 .. 3 : ~ On(g, k, p)
    <3>1. 0 \in 0 .. 3
      OBVIOUS
    <3> QED
      BY <2>1, <3>1, ClaimsTop, Zenon
  <2>3. On(g, 0, p)
    BY <2>1, DesktopShows
  <2>4. TopSheet(g, p) = SheetAt(g, Max(C))
    BY DEF TopSheet
  <2> HIDE DEF C
  <2>5. TopFrom(g, p, 0, TopSheet(g, p))
    BY <2>2, <2>3, <2>4
  <2> QED
    BY <2>1, <2>5, TopUnique
<1> QED
  BY <1>1, InitKeeps, StepKeeps, PTL DEF DesktopSpec
====
