------------------------------- MODULE Raster -------------------------------
(***************************************************************************)
(* The drawing routines of src/gfx/fb.c, each against what its shape is.   *)
(* A surface is SurfW by SurfH pixels with SurfPitch pixels from one line  *)
(* to the next; a routine is modelled by the set of pixel indices it       *)
(* writes, so that a write past a line or past the surface shows.  int and *)
(* uint32_t have IntBits bits and fixed point FxShift bits after the       *)
(* point; sizes of the widgets are those of the code divided by 2.         *)
(*                                                                         *)
(* The loops are recursive functions of the number of turns.  Triangles    *)
(* are filled with float slopes and points on an arc come from CORDIC;     *)
(* both are left out, and arcs and sectors appear as the directions that   *)
(* their angles are converted to.                                          *)
(***************************************************************************)
EXTENDS Integers, Sequences, FiniteSets, FiniteSetsExt, Functions

CONSTANTS SurfW, SurfH, SurfPitch, IntBits, FxShift,
          AngleFull,          \* ANGLE_FULL_BRAD (65536): the full turn of a direction
          TenthsFull,         \* ANGLE_FULL_TENTHS (3600): the full turn of an angle
          SectorStep,         \* 15
          RasterCalls         \* the calls considered: [op, ...arguments]

VARIABLES rasCall, rasDrawn   \* the call made, and its op with what it wrote or visited

rasVars == <<rasCall, rasDrawn>>

IntMod == 2 ^ IntBits
U(n) == n % IntMod
S(n) == IF U(n) >= IntMod \div 2 THEN U(n) - IntMod ELSE U(n)
Abs(n) == IF n < 0 THEN -n ELSE n
Quotient(a, b) == IF a < 0 THEN -((-a) \div b) ELSE a \div b
Pixel(x, y) == y * SurfPitch + x
On(points) == {Pixel(p[1], p[2]) : p \in {q \in points : q[1] \in 0..(SurfW - 1) /\ q[2] \in 0..(SurfH - 1)}}
-----------------------------------------------------------------------------
\* gfx_put_pixel: the coordinates are unsigned, a negative one is out of range.
gfx_put_pixel(x, y) == IF U(x) >= SurfW \/ U(y) >= SurfH THEN {} ELSE {Pixel(U(x), U(y))}

\* gfx_fill_rect: x + w and y + h are taken modulo the word.
Clipped(at, size, limit) == IF U(at + size) > limit THEN U(limit - at) ELSE U(size)
gfx_fill_rect(x, y, w, h) ==
    IF U(x) >= SurfW \/ U(y) >= SurfH THEN {}
    ELSE {Pixel(U(x) + col, row) : col \in 0..(Clipped(U(x), w, SurfW) - 1),
                                   row \in U(y)..(U(U(y) + Clipped(U(y), h, SurfH)) - 1)}
gfx_hline(x, y, w) == gfx_fill_rect(x, y, w, 1)
gfx_vline(x, y, h) == gfx_fill_rect(x, y, 1, h)

\* The points of a line: gfx_draw_line compares the doubled error with >= and <=,
\* gfx_draw_line_thick with > and <.
StepsX(e2, dy, thick) == IF thick THEN e2 > dy ELSE e2 >= dy
StepsY(e2, dx, thick) == IF thick THEN e2 < dx ELSE e2 <= dx
LinePoints(x0, y0, x1, y1, thick) ==
    LET dx == Abs(x1 - x0)
        dy == -Abs(y1 - y0)
        Turn[n \in 0..(dx - dy)] ==
            IF n = 0 THEN [x |-> x0, y |-> y0, err |-> dx + dy]
            ELSE LET t == Turn[n - 1]
                     e2 == 2 * t.err
                     goX == StepsX(e2, dy, thick)
                     goY == StepsY(e2, dx, thick)
                 IN  IF t.x = x1 /\ t.y = y1 THEN t
                     ELSE [x |-> IF goX THEN t.x + (IF x0 < x1 THEN 1 ELSE -1) ELSE t.x,
                           y |-> IF goY THEN t.y + (IF y0 < y1 THEN 1 ELSE -1) ELSE t.y,
                           err |-> t.err + (IF goX THEN dy ELSE 0) + (IF goY THEN dx ELSE 0)]
    IN  {<<Turn[n].x, Turn[n].y>> : n \in DOMAIN Turn}
gfx_draw_line(x0, y0, x1, y1) ==
    UNION {gfx_put_pixel(p[1], p[2]) : p \in LinePoints(x0, y0, x1, y1, FALSE)}
gfx_draw_rect(x, y, w, h) ==
    gfx_draw_line(x, y, x + w, y) \union gfx_draw_line(x, y, x, y + h)
    \union gfx_draw_line(x + w, y, x + w, y + h) \union gfx_draw_line(x, y + h, x + w, y + h)

\* The midpoint algorithm: one octant, reflected into the others.
Octant(radius) ==
    LET Turn[n \in 0..(2 * radius)] ==
            IF n = 0 THEN [x |-> radius - 1, y |-> 0, dx |-> 1, dy |-> 1, err |-> 1 - 2 * radius]
            ELSE LET t == Turn[n - 1]
                     up == t.err <= 0
                     err == IF up THEN t.err + t.dy ELSE t.err
                 IN  IF t.x < t.y THEN t
                     ELSE [x |-> IF err > 0 THEN t.x - 1 ELSE t.x, y |-> IF up THEN t.y + 1 ELSE t.y,
                           dx |-> IF err > 0 THEN t.dx + 2 ELSE t.dx, dy |-> IF up THEN t.dy + 2 ELSE t.dy,
                           err |-> IF err > 0 THEN err + t.dx + 2 - 2 * radius ELSE err]
    IN  {<<Turn[n].x, Turn[n].y>> : n \in {m \in DOMAIN Turn : Turn[m].x >= Turn[m].y}}
Reflected(p) == {<<s * p[1], t * p[2]>> : s, t \in {1, -1}} \union {<<s * p[2], t * p[1]>> : s, t \in {1, -1}}
CirclePoints(radius) == IF radius <= 0 THEN {} ELSE UNION {Reflected(p) : p \in Octant(radius)}
gfx_draw_circle(cx, cy, radius) == UNION {gfx_put_pixel(cx + p[1], cy + p[2]) : p \in CirclePoints(radius)}

\* fx_sqrt: binary digits from the top; the argument is an int, negative after an
\* overflow of fx_from_int.
fx_from_int(i) == S(i * 2 ^ FxShift)
fx_to_int(f) == f \div 2 ^ FxShift
fx_sqrt(x) ==
    LET Turn[n \in 0..(IntBits \div 2)] ==
            IF n = 0 THEN [v |-> x, res |-> 0]
            ELSE LET t == Turn[n - 1]
                     bit == 4 ^ (IntBits \div 2 - n)
                 IN  IF bit > x THEN t
                     ELSE IF t.v >= t.res + bit THEN [v |-> t.v - t.res - bit, res |-> t.res \div 2 + bit]
                     ELSE [t EXCEPT !.res = @ \div 2]
    IN  IF x <= 0 THEN 0 ELSE Turn[IntBits \div 2].res * 2 ^ (FxShift \div 2)

\* The plausible slip: only the right end of a row is clipped.
Row_NoLeft(x0, x1) == x0..(IF x1 >= SurfW THEN SurfW - 1 ELSE x1)
Row(x0, x1) == (IF x0 < 0 THEN 0 ELSE x0)..(IF x1 >= SurfW THEN SurfW - 1 ELSE x1)
gfx_fill_circle(cx, cy, radius) ==
    LET Half(y) == fx_to_int(fx_sqrt(fx_from_int(radius * radius - y * y)))
    IN  IF radius <= 0 THEN {}
        ELSE UNION {{Pixel(x, cy + y) : x \in Row(cx - Half(y), cx + Half(y))} :
                        y \in {r \in (-radius)..radius : cy + r \in 0..(SurfH - 1)}}
gfx_draw_line_thick(x0, y0, x1, y1, thickness) ==
    IF thickness <= 1 THEN gfx_draw_line(x0, y0, x1, y1)
    ELSE UNION {gfx_fill_circle(p[1], p[2], thickness \div 2) : p \in LinePoints(x0, y0, x1, y1, TRUE)}

\* gfx_draw_char of a glyph whose pixels are all set: nothing when its corner is
\* not on the surface.
gfx_draw_char(x, y) ==
    IF U(x) >= SurfW \/ U(y) >= SurfH THEN {}
    ELSE UNION {gfx_put_pixel(U(x) + col, U(y) + row) : col, row \in 0..3}
gfx_draw_string(x, y, length) == UNION {gfx_draw_char(x + 4 * i, y) : i \in 0..(length - 1)}
-----------------------------------------------------------------------------
\* gfx_bevel_in and gfx_bevel_out, but for the colours.
gfx_bevel(x, y, w, h) ==
    gfx_hline(x, y, w) \union gfx_vline(x, y, h) \union gfx_hline(x, y + h - 1, w) \union gfx_vline(x + w - 1, y, h)

\* gfx_progress_bar: the frame and the background, then the filled part.
Filling(x, y, w, h, percent) ==
    LET fill_w == Quotient((w - 2) * percent, 100)
    IN  IF fill_w > 0 THEN gfx_fill_rect(x + 1, y + 1, fill_w, h - 2) ELSE {}
gfx_progress_bar(x, y, w, h, percent) ==
    gfx_fill_rect(x, y, w, h) \union gfx_bevel(x, y, w, h) \union Filling(x, y, w, h, percent)

\* gfx_button: the label is centred and not cut.
LabelX(x, w, length) == x + Quotient(w - 4 * length, 2)
gfx_button(x, y, w, h, length) ==
    gfx_fill_rect(x, y, w, h) \union gfx_bevel(x, y, w, h)
    \union gfx_draw_string(LabelX(x, w, length), y + Quotient(h - 4, 2), length)

\* gfx_list: the items shown and their offsets; a row is 10 high; the rows drawn end
\* with the selected one when it would not be seen otherwise.
Visible(h) == Quotient(h - 4, 10)
ListRows(h, count, selected) ==
    LET start == IF selected >= Visible(h) THEN selected - Visible(h) + 1 ELSE 0
    IN  {<<start + i, 2 + i * 10>> : i \in {j \in 0..(Visible(h) - 1) : start + j < count}}
-----------------------------------------------------------------------------
\* angle_to_bradians, and the direction that fx_sin_b and fx_cos_b make of it.
angle_to_bradians(tenths) == (tenths * AngleFull) \div TenthsFull
Direction(angle) == angle_to_bradians(angle) % AngleFull

\* The routines take angles modulo AngleFull, before they are converted.
Normal(a) == LET r == IF a < 0 THEN -((-a) % AngleFull) ELSE a % AngleFull IN IF r < 0 THEN r + AngleFull ELSE r

\* gfx_draw_arc: the directions of the points, one after the other.  The loop ends at
\* the end angle; the turns shown would go around twice.
gfx_draw_arc(start, end, step) ==
    LET s == Normal(start)
        e == Normal(end)
        Snap(a) == IF (e > s /\ a > e) \/ (e < s /\ a > e /\ a < s) THEN e ELSE a
        Turn[n \in 0..(2 * AngleFull)] ==
            IF n = 0 THEN s
            ELSE LET a == Turn[n - 1] IN IF a = e THEN e ELSE Snap((a + step) % AngleFull)
    IN  [n \in DOMAIN Turn |-> Direction(Turn[n])]
\* gfx_fill_sector: the triangles, each from one direction to the next.
gfx_fill_sector(start, end) ==
    LET s == Normal(start)
        e == Normal(end)
        NextA(a) == IF a + SectorStep > e THEN e ELSE a + SectorStep
        Turn[n \in 0..AngleFull] == IF n = 0 THEN s ELSE IF Turn[n - 1] = e THEN e ELSE NextA(Turn[n - 1])
    IN  {<<Direction(Turn[n - 1]), Direction(Turn[n])>> : n \in {m \in 1..AngleFull : Turn[m - 1] # e}}
-----------------------------------------------------------------------------
Written(c) ==
    CASE c.op = "rect"     -> gfx_fill_rect(c.x, c.y, c.w, c.h)
      [] c.op = "line"     -> gfx_draw_line(c.x, c.y, c.x1, c.y1)
      [] c.op = "thick"    -> gfx_draw_line_thick(c.x, c.y, c.x1, c.y1, c.w)
      [] c.op = "outline"  -> gfx_draw_rect(c.x, c.y, c.w, c.h)
      [] c.op = "circle"   -> gfx_draw_circle(c.x, c.y, c.w)
      [] c.op = "disc"     -> gfx_fill_circle(c.x, c.y, c.w)
      [] c.op = "string"   -> gfx_draw_string(c.x, c.y, c.w)
      [] c.op = "bevel"    -> gfx_bevel(c.x, c.y, c.w, c.h)
      [] c.op = "progress" -> gfx_progress_bar(c.x, c.y, c.w, c.h, c.percent)
      [] c.op = "button"   -> gfx_button(c.x, c.y, c.w, c.h, c.length)
      [] c.op = "list"     -> ListRows(c.h, c.count, c.selected)
      [] c.op = "arc"      -> gfx_draw_arc(c.start, c.end, c.step)
      [] c.op = "sector"   -> gfx_fill_sector(c.start, c.end)

RasInit == rasCall = [op |-> "none"] /\ rasDrawn = <<"none", {}>>
Draw == rasCall' \in RasterCalls /\ rasDrawn' = <<rasCall'.op, Written(rasCall')>>
RasNext == rasCall.op = "none" /\ Draw
-----------------------------------------------------------------------------
Box(x, y, w, h) == {<<c, r>> : c \in x..(x + w - 1), r \in y..(y + h - 1)}
Edge(x, y, w, h) == Box(x, y, w, h) \ Box(x + 1, y + 1, w - 2, h - 2)
Surface == On(Box(0, 0, SurfW, SurfH))
Placed(c) == c.x >= 0 /\ c.y >= 0 /\ c.w >= 0 /\ c.h >= 0

Disc(x, y, r) == {p \in Box(0, 0, SurfW, SurfH) : (p[1] - x) ^ 2 + (p[2] - y) ^ 2 <= r ^ 2}

\* Of a line: both ends, one point in each column (or row) of the longer side, and
\* each within half a pixel of the true line.
IsLine(points, x0, y0, x1, y1) ==
    LET dx == x1 - x0
        dy == y1 - y0
        long == IF Abs(dx) >= Abs(dy) THEN Abs(dx) ELSE Abs(dy)
    IN  /\ {<<x0, y0>>, <<x1, y1>>} \subseteq points /\ Cardinality(points) = long + 1
        /\ \A p \in points : 2 * Abs(dx * (p[2] - y0) - dy * (p[1] - x0)) <= long

\* Of a circle: between the circles of radius r - 1 and r, without a gap: every row
\* and column within r - 1 has a point.
IsCircle(points, r) ==
    /\ \A p \in points : (r - 1) * (r - 1) <= p[1] * p[1] + p[2] * p[2] /\ p[1] * p[1] + p[2] * p[2] <= r * r
    /\ \A i \in (1 - r)..(r - 1) : \E p, q \in points : p[1] = i /\ q[2] = i

\* The directions of an arc begin with its start, lie on the way to its end and end
\* there.
IsArc(turn, start, end) ==
    LET way == (angle_to_bradians(end) - angle_to_bradians(start)) % AngleFull
    IN  /\ turn[0] = Direction(start) /\ turn[2 * AngleFull] = Direction(end)
        /\ \A n \in DOMAIN turn : (turn[n] - Direction(start)) % AngleFull <= way

\* Angles that do not cross the full turn, in the order of the way between them.
Ordered(c) == 0 <= c.start /\ c.start <= c.end /\ c.end < TenthsFull

RectExact(c, d) ==
    /\ c.op = "rect" /\ Placed(c) => d = On(Box(c.x, c.y, c.w, c.h))
    /\ c.op = "rect" /\ (c.x < 0 \/ c.y < 0) => d = {}
    /\ c.op = "outline" /\ Placed(c) => d = On(Edge(c.x, c.y, c.w + 1, c.h + 1))

LineExact(c, d) ==
    /\ c.op \in {"line", "thick"} => \A thick \in BOOLEAN :
          IsLine(LinePoints(c.x, c.y, c.x1, c.y1, thick), c.x, c.y, c.x1, c.y1)
    /\ c.op = "line" => d = On(LinePoints(c.x, c.y, c.x1, c.y1, FALSE))
    /\ c.op = "thick" /\ c.w > 1 =>
          d = On(UNION {Disc(p[1], p[2], c.w \div 2) : p \in LinePoints(c.x, c.y, c.x1, c.y1, TRUE)})

RoundExact(c, d) ==
    /\ c.op = "circle" => d = On({<<c.x + p[1], c.y + p[2]>> : p \in CirclePoints(c.w)})
    /\ c.op = "circle" /\ c.w > 0 => IsCircle(CirclePoints(c.w), c.w)
    /\ c.op = "disc" /\ c.w > 0 /\ c.w * c.w < 2 ^ (IntBits - 1 - FxShift) => d = On(Disc(c.x, c.y, c.w))

WidgetExact(c, d) ==
    /\ c.op = "bevel" /\ Placed(c) /\ c.w > 0 /\ c.h > 0 => d = On(Edge(c.x, c.y, c.w, c.h))
    /\ c.op = "progress" /\ Placed(c) /\ c.w >= 2 /\ c.h >= 2 => d = On(Box(c.x, c.y, c.w, c.h))
    /\ c.op = "button" /\ Placed(c) /\ c.h >= 4 /\ 4 * c.length <= c.w => d = On(Box(c.x, c.y, c.w, c.h))
    /\ c.op = "list" =>
          /\ Visible(c.h) > 0 => \E row \in d : row[1] = c.selected
          /\ \A row \in d : row[1] \in 0..(c.count - 1) /\ row[2] + 10 <= c.h - 2

\* A sector: triangles of at most a step (one more for the rounding of its ends),
\* which together cover the way from its start to its end.
TurnExact(c, d) ==
    /\ c.op = "arc" /\ Ordered(c) => IsArc(d, c.start, c.end)
    /\ c.op = "sector" /\ Ordered(c) =>
          /\ UNION {t[1]..(t[2] - 1) : t \in d} = Direction(c.start)..(Direction(c.end) - 1)
          /\ \A t \in d : t[2] - t[1] \in 1..(angle_to_bradians(SectorStep) + 1)

\* What the routines of src/gfx/fb.c draw: a rectangle that starts on the surface
\* and has no negative size is painted exactly where it lies on the surface, one
\* that starts left of or above it not at all; lines, outlines, circles and discs
\* are the shapes they claim to be, clipped, a disc while the square of its radius
\* is representable in fixed point; widgets at least as large as their margins paint
\* exactly their own box; the selected item of a list is among the rows shown, which
\* lie in the list; and an arc and a sector whose angles, in tenths of degrees, lie
\* within one full turn and do not cross it end and cover the way from the one to
\* the other.  (Angles are taken modulo 65536 and not modulo 3600: an arc across the
\* full turn goes around up to 18 times and may miss its end.)
RasterExact ==
    LET d == rasDrawn[2]
    IN  /\ RectExact(rasCall, d) /\ LineExact(rasCall, d) /\ RoundExact(rasCall, d)
        /\ WidgetExact(rasCall, d) /\ TurnExact(rasCall, d)
        /\ rasCall.op \in {"string", "disc"} => d \subseteq Surface
=============================================================================
