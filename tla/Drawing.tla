------------------------------ MODULE Drawing -------------------------------
(***************************************************************************)
(* The drawing functions of csf_assign02 (c_drawing_funcs.c).  A struct    *)
(* Image is a record: width, height, data (a sequence of pixels, each the  *)
(* four bytes of a uint32_t from the highest one: r, g, b, a), intact,     *)
(* which is FALSE once a command has written outside of data or read       *)
(* outside of the data of a map; null: data is NULL.                       *)
(***************************************************************************)
EXTENDS Integers, Sequences, SequencesExt

CONSTANT UintSize  \* 2^32: unsigned arithmetic wraps here

ASSUME DrawingAssumption == UintSize \in Nat \ {0}

\* A byte that nobody has written: it can be any.
Undef == -1

\* An int32_t converted to, or computed as, a uint32_t.
U(n) == n % UintSize

Int32 == -(UintSize \div 2) .. (UintSize \div 2) - 1

\* struct Rect
Rect == [x : Int32, y : Int32, width : Int32, height : Int32]
-----------------------------------------------------------------------------
\* Mutant: the column may be one too far.
in_bounds_Inclusive(img, x, y) ==
  x >= 0 /\ y >= 0 /\ U(x) <= img.width /\ U(y) < img.height

in_bounds(img, x, y) ==
  x >= 0 /\ y >= 0 /\ U(x) < img.width /\ U(y) < img.height

compute_index(img, x, y) == U(y * img.width + x)

Alpha(color) == color[4]

blend_components(fg, bg, alpha) ==
  IF Undef \in {fg, bg, alpha}
    THEN Undef
    ELSE (alpha * fg + (255 - alpha) * bg) \div 255

blend_colors(fg, bg) ==
  [k \in 1..4 |-> IF k = 4 THEN 255 ELSE blend_components(fg[k], bg[k], Alpha(fg))]

\* *(data + index) = color
Store(img, index, color) ==
  IF index < Len(img.data)
    THEN [img EXCEPT !.data[index + 1] = color]
    ELSE [img EXCEPT !.intact = FALSE]

\* What data holds at index: anything, outside the array.
Fetch(img, index) ==
  IF index < Len(img.data) THEN img.data[index + 1]
                           ELSE <<Undef, Undef, Undef, Undef>>

set_pixel(img, index, color) ==
  Store(img, index, blend_colors(color, Fetch(img, index)))

square(x) == x * x

square_dist(x1, y1, x2, y2) == square(x1 - x2) + square(y1 - y2)
-----------------------------------------------------------------------------
(* The loops: every <<x, y>> of xs and ys once, row after row. *)

draw_pixel(img, x, y, color) ==
  IF in_bounds(img, x, y)
    THEN set_pixel(img, compute_index(img, x, y), color)
    ELSE img

Loop(body(_, _), img, xs, ys) ==
  FoldSet(LAMBDA p, i : body(i, p), img, xs \X ys)

draw_rect(img, rect, color) ==
  Loop(LAMBDA i, p : draw_pixel(i, p[1], p[2], color), img,
       rect.x .. rect.x + rect.width - 1, rect.y .. rect.y + rect.height - 1)

draw_circle(img, x, y, r, color) ==
  Loop(LAMBDA i, p : IF square_dist(p[1], p[2], x, y) <= square(r)
                       THEN draw_pixel(i, p[1], p[2], color) ELSE i,
       img, x - r .. x + r, y - r .. y + r)

\* Mutant: the place of the rectangle in the map is forgotten.
Inside_NoOffset(map, rect) ==
  rect.x >= 0 /\ rect.y >= 0 /\ rect.width <= map.width /\ rect.height <= map.height

\* The sums are compared with the unsigned sizes of the map.
Inside(map, rect) ==
  /\ rect.x >= 0 /\ rect.y >= 0
  /\ U(rect.x + rect.width) <= map.width
  /\ U(rect.y + rect.height) <= map.height

\* img, when the pixel of map at index has been read.
ReadFrom(img, map, index) ==
  IF index < Len(map.data) THEN img ELSE [img EXCEPT !.intact = FALSE]

\* The pixels of rect in map are combined with those of img from x, y on.
Copy(combine(_, _), img, x, y, map, rect) ==
  IF ~Inside(map, rect) THEN img
  ELSE Loop(LAMBDA i, p :
              LET dest == U((y + p[2]) * i.width + (x + p[1]))
                  from == U((rect.y + p[2]) * map.width + (rect.x + p[1]))
              IN IF in_bounds(i, x + p[1], y + p[2])
                   THEN Store(ReadFrom(i, map, from), dest,
                              combine(Fetch(map, from), Fetch(i, dest)))
                   ELSE i,
            img, 0 .. rect.width - 1, 0 .. rect.height - 1)

draw_tile(img, x, y, tilemap, tile) ==
  Copy(LAMBDA new, old : new, img, x, y, tilemap, tile)

draw_sprite(img, x, y, spritemap, sprite) ==
  Copy(blend_colors, img, x, y, spritemap, sprite)
=============================================================================
