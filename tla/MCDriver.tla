------------------------------ MODULE MCDriver ------------------------------
(***************************************************************************)
(* The drawing program on small pictures, files made from them line by     *)
(* line as the PNG format says, and damaged files.                         *)
(***************************************************************************)
EXTENDS DriverProps

Gradient ==
  << <<10, 200, 255, 255>>, <<250, 3, 128, 255>>, <<0, 255, 77, 255>>, <<90, 90, 1, 255>> >>

Glass ==
  << <<255, 0, 9, 0>>, <<200, 100, 50, 128>>, <<1, 2, 3, 255>>, <<254, 255, 128, 64>> >>

\* The bytes of line l of a picture that is two pixels wide.
Line(picture, l, bpp) ==
  FlattenSeq([x \in 1..2 |-> SubSeq(picture[2 * (l - 1) + x], 1, bpp)])

\* Filt(x) = Orig(x) - Predictor(x), for the types 0 to 4 of the format.
FilteredLine(type, line, prev, bpp) ==
  LET a(i) == IF i > bpp THEN line[i - bpp] ELSE 0
      b(i) == IF prev = <<>> THEN 0 ELSE prev[i]
      c(i) == IF prev = <<>> \/ i <= bpp THEN 0 ELSE prev[i - bpp]
      dist(v, i) == LET d == a(i) + b(i) - c(i) - v IN IF d < 0 THEN -d ELSE d
      nearest(i) == {v \in {a(i), b(i), c(i)} :
                       \A w \in {a(i), b(i), c(i)} : dist(v, i) <= dist(w, i)}
      paeth(i) == IF a(i) \in nearest(i) THEN a(i)
                  ELSE IF b(i) \in nearest(i) THEN b(i) ELSE c(i)
      predicted(i) == CASE type = 0 -> 0
                        [] type = 1 -> a(i)
                        [] type = 2 -> b(i)
                        [] type = 3 -> (a(i) + b(i)) \div 2
                        [] type = 4 -> paeth(i)
  IN <<type>> \o [i \in DOMAIN line |-> (line[i] - predicted(i)) % 256]

\* The data of a picture whose two lines have the filters f and g.
Stream(picture, bpp, f, g) ==
  FilteredLine(f, Line(picture, 1, bpp), <<>>, bpp) \o
  FilteredLine(g, Line(picture, 2, bpp), Line(picture, 1, bpp), bpp)

Good(type, body) == [type |-> type, state |-> "good", body |-> body]
With(state, chunk) == [chunk EXCEPT !.state = state]

Header(color_type, depth, interlace) ==
  Good("IHDR", [width |-> 2, height |-> 2, depth |-> depth,
                color_type |-> color_type, interlace |-> interlace])

Rgb == Header(2, 8, FALSE)
Rgba == Header(6, 8, FALSE)
Text == Good("tEXt", <<>>)
Iend == Good("IEND", <<>>)
Idat(symbols) == Good("IDAT", symbols)

File(chunks) == [signature |-> "png", chunks |-> chunks]

GlassData == Stream(Glass, 4, 3, 4)
Half == SubSeq(GlassData, 1, 9)
Rest == SubSeq(GlassData, 10, 18)
All == Idat(Append(GlassData, End))

WholeFiles ==
  [rgb01 |-> File(<<Rgb, Idat(Append(Stream(Gradient, 3, 0, 1), End)), Iend>>),
   rgb12 |-> File(<<Rgb, Text, Idat(Stream(Gradient, 3, 1, 2)), Idat(<<End>>), Iend>>),
   rgb43 |-> File(<<Rgb, Idat(Append(Stream(Gradient, 3, 4, 3), End)), Iend>>),
   rgba20 |-> File(<<Rgba, Idat(Append(Stream(Glass, 4, 2, 0), End)), Text, Iend>>),
   rgba34 |-> File(<<Rgba, Idat(Half), Idat(Append(Rest, End)), Iend>>),
   twoheaders |-> File(<<Rgba, Rgb, All, Iend>>),
   badtext |-> File(<<Rgba, With("bad", Text), All, With("bad", Iend)>>)]

ShortFiles ==
  [half |-> File(<<Rgba, Idat(Half), Iend>>),
   nodata |-> File(<<Rgb, Text, Iend>>)]

DamagedFiles ==
  [notpng |-> [signature |-> "other"],
   empty |-> [signature |-> "short"],
   noheader |-> File(<<>>),
   text |-> File(<<Text, All, Iend>>),
   cutheader |-> File(<<With("cut", Rgba)>>),
   badheader |-> File(<<With("bad", Rgba), All, Iend>>),
   nocrcheader |-> File(<<With("no crc", Rgba)>>),
   indexed |-> File(<<Header(3, 8, FALSE), All, Iend>>),
   grey |-> File(<<Header(0, 8, FALSE), All, Iend>>),
   greyalpha |-> File(<<Header(4, 16, FALSE), All, Iend>>),
   color9 |-> File(<<Header(9, 8, FALSE), All, Iend>>),
   deep |-> File(<<Header(2, 16, FALSE), All, Iend>>),
   shallow |-> File(<<Header(2, 4, FALSE), All, Iend>>),
   interlaced |-> File(<<Header(6, 8, TRUE), All, Iend>>),
   cut |-> File(<<Rgba, With("cut", All)>>),
   badcrc |-> File(<<Rgba, Idat(Half), With("bad", Idat(Append(Rest, End))), Iend>>),
   nocrc |-> File(<<Rgba, With("no crc", All)>>),
   noend |-> File(<<Rgba, All>>),
   garbage |-> File(<<Rgba, Idat(<<Garbage>>), Iend>>),
   more |-> File(<<Rgba, Idat(GlassData \o <<0, End>>), Iend>>),
   trailing |-> File(<<Rgba, All, Idat(<<0>>), Iend>>),
   hollow |-> File(<<Rgba, Idat(<<>>), All, Iend>>),
   filter5 |-> File(<<Rgba, Idat([GlassData EXCEPT ![10] = 5] \o <<End>>), Iend>>)]

MCFiles == WholeFiles @@ ShortFiles @@ DamagedFiles

MCPicture ==
  [rgb01 |-> Gradient, rgb12 |-> Gradient, rgb43 |-> Gradient,
   rgba20 |-> Glass, rgba34 |-> Glass, twoheaders |-> Glass, badtext |-> Glass,
   half |-> Glass, nodata |-> Gradient, hollow |-> Glass]

Box(x, y, width, height) == [x |-> x, y |-> y, width |-> width, height |-> height]

Boxes == {Box(0, 0, 2, 2), Box(1, 0, 1, 2), Box(-1, -1, 2, 3), Box(1, 1, 3, 0),
          Box(1, 0, 2, 1), Box(1, 1, -1, 1), Box(0, 1, -1, 1)}

Red == <<255, 0, 0, 128>>
Blue == <<7, 80, 255, 255>>

MCCommands ==
  {[op |-> "?"]} \cup
  {[op |-> "S", width |-> s[1], height |-> s[2]] : s \in {<<2, 2>>, <<3, 1>>, <<1, 11>>, <<8, 8>>}} \cup
  {[op |-> "R", rect |-> b, color |-> Red] : b \in Boxes} \cup
  {[op |-> "C", x |-> c[1], y |-> c[2], r |-> c[3], color |-> Blue] :
     c \in {<<0, 0, 1>>, <<1, 1, 0>>, <<2, -1, 2>>, <<0, 0, -1>>}} \cup
  {[op |-> "L", n |-> 0, filename |-> f] : f \in DOMAIN MCFiles \cup {"missing"}} \cup
  {[op |-> "L", n |-> n, filename |-> "rgba34"] : n \in {-1, 1, 2}} \cup
  {[op |-> o, n |-> n, rect |-> b, x |-> p[1], y |-> p[2]] :
     o \in {"T", "P"}, n \in {0, 2}, b \in Boxes, p \in {<<0, 0>>, <<1, -1>>}}
=============================================================================
