---------------------------- MODULE DriverProps -----------------------------
(***************************************************************************)
(* What is expected of the drawing program, stated against the PNG format  *)
(* and against pictures drawn pixel by pixel.                              *)
(***************************************************************************)
EXTENDS Driver

CONSTANT Picture  \* the pixels that a file shows, by the file's name

-----------------------------------------------------------------------------
(* What a file shows, as the PNG format says. *)

\* The chunk that ends a file: its first IEND.
EndOf(file) ==
  IF file.signature # "png" THEN {}
  ELSE {e \in 2 .. Len(file.chunks) :
          /\ file.chunks[e].type = "IEND"
          /\ \A k \in 2 .. e - 1 : file.chunks[k].type # "IEND"}

\* The data in the chunks before it.
DataIn(chunk) == IF chunk.type = "IDAT" THEN Data(chunk.body) ELSE <<>>

Stored(file, e) == FlattenSeq([k \in 1 .. e - 1 |-> DataIn(file.chunks[k])])

Ihdr(file) == file.chunks[1].body

BytesPerPixel(file) == IF Ihdr(file).color_type = TRUECOLOR THEN 3 ELSE 4

LineSize(file) == Ihdr(file).width * BytesPerPixel(file) + 1

\* The lines there is room for: all of them, unless the size wraps.
StoredRows(file) == U(Ihdr(file).height * LineSize(file)) \div LineSize(file)

\* A file that shows something: of a color type that the program reads, with
\* the right checksums of its header and its data, known filters, and bytes
\* that are not too many.  Any other chunk may be damaged.
Undamaged(file, e) ==
  /\ file.chunks[1].type = "IHDR" /\ file.chunks[1].state = "good"
  /\ Ihdr(file).depth = 8 /\ ~Ihdr(file).interlace
  /\ Ihdr(file).color_type \in {TRUECOLOR, TRUECOLOR_ALPHA}
  /\ \A k \in 2 .. e - 1 : LET chunk == file.chunks[k] IN
       chunk.type = "IDAT" => /\ chunk.state = "good"
                              /\ ToSet(Data(chunk.body)) \subseteq 0..255
  /\ Len(Stored(file, e)) <= U(Ihdr(file).height * LineSize(file))
  /\ \A y \in 0 .. StoredRows(file) - 1 : LET at == y * LineSize(file) + 1 IN
       at <= Len(Stored(file, e)) => Stored(file, e)[at] \in 0..4

\* What the five filters predict from the bytes to the left, above and above
\* to the left; the last one takes the one nearest to a + b - c.
Predicted(filter, a, b, c) ==
  LET far(v) == Distance(a + b - c, v)
      nearest == {v \in {a, b, c} : \A w \in {a, b, c} : far(v) <= far(w)}
  IN CASE filter = 0 -> 0
       [] filter = 1 -> a
       [] filter = 2 -> b
       [] filter = 3 -> (a + b) \div 2
       [] filter = 4 -> IF a \in nearest THEN a ELSE IF b \in nearest THEN b ELSE c

\* Byte k of pixel i of a picture as a file of its size stores it.
Encoded(file, picture, i, k, filter) ==
  LET w == Ihdr(file).width
      x == (i - 1) % w
      y == (i - 1) \div w
      a == IF x > 0 THEN picture[i - 1][k] ELSE 0
      b == IF y > 0 THEN picture[i - w][k] ELSE 0
      c == IF x > 0 /\ y > 0 THEN picture[i - w - 1][k] ELSE 0
  IN (picture[i][k] - Predicted(filter, a, b, c)) % 256

\* The data of the file, as much as there is, is that of the picture.
Stores(file, e, picture) ==
  LET w == Ihdr(file).width
      data == Stored(file, e)
  IN /\ Len(picture) = U(w * Ihdr(file).height)
     /\ \A i \in 1 .. Len(picture) :
          /\ picture[i] \in [1..4 -> 0..255]
          /\ BytesPerPixel(file) = 3 => picture[i][4] = 255
          /\ \A k \in 1 .. BytesPerPixel(file) :
               LET line == ((i - 1) \div w) * LineSize(file)
                   at == line + 1 + ((i - 1) % w) * BytesPerPixel(file) + k
               IN at <= Len(data) /\ (i - 1) \div w < StoredRows(file) =>
                    data[at] = Encoded(file, picture, i, k, data[line + 1])

ASSUME PictureAssumption ==
  \A f \in DOMAIN Files : \A e \in EndOf(Files[f]) :
    Undamaged(Files[f], e) => f \in DOMAIN Picture /\ Stores(Files[f], e, Picture[f])

Complete(file) ==
  \A e \in EndOf(file) : Len(Stored(file, e)) = Ihdr(file).height * LineSize(file)

-----------------------------------------------------------------------------
\* A loaded image has the pixels of the picture that its file shows, whatever
\* the filter of each line, its color type and the chunks it is cut into; a
\* file whose header or data have a wrong checksum, with an unknown filter, too
\* much data or no end is never loaded.  (The checksums of other chunks and of
\* the end are not looked at.)  Where the file holds too little data a pixel
\* may be anything, but no pixel that the file does hold is another one.
LoadsThePicture ==
  \A n \in Slots : ~loaded_images[n].null =>
    LET data == loaded_images[n].data
        picture == Picture[source[n]]
    IN /\ source[n] \in DOMAIN Picture
       /\ Len(data) = Len(picture)
       /\ \A i \in DOMAIN data : data[i] = picture[i] \/ Undef \in ToSet(data[i])
       /\ Complete(Files[source[n]]) => \A i \in DOMAIN data : data[i] = picture[i]

\* data has all the pixels of the image.
Whole(img) == img.width * img.height < UintSize

Column(img, i) == (i - 1) % img.width
Row(img, i) == (i - 1) \div img.width

Within(rect, x, y) ==
  /\ rect.x <= x /\ x < rect.x + rect.width
  /\ rect.y <= y /\ y < rect.y + rect.height

\* color over old, rounded down; anything over or under anything.
Over(color, old) ==
  [k \in 1..4 |-> IF k = 4 THEN 255
    ELSE IF Undef \in {color[4], color[k], old[k]} THEN Undef
    ELSE (color[4] * color[k] + (255 - color[4]) * old[k]) \div 255]

\* The pixel of the command that falls on column x and row y of the canvas,
\* or the old one.
Expected(x, y, old) ==
  LET map == loaded_images[cmd.n]
      whole == /\ cmd.rect.x >= 0 /\ cmd.rect.y >= 0
               /\ cmd.rect.width + cmd.rect.x \in 0..map.width
               /\ cmd.rect.height + cmd.rect.y \in 0..map.height
      hit == Within([cmd.rect EXCEPT !.x = cmd.x, !.y = cmd.y], x, y)
      new == map.data[(cmd.rect.y + y - cmd.y) * map.width + cmd.rect.x + x - cmd.x + 1]
  IN CASE cmd.op = "R" -> IF Within(cmd.rect, x, y) THEN Over(cmd.color, old) ELSE old
       [] cmd.op = "C" -> IF cmd.r >= 0 /\ square(x - cmd.x) + square(y - cmd.y) <= square(cmd.r)
                            THEN Over(cmd.color, old) ELSE old
       [] cmd.op = "T" -> IF whole /\ hit THEN new ELSE old
       [] cmd.op = "P" -> IF whole /\ hit THEN Over(new, old) ELSE old

\* A command draws what it describes and nothing else: each pixel of the
\* canvas in the rectangle or circle is blended once, a tile is copied and a
\* sprite blended pixel by pixel if it lies in the loaded image, and what is
\* outside the canvas is clipped, as long as the sizes of both images have not
\* wrapped.  No pixel becomes anything but by a pixel of a loaded image that was.
DrawsExactly ==
  [][ /\ cmd.op \in {"R", "C", "T", "P"} /\ exit' = -1
      /\ Whole(canvas) /\ (cmd.op \in {"T", "P"} => Whole(loaded_images[cmd.n]))
      => /\ Len(canvas'.data) = Len(canvas.data)
         /\ \A i \in DOMAIN canvas.data :
              canvas'.data[i] =
                Expected(Column(canvas, i), Row(canvas, i), canvas.data[i]) ]_vars

\* No command and no write leaves the memory of the canvas, and no command
\* reads outside of that of a loaded image, as long as the bytes of the canvas
\* are less than 2^32 and so are the pixels of each loaded image.
StaysInside ==
  ~TooLarge(canvas) /\ (\A n \in Slots : Whole(loaded_images[n])) => canvas.intact

\* The file of a canvas: its lines, each after the filter 0.
Shows(file, img) ==
  LET ihdr == file.chunks[1].body
      body == file.chunks[2].body
      line == 4 * img.width + 1
  IN /\ Len(file.chunks) = 3 /\ file.chunks[3].type = "IEND"
     /\ <<ihdr.width, ihdr.height, ihdr.color_type>> = <<img.width, img.height, 6>>
     /\ Len(body) = img.height * line + 1 /\ Last(body) = End
     /\ \A y \in 0 .. img.height - 1 :
          /\ body[y * line + 1] = 0
          /\ \A x \in 0 .. img.width - 1, k \in 1..4 :
               body[y * line + 1 + 4 * x + k] = img.data[y * img.width + x + 1][k]

\* A program that returns 1 has written no picture; one that returns 0 has
\* written the canvas, unless one of its writes or its compression has failed
\* and nobody has noticed (WriteStream).  Canvases of 2^32 bytes or more are
\* left out: their lines are written outside of their memory (WriteOutside).
ExitTellsTheFile ==
  exit # -1 /\ ~TooLarge(canvas) =>
    /\ exit = 1 => out.file.signature # "png"
    /\ exit = 0 => out.failed \/ Shows(out.file, canvas)

\* Whatever happens while a file is read, when read_image returns the file is
\* closed and all that the library and read_image have allocated is freed, but
\* for two leaks: a stream that inflateInit could not make, because inflateEnd
\* refuses it, and after an error the three bytes for each pixel of a file
\* without alpha.
LibraryFrees ==
  [][ call.status = "reading" /\ call'.status # "reading" =>
        /\ streams' = 0
        /\ heap' \subseteq {"old canvas"} \cup
             (IF png.zs = "broken" THEN {"zs"} ELSE {}) \cup
             (IF call'.status # "IMG_SUCCESS" THEN {"pixel_data_raw"} ELSE {}) ]_vars
=============================================================================
