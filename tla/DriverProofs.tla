---------------------------- MODULE DriverProofs -----------------------------
(***************************************************************************)
(* Proofs about the drawing program, for any files and any commands whose  *)
(* operands are what scanf stores: what the PNG library and image.c free   *)
(* and close, that what is drawn stays inside the canvas and is exact, and *)
(* what the exit status tells of the file.                                 *)
(***************************************************************************)
EXTENDS DriverProps, CommonLemmas, FiniteSetTheorems

\* What may still be allocated between two calls of read_image.
Rest == {"old canvas"}

\* Between two calls nothing is left and no file is open, unless the last one
\* has failed: then the program ends, or will.
AtRest ==
  \/ heap \subseteq Rest /\ streams = 0
  \/ exit = 1
  \/ call.status \notin {"none", "IMG_SUCCESS"}

\* While a file is read, no other command runs, there is no other block, and a
\* stream that is broken has ended the reading.
Underway ==
  /\ exit = -1 /\ cmd.op = "L" /\ streams = 1
  /\ {"zs", "result"} \subseteq DOMAIN png
  /\ png.zs = "broken" => png.result = "PNG_ZLIB_ERROR"
  /\ heap \subseteq Rest \cup {"png_data", "zs", "readbuf", "pixel_data", "pixel_data_raw"}

LibraryInv ==
  IF call.status = "reading" THEN Underway ELSE AtRest

\* What is left when it returns.
Leaks ==
  Rest \cup (IF png.zs = "broken" THEN {"zs"} ELSE {}) \cup
  (IF call'.status # "IMG_SUCCESS" THEN {"pixel_data_raw"} ELSE {})

\* A chunk allocates no other block.
LEMMA ChunkStep ==
  ASSUME Underway, png_process_chunk, UNCHANGED <<call, streams, cmd, exit>>
  PROVE  Underway'
<1> USE DEF Underway, Returns, Reading, AllocFails
<1>1. CASE NextChunkMissing
  BY <1>1 DEF NextChunkMissing
<1>2. CASE EndChunk
  BY <1>2 DEF EndChunk
<1>3. CASE UnknownChunk
  BY <1>3 DEF UnknownChunk
<1>4. CASE DataChunk
  BY <1>4 DEF DataChunk
<1>5. CASE DataChunkNoMemory
  BY <1>5 DEF DataChunkNoMemory
<1> QED
  BY <1>1, <1>2, <1>3, <1>4, <1>5 DEF png_process_chunk

\* When read_image returns the blocks are freed but for the leaks.
LEMMA ReturnFrees ==
  ASSUME Underway, ReadFails \/ ReadSucceeds
  PROVE  /\ call'.status \notin {"none", "reading"} /\ streams' = 0 /\ heap' \subseteq Leaks
         /\ call'.status = "IMG_SUCCESS" => heap' \subseteq Rest
<1>1. streams' = 0
  BY DEF Underway, ReadFails, ReadSucceeds
<1>2. CASE ReadFails
  <2>1. call'.status = "IMG_ERR_MALLOC_FAILED" /\ heap' = heap \ (FreedAtEnd \cup {"pixel_data"})
    BY <1>2 DEF ReadFails, Return
  <2>2. heap' \subseteq Leaks
    BY <2>1 DEF Underway, FreedAtEnd, Leaks
  <2> QED
    BY <1>1, <2>1, <2>2
<1>3. CASE ReadSucceeds
  <2>1. /\ call'.status = "IMG_SUCCESS" /\ png.result = "PNG_DONE"
        /\ heap' = heap \ (FreedAtEnd \cup {"pixel_data", "pixel_data_raw"})
    BY <1>3 DEF ReadSucceeds, Return, Ends
  <2>2. heap' \subseteq Leaks
    BY <2>1 DEF Underway, FreedAtEnd, Leaks
  <2> QED
    BY <1>1, <2>1, <2>2 DEF Underway, FreedAtEnd
<1> QED
  BY <1>2, <1>3

\* write_image returns at once.
LEMMA WriteReturns ==
  ASSUME Write
  PROVE  call'.status # "reading" /\ call'.image = Null
<1>1. \/ WriteCannotOpen \/ WriteNoMemory \/ WriteFile(canvas)
      \/ WriteNotCompressed(canvas) \/ WriteOutside(canvas)
  BY DEF Write
<1>2. \/ Return("IMG_ERR_COULD_NOT_OPEN", Null)
      \/ Return("IMG_ERR_MALLOC_FAILED", Null)
      \/ Return("IMG_SUCCESS", Null)
  BY <1>1 DEF WriteCannotOpen, WriteNoMemory, WriteFile, WriteNotCompressed, WriteStream,
     WriteOutside
<1> QED
  BY <1>2 DEF Return

\* No step leaves more than that.
LEMMA LibraryStep ==
  ASSUME LibraryInv, [Next]_vars
  PROVE  LibraryInv'
<1>1. CASE UNCHANGED vars
  BY <1>1 DEF vars, files, LibraryInv, AtRest, Underway
<1>2. CASE Reads
  <2>1. call.status = "reading" /\ UNCHANGED <<cmd, exit>>
    BY <1>2 DEF Reads, ReadChunk, ReadFails, ReadSucceeds, Ends
  <2>2. Underway
    BY <2>1 DEF LibraryInv
  <2>3. CASE ReadChunk
    BY <2>1, <2>2, <2>3, ChunkStep DEF ReadChunk, LibraryInv
  <2>4. CASE ReadFails \/ ReadSucceeds
    <3>1. /\ call'.status \notin {"none", "reading"} /\ streams' = 0
          /\ call'.status = "IMG_SUCCESS" => heap' \subseteq Rest
      BY <2>2, <2>4, ReturnFrees
    <3> QED
      BY <3>1, Zenon DEF LibraryInv, AtRest
  <2> QED
    BY <1>2, <2>3, <2>4 DEF Reads
<1>3. CASE Load
  <2>1. call.status = "none" /\ exit = -1 /\ cmd.op = "L" /\ UNCHANGED <<cmd, exit>>
    BY <1>3 DEF Load, read_image, ReadCannotOpen, ReadNotTrueColor, ReadOpens, Opens,
       NoCall, Running
  <2>2. heap \subseteq Rest /\ streams = 0
    BY <2>1 DEF LibraryInv, AtRest
  <2>3. PICK file : read_image(file)
    BY <1>3 DEF Load
  <2>4. CASE ReadCannotOpen(file)
    BY <2>1, <2>2, <2>4 DEF ReadCannotOpen, Return, LibraryInv, AtRest
  <2>5. CASE ReadNotTrueColor(file)
    BY <2>1, <2>2, <2>5 DEF ReadNotTrueColor, Return, LibraryInv, AtRest
  <2>6. CASE ReadOpens(file)
    <3>1. /\ call'.status = "reading" /\ streams' = 1
          /\ heap' \subseteq Rest \cup {"pixel_data", "pixel_data_raw"}
          /\ png' = Opened(file)
      BY <2>2, <2>6 DEF ReadOpens
    <3>2. /\ {"zs", "result"} \subseteq DOMAIN png' /\ png'.zs = "none"
      BY <3>1 DEF Opened
    <3> QED
      BY <2>1, <3>1, <3>2 DEF LibraryInv, Underway
  <2> QED
    BY <2>3, <2>4, <2>5, <2>6 DEF read_image
<1>4. CASE Loaded
  <2>1. /\ call.status # "reading" /\ call'.status = "none"
        /\ UNCHANGED <<heap, streams>>
        /\ exit' = 1 \/ (exit' = exit /\ call.status = "IMG_SUCCESS")
    BY <1>4 DEF Loaded, NoCall, Error, Done
  <2> QED
    BY <2>1, Zenon DEF LibraryInv, AtRest
<1>5. CASE Leave
  <2>1. /\ exit = -1 /\ cmd = Nothing
        /\ call' = NoCall /\ UNCHANGED <<heap, streams>>
        /\ exit' = IF call.status = "IMG_SUCCESS" THEN 0 ELSE 1
    BY <1>5 DEF Leave
  <2>2. call.status # "reading" /\ AtRest
    BY <2>1 DEF Nothing, LibraryInv, Underway
  <2>3. call'.status = "none"
    BY <2>1 DEF NoCall
  <2>4. exit' = 1 \/ call.status = "IMG_SUCCESS"
    BY <2>1
  <2>5. (heap \subseteq Rest /\ streams = 0) \/ exit' = 1
    <3>1. exit # 1
      BY <2>1
    <3> QED
      BY <2>2, <2>4, <3>1 DEF AtRest
  <2> QED
    BY <2>1, <2>2, <2>3, <2>5, Zenon DEF LibraryInv, AtRest
<1>6. CASE Write
  <2>1. /\ call.status = "none" /\ exit = -1 /\ UNCHANGED <<heap, streams>>
    BY <1>6 DEF Write, NoCall
  <2>2. call'.status # "reading"
    BY <1>6, WriteReturns
  <2>3. heap \subseteq Rest /\ streams = 0
    BY <2>1 DEF LibraryInv, AtRest
  <2> QED
    BY <2>1, <2>2, <2>3 DEF LibraryInv, AtRest
<1>7. CASE ReadCommand \/ NoSlot
  <2>1. /\ call.status = "none" /\ UNCHANGED <<call, heap, streams>>
        /\ exit' = exit \/ exit' = 1
    BY <1>7 DEF ReadCommand, NoSlot, NoCall, Error, files
  <2> QED
    BY <2>1, Zenon DEF LibraryInv, AtRest
<1>8. CASE Unreadable \/ Size \/ SizeNoMemory \/ NoCanvas \/ Rectangle \/ Circle \/ Tile \/ Sprite
  <2>1. /\ cmd.op # "L" /\ UNCHANGED <<call, streams>>
        /\ exit' = exit \/ exit' = 1
        /\ heap' = heap \/ heap' = heap \cup {"old canvas"}
    BY <1>8 DEF Unreadable, Size, SizeNoMemory, NoCanvas, Rectangle, Circle, Tile, Sprite,
       Running, Draw, Done, Error, files
  <2>2. call.status # "reading" /\ AtRest
    BY <2>1 DEF LibraryInv, Underway
  <2>3. heap \subseteq Rest => heap' \subseteq Rest
    BY <2>1 DEF Rest
  <2> QED
    BY <2>1, <2>2, <2>3, Zenon DEF LibraryInv, AtRest
<1> QED
  BY <1>1, <1>2, <1>3, <1>4, <1>5, <1>6, <1>7, <1>8 DEF Next

LEMMA LibraryInit == Init => LibraryInv
<1> SUFFICES ASSUME Init
             PROVE  LibraryInv
  OBVIOUS
<1>1. call.status = "none" /\ heap = {} /\ streams = 0
  BY DEF Init, NoCall
<1> QED
  BY <1>1 DEF LibraryInv, AtRest

\* When read_image returns all that was allocated for the file is freed, but for
\* the two leaks, and the file is closed.
THEOREM LibraryAlwaysFrees == Spec => LibraryFrees
<1>1. Init => LibraryInv
  BY LibraryInit
<1>2. LibraryInv /\ [Next]_vars => LibraryInv'
  BY LibraryStep
<1>3. LibraryInv /\ [Next]_vars =>
        [ call.status = "reading" /\ call'.status # "reading" =>
            /\ streams' = 0
            /\ heap' \subseteq {"old canvas"} \cup
                 (IF png.zs = "broken" THEN {"zs"} ELSE {}) \cup
                 (IF call'.status # "IMG_SUCCESS" THEN {"pixel_data_raw"} ELSE {}) ]_vars
  <2> SUFFICES ASSUME LibraryInv, Next, call.status = "reading", call'.status # "reading"
               PROVE  streams' = 0 /\ heap' \subseteq Leaks
    BY DEF Leaks, Rest
  <2>1. Underway
    BY DEF LibraryInv
  <2>2. ReadFails \/ ReadSucceeds
    <3>1. call # NoCall /\ call' # call
      BY DEF NoCall
    <3>2. cmd.op = "L" /\ cmd # Nothing
      BY <2>1 DEF Underway, Nothing
    <3>3. ~ReadCommand /\ ~Write /\ ~Leave
      BY <3>2 DEF ReadCommand, Write, Leave
    <3>4. ~Load /\ ~NoSlot
      BY <3>1 DEF Load, NoSlot, read_image, ReadCannotOpen, ReadNotTrueColor, ReadOpens, Opens
    <3>5. ~Loaded
      BY DEF Loaded
    <3>6. ~(Unreadable \/ Size \/ SizeNoMemory \/ NoCanvas \/ Rectangle \/ Circle \/ Tile
            \/ Sprite)
      BY <3>2 DEF Unreadable, Size, SizeNoMemory, NoCanvas, Rectangle, Circle, Tile, Sprite,
         Running
    <3>7. Reads
      BY <3>3, <3>4, <3>5, <3>6 DEF Next
    <3> QED
      BY <3>1, <3>7 DEF Reads, ReadChunk
  <2> QED
    BY <2>1, <2>2, ReturnFrees
<1> QED
  BY <1>1, <1>2, <1>3, PTL DEF Spec, LibraryFrees

-----------------------------------------------------------------------------
(* Drawing one pixel *)

\* The fields of an image, and a pixel in each place.
Sized(img) ==
  /\ img = [width |-> img.width, height |-> img.height, data |-> img.data,
            intact |-> img.intact, null |-> img.null]
  /\ img.width \in Nat /\ img.height \in Nat
  /\ Whole(img) => img.data = [j \in 1 .. img.width * img.height |-> img.data[j]]

\* Where the command c puts the pixel p of its loop, whether it draws it, and
\* what becomes of the old one; m is the image that it copies from.
Across(c, p) == IF c.op \in {"R", "C"} THEN p[1] ELSE c.x + p[1]
Down(c, p) == IF c.op \in {"R", "C"} THEN p[2] ELSE c.y + p[2]

Shown(c, img, p) ==
  /\ c.op = "C" => square_dist(p[1], p[2], c.x, c.y) <= square(c.r)
  /\ in_bounds(img, Across(c, p), Down(c, p))

At(c, img, p) == compute_index(img, Across(c, p), Down(c, p))

From(c, m, p) == U((c.rect.y + p[2]) * m.width + (c.rect.x + p[1]))

Paint(c, m, p, old) ==
  IF c.op \in {"R", "C"} THEN blend_colors(c.color, old)
  ELSE IF c.op = "T" THEN Fetch(m, From(c, m, p))
  ELSE blend_colors(Fetch(m, From(c, m, p)), old)

\* i, when the pixel of the image it copies from has been read.
Copied(c, m, i, p) ==
  IF c.op \in {"R", "C"} THEN i ELSE ReadFrom(i, m, From(c, m, p))

Body(c, m, i, p) ==
  IF Shown(c, i, p)
    THEN Store(Copied(c, m, i, p), At(c, i, p), Paint(c, m, p, Fetch(i, At(c, i, p))))
    ELSE i

\* The pixels of s lie in that image.
InMap(s, c, m) ==
  c.op \notin {"R", "C"} => \A p \in s : From(c, m, p) < Len(m.data)

\* i is img after the pixels of s have been drawn.
Painted(i, s, c, m, img) ==
  /\ i = [width |-> img.width, height |-> img.height, data |-> i.data,
          intact |-> i.intact, null |-> img.null]
  /\ Whole(img) =>
       /\ InMap(s, c, m) => i.intact = img.intact
       /\ i.data = [j \in 1 .. img.width * img.height |-> i.data[j]]
       /\ \A j \in 1 .. img.width * img.height :
            /\ \A p \in s : Shown(c, img, p) /\ At(c, img, p) + 1 = j
                              => i.data[j] = Paint(c, m, p, img.data[j])
            /\ (\A p \in s : Shown(c, img, p) => At(c, img, p) + 1 # j)
                 => i.data[j] = img.data[j]

\* Pixels of a loop: they do not wrap, and no two are put in one place.
Loops(s, c) ==
  /\ \A p \in s : /\ Across(c, p) \in Int /\ Across(c, p) < UintSize
                  /\ Down(c, p) \in Int /\ Down(c, p) < UintSize
  /\ \A p, q \in s : Across(c, p) = Across(c, q) /\ Down(c, p) = Down(c, q) => p = q

\* What is small enough is left alone by uint32_t.
LEMMA SmallNumbers ==
  ASSUME NEW n \in Nat, n < UintSize
  PROVE  U(n) = n
BY DrawingAssumption DEF U

\* in_bounds and compute_index together: a pixel that is shown has a place in data.
LEMMA ShownPlace ==
  ASSUME NEW img, Sized(img), Whole(img), NEW c, NEW p, Loops({p}, c), Shown(c, img, p)
  PROVE  /\ Across(c, p) \in 0 .. img.width - 1 /\ Down(c, p) \in 0 .. img.height - 1
         /\ At(c, img, p) = Down(c, p) * img.width + Across(c, p)
         /\ At(c, img, p) \in 0 .. img.width * img.height - 1
<1> DEFINE x == Across(c, p)
           y == Down(c, p)
           w == img.width
           h == img.height
<1>1. w \in Nat /\ h \in Nat /\ w * h < UintSize /\ UintSize \in Nat
  BY DrawingAssumption DEF Sized, Whole
<1>2. x \in Int /\ x < UintSize /\ y \in Int /\ y < UintSize
  BY DEF Loops
<1>3. x >= 0 /\ y >= 0 /\ U(x) < w /\ U(y) < h
  BY DEF Shown, in_bounds
<1> HIDE DEF x, y, w, h
<1>4. x \in 0 .. w - 1 /\ y \in 0 .. h - 1
  BY <1>1, <1>2, <1>3, SmallNumbers
<1>5. y * w + x \in 0 .. w * h - 1
  BY <1>1, <1>4, PlaceOfPixel
<1>6. U(y * w + x) = y * w + x
  BY <1>1, <1>5, SmallNumbers
<1> QED
  BY <1>4, <1>5, <1>6 DEF x, y, w, h, At, compute_index

\* Two pixels of a loop never have one place: none is drawn twice.
LEMMA PlacesDiffer ==
  ASSUME NEW img, Sized(img), Whole(img), NEW c, NEW s, Loops(s, c),
         NEW p \in s, NEW q \in s, Shown(c, img, p), Shown(c, img, q),
         At(c, img, p) = At(c, img, q)
  PROVE  p = q
<1>1. Loops({p}, c) /\ Loops({q}, c)
  BY DEF Loops
<1> DEFINE w == img.width
           h == img.height
           x == Across(c, p)
           y == Down(c, p)
           u == Across(c, q)
           v == Down(c, q)
<1>2. w \in Nat /\ h \in Nat
  BY DEF Sized
<1>3. /\ x \in 0 .. w - 1 /\ y \in 0 .. h - 1 /\ u \in 0 .. w - 1 /\ v \in 0 .. h - 1
      /\ y * w + x = v * w + u
  BY <1>1, ShownPlace
<1>4. x = u /\ y = v
  <2> HIDE DEF x, y, u, v, w, h
  <2>1. x \in Nat /\ y \in Nat /\ x < w /\ y < h /\ u \in Nat /\ v \in Nat /\ u < w /\ v < h
    BY <1>2, <1>3
  <2>2. (y * w + x) % w = x /\ (y * w + x) \div w = y
    BY <1>2, <2>1, PlaceOfPixel
  <2>3. (v * w + u) % w = u /\ (v * w + u) \div w = v
    BY <1>2, <2>1, PlaceOfPixel
  <2> QED
    BY <1>3, <2>2, <2>3
<1> QED
  BY <1>4 DEF Loops

\* A function on 1 .. k is a sequence of length k.
LEMMA LengthOf ==
  ASSUME NEW data, NEW k \in Nat, data = [j \in 1 .. k |-> data[j]]
  PROVE  Len(data) = k
<1> DEFINE S == {data[j] : j \in 1 .. k}
<1>1. [j \in 1 .. k |-> data[j]] \in Seq(S)
  OBVIOUS
<1>2. data \in Seq(S) /\ DOMAIN data = 1 .. k
  <2> HIDE DEF S
  <2> QED
    BY <1>1
<1> HIDE DEF S
<1> QED
  BY <1>2

\* A write keeps the fields of an image but data, and one to a place in data
\* changes it there.
LEMMA StoreShape ==
  ASSUME NEW i, NEW n, NEW color,
         i = [width |-> i.width, height |-> i.height, data |-> i.data,
              intact |-> i.intact, null |-> i.null]
  PROVE  Store(i, n, color) =
           [width |-> i.width, height |-> i.height, data |-> Store(i, n, color).data,
            intact |-> Store(i, n, color).intact, null |-> i.null]
<1>0. PICK no : no = FALSE
  OBVIOUS
<1> DEFINE a == [i EXCEPT !.data[n + 1] = color]
           b == [i EXCEPT !.intact = no]
<1>1. a = [width |-> i.width, height |-> i.height, data |-> a.data,
           intact |-> a.intact, null |-> i.null]
  OBVIOUS
<1>2. b = [width |-> i.width, height |-> i.height, data |-> b.data,
           intact |-> b.intact, null |-> i.null]
  OBVIOUS
<1> QED
  <2> HIDE DEF a, b
  <2>1. Store(i, n, color) = IF n < Len(i.data) THEN a ELSE b
    BY <1>0, Zenon DEF Store, a, b
  <2> QED
    BY <1>1, <1>2, <2>1

\* A write to a place in data changes that place and no other.
LEMMA StoreResult ==
  ASSUME NEW i, NEW k \in Nat, NEW n \in 0 .. k - 1, NEW color,
         i = [width |-> i.width, height |-> i.height, data |-> i.data,
              intact |-> i.intact, null |-> i.null],
         i.data = [j \in 1 .. k |-> i.data[j]]
  PROVE  /\ Store(i, n, color).intact = i.intact
         /\ Store(i, n, color).data = [j \in 1 .. k |-> Store(i, n, color).data[j]]
         /\ \A j \in 1 .. k :
              Store(i, n, color).data[j] = IF j = n + 1 THEN color ELSE i.data[j]
<1>1. Len(i.data) = k
  BY LengthOf
<1>2. Store(i, n, color) = [i EXCEPT !.data[n + 1] = color]
  BY <1>1 DEF Store
<1>3. Store(i, n, color).data = [i.data EXCEPT ![n + 1] = color]
  BY <1>2
<1>4. Store(i, n, color).intact = i.intact
  BY <1>2
<1>5. Store(i, n, color).data = [j \in 1 .. k |-> IF j = n + 1 THEN color ELSE i.data[j]]
  BY <1>3
<1> HIDE DEF Store
<1> QED
  BY <1>4, <1>5

\* Reading a pixel changes nothing but intact, and not that in the map.
LEMMA CopiedShape ==
  ASSUME NEW c, NEW m, NEW i, NEW p,
         i = [width |-> i.width, height |-> i.height, data |-> i.data,
              intact |-> i.intact, null |-> i.null]
  PROVE  /\ Copied(c, m, i, p) =
              [width |-> i.width, height |-> i.height, data |-> i.data,
               intact |-> Copied(c, m, i, p).intact, null |-> i.null]
         /\ InMap({p}, c, m) => Copied(c, m, i, p) = i
<1>0. PICK no : no = FALSE
  OBVIOUS
<1> DEFINE b == [i EXCEPT !.intact = no]
<1>1. b = [width |-> i.width, height |-> i.height, data |-> i.data,
           intact |-> b.intact, null |-> i.null]
  OBVIOUS
<1>2. Copied(c, m, i, p) = i \/ Copied(c, m, i, p) = b
  BY <1>0, Zenon DEF Copied, ReadFrom
<1>3. InMap({p}, c, m) => Copied(c, m, i, p) = i
  BY Zenon DEF InMap, Copied, ReadFrom
<1> HIDE DEF b
<1> QED
  BY <1>1, <1>2, <1>3

\* Before the first pixel of a loop.
LEMMA NothingPainted ==
  ASSUME NEW c, NEW m, NEW img, Sized(img)
  PROVE  Painted(img, {}, c, m, img)
<1>1. img = [width |-> img.width, height |-> img.height, data |-> img.data,
             intact |-> img.intact, null |-> img.null]
  BY DEF Sized
<1>2. Whole(img) => img.data = [j \in 1 .. img.width * img.height |-> img.data[j]]
  BY DEF Sized
<1> QED
  BY <1>1, <1>2, Zenon DEF Painted

\* The loop's body draws one more pixel.
LEMMA BodyStep ==
  ASSUME NEW c, NEW m, NEW img, Sized(img), NEW i, NEW s, NEW p, p \notin s,
         Loops(s \cup {p}, c), Painted(i, s, c, m, img)
  PROVE  Painted(Body(c, m, i, p), s \cup {p}, c, m, img)
<1> DEFINE k == img.width * img.height
           b == Body(c, m, i, p)
           place == At(c, i, p)
           color == Paint(c, m, p, Fetch(i, place))
           t == Copied(c, m, i, p)
<1>1. /\ i = [width |-> i.width, height |-> i.height, data |-> i.data,
              intact |-> i.intact, null |-> i.null]
      /\ i.width = img.width /\ i.height = img.height /\ i.null = img.null
  BY DEF Painted
<1>2. /\ \A q : Shown(c, i, q) <=> Shown(c, img, q)
      /\ \A q : At(c, i, q) = At(c, img, q)
  BY <1>1 DEF Shown, in_bounds, At, compute_index
<1>3. /\ b = IF Shown(c, img, p) THEN Store(t, place, color) ELSE i
      /\ t = [width |-> i.width, height |-> i.height, data |-> i.data,
              intact |-> t.intact, null |-> i.null]
      /\ InMap({p}, c, m) => t = i
  <2>1. b = IF Shown(c, img, p) THEN Store(t, place, color) ELSE i
    BY <1>2 DEF Body
  <2> QED
    BY <1>1, <2>1, CopiedShape
<1>4. b = [width |-> img.width, height |-> img.height, data |-> b.data,
           intact |-> b.intact, null |-> img.null]
  <2> HIDE DEF b, place, color, t
  <2>1. /\ t = [width |-> t.width, height |-> t.height, data |-> t.data,
                intact |-> t.intact, null |-> t.null]
        /\ t.width = i.width /\ t.height = i.height /\ t.null = i.null
    BY <1>3
  <2> QED
    BY <1>1, <1>3, <2>1, StoreShape
<1>5. ASSUME Whole(img)
      PROVE  /\ InMap(s \cup {p}, c, m) => b.intact = img.intact
             /\ b.data = [j \in 1 .. k |-> b.data[j]]
             /\ \A j \in 1 .. k :
                  /\ \A q \in s \cup {p} : Shown(c, img, q) /\ At(c, img, q) + 1 = j
                                    => b.data[j] = Paint(c, m, q, img.data[j])
                  /\ (\A q \in s \cup {p} : Shown(c, img, q) => At(c, img, q) + 1 # j)
                       => b.data[j] = img.data[j]
  <2>0. InMap(s \cup {p}, c, m) => InMap(s, c, m) /\ InMap({p}, c, m)
    BY Zenon DEF InMap
  <2>1. /\ InMap(s, c, m) => i.intact = img.intact
        /\ i.data = [j \in 1 .. k |-> i.data[j]]
        /\ \A j \in 1 .. k :
             /\ \A q \in s : Shown(c, img, q) /\ At(c, img, q) + 1 = j
                               => i.data[j] = Paint(c, m, q, img.data[j])
             /\ (\A q \in s : Shown(c, img, q) => At(c, img, q) + 1 # j)
                  => i.data[j] = img.data[j]
    BY <1>5 DEF Painted
  <2>2. CASE ~Shown(c, img, p)
    <3>1. b = i
      BY <1>3, <2>2
    <3> HIDE DEF b, k
    <3> QED
      BY <2>0, <2>1, <2>2, <3>1
  <2>3. CASE Shown(c, img, p)
    <3>1. k \in Nat
      BY DEF Sized
    <3>2. Loops({p}, c)
      BY DEF Loops
    <3>3. place = At(c, img, p) /\ place \in 0 .. k - 1
      BY <1>2, <1>5, <2>3, <3>2, ShownPlace
    <3>4. \A q \in s : Shown(c, img, q) => At(c, img, q) # place
      BY <1>5, <2>3, <3>3, PlacesDiffer
    <3>5. \A q \in s : Shown(c, img, q) => At(c, img, q) + 1 # place + 1
      <4> SUFFICES ASSUME NEW q \in s, Shown(c, img, q), At(c, img, q) + 1 = place + 1
                   PROVE  FALSE
        OBVIOUS
      <4>1. Loops({q}, c)
        BY DEF Loops
      <4>2. At(c, img, q) \in 0 .. k - 1
        BY <1>5, <4>1, ShownPlace
      <4> HIDE DEF place, k
      <4> QED
        BY <3>1, <3>3, <3>4, <4>2
    <3>6. color = Paint(c, m, p, img.data[place + 1])
      <4>1. Len(i.data) = k
        BY <2>1, <3>1, LengthOf
      <4>2. Fetch(i, place) = i.data[place + 1]
        BY <3>1, <3>3, <4>1 DEF Fetch
      <4>3. place + 1 \in 1 .. k
        <5> HIDE DEF k, place
        <5> QED
          BY <3>1, <3>3
      <4>4. i.data[place + 1] = img.data[place + 1]
        <5> HIDE DEF k, place
        <5> QED
          BY <2>1, <3>5, <4>3
      <4> QED
        BY <4>2, <4>4
    <3>7. b = Store(t, place, color)
      BY <1>3, <2>3
    <3>8. /\ InMap({p}, c, m) => b.intact = i.intact
          /\ b.data = [j \in 1 .. k |-> b.data[j]]
          /\ \A j \in 1 .. k :
               b.data[j] = IF j = place + 1 THEN color ELSE i.data[j]
      <4> HIDE DEF b, k, place, color, t
      <4>1. /\ t = [width |-> t.width, height |-> t.height, data |-> t.data,
                    intact |-> t.intact, null |-> t.null]
            /\ t.data = i.data /\ (InMap({p}, c, m) => t.intact = i.intact)
        BY <1>3
      <4>2. t.data = [j \in 1 .. k |-> t.data[j]]
        BY <2>1, <4>1
      <4>3. /\ Store(t, place, color).intact = t.intact
            /\ Store(t, place, color).data =
                 [j \in 1 .. k |-> Store(t, place, color).data[j]]
            /\ \A j \in 1 .. k : Store(t, place, color).data[j] =
                 IF j = place + 1 THEN color ELSE t.data[j]
        BY <3>1, <3>3, <4>1, <4>2, StoreResult, SMTT(30)
      <4> QED
        BY <3>7, <4>1, <4>3
    <3>9. ASSUME NEW j \in 1 .. k
          PROVE  /\ \A q \in s \cup {p} : Shown(c, img, q) /\ At(c, img, q) + 1 = j
                                    => b.data[j] = Paint(c, m, q, img.data[j])
                 /\ (\A q \in s \cup {p} : Shown(c, img, q) => At(c, img, q) + 1 # j)
                       => b.data[j] = img.data[j]
      <4>1. CASE j = place + 1
        <5>1. b.data[j] = Paint(c, m, p, img.data[j])
          <6> HIDE DEF b, k, place, color
          <6> QED
            BY <3>6, <3>8, <4>1
        <5> HIDE DEF b, k, place, color
        <5> QED
          BY <2>3, <3>3, <3>5, <4>1, <5>1
      <4>2. CASE j # place + 1
        <5>1. b.data[j] = i.data[j]
          <6> HIDE DEF b, k, place, color
          <6> QED
            BY <3>8, <4>2
        <5> HIDE DEF b, k, place, color
        <5> QED
          BY <2>1, <2>3, <3>3, <4>2, <5>1
      <4> QED
        BY <4>1, <4>2
    <3> HIDE DEF b, k, place, color
    <3> QED
      BY <2>0, <2>1, <3>8, <3>9
  <2> QED
    BY <2>2, <2>3
<1> QED
  <2> HIDE DEF b
  <2>1. Painted(b, s \cup {p}, c, m, img)
    BY <1>4, <1>5, Zenon DEF Painted
  <2> QED
    BY <2>1 DEF b
-----------------------------------------------------------------------------
(* The loops *)

\* The element of s that a fold takes next.
Pick(s) == CHOOSE p \in s : TRUE

\* f is the fold of the body of c over the sets in B.
Folds(f, c, m, img, B) ==
  f = [s \in B |-> IF s = {} THEN img ELSE Body(c, m, f[s \ {Pick(s)}], Pick(s))]

\* A fold takes one element at a time.
LEMMA PickOne ==
  ASSUME NEW S, IsFiniteSet(S), NEW s \in SUBSET S, s # {}
  PROVE  /\ Pick(s) \in s
         /\ Cardinality(s) \in Nat \ {0} /\ Cardinality(s \ {Pick(s)}) = Cardinality(s) - 1
<1>1. Pick(s) \in s
  BY DEF Pick
<1> QED
  BY <1>1, FS_Subset, FS_CardinalityType, FS_RemoveElement, FS_EmptySet

\* A fold exists: the least number of pixels over which there was none cannot be.
LEMMA FoldExists ==
  ASSUME NEW c, NEW m, NEW img, NEW S, IsFiniteSet(S)
  PROVE  \E f : Folds(f, c, m, img, SUBSET S)
<1> DEFINE B(n) == {s \in SUBSET S : Cardinality(s) <= n}
           P(n) == \E f : Folds(f, c, m, img, B(n))
           Bad == {n \in Nat : ~P(n)}
<1>1. \A s \in SUBSET S : Cardinality(s) \in Nat /\ Cardinality(s) <= Cardinality(S)
  BY FS_Subset, FS_CardinalityType
<1>2. ASSUME NEW n \in Nat, n = 0 \/ P(n - 1)
      PROVE  P(n)
  <2>1. PICK f : n # 0 => Folds(f, c, m, img, B(n - 1))
    BY <1>2
  <2> DEFINE g == [s \in B(n) |-> IF s = {} THEN img
                                  ELSE Body(c, m, f[s \ {Pick(s)}], Pick(s))]
  <2>2. ASSUME NEW s \in B(n), s # {}
        PROVE  g[s \ {Pick(s)}] = f[s \ {Pick(s)}]
    <3> DEFINE t == s \ {Pick(s)}
    <3>1. Cardinality(t) = Cardinality(s) - 1 /\ Cardinality(s) \in Nat \ {0}
      BY <2>2, PickOne
    <3>2. n # 0 /\ t \in B(n - 1) /\ t \in B(n)
      BY <3>1
    <3>3. f[t] = IF t = {} THEN img ELSE Body(c, m, f[t \ {Pick(t)}], Pick(t))
      <4> HIDE DEF t, B
      <4> QED
        BY <2>1, <3>2 DEF Folds
    <3>4. g[t] = IF t = {} THEN img ELSE Body(c, m, f[t \ {Pick(t)}], Pick(t))
      <4> HIDE DEF t, B
      <4> QED
        BY <3>2
    <3> QED
      BY <3>3, <3>4
  <2>3. Folds(g, c, m, img, B(n))
    <3> HIDE DEF B
    <3> QED
      BY <2>2 DEF Folds
  <2> QED
    BY <2>3
<1>3. Bad = {}
  <2> SUFFICES ASSUME Bad # {}
               PROVE  FALSE
    OBVIOUS
  <2>1. PICK n \in Bad : \A k \in Bad : n <= k
    <3> HIDE DEF P
    <3>1. Bad \subseteq Nat
      OBVIOUS
    <3> HIDE DEF Bad
    <3> QED
      BY <3>1, LeastNat
  <2> HIDE DEF P
  <2>2. n = 0 \/ P(n - 1)
    BY <2>1
  <2>3. P(n)
    BY <1>2, <2>2
  <2> QED
    BY <2>3
<1>4. P(Cardinality(S))
  <2> HIDE DEF P
  <2> QED
    BY <1>1, <1>3
<1>5. B(Cardinality(S)) = SUBSET S
  BY <1>1
<1> QED
  BY <1>4, <1>5

\* A fold draws all pixels: no smallest set is drawn otherwise.
LEMMA FoldPaints ==
  ASSUME NEW c, NEW m, NEW img, Sized(img), NEW S, IsFiniteSet(S), Loops(S, c),
         NEW f, Folds(f, c, m, img, SUBSET S)
  PROVE  Painted(f[S], S, c, m, img)
<1> DEFINE Fine(s) == Painted(f[s], s, c, m, img)
           Bad == {s \in SUBSET S : ~Fine(s)}
           T == {Cardinality(s) : s \in Bad}
<1>1. Bad = {}
  <2> SUFFICES ASSUME Bad # {}
               PROVE  FALSE
    OBVIOUS
  <2> HIDE DEF Fine
  <2>1. PICK n \in T : \A k \in T : n <= k
    <3>1. T \subseteq Nat /\ T # {}
      BY FS_Subset, FS_CardinalityType
    <3> HIDE DEF T
    <3> QED
      BY <3>1, LeastNat
  <2>2. PICK s \in Bad : Cardinality(s) = n
    BY <2>1
  <2>3. s # {}
    <3> SUFFICES ASSUME s = {}
                 PROVE  Fine({})
      BY <2>2
    <3>1. f[{}] = img
      BY DEF Folds
    <3> QED
      BY <3>1, NothingPainted DEF Fine
  <2> DEFINE p == Pick(s)
             t == s \ {p}
  <2>4. /\ p \in s /\ Cardinality(t) = Cardinality(s) - 1 /\ Cardinality(s) \in Nat
    BY <2>2, <2>3, PickOne
  <2>5. Fine(t)
    <3> SUFFICES ASSUME ~Fine(t)
                 PROVE  FALSE
      OBVIOUS
    <3>1. Cardinality(t) \in T
      BY <2>2
    <3> HIDE DEF T, t, p
    <3> QED
      BY <2>1, <2>2, <2>4, <3>1
  <2>6. f[s] = Body(c, m, f[t], p)
    BY <2>2, <2>3 DEF Folds
  <2>7. s = t \cup {p} /\ p \notin t /\ Loops(s, c)
    BY <2>2, <2>4 DEF Loops
  <2>8. Painted(Body(c, m, f[t], p), t \cup {p}, c, m, img)
    <3> HIDE DEF t, p
    <3> QED
      BY <2>5, <2>7, BodyStep DEF Fine
  <2> HIDE DEF t, p
  <2> QED
    BY <2>2, <2>6, <2>7, <2>8 DEF Fine
<1> QED
  BY <1>1

\* The pixels of the loops of a command.
Columns(c) ==
  IF c.op = "R" THEN c.rect.x .. c.rect.x + c.rect.width - 1
  ELSE IF c.op = "C" THEN c.x - c.r .. c.x + c.r
  ELSE 0 .. c.rect.width - 1

Rows(c) ==
  IF c.op = "R" THEN c.rect.y .. c.rect.y + c.rect.height - 1
  ELSE IF c.op = "C" THEN c.y - c.r .. c.y + c.r
  ELSE 0 .. c.rect.height - 1

Area(c) == Columns(c) \X Rows(c)

\* What is drawn with a command, and the pixels that it gets to.
After(c, m, img) ==
  IF c.op = "R" THEN draw_rect(img, c.rect, c.color)
  ELSE IF c.op = "C" THEN draw_circle(img, c.x, c.y, c.r, c.color)
  ELSE IF c.op = "T" THEN draw_tile(img, c.x, c.y, m, c.rect)
  ELSE draw_sprite(img, c.x, c.y, m, c.rect)

Region(c, m) == IF c.op \in {"T", "P"} /\ ~Inside(m, c.rect) THEN {} ELSE Area(c)

DrawOps == {"R", "C", "T", "P"}

\* The operands of a command are read into int32_t.
LEMMA Operands ==
  ASSUME NEW c \in Commands, c.op \in DrawOps
  PROVE  /\ c.op # "C" => /\ c.rect.x \in Int32 /\ c.rect.y \in Int32
                          /\ c.rect.width \in Int32 /\ c.rect.height \in Int32
         /\ c.op # "R" => c.x \in Int32 /\ c.y \in Int32
         /\ c.op = "C" => c.r \in Int32
BY CommandsAssumption DEF DrawOps, Rect

\* Two of them have a sum that uint32_t keeps apart from negative numbers.
LEMMA Int32Sums ==
  /\ \A a \in Int32 : a \in Int
  /\ \A a, b \in Int32 : a + b < UintSize
BY DrawingAssumption DEF Int32

\* The loops of the four functions are finite and reach each pixel once.
LEMMA AreaLoops ==
  ASSUME NEW c \in Commands, c.op \in DrawOps
  PROVE  IsFiniteSet(Area(c)) /\ Loops(Area(c), c)
<1>1. IsFiniteSet(Columns(c)) /\ IsFiniteSet(Rows(c))
  <2>1. \A a, b \in Int : IsFiniteSet(a .. b)
    BY FS_Interval
  <2>2. CASE c.op = "R"
    <3>1. /\ c.rect.x \in Int /\ c.rect.x + c.rect.width - 1 \in Int
          /\ c.rect.y \in Int /\ c.rect.y + c.rect.height - 1 \in Int
      BY <2>2, Operands, Int32Sums
    <3> QED
      BY <2>1, <2>2, <3>1 DEF Columns, Rows
  <2>3. CASE c.op = "C"
    <3>1. /\ c.x - c.r \in Int /\ c.x + c.r \in Int
          /\ c.y - c.r \in Int /\ c.y + c.r \in Int
      BY <2>3, Operands, Int32Sums
    <3> QED
      BY <2>1, <2>3, <3>1 DEF Columns, Rows
  <2>4. CASE c.op \in {"T", "P"}
    <3>1. c.rect.width - 1 \in Int /\ c.rect.height - 1 \in Int
      BY <2>4, Operands, Int32Sums
    <3> QED
      BY <2>1, <2>4, <3>1 DEF Columns, Rows
  <2> QED
    BY <2>2, <2>3, <2>4 DEF DrawOps
<1>2. IsFiniteSet(Area(c))
  BY <1>1, FS_Product DEF Area
<1>3. ASSUME NEW p \in Area(c)
      PROVE  /\ Across(c, p) \in Int /\ Across(c, p) < UintSize
             /\ Down(c, p) \in Int /\ Down(c, p) < UintSize
             /\ p[1] \in Int /\ p[2] \in Int
  <2>1. p[1] \in Columns(c) /\ p[2] \in Rows(c)
    BY DEF Area
  <2>2. CASE c.op = "R"
    <3>1. /\ c.rect.x \in Int32 /\ c.rect.y \in Int32
          /\ c.rect.width \in Int32 /\ c.rect.height \in Int32
      BY <2>2, Operands
    <3>2. /\ p[1] \in c.rect.x .. c.rect.x + c.rect.width - 1
          /\ p[2] \in c.rect.y .. c.rect.y + c.rect.height - 1
      BY <2>1, <2>2 DEF Columns, Rows
    <3>3. Across(c, p) = p[1] /\ Down(c, p) = p[2]
      BY <2>2 DEF Across, Down
    <3>4. c.rect.x + c.rect.width < UintSize /\ c.rect.y + c.rect.height < UintSize
      BY <3>1, Int32Sums
    <3> QED
      BY <3>1, <3>2, <3>3, <3>4, Int32Sums, DrawingAssumption
  <2>3. CASE c.op = "C"
    <3>1. c.x \in Int32 /\ c.y \in Int32 /\ c.r \in Int32
      BY <2>3, Operands
    <3>2. p[1] \in c.x - c.r .. c.x + c.r /\ p[2] \in c.y - c.r .. c.y + c.r
      BY <2>1, <2>3 DEF Columns, Rows
    <3>3. Across(c, p) = p[1] /\ Down(c, p) = p[2]
      BY <2>3 DEF Across, Down
    <3>4. c.x + c.r < UintSize /\ c.y + c.r < UintSize
      BY <3>1, Int32Sums
    <3> QED
      BY <3>1, <3>2, <3>3, <3>4, Int32Sums, DrawingAssumption
  <2>4. CASE c.op \in {"T", "P"}
    <3>1. /\ c.rect.width \in Int32 /\ c.rect.height \in Int32
          /\ c.x \in Int32 /\ c.y \in Int32
      BY <2>4, Operands
    <3>2. p[1] \in 0 .. c.rect.width - 1 /\ p[2] \in 0 .. c.rect.height - 1
      BY <2>1, <2>4 DEF Columns, Rows
    <3>3. Across(c, p) = c.x + p[1] /\ Down(c, p) = c.y + p[2]
      BY <2>4 DEF Across, Down
    <3>4. c.x + c.rect.width < UintSize /\ c.y + c.rect.height < UintSize
      BY <3>1, Int32Sums
    <3> QED
      BY <3>1, <3>2, <3>3, <3>4, Int32Sums, DrawingAssumption
  <2> QED
    BY <2>2, <2>3, <2>4 DEF DrawOps
<1>4. ASSUME NEW p \in Area(c), NEW q \in Area(c),
             Across(c, p) = Across(c, q), Down(c, p) = Down(c, q)
      PROVE  p = q
  <2>1. p[1] \in Int /\ p[2] \in Int /\ q[1] \in Int /\ q[2] \in Int
    BY <1>3
  <2>2. CASE c.op \in {"R", "C"}
    BY <1>4, <2>2 DEF Across, Down, Area
  <2>3. CASE c.op \in {"T", "P"}
    <3>1. c.x \in Int /\ c.y \in Int
      BY <2>3, Operands, Int32Sums
    <3>2. c.x + p[1] = c.x + q[1] /\ c.y + p[2] = c.y + q[2]
      BY <1>4, <2>3 DEF Across, Down
    <3>3. p[1] = q[1] /\ p[2] = q[2]
      BY <2>1, <3>1, <3>2
    <3> QED
      BY <3>3 DEF Area
  <2> QED
    BY <2>2, <2>3 DEF DrawOps
<1>5. Loops(Area(c), c)
  BY <1>3, <1>4 DEF Loops
<1> QED
  BY <1>2, <1>5

\* Each of the four functions is such a fold.
LEMMA RectanglePaints ==
  ASSUME NEW c \in Commands, c.op = "R", NEW m, NEW img, Sized(img)
  PROVE  Painted(draw_rect(img, c.rect, c.color), Area(c), c, m, img)
<1> DEFINE S == Area(c)
           Is(f) == f = [s \in SUBSET S |-> IF s = {} THEN img ELSE
              draw_pixel(f[s \ {Pick(s)}], Pick(s)[1], Pick(s)[2], c.color)]
           iter == CHOOSE f : Is(f)
<1>1. \A f : Is(f) <=> Folds(f, c, m, img, SUBSET S)
  BY DEF Folds, Body, Copied, Shown, At, Paint, Across, Down, draw_pixel, set_pixel
<1>2. IsFiniteSet(S) /\ Loops(S, c)
  BY AreaLoops DEF DrawOps
<1>3. Is(iter)
  BY <1>1, <1>2, FoldExists
<1>4. draw_rect(img, c.rect, c.color) = iter[S]
  BY DEF draw_rect, Loop, FoldSet, MapThenFoldSet, Pick, Area, Columns, Rows
<1> HIDE DEF iter, Is, S
<1> QED
  BY <1>1, <1>2, <1>3, <1>4, FoldPaints DEF S

LEMMA CirclePaints ==
  ASSUME NEW c \in Commands, c.op = "C", NEW m, NEW img, Sized(img)
  PROVE  Painted(draw_circle(img, c.x, c.y, c.r, c.color), Area(c), c, m, img)
<1> DEFINE S == Area(c)
           Is(f) == f = [s \in SUBSET S |-> IF s = {} THEN img ELSE
              IF square_dist(Pick(s)[1], Pick(s)[2], c.x, c.y) <= square(c.r)
                THEN draw_pixel(f[s \ {Pick(s)}], Pick(s)[1], Pick(s)[2], c.color)
                ELSE f[s \ {Pick(s)}]]
           iter == CHOOSE f : Is(f)
<1>1. \A f : Is(f) <=> Folds(f, c, m, img, SUBSET S)
  BY DEF Folds, Body, Copied, Shown, At, Paint, Across, Down, draw_pixel, set_pixel
<1>2. IsFiniteSet(S) /\ Loops(S, c)
  BY AreaLoops DEF DrawOps
<1>3. Is(iter)
  BY <1>1, <1>2, FoldExists
<1>4. draw_circle(img, c.x, c.y, c.r, c.color) = iter[S]
  BY DEF draw_circle, Loop, FoldSet, MapThenFoldSet, Pick, Area, Columns, Rows
<1> HIDE DEF iter, Is, S
<1> QED
  BY <1>1, <1>2, <1>3, <1>4, FoldPaints DEF S

LEMMA TilePaints ==
  ASSUME NEW c \in Commands, c.op = "T", NEW m, Inside(m, c.rect), NEW img, Sized(img)
  PROVE  Painted(draw_tile(img, c.x, c.y, m, c.rect), Area(c), c, m, img)
<1> DEFINE S == Area(c)
           Put(i, p) ==
             LET dest == U((c.y + p[2]) * i.width + (c.x + p[1]))
                 from == U((c.rect.y + p[2]) * m.width + (c.rect.x + p[1]))
             IN IF in_bounds(i, c.x + p[1], c.y + p[2])
                  THEN Store(ReadFrom(i, m, from), dest, Fetch(m, from)) ELSE i
           Is(f) == f = [s \in SUBSET S |-> IF s = {} THEN img
                                            ELSE Put(f[s \ {Pick(s)}], Pick(s))]
           iter == CHOOSE f : Is(f)
<1>1. \A f : Is(f) <=> Folds(f, c, m, img, SUBSET S)
  BY DEF Folds, Body, Copied, Shown, At, Paint, From, Across, Down, compute_index
<1>2. IsFiniteSet(S) /\ Loops(S, c)
  BY AreaLoops DEF DrawOps
<1>3. Is(iter)
  BY <1>1, <1>2, FoldExists
<1>4. draw_tile(img, c.x, c.y, m, c.rect) = iter[S]
  BY DEF draw_tile, Copy, Loop, FoldSet, MapThenFoldSet, Pick, Area, Columns, Rows
<1> HIDE DEF iter, Is, S
<1> QED
  BY <1>1, <1>2, <1>3, <1>4, FoldPaints DEF S

LEMMA SpritePaints ==
  ASSUME NEW c \in Commands, c.op = "P", NEW m, Inside(m, c.rect), NEW img, Sized(img)
  PROVE  Painted(draw_sprite(img, c.x, c.y, m, c.rect), Area(c), c, m, img)
<1> DEFINE S == Area(c)
           Put(i, p) ==
             LET dest == U((c.y + p[2]) * i.width + (c.x + p[1]))
                 from == U((c.rect.y + p[2]) * m.width + (c.rect.x + p[1]))
             IN IF in_bounds(i, c.x + p[1], c.y + p[2])
                  THEN Store(ReadFrom(i, m, from), dest,
                             blend_colors(Fetch(m, from), Fetch(i, dest)))
                  ELSE i
           Is(f) == f = [s \in SUBSET S |-> IF s = {} THEN img
                                            ELSE Put(f[s \ {Pick(s)}], Pick(s))]
           iter == CHOOSE f : Is(f)
<1>1. \A f : Is(f) <=> Folds(f, c, m, img, SUBSET S)
  BY DEF Folds, Body, Copied, Shown, At, Paint, From, Across, Down, compute_index
<1>2. IsFiniteSet(S) /\ Loops(S, c)
  BY AreaLoops DEF DrawOps
<1>3. Is(iter)
  BY <1>1, <1>2, FoldExists
<1>4. draw_sprite(img, c.x, c.y, m, c.rect) = iter[S]
  BY DEF draw_sprite, Copy, Loop, FoldSet, MapThenFoldSet, Pick, Area, Columns, Rows
<1> HIDE DEF iter, Is, S
<1> QED
  BY <1>1, <1>2, <1>3, <1>4, FoldPaints DEF S

\* Whatever a command is, its function draws the pixels it gets to and no others.
LEMMA CommandPaints ==
  ASSUME NEW c \in Commands, c.op \in DrawOps, NEW m, NEW img, Sized(img)
  PROVE  Painted(After(c, m, img), Region(c, m), c, m, img)
<1>1. CASE c.op = "R"
  BY <1>1, RectanglePaints DEF After, Region
<1>2. CASE c.op = "C"
  BY <1>2, CirclePaints DEF After, Region
<1>3. CASE c.op \in {"T", "P"} /\ Inside(m, c.rect)
  BY <1>3, TilePaints, SpritePaints DEF After, Region
<1>4. CASE c.op \in {"T", "P"} /\ ~Inside(m, c.rect)
  <2>1. After(c, m, img) = img /\ Region(c, m) = {}
    BY <1>4 DEF After, Region, draw_tile, draw_sprite, Copy
  <2> QED
    BY <2>1, NothingPainted
<1> QED
  BY <1>1, <1>2, <1>3, <1>4 DEF DrawOps
-----------------------------------------------------------------------------
(* What is drawn is what is expected *)

\* A pixel of a loop that is shown in place j has the column and row of j.
LEMMA PlaceShown ==
  ASSUME NEW img, Sized(img), Whole(img), NEW j \in 1 .. img.width * img.height,
         NEW c, NEW p, Loops({p}, c)
  PROVE  (Shown(c, img, p) /\ At(c, img, p) + 1 = j) <=>
           /\ Across(c, p) = Column(img, j) /\ Down(c, p) = Row(img, j)
           /\ c.op = "C" => square_dist(p[1], p[2], c.x, c.y) <= square(c.r)
<1> DEFINE w == img.width
           h == img.height
           x == Across(c, p)
           y == Down(c, p)
           u == (j - 1) % w
           v == (j - 1) \div w
           close == c.op = "C" => square_dist(p[1], p[2], c.x, c.y) <= square(c.r)
<1>1. w \in Nat /\ h \in Nat /\ w * h < UintSize /\ UintSize \in Nat
  BY DrawingAssumption DEF Sized, Whole
<1>2. x \in Int /\ x < UintSize /\ y \in Int /\ y < UintSize
  BY DEF Loops
<1>3. u \in 0 .. w - 1 /\ v \in 0 .. h - 1 /\ j - 1 = v * w + u
  <2> HIDE DEF w, h
  <2>1. j \in 1 .. w * h
    BY DEF w, h
  <2> QED
    BY <1>1, <2>1, PixelOfPlace DEF u, v
<1>4. ASSUME Shown(c, img, p), At(c, img, p) + 1 = j
      PROVE  x = u /\ y = v /\ close
  <2>1. x \in 0 .. w - 1 /\ y \in 0 .. h - 1 /\ At(c, img, p) = y * w + x
    BY <1>4, ShownPlace
  <2>2. close
    BY <1>4 DEF Shown
  <2>3. At(c, img, p) \in Int /\ j \in Int
    <3>1. At(c, img, p) \in 0 .. img.width * img.height - 1
      BY <1>4, ShownPlace
    <3> HIDE DEF At
    <3> QED
      BY <3>1
  <2> HIDE DEF x, y, u, v, w, h, close
  <2>4. x \in Nat /\ y \in Nat /\ x < w /\ y < h /\ u \in Nat /\ v \in Nat /\ u < w /\ v < h
    BY <1>1, <1>3, <2>1
  <2>5. y * w + x = v * w + u
    BY <1>3, <1>4, <2>1, <2>3
  <2>6. (y * w + x) % w = x /\ (y * w + x) \div w = y
    BY <1>1, <2>4, PlaceOfPixel
  <2>7. (v * w + u) % w = u /\ (v * w + u) \div w = v
    BY <1>1, <2>4, PlaceOfPixel
  <2> QED
    BY <2>2, <2>5, <2>6, <2>7
<1>5. ASSUME x = u, y = v, close
      PROVE  Shown(c, img, p) /\ At(c, img, p) + 1 = j
  <2>1. x >= 0 /\ y >= 0 /\ x < w /\ y < h /\ x \in Nat /\ y \in Nat
    <3> HIDE DEF x, y, u, v, w, h
    <3> QED
      BY <1>1, <1>3, <1>5
  <2>2. U(x) = x /\ U(y) = y
    <3> HIDE DEF x, y
    <3> QED
      BY <1>2, <2>1, SmallNumbers
  <2>3. in_bounds(img, x, y)
    <3> HIDE DEF x, y
    <3> QED
      BY <2>1, <2>2 DEF in_bounds
  <2>4. Shown(c, img, p)
    BY <1>5, <2>3 DEF Shown
  <2>5. At(c, img, p) = y * w + x
    BY <2>4, ShownPlace
  <2>6. y * w + x = j - 1
    <3> HIDE DEF x, y, u, v, w
    <3> QED
      BY <1>3, <1>5
  <2> HIDE DEF x, y, w
  <2> QED
    BY <2>4, <2>5, <2>6
<1> HIDE DEF close
<1> QED
  BY <1>4, <1>5 DEF Column, Row, close

\* blend_colors is the sum that the property states.
LEMMA BlendIsOver ==
  ASSUME NEW new, NEW old
  PROVE  blend_colors(new, old) = Over(new, old)
<1>1. \A k \in 1 .. 4 :
        IF k = 4 THEN TRUE ELSE blend_components(new[k], old[k], new[4]) =
          IF Undef \in {new[4], new[k], old[k]} THEN Undef
          ELSE (new[4] * new[k] + (255 - new[4]) * old[k]) \div 255
  BY DEF blend_components
<1> QED
  BY <1>1 DEF blend_colors, Over, Alpha

\* A point in the circle is in its box.
LEMMA InBox ==
  ASSUME NEW a \in Int, NEW b \in Int, NEW r \in Nat, square(a) + square(b) <= square(r)
  PROVE  - r <= a /\ a <= r /\ - r <= b /\ b <= r
<1>1. ASSUME NEW n \in Int, n > r \/ n < - r
      PROVE  n * n > r * r
  <2>1. CASE n > r
    BY <1>1, <2>1
  <2>2. CASE n < - r
    <3>1. - n > r /\ n * n = (- n) * (- n)
      BY <1>1, <2>2
    <3> QED
      BY <2>2, <3>1
  <2> QED
    BY <1>1, <2>1, <2>2
<1>2. a * a >= 0 /\ b * b >= 0 /\ a * a + b * b <= r * r
  BY DEF square
<1>3. ~(a > r \/ a < - r) /\ ~(b > r \/ b < - r)
  <2>1. ASSUME a > r \/ a < - r
        PROVE  FALSE
    BY <1>1, <1>2, <2>1
  <2>2. ASSUME b > r \/ b < - r
        PROVE  FALSE
    BY <1>1, <1>2, <2>2
  <2> QED
    BY <2>1, <2>2
<1> QED
  BY <1>3

\* Where a tile or sprite has pixels, the sums of its bounds do not wrap.
LEMMA InsideIsWhole ==
  ASSUME NEW m, Sized(m), NEW c \in Commands, c.op \in {"T", "P"},
         c.rect.width > 0, c.rect.height > 0
  PROVE  Inside(m, c.rect) <=>
           /\ c.rect.x >= 0 /\ c.rect.y >= 0
           /\ c.rect.width + c.rect.x \in 0 .. m.width
           /\ c.rect.height + c.rect.y \in 0 .. m.height
<1> DEFINE x == c.rect.x
           y == c.rect.y
           w == c.rect.width
           h == c.rect.height
<1>1. x \in Int32 /\ y \in Int32 /\ w \in Int32 /\ h \in Int32
  BY Operands DEF DrawOps
<1>2. m.width \in Nat /\ m.height \in Nat
  BY DEF Sized
<1> HIDE DEF x, y, w, h
<1>3. ASSUME x >= 0, y >= 0, w > 0, h > 0
      PROVE  /\ U(x + w) = w + x /\ U(y + h) = h + y
             /\ w + x \in Nat /\ h + y \in Nat
  <2>1. x + w \in Nat /\ x + w < UintSize /\ y + h \in Nat /\ y + h < UintSize
    BY <1>1, <1>3, Int32Sums
  <2>2. w + x = x + w /\ h + y = y + h
    BY <1>1, Int32Sums
  <2> QED
    BY <2>1, <2>2, SmallNumbers
<1>4. w > 0 /\ h > 0
  BY DEF w, h
<1>5. Inside(m, c.rect) <=>
        /\ x >= 0 /\ y >= 0 /\ U(x + w) <= m.width /\ U(y + h) <= m.height
  BY DEF Inside, x, y, w, h
<1>6. Inside(m, c.rect) <=>
        /\ x >= 0 /\ y >= 0 /\ w + x \in 0 .. m.width /\ h + y \in 0 .. m.height
  BY <1>2, <1>3, <1>4, <1>5
<1> QED
  BY <1>6 DEF x, y, w, h

\* What the loops have drawn in a place is what the property expects there.
LEMMA PixelAsExpected ==
  ASSUME cmd \in Commands, cmd.op \in DrawOps, Sized(canvas), Whole(canvas),
         NEW m, m = loaded_images[cmd.n],
         cmd.op \in {"T", "P"} => Sized(m) /\ Whole(m),
         NEW i, Painted(i, Region(cmd, m), cmd, m, canvas),
         NEW j \in 1 .. canvas.width * canvas.height
  PROVE  i.data[j] = Expected(Column(canvas, j), Row(canvas, j), canvas.data[j])
<1> DEFINE x == Column(canvas, j)
           y == Row(canvas, j)
           old == canvas.data[j]
           new == i.data[j]
           Hit(p) == /\ Across(cmd, p) = x /\ Down(cmd, p) = y
                     /\ cmd.op = "C" =>
                          square_dist(p[1], p[2], cmd.x, cmd.y) <= square(cmd.r)
<1>1. \A p \in Area(cmd) : (Shown(cmd, canvas, p) /\ At(cmd, canvas, p) + 1 = j) <=> Hit(p)
  <2> TAKE p \in Area(cmd)
  <2>1. Loops({p}, cmd)
    BY AreaLoops DEF Loops
  <2> QED
    BY <2>1, PlaceShown
<1>2. /\ \A p \in Region(cmd, m) : Hit(p) => new = Paint(cmd, m, p, old)
      /\ (\A p \in Region(cmd, m) : ~Hit(p)) => new = old
  <2> HIDE DEF Hit
  <2>1. \A p \in Region(cmd, m) : p \in Area(cmd)
    BY DEF Region
  <2> QED
    BY <1>1, <2>1 DEF Painted
<1>3. x \in Int /\ y \in Int
  <2>1. canvas.width \in Nat /\ canvas.height \in Nat
    BY DEF Sized
  <2> QED
    BY <2>1, PixelOfPlace DEF Column, Row
<1> HIDE DEF x, y, old, new
<1>4. CASE cmd.op = "R"
  <2>1. /\ cmd.rect.x \in Int /\ cmd.rect.y \in Int
        /\ cmd.rect.width \in Int /\ cmd.rect.height \in Int
    BY <1>4, Operands, Int32Sums
  <2>2. /\ Expected(x, y, old) = IF Within(cmd.rect, x, y) THEN Over(cmd.color, old) ELSE old
        /\ Region(cmd, m) = Area(cmd)
        /\ \A p : Hit(p) <=> p[1] = x /\ p[2] = y
        /\ \A p : Paint(cmd, m, p, old) = blend_colors(cmd.color, old)
    BY <1>4 DEF Expected, Region, Across, Down, Paint
  <2>3. <<x, y>> \in Area(cmd) <=> Within(cmd.rect, x, y)
    BY <1>3, <1>4, <2>1 DEF Area, Columns, Rows, Within
  <2>4. \A p \in Area(cmd) : Hit(p) => p = <<x, y>>
    BY <2>2 DEF Area
  <2>5. Within(cmd.rect, x, y) => new = blend_colors(cmd.color, old)
    BY <1>2, <2>2, <2>3
  <2>6. ~Within(cmd.rect, x, y) => new = old
    BY <1>2, <2>2, <2>3, <2>4
  <2>7. new = Expected(x, y, old)
    BY <2>2, <2>5, <2>6, BlendIsOver
  <2> QED
    BY <2>7 DEF x, y, old, new
<1>5. CASE cmd.op = "C"
  <2>1. cmd.x \in Int /\ cmd.y \in Int /\ cmd.r \in Int
    BY <1>5, Operands, Int32Sums
  <2> DEFINE near == cmd.r >= 0 /\ square(x - cmd.x) + square(y - cmd.y) <= square(cmd.r)
  <2>2. /\ Expected(x, y, old) = IF near THEN Over(cmd.color, old) ELSE old
        /\ Region(cmd, m) = Area(cmd)
        /\ \A p : Hit(p) <=> /\ p[1] = x /\ p[2] = y
                             /\ square(p[1] - cmd.x) + square(p[2] - cmd.y) <= square(cmd.r)
        /\ \A p : Paint(cmd, m, p, old) = blend_colors(cmd.color, old)
    BY <1>5 DEF Expected, Region, Across, Down, Paint, square_dist
  <2>3. near => <<x, y>> \in Area(cmd)
    <3> SUFFICES ASSUME near
                 PROVE  <<x, y>> \in Area(cmd)
      OBVIOUS
    <3>1. /\ - cmd.r <= x - cmd.x /\ x - cmd.x <= cmd.r
          /\ - cmd.r <= y - cmd.y /\ y - cmd.y <= cmd.r
      BY <1>3, <2>1, InBox
    <3>2. x \in cmd.x - cmd.r .. cmd.x + cmd.r /\ y \in cmd.y - cmd.r .. cmd.y + cmd.r
      BY <1>3, <2>1, <3>1
    <3> QED
      BY <1>5, <3>2 DEF Area, Columns, Rows
  <2>4. \A p \in Area(cmd) : Hit(p) => near
    <3> SUFFICES ASSUME NEW p \in Area(cmd), Hit(p)
                 PROVE  near
      OBVIOUS
    <3>1. x \in cmd.x - cmd.r .. cmd.x + cmd.r
      BY <1>5, <2>2 DEF Area, Columns
    <3>2. cmd.r >= 0
      BY <2>1, <3>1
    <3> QED
      BY <2>2, <3>2
  <2>5. near => new = blend_colors(cmd.color, old)
    BY <1>2, <2>2, <2>3
  <2>6. ~near => new = old
    BY <1>2, <2>2, <2>4
  <2>7. new = Expected(x, y, old)
    <3> HIDE DEF near
    <3> QED
      BY <2>2, <2>5, <2>6, BlendIsOver
  <2> QED
    BY <2>7 DEF x, y, old, new
<1>6. CASE cmd.op \in {"T", "P"}
  <2>1. /\ cmd.rect.x \in Int /\ cmd.rect.y \in Int
        /\ cmd.rect.width \in Int /\ cmd.rect.height \in Int
        /\ cmd.x \in Int /\ cmd.y \in Int
    BY <1>6, Operands, Int32Sums
  <2> DEFINE whole == /\ cmd.rect.x >= 0 /\ cmd.rect.y >= 0
                      /\ cmd.rect.width + cmd.rect.x \in 0 .. m.width
                      /\ cmd.rect.height + cmd.rect.y \in 0 .. m.height
             hit == /\ cmd.x <= x /\ x < cmd.x + cmd.rect.width
                    /\ cmd.y <= y /\ y < cmd.y + cmd.rect.height
             pixel == m.data[(cmd.rect.y + y - cmd.y) * m.width + cmd.rect.x + x - cmd.x + 1]
             q == <<x - cmd.x, y - cmd.y>>
  <2>2. Expected(x, y, old) =
          IF whole /\ hit THEN IF cmd.op = "T" THEN pixel ELSE Over(pixel, old) ELSE old
    <3>1. Within([cmd.rect EXCEPT !.x = cmd.x, !.y = cmd.y], x, y) <=> hit
      <4>1. cmd.rect \in Rect
        BY <1>6, CommandsAssumption
      <4> QED
        BY <4>1 DEF Within, Rect
    <3> QED
      BY <1>6, <3>1 DEF Expected
  <2>3. /\ \A p : Hit(p) <=> cmd.x + p[1] = x /\ cmd.y + p[2] = y
        /\ \A p : Paint(cmd, m, p, old) =
                    IF cmd.op = "T" THEN Fetch(m, From(cmd, m, p))
                                    ELSE blend_colors(Fetch(m, From(cmd, m, p)), old)
    BY <1>6 DEF Across, Down, Paint
  <2>4. CASE ~hit
    <3>1. \A p \in Region(cmd, m) : ~Hit(p)
      <4> SUFFICES ASSUME NEW p \in Area(cmd), Hit(p)
                   PROVE  FALSE
        BY DEF Region
      <4>1. p[1] \in 0 .. cmd.rect.width - 1 /\ p[2] \in 0 .. cmd.rect.height - 1
        BY <1>6 DEF Area, Columns, Rows
      <4> QED
        BY <1>3, <2>1, <2>3, <2>4, <4>1
    <3>2. new = old
      BY <1>2, <3>1
    <3> QED
      BY <2>2, <2>4, <3>2 DEF x, y, old, new
  <2>5. CASE hit
    <3>1. cmd.rect.width > 0 /\ cmd.rect.height > 0
      BY <1>3, <2>1, <2>5
    <3>2. Inside(m, cmd.rect) <=> whole
      BY <1>6, <3>1, InsideIsWhole
    <3>3. q \in Area(cmd) /\ Hit(q)
      <4>1. x - cmd.x \in 0 .. cmd.rect.width - 1 /\ y - cmd.y \in 0 .. cmd.rect.height - 1
        BY <1>3, <2>1, <2>5
      <4>2. q \in Area(cmd)
        BY <1>6, <4>1 DEF Area, Columns, Rows
      <4>3. cmd.x + (x - cmd.x) = x /\ cmd.y + (y - cmd.y) = y
        BY <1>3, <2>1
      <4> QED
        BY <2>3, <4>2, <4>3
    <3>4. CASE ~whole
      <4>1. Region(cmd, m) = {}
        BY <1>6, <3>2, <3>4 DEF Region
      <4>2. new = old
        BY <1>2, <4>1
      <4> QED
        BY <2>2, <3>4, <4>2 DEF x, y, old, new
    <3>5. CASE whole
      <4>1. q \in Region(cmd, m)
        BY <3>2, <3>3, <3>5 DEF Region
      <4>2. new = Paint(cmd, m, q, old)
        BY <1>2, <3>3, <4>1
      <4>3. Fetch(m, From(cmd, m, q)) = pixel
        <5> DEFINE a == cmd.rect.x + (x - cmd.x)
                   b == cmd.rect.y + (y - cmd.y)
                   w == m.width
                   h == m.height
        <5>1. w \in Nat /\ h \in Nat /\ w * h < UintSize
          BY <1>6 DEF Sized, Whole
        <5>2. a \in Nat /\ b \in Nat /\ a < w /\ b < h
          BY <1>3, <2>1, <2>5, <3>5, <5>1
        <5>3. From(cmd, m, q) = U(b * w + a)
          BY DEF From
        <5>4. cmd.rect.x + x - cmd.x = a /\ cmd.rect.y + y - cmd.y = b
          BY <1>3, <2>1
        <5>5. Len(m.data) = w * h
          <6>1. m.data = [k \in 1 .. w * h |-> m.data[k]]
            BY <1>6 DEF Sized
          <6>2. w * h \in Nat
            BY <5>1
          <6> HIDE DEF w, h
          <6> QED
            BY <6>1, <6>2, LengthOf
        <5>6. (cmd.rect.y + y - cmd.y) * m.width + cmd.rect.x + x - cmd.x + 1 = (b * w + a) + 1
          <6>1. (cmd.rect.y + y - cmd.y) * m.width = b * w
            BY <5>4
          <6>2. b * w \in Int
            BY <5>1, <5>2
          <6> DEFINE bw == b * w
          <6> HIDE DEF bw
          <6>3. bw \in Int
            BY <6>2 DEF bw
          <6>4. bw + cmd.rect.x + x - cmd.x + 1 = (bw + a) + 1
            BY <1>3, <2>1, <6>3
          <6> QED
            BY <6>1, <6>4, Zenon DEF bw
        <5> HIDE DEF a, b, w, h
        <5>7. b * w + a \in 0 .. w * h - 1
          BY <5>1, <5>2, PlaceOfPixel
        <5>8. U(b * w + a) = b * w + a /\ b * w + a < w * h
          <6>1. b * w + a \in Nat /\ b * w + a < w * h
            BY <5>1, <5>7
          <6>2. b * w + a < UintSize
            BY <5>1, <6>1, DrawingAssumption
          <6> QED
            BY <6>1, <6>2, SmallNumbers
        <5>9. Fetch(m, From(cmd, m, q)) = m.data[(b * w + a) + 1]
          BY <5>3, <5>5, <5>8 DEF Fetch
        <5> QED
          BY <5>6, <5>9 DEF w
      <4>4. new = Expected(x, y, old)
        <5> HIDE DEF pixel, q, whole, hit
        <5> QED
          BY <2>2, <2>3, <2>5, <3>5, <4>2, <4>3, BlendIsOver
      <4> QED
        BY <4>4 DEF x, y, old, new
    <3> QED
      BY <3>4, <3>5
  <2> QED
    BY <2>4, <2>5
<1> QED
  BY <1>4, <1>5, <1>6 DEF DrawOps

-----------------------------------------------------------------------------
(* The images of the program *)

\* The images in the slots and the one being read have a pixel in each place.
ImageInv ==
  /\ cmd \in Commands \cup {Nothing}
  /\ \A n \in Slots : Sized(loaded_images[n])
  /\ Sized(call.image)
  /\ call.status = "reading" =>
       {"width", "height"} \subseteq DOMAIN png /\ png.width \in Nat /\ png.height \in Nat

\* A slot without an image, or that one is read for, is empty; nothing is small.
SlotInv ==
  /\ \A n \in Slots : loaded_images[n].null => Whole(loaded_images[n])
  /\ call.image.null => Whole(call.image)
  /\ cmd.op = "L" /\ call # NoCall => cmd.n \in Slots /\ Whole(loaded_images[cmd.n])

\* No loaded image has a size that wraps.
AllWhole == \A n \in Slots : Whole(loaded_images[n])

\* The canvas has a pixel in each place, and is intact if no size wraps.
CanvasInv ==
  /\ Sized(canvas)
  /\ ~TooLarge(canvas) /\ AllWhole => canvas.intact

DrawInv ==
  LibraryInv /\ DOMAIN loaded_images = Slots /\ ImageInv /\ SlotInv /\ CanvasInv

\* init_image makes such an image.
LEMMA NewImages ==
  /\ Sized(Null) /\ Null.intact = TRUE
  /\ \A width, height \in Nat : \A data :
       data = [j \in 1 .. U(width * height) |-> data[j]] =>
         Sized(Image(width, height, data)) /\ Image(width, height, data).intact = TRUE
<1>1. Null.data = [j \in 1 .. 0 * 0 |-> Null.data[j]]
  BY DEF Null
<1>2. Sized(Null) /\ Null.intact = TRUE
  BY <1>1 DEF Sized, Null
<1>3. ASSUME NEW width \in Nat, NEW height \in Nat, NEW data,
             data = [j \in 1 .. U(width * height) |-> data[j]]
      PROVE  Sized(Image(width, height, data)) /\ Image(width, height, data).intact = TRUE
  <2>1. width * height < UintSize => U(width * height) = width * height
    BY SmallNumbers
  <2> QED
    BY <1>3, <2>1 DEF Sized, Image, Whole
<1> QED
  BY <1>2, <1>3

\* An image whose file does not wrap does not wrap either.
LEMMA SmallIsWhole ==
  ASSUME NEW img, Sized(img), ~TooLarge(img)
  PROVE  Whole(img)
<1> DEFINE k == img.width * img.height
<1>1. k \in Nat /\ img.height \in Nat
  BY DEF Sized
<1>2. k * 4 + img.height < UintSize
  BY <1>1, DrawingAssumption DEF TooLarge
<1> HIDE DEF k
<1>3. k < UintSize
  BY <1>1, <1>2, DrawingAssumption
<1> QED
  BY <1>3 DEF Whole, k

\* A command to draw leaves such a canvas.
LEMMA DrawKeeps ==
  ASSUME CanvasInv, NEW i, NEW s, NEW c, NEW m, Painted(i, s, c, m, canvas), canvas' = i,
         UNCHANGED loaded_images, AllWhole => InMap(s, c, m)
  PROVE  CanvasInv'
<1>1. /\ i = [width |-> i.width, height |-> i.height, data |-> i.data,
              intact |-> i.intact, null |-> i.null]
      /\ i.width = canvas.width /\ i.height = canvas.height
  BY DEF Painted
<1>2. Sized(i)
  BY <1>1 DEF CanvasInv, Painted, Sized, Whole
<1>3. ASSUME ~TooLarge(i), AllWhole
      PROVE  i.intact = canvas.intact /\ ~TooLarge(canvas)
  <2>1. ~TooLarge(canvas)
    BY <1>1, <1>3 DEF TooLarge
  <2>2. Whole(canvas)
    BY <2>1, SmallIsWhole DEF CanvasInv
  <2> QED
    BY <1>3, <2>1, <2>2 DEF Painted
<1>4. AllWhole' = AllWhole
  BY DEF AllWhole
<1> QED
  BY <1>2, <1>3, <1>4 DEF CanvasInv

\* A rectangle that lies in a whole image is copied from its pixels only.
LEMMA InsideIsInMap ==
  ASSUME NEW c \in Commands, c.op \in DrawOps, NEW m,
         c.op \in {"T", "P"} => Sized(m) /\ Whole(m)
  PROVE  InMap(Region(c, m), c, m)
<1> SUFFICES ASSUME c.op \in {"T", "P"}, NEW p \in Region(c, m)
             PROVE  From(c, m, p) < Len(m.data)
  BY DEF InMap, DrawOps
<1>1. Inside(m, c.rect) /\ p \in Area(c)
  BY DEF Region
<1>2. p[1] \in 0 .. c.rect.width - 1 /\ p[2] \in 0 .. c.rect.height - 1
  BY <1>1 DEF Area, Columns, Rows
<1>3. /\ c.rect.x \in Int /\ c.rect.y \in Int
      /\ c.rect.width \in Int /\ c.rect.height \in Int
  BY Operands, Int32Sums DEF DrawOps
<1>4. /\ c.rect.x >= 0 /\ c.rect.y >= 0
      /\ c.rect.width + c.rect.x \in 0 .. m.width
      /\ c.rect.height + c.rect.y \in 0 .. m.height
  <2>1. c.rect.width > 0 /\ c.rect.height > 0
    BY <1>2, <1>3
  <2> QED
    BY <1>1, <2>1, InsideIsWhole
<1>5. PICK w, h : w = m.width /\ h = m.height
  OBVIOUS
<1>6. w \in Nat /\ h \in Nat /\ w * h < UintSize /\ m.data = [k \in 1 .. w * h |-> m.data[k]]
  BY <1>5 DEF Sized, Whole
<1>7. PICK a, b : a = c.rect.x + p[1] /\ b = c.rect.y + p[2]
  OBVIOUS
<1>8. a \in Nat /\ b \in Nat /\ a < w /\ b < h
  <2>1. PICK i, j : i = p[1] /\ j = p[2]
    OBVIOUS
  <2>2. PICK x, y, u, v : x = c.rect.x /\ y = c.rect.y /\ u = c.rect.width /\ v = c.rect.height
    OBVIOUS
  <2>3. x \in Int /\ y \in Int /\ u \in Int /\ v \in Int /\ x >= 0 /\ y >= 0
    BY <1>3, <1>4, <2>2
  <2>4. i \in 0 .. u - 1 /\ j \in 0 .. v - 1
    BY <1>2, <2>1, <2>2
  <2>5. u + x \in 0 .. w /\ v + y \in 0 .. h
    BY <1>4, <1>5, <2>2
  <2>6. a = x + i /\ b = y + j
    BY <1>7, <2>1, <2>2
  <2> QED
    BY <1>6, <2>3, <2>4, <2>5, <2>6
<1>9. From(c, m, p) = U(b * w + a)
  BY <1>5, <1>7 DEF From
<1>10. b * w + a \in 0 .. w * h - 1 /\ w * h \in Nat
  <2>1. w \in Nat /\ h \in Nat
    BY <1>6
  <2>2. w * h \in Nat
    BY <2>1
  <2>3. b * w + a \in 0 .. w * h - 1
    BY ONLY <1>8, <2>1, PlaceOfPixel, Zenon
  <2> QED
    BY <2>2, <2>3
<1>11. PICK z, f : z \in Nat /\ f \in 0 .. z - 1 /\ z = w * h /\ f = b * w + a
  BY <1>10
<1>12. U(f) = f
  BY <1>6, <1>11, SmallNumbers, DrawingAssumption
<1>13. Len(m.data) = z
  BY <1>6, <1>11, LengthOf
<1> QED
  BY <1>9, <1>11, <1>12, <1>13

\* What a command to draw does.
DrawsCommand ==
  /\ cmd \in Commands /\ cmd.op \in DrawOps
  /\ cmd.op \in {"T", "P"} => cmd.n \in Slots
  /\ canvas' = After(cmd, loaded_images[cmd.n], canvas)
  /\ UNCHANGED <<files, loaded_images>> /\ cmd' = Nothing

\* The four actions are such commands.
LEMMA DrawSteps ==
  ASSUME ImageInv, Rectangle \/ Circle \/ Tile \/ Sprite
  PROVE  DrawsCommand
<1>1. cmd \in Commands
  BY DEF ImageInv, Rectangle, Circle, Tile, Sprite, Running, Nothing
<1> QED
  BY <1>1 DEF DrawsCommand, DrawOps, After, Rectangle, Circle, Tile, Sprite, Running,
     Draw, Done

\* A step that loads an image puts it into an empty slot.
LEMMA SmallerBefore ==
  ASSUME DrawInv, [Next]_vars
  PROVE  AllWhole' => AllWhole
<1>1. CASE UNCHANGED loaded_images
  BY <1>1 DEF AllWhole
<1>2. CASE Loaded
  <2>1. /\ cmd.op = "L" /\ call # NoCall
        /\ \/ UNCHANGED loaded_images
           \/ loaded_images' = [loaded_images EXCEPT ![cmd.n] = call.image]
    BY <1>2 DEF Loaded, Running, NoCall
  <2>2. cmd.n \in Slots /\ Whole(loaded_images[cmd.n])
    BY <2>1 DEF DrawInv, SlotInv
  <2> QED
    BY <2>1, <2>2 DEF AllWhole, DrawInv
<1> QED
  BY <1>1, <1>2 DEF Next, vars, ReadCommand, Unreadable, Size, SizeNoMemory, NoCanvas,
     Rectangle, Circle, NoSlot, Load, Reads, Tile, Sprite, Write, Leave, Draw

\* No image is read for a slot that is full.
LEMMA SlotStep ==
  ASSUME DrawInv, [Next]_vars
  PROVE  SlotInv'
<1>1. Whole(Null) /\ NoCall.image = Null
  BY DrawingAssumption DEF Whole, Null, NoCall
<1>2. CASE UNCHANGED vars
  BY <1>2 DEF vars, files, DrawInv, SlotInv
<1>3. CASE Reads
  <2>1. UNCHANGED <<loaded_images, cmd>> /\ call.status = "reading"
    BY <1>3 DEF Reads, ReadChunk, ReadFails, ReadSucceeds, Ends
  <2>2. call # NoCall
    BY <2>1 DEF NoCall
  <2>3. call'.image.null => Whole(call'.image)
    <3>1. UNCHANGED call \/ call'.image = Null \/ call'.image.null = FALSE
      BY <1>3 DEF Reads, ReadChunk, ReadFails, ReadSucceeds, Return, Image
    <3> QED
      BY <1>1, <3>1 DEF DrawInv, SlotInv
  <2> QED
    BY <2>1, <2>2, <2>3 DEF DrawInv, SlotInv
<1>4. CASE Load
  <2>1. /\ UNCHANGED <<loaded_images, cmd>> /\ cmd.n \in Slots /\ loaded_images[cmd.n].null
        /\ call'.image = Null
    BY <1>4 DEF Load, read_image, ReadCannotOpen, ReadNotTrueColor, ReadOpens, Return
  <2> QED
    BY <1>1, <2>1 DEF DrawInv, SlotInv
<1>5. CASE Loaded
  <2>1. /\ call' = NoCall
        /\ \/ UNCHANGED loaded_images
           \/ loaded_images' = [loaded_images EXCEPT ![cmd.n] = call.image]
    BY <1>5 DEF Loaded
  <2>2. \A n \in Slots : loaded_images'[n].null => Whole(loaded_images'[n])
    BY <2>1 DEF DrawInv, SlotInv
  <2> QED
    BY <1>1, <2>1, <2>2 DEF SlotInv
<1>6. CASE Write \/ Leave
  <2>1. cmd = Nothing /\ UNCHANGED <<loaded_images, cmd>>
    BY <1>6 DEF Write, Leave
  <2>2. call'.image = Null
    BY <1>1, <1>6, WriteReturns DEF Leave
  <2> QED
    BY <1>1, <2>1, <2>2 DEF DrawInv, SlotInv, Nothing
<1>7. CASE ReadCommand
  <2>1. call = NoCall /\ UNCHANGED <<call, loaded_images>>
    BY <1>7 DEF ReadCommand, files
  <2> QED
    BY <2>1 DEF DrawInv, SlotInv
<1>8. CASE \/ Unreadable \/ Size \/ SizeNoMemory \/ NoCanvas \/ Rectangle \/ Circle \/ NoSlot
           \/ Tile \/ Sprite
  <2>1. cmd' = Nothing /\ UNCHANGED <<call, loaded_images>>
    BY <1>8 DEF Unreadable, Size, SizeNoMemory, NoCanvas, Rectangle, Circle, NoSlot, Tile,
       Sprite, Draw, Done, Error, files
  <2> QED
    BY <2>1 DEF DrawInv, SlotInv, Nothing
<1> QED
  BY <1>2, <1>3, <1>4, <1>5, <1>6, <1>7, <1>8 DEF Next

\* No step makes another canvas than these.
LEMMA CanvasStep ==
  ASSUME DrawInv, [Next]_vars
  PROVE  CanvasInv'
<1>1. CASE canvas' = canvas
  <2>1. AllWhole' => AllWhole
    BY SmallerBefore
  <2> QED
    BY <1>1, <2>1 DEF DrawInv, CanvasInv, TooLarge, Sized, Whole
<1>2. CASE Rectangle \/ Circle \/ Tile \/ Sprite
  <2>1. DrawsCommand
    BY <1>2, DrawSteps DEF DrawInv
  <2> DEFINE m == loaded_images[cmd.n]
             i == After(cmd, m, canvas)
  <2>2. Painted(i, Region(cmd, m), cmd, m, canvas)
    BY <2>1, CommandPaints DEF DrawsCommand, DrawInv, CanvasInv
  <2>3. canvas' = i /\ UNCHANGED loaded_images
    BY <2>1 DEF DrawsCommand
  <2>4. AllWhole => InMap(Region(cmd, m), cmd, m)
    <3>1. AllWhole => (cmd.op \in {"T", "P"} => Sized(m) /\ Whole(m))
      BY <2>1 DEF AllWhole, DrawsCommand, DrawInv, ImageInv
    <3> QED
      BY <2>1, <3>1, InsideIsInMap DEF DrawsCommand
  <2> HIDE DEF i
  <2> QED
    BY <2>2, <2>3, <2>4, DrawKeeps DEF DrawInv
<1>3. CASE Size
  <2>1. cmd \in Commands /\ cmd.op = "S"
    <3>1. cmd.op = "S" /\ cmd \in Commands \cup {Nothing}
      BY <1>3 DEF DrawInv, ImageInv, Size, Running
    <3> QED
      BY <3>1 DEF Nothing
  <2>2. cmd.width \in Nat /\ cmd.height \in Nat
    BY <2>1, CommandsAssumption, DrawingAssumption
  <2>3. canvas' = init_image(cmd.width, cmd.height)
    BY <1>3 DEF Size
  <2>4. Sized(init_image(cmd.width, cmd.height)) /\ init_image(cmd.width, cmd.height).intact = TRUE
    <3> DEFINE black == [j \in 1 .. U(cmd.width * cmd.height) |-> OpaqueBlack]
    <3>1. black = [j \in 1 .. U(cmd.width * cmd.height) |-> black[j]]
      OBVIOUS
    <3> HIDE DEF black
    <3> QED
      BY <2>2, <3>1, NewImages DEF init_image, black
  <2> QED
    BY <2>3, <2>4 DEF CanvasInv
<1>4. CASE Write
  <2> DEFINE overrun == TooLarge(canvas) /\ call'.status = "IMG_SUCCESS"
  <2>1. PICK b : b = (canvas.intact /\ ~overrun)
    OBVIOUS
  <2>2. canvas' = [canvas EXCEPT !.intact = b]
    BY <1>4, <2>1, Zenon DEF Write
  <2>3. ~TooLarge(canvas) /\ AllWhole => b
    BY <2>1 DEF DrawInv, CanvasInv
  <2>4. /\ canvas' = [width |-> canvas.width, height |-> canvas.height,
                      data |-> canvas.data, intact |-> b, null |-> canvas.null]
    BY <2>2 DEF DrawInv, CanvasInv, Sized
  <2>5. AllWhole' = AllWhole
    BY <1>4 DEF Write, AllWhole
  <2> HIDE DEF overrun
  <2> QED
    BY <2>3, <2>4, <2>5 DEF DrawInv, CanvasInv, Sized, Whole, TooLarge
<1> QED
  BY <1>1, <1>2, <1>3, <1>4 DEF Next, vars, ReadCommand, Unreadable, SizeNoMemory,
     NoCanvas, NoSlot, Load, Reads, Loaded, Leave

\* No step puts another image into a slot.
LEMMA ImageStep ==
  ASSUME DrawInv, [Next]_vars
  PROVE  ImageInv' /\ DOMAIN loaded_images' = Slots
<1>1. cmd' \in Commands \cup {Nothing}
  <2>1. cmd' = cmd \/ cmd' = Nothing \/ cmd' \in Commands
    BY DEF Next, vars, ReadCommand, Unreadable, Size, SizeNoMemory, NoCanvas, Rectangle,
       Circle, NoSlot, Load, Reads, Loaded, Tile, Sprite, Write, Leave, Draw, Done, Error
  <2> QED
    BY <2>1 DEF DrawInv, ImageInv
<1>2. CASE UNCHANGED <<call, loaded_images, png>>
  BY <1>1, <1>2 DEF DrawInv, ImageInv
<1>3. CASE Reads
  <2>1. UNCHANGED loaded_images /\ call.status = "reading"
    BY <1>3 DEF Reads, ReadChunk, ReadFails, ReadSucceeds, Ends
  <2>2. /\ {"width", "height"} \subseteq DOMAIN png
        /\ png.width \in Nat /\ png.height \in Nat
    BY <2>1 DEF DrawInv, ImageInv
  <2>3. CASE ReadChunk
    <3>1. UNCHANGED call
      BY <2>3 DEF ReadChunk
    <3>2. /\ {"width", "height"} \subseteq DOMAIN png'
          /\ png'.width = png.width /\ png'.height = png.height
      BY <2>2, <2>3 DEF ReadChunk, png_process_chunk, NextChunkMissing, EndChunk,
         UnknownChunk, DataChunk, DataChunkNoMemory, Returns
    <3> QED
      BY <1>1, <2>1, <2>2, <3>1, <3>2 DEF DrawInv, ImageInv
  <2>4. CASE ReadFails
    <3>1. call'.status # "reading" /\ call'.image = Null
      BY <2>4 DEF ReadFails, Return
    <3> QED
      BY <1>1, <2>1, <3>1, NewImages DEF DrawInv, ImageInv
  <2>5. CASE ReadSucceeds
    <3>1. PICK r : Return("IMG_SUCCESS", Image(png.width, png.height, Pixels(r.bytes)))
      BY <2>5 DEF ReadSucceeds
    <3>2. /\ call'.status # "reading"
          /\ call'.image = Image(png.width, png.height, Pixels(r.bytes))
      BY <3>1 DEF Return
    <3>3. Sized(Image(png.width, png.height, Pixels(r.bytes)))
      <4> DEFINE data == Pixels(r.bytes)
      <4>1. data = [j \in 1 .. U(png.width * png.height) |-> data[j]]
        BY DEF Pixels
      <4> HIDE DEF data
      <4>2. Sized(Image(png.width, png.height, data))
        BY <2>2, <4>1, NewImages
      <4> QED
        BY <4>2 DEF data
    <3> QED
      BY <1>1, <2>1, <3>2, <3>3 DEF DrawInv, ImageInv
  <2> QED
    BY <1>3, <2>3, <2>4, <2>5 DEF Reads
<1>4. CASE Load
  <2> DEFINE file == IF cmd.filename \in DOMAIN Files THEN Files[cmd.filename] ELSE NoFile
  <2>1. UNCHANGED loaded_images /\ read_image(file)
    BY <1>4 DEF Load
  <2>2. CASE ReadCannotOpen(file) \/ ReadNotTrueColor(file)
    <3>1. call'.status # "reading" /\ call'.image = Null
      BY <2>2 DEF ReadCannotOpen, ReadNotTrueColor, Return
    <3> QED
      BY <1>1, <2>1, <3>1, NewImages DEF DrawInv, ImageInv
  <2>3. CASE ReadOpens(file)
    <3>1. /\ png' = Opened(file) /\ call'.image = Null
          /\ file # NoFile /\ "PNG_NO_ERROR" \in png_open_read(file)
      BY <2>3 DEF ReadOpens, Opens
    <3>2. /\ Head(file.chunks).body.width \in Nat
          /\ Head(file.chunks).body.height \in Nat
      <4>1. PICK f \in DOMAIN Files : file = Files[f]
        BY <3>1
      <4> HIDE DEF file
      <4>2. file.signature \in {"short", "other", "png"}
        BY <4>1, FilesAssumption
      <4>3. file.signature = "png" /\ "PNG_NO_ERROR" \in png_read_ihdr(file.chunks)
        BY <3>1, <4>2 DEF png_open_read
      <4>4. file.chunks # <<>> /\ Head(file.chunks).type = "IHDR"
        BY <4>3 DEF png_read_ihdr
      <4>5. file.chunks \in Seq(ToSet(file.chunks))
        BY <4>1, <4>3, FilesAssumption
      <4>6. 1 \in DOMAIN file.chunks /\ Head(file.chunks) = file.chunks[1]
        BY <4>4, <4>5
      <4>7. /\ file.chunks[1].body.width \in 0 .. UintSize - 1
            /\ file.chunks[1].body.height \in 0 .. UintSize - 1
        BY <4>1, <4>3, <4>4, <4>6, FilesAssumption
      <4> QED
        BY <4>6, <4>7, DrawingAssumption
    <3>3. /\ {"width", "height"} \subseteq DOMAIN png'
          /\ png'.width = Head(file.chunks).body.width
          /\ png'.height = Head(file.chunks).body.height
      BY <3>1 DEF Opened
    <3> HIDE DEF file
    <3> QED
      BY <1>1, <2>1, <3>1, <3>2, <3>3, NewImages DEF DrawInv, ImageInv
  <2> QED
    BY <2>1, <2>2, <2>3 DEF read_image
<1>5. CASE Loaded
  <2>1. call'.status # "reading" /\ call'.image = Null /\ UNCHANGED png
    BY <1>5 DEF Loaded, NoCall
  <2>2. \/ UNCHANGED loaded_images
        \/ loaded_images' = [loaded_images EXCEPT ![cmd.n] = call.image]
    BY <1>5 DEF Loaded
  <2> QED
    BY <1>1, <2>1, <2>2, NewImages DEF DrawInv, ImageInv
<1>6. CASE Write \/ Leave
  <2>1. UNCHANGED <<loaded_images, png>>
    BY <1>6 DEF Write, Leave
  <2>2. call'.status # "reading" /\ call'.image = Null
    BY <1>6, WriteReturns DEF Leave, NoCall
  <2> QED
    BY <1>1, <2>1, <2>2, NewImages DEF DrawInv, ImageInv
<1>7. CASE \/ ReadCommand \/ Unreadable \/ Size \/ SizeNoMemory \/ NoCanvas
           \/ Rectangle \/ Circle \/ NoSlot \/ Tile \/ Sprite \/ UNCHANGED vars
  <2>1. UNCHANGED <<call, loaded_images, png>>
    BY <1>7 DEF vars, files, ReadCommand, Unreadable, Size, SizeNoMemory, NoCanvas,
       Rectangle, Circle, NoSlot, Tile, Sprite, Draw
  <2> QED
    BY <1>2, <2>1
<1> QED
  BY <1>3, <1>4, <1>5, <1>6, <1>7 DEF Next

\* The inductive invariant of drawing.
LEMMA DrawInvAlways == Spec => []DrawInv
<1>1. Init => DrawInv
  <2> SUFFICES ASSUME Init
               PROVE  DrawInv
    OBVIOUS
  <2>1. LibraryInv
    BY LibraryInit
  <2>2. /\ canvas = Null /\ cmd = Nothing /\ call = NoCall
        /\ loaded_images = [n \in Slots |-> Null]
    BY DEF Init
  <2>3. call.status # "reading" /\ call.image = Null
    BY <2>2 DEF NoCall
  <2>4. SlotInv
    <3>1. Whole(Null)
      BY DrawingAssumption DEF Whole, Null
    <3> QED
      BY <2>2, <2>3, <3>1 DEF SlotInv
  <2> QED
    BY <2>1, <2>2, <2>3, <2>4, NewImages DEF DrawInv, ImageInv, CanvasInv
<1>2. DrawInv /\ [Next]_vars => DrawInv'
  BY LibraryStep, ImageStep, SlotStep, CanvasStep DEF DrawInv
<1> QED
  BY <1>1, <1>2, PTL DEF Spec

\* No command, however far outside its coordinates are, writes outside of the
\* buffer of the canvas or reads outside of that of a loaded image, if their
\* sizes do not wrap: in_bounds and the test of the rectangle suffice.
THEOREM AlwaysInside == Spec => []StaysInside
<1>1. DrawInv => StaysInside
  BY DEF DrawInv, CanvasInv, StaysInside, AllWhole
<1> QED
  BY <1>1, DrawInvAlways, PTL

\* A command changes each pixel of the canvas as its definition by coordinates
\* says, and no other: the index computation and the loops agree with it.
THEOREM DrawingIsExact == Spec => DrawsExactly
<1> DEFINE Exact ==
      /\ Len(canvas'.data) = Len(canvas.data)
      /\ \A i \in DOMAIN canvas.data :
           canvas'.data[i] =
             Expected(Column(canvas, i), Row(canvas, i), canvas.data[i])
<1>1. ASSUME DrawInv, Next, cmd.op \in DrawOps, exit' = -1, Whole(canvas),
             cmd.op \in {"T", "P"} => Whole(loaded_images[cmd.n])
      PROVE  Exact
  <2>1. Rectangle \/ Circle \/ Tile \/ Sprite
    <3>1. ~Reads
      BY <1>1 DEF Reads, ReadChunk, ReadFails, ReadSucceeds, Ends, DrawInv, LibraryInv,
         Underway, DrawOps
    <3>2. cmd # Nothing
      BY <1>1 DEF Nothing, DrawOps
    <3>3. cmd.op # "?" /\ cmd.op # "S" /\ cmd.op # "L"
      BY <1>1 DEF DrawOps
    <3>4. ~ReadCommand /\ ~Write /\ ~Leave
      BY <3>2 DEF ReadCommand, Write, Leave
    <3>5. ~Unreadable /\ ~Size /\ ~SizeNoMemory /\ ~Load /\ ~Loaded
      BY <3>3, Zenon DEF Unreadable, Size, SizeNoMemory, Load, Loaded, Running
    <3>6. ~Error
      BY <1>1 DEF Error
    <3>7. ~NoCanvas /\ ~NoSlot
      BY <3>6, Zenon DEF NoCanvas, NoSlot
    <3> QED
      BY <1>1, <3>1, <3>4, <3>5, <3>7, Zenon DEF Next
  <2> DEFINE m == loaded_images[cmd.n]
             new == After(cmd, m, canvas)
             k == canvas.width * canvas.height
  <2>2. DrawsCommand
    BY <1>1, <2>1, DrawSteps DEF DrawInv
  <2>3. /\ Sized(canvas)
        /\ cmd.op \in {"T", "P"} => Sized(m) /\ Whole(m)
    BY <1>1, <2>2 DEF DrawInv, CanvasInv, ImageInv, DrawsCommand
  <2>4. Painted(new, Region(cmd, m), cmd, m, canvas)
    BY <2>2, <2>3, CommandPaints DEF DrawsCommand
  <2>5. canvas' = new
    BY <2>2 DEF DrawsCommand
  <2>6. cmd \in Commands
    BY <2>2 DEF DrawsCommand
  <2> HIDE DEF new
  <2>7. /\ k \in Nat
        /\ canvas.data = [j \in 1 .. k |-> canvas.data[j]]
        /\ new.data = [j \in 1 .. k |-> new.data[j]]
    BY <1>1, <2>3, <2>4 DEF Sized, Painted
  <2>8. Len(canvas.data) = k /\ Len(new.data) = k /\ DOMAIN canvas.data = 1 .. k
    <3> HIDE DEF k
    <3> QED
      BY <2>7, LengthOf
  <2>9. ASSUME NEW i \in 1 .. k
        PROVE  new.data[i] = Expected(Column(canvas, i), Row(canvas, i), canvas.data[i])
    BY <1>1, <2>3, <2>4, <2>6, PixelAsExpected
  <2> QED
    BY <2>5, <2>8, <2>9
<1>2. DrawInv /\ [Next]_vars =>
        [ /\ cmd.op \in {"R", "C", "T", "P"} /\ exit' = -1
          /\ Whole(canvas) /\ (cmd.op \in {"T", "P"} => Whole(loaded_images[cmd.n]))
          => Exact ]_vars
  BY <1>1 DEF DrawOps
<1> QED
  BY <1>2, DrawInvAlways, PTL DEF Spec, DrawsExactly

-----------------------------------------------------------------------------
(* What is written *)

\* The four bytes of a pixel.
IsPixel(color) == color = [k \in 1..4 |-> color[k]]

\* Such an image has one in each place.
Pixelled(img) ==
  Len(img.data) \in Nat /\ \A j \in 1 .. Len(img.data) : IsPixel(img.data[j])

\* Bytes takes the pixels one by one, their bytes in order.
LEMMA BytesOf ==
  ASSUME NEW img, NEW n \in Nat, img.data = [j \in 1..n |-> img.data[j]],
         \A j \in 1..n : IsPixel(img.data[j]),
         NEW S, \A j \in 1..n, k \in 1..4 : img.data[j][k] \in S
  PROVE  SideBySide(Bytes(img), img.data, S, n, 4)
<1> DEFINE pieces == [i \in DOMAIN img.data |-> Memory(byteswap(img.data[i]))]
<1>1. \A j \in 1..n : Memory(byteswap(img.data[j])) = img.data[j]
  <2> TAKE j \in 1..n
  <2>1. img.data[j] = [k \in 1..4 |-> img.data[j][k]]
    BY DEF IsPixel
  <2>2. Reverse(Reverse(img.data[j])) = img.data[j]
    BY <2>1, ReversedTwice, 4 \in Nat
  <2> QED
    BY <2>2 DEF Memory, byteswap
<1>2. pieces = img.data
  BY <1>1
<1>3. ASSUME NEW j \in 1..n
      PROVE  img.data[j] \in Seq(S) /\ Len(img.data[j]) = 4
  <2>1. PICK color : color = img.data[j]
    OBVIOUS
  <2>2. color = [k \in 1..4 |-> color[k]] /\ \A k \in 1..4 : color[k] \in S
    BY <2>1 DEF IsPixel
  <2>3. color \in Seq(S)
    BY <2>2
  <2>4. Len(color) = 4
    BY <2>2, LengthOf, 4 \in Nat
  <2> QED
    BY <2>1, <2>3, <2>4
<1>4. Bytes(img) = FlattenSeq(img.data)
  BY <1>2 DEF Bytes
<1> HIDE DEF pieces
<1>5. Pieces(img.data, S, n, 4)
  BY <1>3 DEF Pieces
<1>6. SideBySide(FlattenSeq(img.data), img.data, S, n, 4)
  BY <1>5, FlattenEqual, 4 \in Nat
<1> QED
  BY <1>4, <1>6

\* The line y of the file, with its filter.
FileLine(bytes, w, y) == <<0>> \o SubSeq(bytes, y * w * 4 + 1, (y + 1) * w * 4)

\* line has the filter 0 and the w pixels of y.
IsLine(line, bytes, w, y) ==
  /\ Len(line) = 4 * w + 1 /\ line[1] = 0
  /\ \A i \in 1 .. 4 * w : line[1 + i] = bytes[y * w * 4 + i]

LEMMA LineOf ==
  ASSUME NEW S, 0 \in S, NEW bytes \in Seq(S), NEW w \in Nat, NEW h \in Nat,
         Len(bytes) = w * h * 4, NEW y \in 0 .. h - 1
  PROVE  FileLine(bytes, w, y) \in Seq(S) /\ IsLine(FileLine(bytes, w, y), bytes, w, y)
<1>1. PICK a \in Nat : a = y * w * 4 /\ (y + 1) * w * 4 = a + 4 * w
  <2>1. PICK b \in Nat : b = y * w
    OBVIOUS
  <2>2. (y + 1) * w = b + w
    BY <2>1
  <2> QED
    BY <2>1, <2>2
<1>2. a + 4 * w <= Len(bytes)
  <2>1. PICK d \in Nat : h = y + 1 + d
    <3>1. h - y - 1 \in Nat /\ h = y + 1 + (h - y - 1)
      OBVIOUS
    <3> QED
      BY <3>1
  <2>2. PICK b \in Nat, e \in Nat : b = y * w /\ e = d * w
    OBVIOUS
  <2>3. w * h = b + w + e
    BY <2>1, <2>2
  <2>4. w * h * 4 = (b + w + e) * 4
    BY <2>3
  <2> QED
    BY <1>1, <2>2, <2>4
<1>3. PICK n \in Nat : n = 4 * w
  OBVIOUS
<1>4. PICK u : u = SubSeq(bytes, a + 1, a + n)
  OBVIOUS
<1>5. u \in Seq(S) /\ Len(u) = n /\ \A i \in 1..n : u[i] = bytes[a + i]
  <2>1. a + 1 \in 1 .. Len(bytes) + 1 /\ a + n \in a .. Len(bytes) /\ Len(bytes) \in Nat
    BY <1>2, <1>3
  <2>2. /\ u \in Seq(S)
        /\ Len(u) = IF a + 1 <= a + n THEN a + n - (a + 1) + 1 ELSE 0
        /\ \A i \in 1 .. (a + n - (a + 1) + 1) : u[i] = bytes[a + 1 + i - 1]
    BY <1>4, <2>1
  <2> QED
    BY <2>2
<1>6. /\ <<0>> \o u \in Seq(S) /\ Len(<<0>> \o u) = n + 1
      /\ (<<0>> \o u)[1] = 0
      /\ \A i \in 1..n : (<<0>> \o u)[1 + i] = u[i]
  <2>1. PICK z : z = <<0>> /\ z \in Seq(S) /\ Len(z) = 1 /\ z[1] = 0
    <3>1. <<0>> \in Seq(S)
      OBVIOUS
    <3>2. Len(<<0>>) = 1 /\ <<0>>[1] = 0
      OBVIOUS
    <3> QED
      BY <3>1, <3>2
  <2>2. z \o u \in Seq(S) /\ Len(z \o u) = Len(z) + Len(u)
    BY <1>5, <2>1, Concatenated
  <2>3. \A i \in 1..Len(z) : (z \o u)[i] = z[i]
    BY <1>5, <2>1, Concatenated
  <2>4. \A i \in 1..Len(u) : (z \o u)[Len(z) + i] = u[i]
    BY <1>5, <2>1, Concatenated
  <2>5. (z \o u)[1] = 0
    BY <2>1, <2>3
  <2> QED
    BY <1>5, <2>1, <2>2, <2>4, <2>5
<1>7. FileLine(bytes, w, y) = <<0>> \o u
  BY <1>1, <1>3, <1>4 DEF FileLine
<1> QED
  BY <1>1, <1>3, <1>5, <1>6, <1>7 DEF IsLine

\* filtered has these lines one after the other.
AreLines(filtered, bytes, w, h, S) ==
  /\ filtered \in Seq(S) /\ Len(filtered) = h * (4 * w + 1)
  /\ \A y \in 0 .. h - 1 :
       /\ filtered[y * (4 * w + 1) + 1] = 0
       /\ \A i \in 1 .. 4 * w :
            filtered[y * (4 * w + 1) + (1 + i)] = bytes[y * w * 4 + i]

\* As Filtered puts them.
LEMMA FilteredLines ==
  ASSUME NEW S, 0 \in S, NEW bytes \in Seq(S), NEW w \in Nat, NEW h \in Nat,
         Len(bytes) = w * h * 4
  PROVE  AreLines(Filtered(bytes, w, h, 4), bytes, w, h, S)
<1>1. PICK seqs : seqs = [l \in 1..h |-> FileLine(bytes, w, l - 1)]
  OBVIOUS
<1>2. Filtered(bytes, w, h, 4) = FlattenSeq(seqs)
  <2>1. \A l \in 1..h : <<0>> \o SubSeq(bytes, (l - 1) * w * 4 + 1, l * w * 4)
                          = FileLine(bytes, w, l - 1)
    <3>1. \A l \in 1..h : (l - 1) + 1 = l
      OBVIOUS
    <3> QED
      BY <3>1 DEF FileLine
  <2> QED
    BY <1>1, <2>1 DEF Filtered
<1>3. PICK m \in Nat : m = 4 * w + 1
  OBVIOUS
<1>4. \A y \in 0 .. h - 1 :
        FileLine(bytes, w, y) \in Seq(S) /\ IsLine(FileLine(bytes, w, y), bytes, w, y)
  BY LineOf
<1>5. Pieces(seqs, S, h, m)
  <2>1. \A l \in 1..h : l - 1 \in 0 .. h - 1 /\ seqs[l] = FileLine(bytes, w, l - 1)
    BY <1>1
  <2>2. \A l \in 1..h : seqs[l] \in Seq(S) /\ Len(seqs[l]) = m
    BY <1>3, <1>4, <2>1 DEF IsLine
  <2> QED
    BY <1>1, <2>2 DEF Pieces
<1>6. SideBySide(FlattenSeq(seqs), seqs, S, h, m)
  BY <1>3, <1>5, FlattenEqual
<1>7. ASSUME NEW y \in 0 .. h - 1
      PROVE  /\ FlattenSeq(seqs)[y * m + 1] = 0
             /\ \A i \in 1 .. 4 * w : FlattenSeq(seqs)[y * m + (1 + i)] = bytes[y * w * 4 + i]
  <2>1. y + 1 \in 1..h /\ (y + 1) - 1 = y
    OBVIOUS
  <2>2. seqs[y + 1] = FileLine(bytes, w, y)
    BY <1>1, <2>1
  <2>3. \A k \in 1..m : FlattenSeq(seqs)[y * m + k] = FileLine(bytes, w, y)[k]
    BY <1>6, <2>1, <2>2 DEF SideBySide
  <2>4. 1 \in 1..m /\ \A i \in 1 .. 4 * w : 1 + i \in 1..m
    BY <1>3
  <2> QED
    BY <1>4, <2>3, <2>4 DEF IsLine
<1>8. FlattenSeq(seqs) \in Seq(S) /\ Len(FlattenSeq(seqs)) = h * m
  BY <1>6 DEF SideBySide
<1> QED
  BY <1>2, <1>3, <1>7, <1>8 DEF AreLines

\* The file that is written has a header, one chunk of data, and an end.
LEMMA FileChunks ==
  ASSUME NEW img, NEW file, NEW filtered,
         filtered = Filtered(Bytes(img), img.width, img.height, 4),
         file = png_set_data(img.width, img.height, TRUECOLOR_ALPHA, Append(filtered, End))
  PROVE  /\ file.signature = "png" /\ Len(file.chunks) = 3
         /\ file.chunks[1] = png_write_ihdr(img.width, img.height, TRUECOLOR_ALPHA)
         /\ file.chunks[2].body = Append(filtered, End)
         /\ file.chunks[3].type = "IEND"
<1>2. PICK a, b, c :
        /\ a = png_write_ihdr(img.width, img.height, TRUECOLOR_ALPHA)
        /\ b = [type |-> "IDAT", state |-> "good", body |-> Append(filtered, End)]
        /\ c = [type |-> "IEND", state |-> "good", body |-> <<>>]
  OBVIOUS
<1>3. png_write_idats(Append(filtered, End)) = <<b, c>>
  BY <1>2 DEF png_write_idats
<1>4. file = [signature |-> "png", chunks |-> <<a>> \o <<b, c>>]
  BY <1>2, <1>3 DEF png_set_data
<1>5. PICK u, v : u = <<a>> /\ v = <<b, c>>
  OBVIOUS
<1>6. /\ \E V : u \in Seq(V) /\ v \in Seq(V)
      /\ Len(u) = 1 /\ Len(v) = 2 /\ u[1] = a /\ v[1] = b /\ v[2] = c
  <2>1. u \in Seq({a, b, c}) /\ v \in Seq({a, b, c})
    BY <1>5
  <2> QED
    BY <1>5, <2>1
<1>7. PICK V : u \in Seq(V) /\ v \in Seq(V)
  BY <1>6
<1>8. Len(u \o v) = 3 /\ (u \o v)[1] = a /\ (u \o v)[2] = b /\ (u \o v)[3] = c
  <2>1. Len(u \o v) = Len(u) + Len(v)
    BY <1>7, Concatenated
  <2>2. \A k \in 1..Len(u) : (u \o v)[k] = u[k]
    BY <1>7, Concatenated
  <2>3. \A k \in 1..Len(v) : (u \o v)[Len(u) + k] = v[k]
    BY <1>7, Concatenated
  <2>4. (u \o v)[1 + 1] = v[1] /\ (u \o v)[1 + 2] = v[2]
    BY <1>6, <2>3, SMTT(30)
  <2> QED
    BY <1>6, <2>1, <2>2, <2>4
<1>9. file.signature = "png" /\ file.chunks = u \o v
  BY <1>4, <1>5
<1>10. b.body = Append(filtered, End) /\ c.type = "IEND"
  BY <1>2
<1> QED
  BY <1>2, <1>8, <1>9, <1>10

\* So it is the file of the image, if no size wraps.
LEMMA FileShows ==
  ASSUME NEW img, Sized(img), Whole(img), Pixelled(img), NEW file,
         file = png_set_data(img.width, img.height, TRUECOLOR_ALPHA,
                             Append(LinesOf(img), End))
  PROVE  file.signature = "png" /\ Shows(file, img)
<1>1. PICK w \in Nat, h \in Nat, n \in Nat : w = img.width /\ h = img.height /\ n = w * h
  BY DEF Sized
<1>2. PICK S : 0 \in S /\ \A j \in 1..n, k \in 1..4 : img.data[j][k] \in S
  <2> DEFINE T == {0} \cup UNION {{img.data[j][k] : k \in 1..4} : j \in 1..n}
  <2>1. 0 \in T /\ \A j \in 1..n, k \in 1..4 : img.data[j][k] \in T
    OBVIOUS
  <2> HIDE DEF T
  <2> QED
    BY <2>1
<1>3. img.data = [j \in 1..n |-> img.data[j]] /\ \A j \in 1..n : IsPixel(img.data[j])
  <2>1. img.data = [j \in 1..n |-> img.data[j]]
    BY <1>1 DEF Sized
  <2>2. Len(img.data) = n
    BY <1>1, <2>1, LengthOf
  <2> QED
    BY <2>1, <2>2 DEF Pixelled
<1>4. PICK bytes : bytes = Bytes(img)
  OBVIOUS
<1>5. SideBySide(bytes, img.data, S, n, 4)
  BY <1>2, <1>3, <1>4, BytesOf
<1>6. PICK filtered : filtered = Filtered(bytes, w, h, 4)
  OBVIOUS
<1>7. AreLines(filtered, bytes, w, h, S)
  <2>1. bytes \in Seq(S) /\ Len(bytes) = w * h * 4
    BY <1>1, <1>5 DEF SideBySide
  <2> QED
    BY <1>1, <1>2, <1>6, <2>1, FilteredLines
<1>8. /\ file.signature = "png" /\ Len(file.chunks) = 3
      /\ file.chunks[1] = png_write_ihdr(w, h, TRUECOLOR_ALPHA)
      /\ file.chunks[2].body = Append(filtered, End)
      /\ file.chunks[3].type = "IEND"
  <2>1. png_get_bpp(TRUECOLOR_ALPHA, 8) = 4
    BY DEF png_get_bpp, TRUECOLOR_ALPHA, GREYSCALE, INDEXED, GREYSCALE_ALPHA, TRUECOLOR
  <2>2. filtered = LinesOf(img)
    BY <1>1, <1>4, <1>6, <2>1 DEF LinesOf
  <2> QED
    BY <1>1, <1>4, <1>6, <2>2, FileChunks
<1>9. PICK line \in Nat : line = 4 * w + 1
  OBVIOUS
<1>10. PICK body : body = Append(filtered, End)
  OBVIOUS
<1>11. /\ Len(body) = h * line + 1 /\ Last(body) = End
       /\ \A i \in 1 .. h * line : body[i] = filtered[i]
  <2>1. PICK z \in Nat : z = h * line
    BY <1>9
  <2>2. Len(filtered) = z
    BY <1>7, <1>9, <2>1 DEF AreLines
  <2>3. /\ Len(body) = z + 1 /\ body[z + 1] = End
        /\ \A i \in 1..z : body[i] = filtered[i]
    <3>1. PICK V : filtered \in Seq(V) /\ End \in V
      <4>1. filtered \in Seq(S \cup {End}) /\ End \in S \cup {End}
        BY <1>7 DEF AreLines
      <4> QED
        BY <4>1
    <3> QED
      BY <1>10, <2>2, <3>1, AppendProperties
  <2> QED
    BY <2>1, <2>3 DEF Last
<1>12. ASSUME NEW y \in 0 .. h - 1
       PROVE  /\ body[y * line + 1] = 0
              /\ \A x \in 0 .. w - 1, k \in 1..4 :
                   body[y * line + 1 + 4 * x + k] = img.data[y * w + x + 1][k]
  <2>1. PICK b \in Nat : b = y * line /\ b + line <= h * line
    <3>1. y + 1 <= h /\ (y + 1) * line = y * line + line /\ y * line \in Nat
      BY <1>9
    <3>2. (y + 1) * line <= h * line
      BY <1>9, <3>1
    <3> QED
      BY <3>1, <3>2
  <2>2. PICK z \in Nat : z = h * line
    BY <1>9
  <2>3. /\ filtered[b + 1] = 0
        /\ \A i \in 1 .. 4 * w : filtered[b + (1 + i)] = bytes[y * w * 4 + i]
    BY <1>7, <1>9, <2>1 DEF AreLines
  <2>4. body[b + 1] = 0
    <3>1. b + 1 \in 1..z
      BY <1>9, <2>1, <2>2
    <3> QED
      BY <1>11, <2>2, <2>3, <3>1
  <2>5. ASSUME NEW x \in 0 .. w - 1, NEW k \in 1..4
        PROVE  body[b + 1 + 4 * x + k] = img.data[y * w + x + 1][k]
    <3>1. PICK i \in 1 .. 4 * w : i = 4 * x + k
      <4>1. 4 * x + k \in 1 .. 4 * w
        OBVIOUS
      <4> QED
        BY <4>1
    <3>2. body[b + (1 + i)] = bytes[y * w * 4 + i]
      <4>1. b + (1 + i) \in 1..z
        BY <1>9, <2>1, <2>2
      <4> QED
        BY <1>11, <2>2, <2>3, <4>1
    <3>3. PICK j \in 1..n : j = y * w + x + 1
      <4>1. x \in Nat /\ y \in Nat /\ x < w /\ y < h
        OBVIOUS
      <4>2. y * w + x \in 0 .. w * h - 1
        BY <4>1, PlaceOfPixel
      <4>3. PICK c \in 0 .. n - 1 : c = y * w + x
        BY <1>1, <4>2
      <4>4. c + 1 \in 1..n
        OBVIOUS
      <4> QED
        BY <4>3, <4>4
    <3>4. bytes[(j - 1) * 4 + k] = img.data[j][k]
      BY <1>5 DEF SideBySide
    <3>5. (j - 1) * 4 + k = y * w * 4 + i
      <4>1. PICK c \in Nat : c = y * w
        OBVIOUS
      <4> QED
        BY <3>1, <3>3, <4>1
    <3>6. b + 1 + 4 * x + k = b + (1 + i)
      BY <3>1
    <3> QED
      BY <3>2, <3>3, <3>4, <3>5, <3>6
  <2> QED
    BY <2>1, <2>4, <2>5
<1>13. /\ file.chunks[1].body.width = w /\ file.chunks[1].body.height = h
       /\ file.chunks[1].body.color_type = 6
  BY <1>8 DEF png_write_ihdr, TRUECOLOR_ALPHA
<1>14. PICK chunks : chunks = file.chunks
  OBVIOUS
<1>15. /\ Len(chunks) = 3 /\ chunks[3].type = "IEND" /\ chunks[2].body = body
       /\ <<chunks[1].body.width, chunks[1].body.height, chunks[1].body.color_type>>
            = <<w, h, 6>>
  BY <1>8, <1>10, <1>13, <1>14
<1>16. Shows(file, img)
  BY <1>1, <1>9, <1>11, <1>12, <1>14, <1>15, SMTT(30) DEF Shows
<1> QED
  BY <1>8, <1>16
-----------------------------------------------------------------------------
(* The pixels of all images *)

\* Where pixels come from: what is not known, a new image, blending.
LEMMA NewPixels ==
  /\ IsPixel(<<Undef, Undef, Undef, Undef>>)
  /\ IsPixel(OpaqueBlack)
  /\ \A fg, bg : IsPixel(blend_colors(fg, bg))
<1>1. \A fg, bg : IsPixel(blend_colors(fg, bg))
  BY DEF IsPixel, blend_colors
<1>2. ASSUME NEW a, NEW b, NEW c, NEW d
      PROVE  IsPixel(<<a, b, c, d>>)
  <2>1. <<a, b, c, d>> = [k \in 1..4 |-> <<a, b, c, d>>[k]]
    OBVIOUS
  <2> QED
    BY <2>1 DEF IsPixel
<1> QED
  BY <1>1, <1>2 DEF OpaqueBlack

\* An image with pixels in its places is Pixelled.
LEMMA PixelsMake ==
  ASSUME NEW img, NEW n \in Nat, img.data = [j \in 1..n |-> img.data[j]],
         \A j \in 1..n : IsPixel(img.data[j])
  PROVE  Pixelled(img)
<1>1. Len(img.data) = n
  BY LengthOf
<1> QED
  BY <1>1 DEF Pixelled

LEMMA NullPixels == Pixelled(Null)
<1>1. Null.data = [j \in 1..0 |-> Null.data[j]] /\ \A j \in 1..0 : IsPixel(Null.data[j])
  BY DEF Null
<1> QED
  BY <1>1, PixelsMake, 0 \in Nat

\* What is read from an image is a pixel, also outside of it.
LEMMA FetchPixel ==
  ASSUME NEW m, Pixelled(m), NEW n \in Nat
  PROVE  IsPixel(Fetch(m, n))
<1>1. CASE n < Len(m.data)
  <2>1. n + 1 \in 1 .. Len(m.data)
    BY <1>1 DEF Pixelled
  <2> QED
    BY <1>1, <2>1 DEF Pixelled, Fetch
<1>2. CASE ~(n < Len(m.data))
  BY <1>2, NewPixels DEF Fetch
<1> QED
  BY <1>1, <1>2

\* Every command puts pixels.
LEMMA PaintPixel ==
  ASSUME NEW c \in Commands, c.op \in DrawOps, NEW m, NEW old,
         NEW p \in Region(c, m), c.op = "T" => Pixelled(m) /\ m.width \in Nat
  PROVE  IsPixel(Paint(c, m, p, old))
<1>1. CASE c.op # "T"
  BY <1>1, NewPixels DEF Paint
<1>2. CASE c.op = "T"
  <2>1. p[1] \in Int /\ p[2] \in Int
    <3>1. p \in (0 .. c.rect.width - 1) \X (0 .. c.rect.height - 1)
      BY <1>2 DEF Region, Area, Columns, Rows
    <3> QED
      BY <3>1
  <2>2. c.rect.x \in Int /\ c.rect.y \in Int
    BY <1>2, Operands, Int32Sums
  <2>3. From(c, m, p) \in Nat
    <3>1. PICK a \in Int, b \in Nat : a = c.rect.y + p[2] /\ b = m.width
      BY <1>2, <2>1, <2>2
    <3>2. PICK d \in Int : d = c.rect.x + p[1]
      BY <2>1, <2>2
    <3>3. a * b + d \in Int
      OBVIOUS
    <3>4. U(a * b + d) \in Nat
      BY <3>3, DrawingAssumption DEF U
    <3> QED
      BY <3>1, <3>2, <3>4 DEF From
  <2> QED
    BY <1>2, <2>3, FetchPixel DEF Paint
<1> QED
  BY <1>1, <1>2

\* What is read from a file is made of four bytes each.
LEMMA ReadPixels ==
  ASSUME TrueColor(png), png.width \in Nat, png.height \in Nat, NEW bytes
  PROVE  Pixelled(Image(png.width, png.height, Pixels(bytes)))
<1>1. ASSUME NEW i
      PROVE  IsPixel(IF png.color_type = TRUECOLOR THEN Append(Raw(bytes, i), 255)
                                                   ELSE byteswap(Word(Raw(bytes, i))))
  <2>1. PICK raw : raw = Raw(bytes, i)
    OBVIOUS
  <2>2. raw = [k \in 1 .. png.bpp |-> raw[k]]
    BY <2>1 DEF Raw
  <2>3. CASE png.color_type = TRUECOLOR
    <3>1. raw = [k \in 1..3 |-> raw[k]]
      BY <2>2, <2>3 DEF TrueColor, TRUECOLOR, TRUECOLOR_ALPHA
    <3>2. Len(raw) = 3
      BY <3>1, LengthOf, 3 \in Nat
    <3>3. PICK V : raw \in Seq(V) /\ 255 \in V
      <4> DEFINE W == {raw[k] : k \in 1..3} \cup {255}
      <4>1. 255 \in W /\ \A k \in 1..3 : raw[k] \in W
        OBVIOUS
      <4> HIDE DEF W
      <4>2. raw \in Seq(W)
        BY <3>1, <4>1
      <4> QED
        BY <4>1, <4>2
    <3>4. PICK a : a = Append(raw, 255)
      OBVIOUS
    <3>5. a \in Seq(V) /\ Len(a) = 4
      <4>1. Append(raw, 255) \in Seq(V)
        BY <3>3, AppendProperties
      <4>2. Len(Append(raw, 255)) = Len(raw) + 1
        BY <3>3, AppendProperties
      <4> QED
        BY <3>2, <3>4, <4>1, <4>2
    <3>6. a = [k \in 1..4 |-> a[k]]
      BY <3>5
    <3> QED
      BY <2>1, <2>3, <3>4, <3>6 DEF IsPixel
  <2>4. CASE png.color_type # TRUECOLOR
    <3>1. raw = [k \in 1..4 |-> raw[k]]
      BY <2>2, <2>4 DEF TrueColor, TRUECOLOR, TRUECOLOR_ALPHA
    <3>2. Reverse(Reverse(raw)) = raw
      BY <3>1, ReversedTwice, 4 \in Nat
    <3>3. byteswap(Word(raw)) = raw
      BY <3>2 DEF byteswap, Memory, Word
    <3> QED
      BY <2>1, <2>4, <3>1, <3>3 DEF IsPixel
  <2> QED
    BY <2>3, <2>4
<1>2. PICK n \in Nat : n = U(png.width * png.height)
  <2>1. png.width * png.height \in Nat
    OBVIOUS
  <2> QED
    BY <2>1, DrawingAssumption DEF U
<1>3. PICK data : data = Pixels(bytes)
  OBVIOUS
<1>4. data = [j \in 1..n |-> data[j]] /\ \A j \in 1..n : IsPixel(data[j])
  BY <1>1, <1>2, <1>3 DEF Pixels
<1>5. PICK img : img = Image(png.width, png.height, data)
  OBVIOUS
<1>6. img.data = data
  BY <1>5 DEF Image
<1>7. Pixelled(img)
  BY <1>4, <1>6, PixelsMake
<1> QED
  BY <1>3, <1>5, <1>7

\* All images have pixels in their places, and files are read with a color
\* type that has three or four bytes.
PixelInv ==
  /\ \A n \in Slots : Pixelled(loaded_images[n])
  /\ Pixelled(call.image)
  /\ call.status = "reading" => {"color_type", "bpp"} \subseteq DOMAIN png /\ TrueColor(png)
  /\ Whole(canvas) => Pixelled(canvas)

\* A command to draw puts pixels into the canvas.
LEMMA DrawPixels ==
  ASSUME PixelInv, Sized(canvas), Whole(canvas), NEW c \in Commands, c.op \in DrawOps,
         NEW m, c.op = "T" => Pixelled(m) /\ m.width \in Nat,
         NEW i, Painted(i, Region(c, m), c, m, canvas)
  PROVE  Pixelled(i)
<1>1. PICK n \in Nat : n = canvas.width * canvas.height
  BY DEF Sized
<1>2. i.data = [j \in 1..n |-> i.data[j]]
  BY <1>1 DEF Painted
<1>3. \A j \in 1..n : IsPixel(canvas.data[j])
  <2>1. canvas.data = [j \in 1..n |-> canvas.data[j]]
    BY <1>1 DEF Sized
  <2>2. Len(canvas.data) = n
    BY <2>1, LengthOf
  <2> QED
    BY <2>2 DEF PixelInv, Pixelled
<1>4. ASSUME NEW j \in 1..n
      PROVE  IsPixel(i.data[j])
  <2>1. CASE \E p \in Region(c, m) : Shown(c, canvas, p) /\ At(c, canvas, p) + 1 = j
    <3>1. PICK p \in Region(c, m) : Shown(c, canvas, p) /\ At(c, canvas, p) + 1 = j
      BY <2>1
    <3>2. i.data[j] = Paint(c, m, p, canvas.data[j])
      BY <1>1, <3>1 DEF Painted
    <3> QED
      BY <3>1, <3>2, PaintPixel
  <2>2. CASE \A p \in Region(c, m) : Shown(c, canvas, p) => At(c, canvas, p) + 1 # j
    <3>1. i.data[j] = canvas.data[j]
      BY <1>1, <2>2 DEF Painted
    <3> QED
      BY <1>3, <3>1
  <2> QED
    BY <2>1, <2>2
<1> QED
  BY <1>2, <1>4, PixelsMake

\* No step puts anything else into the canvas.
LEMMA CanvasPixels ==
  ASSUME DrawInv, PixelInv, [Next]_vars, Whole(canvas')
  PROVE  Pixelled(canvas')
<1>1. CASE canvas' = canvas
  BY <1>1 DEF PixelInv
<1>2. CASE Rectangle \/ Circle \/ Tile \/ Sprite
  <2>1. DrawsCommand
    BY <1>2, DrawSteps DEF DrawInv
  <2>2. PICK m, i : m = loaded_images[cmd.n] /\ i = After(cmd, m, canvas)
    OBVIOUS
  <2>3. Painted(i, Region(cmd, m), cmd, m, canvas)
    BY <2>1, <2>2, CommandPaints DEF DrawsCommand, DrawInv, CanvasInv
  <2>4. canvas' = i
    BY <2>1, <2>2 DEF DrawsCommand
  <2>5. Whole(canvas)
    BY <2>3, <2>4 DEF Painted, Whole
  <2>6. cmd.op = "T" => Pixelled(m) /\ m.width \in Nat
    BY <2>1, <2>2 DEF DrawsCommand, PixelInv, DrawInv, ImageInv, Sized
  <2>7. Pixelled(i)
    BY <2>1, <2>3, <2>5, <2>6, DrawPixels DEF DrawsCommand, DrawInv, CanvasInv
  <2> QED
    BY <2>4, <2>7
<1>3. CASE Size
  <2>1. cmd \in Commands /\ cmd.op = "S"
    <3>1. cmd.op = "S" /\ cmd \in Commands \cup {Nothing}
      BY <1>3 DEF DrawInv, ImageInv, Size, Running
    <3> QED
      BY <3>1 DEF Nothing
  <2>2. cmd.width \in Nat /\ cmd.height \in Nat
    BY <2>1, CommandsAssumption, DrawingAssumption
  <2>3. PICK n \in Nat : n = U(cmd.width * cmd.height)
    <3>1. cmd.width * cmd.height \in Nat
      BY <2>2
    <3> QED
      BY <3>1, DrawingAssumption DEF U
  <2>4. canvas'.data = [j \in 1..n |-> OpaqueBlack]
    BY <1>3, <2>3 DEF Size, init_image, Image
  <2> QED
    BY <2>4, NewPixels, PixelsMake
<1>4. CASE Write
  <2>1. PICK b : canvas' = [canvas EXCEPT !.intact = b]
    BY <1>4, Zenon DEF Write
  <2>2. /\ canvas'.data = canvas.data
        /\ canvas'.width = canvas.width /\ canvas'.height = canvas.height
    BY <2>1 DEF DrawInv, CanvasInv, Sized
  <2> QED
    BY <2>2 DEF PixelInv, Pixelled, Whole
<1> QED
  BY <1>1, <1>2, <1>3, <1>4 DEF Next, vars, ReadCommand, Unreadable, SizeNoMemory,
     NoCanvas, NoSlot, Load, Reads, Loaded, Leave

\* Nor into the images.
LEMMA PixelStep ==
  ASSUME DrawInv, PixelInv, [Next]_vars
  PROVE  PixelInv'
<1>1. Whole(canvas') => Pixelled(canvas')
  BY CanvasPixels
<1>2. CASE UNCHANGED <<call, loaded_images, png>>
  BY <1>1, <1>2 DEF PixelInv, TrueColor, Whole, Pixelled
<1>3. CASE Reads
  <2>1. UNCHANGED loaded_images /\ call.status = "reading"
    BY <1>3 DEF Reads, ReadChunk, ReadFails, ReadSucceeds, Ends
  <2>2. {"color_type", "bpp"} \subseteq DOMAIN png /\ TrueColor(png)
    BY <2>1 DEF PixelInv
  <2>3. CASE ReadChunk
    <3>1. UNCHANGED call
      BY <2>3 DEF ReadChunk
    <3>2. /\ {"color_type", "bpp"} \subseteq DOMAIN png'
          /\ png'.color_type = png.color_type /\ png'.bpp = png.bpp
      BY <2>2, <2>3 DEF ReadChunk, png_process_chunk, NextChunkMissing, EndChunk,
         UnknownChunk, DataChunk, DataChunkNoMemory, Returns
    <3>3. TrueColor(png')
      BY <2>2, <3>2 DEF TrueColor
    <3> QED
      BY <1>1, <2>1, <3>1, <3>2, <3>3 DEF PixelInv, TrueColor, Whole, Pixelled
  <2>4. CASE ReadFails \/ ReadSucceeds
    <3>1. call'.status # "reading" /\ Pixelled(call'.image)
      <4>1. CASE ReadFails
        BY <4>1, NullPixels DEF ReadFails, Return
      <4>2. CASE ReadSucceeds
        <5>1. PICK r : Return("IMG_SUCCESS", Image(png.width, png.height, Pixels(r.bytes)))
          BY <4>2 DEF ReadSucceeds
        <5>2. PICK img : img = Image(png.width, png.height, Pixels(r.bytes))
          OBVIOUS
        <5>3. call'.status # "reading" /\ call'.image = img
          BY <5>1, <5>2 DEF Return
        <5>4. png.width \in Nat /\ png.height \in Nat
          BY <2>1 DEF DrawInv, ImageInv
        <5>5. Pixelled(img)
          BY <2>2, <5>2, <5>4, ReadPixels
        <5> QED
          BY <5>3, <5>5
      <4> QED
        BY <2>4, <4>1, <4>2
    <3> QED
      BY <1>1, <2>1, <3>1 DEF PixelInv, TrueColor, Whole, Pixelled
  <2> QED
    BY <1>3, <2>3, <2>4 DEF Reads
<1>4. CASE Load
  <2>1. PICK file : UNCHANGED loaded_images /\ read_image(file)
    BY <1>4 DEF Load
  <2>2. CASE ReadCannotOpen(file) \/ ReadNotTrueColor(file)
    <3>1. call'.status # "reading" /\ call'.image = Null
      BY <2>2 DEF ReadCannotOpen, ReadNotTrueColor, Return
    <3> QED
      BY <1>1, <2>1, <3>1, NullPixels DEF PixelInv, TrueColor, Whole, Pixelled
  <2>3. CASE ReadOpens(file)
    <3>1. png' = Opened(file) /\ call'.image = Null /\ TrueColor(Opened(file))
      BY <2>3 DEF ReadOpens
    <3>2. {"color_type", "bpp"} \subseteq DOMAIN png' /\ TrueColor(png')
      BY <3>1 DEF Opened
    <3> QED
      BY <1>1, <2>1, <3>1, <3>2, NullPixels DEF PixelInv, TrueColor, Whole, Pixelled
  <2> QED
    BY <2>1, <2>2, <2>3 DEF read_image
<1>5. CASE Loaded
  <2>1. call'.status # "reading" /\ call'.image = Null /\ UNCHANGED png
    BY <1>5 DEF Loaded, NoCall
  <2>2. \/ UNCHANGED loaded_images
        \/ loaded_images' = [loaded_images EXCEPT ![cmd.n] = call.image]
    BY <1>5 DEF Loaded
  <2>3. \A n \in Slots : Pixelled(loaded_images'[n])
    BY <2>2 DEF PixelInv, DrawInv
  <2> QED
    BY <1>1, <2>1, <2>3, NullPixels DEF PixelInv, TrueColor, Whole, Pixelled
<1>6. CASE Write \/ Leave
  <2>1. UNCHANGED loaded_images
    BY <1>6 DEF Write, Leave
  <2>2. call'.status # "reading" /\ call'.image = Null
    BY <1>6, WriteReturns DEF Leave, NoCall
  <2> QED
    BY <1>1, <2>1, <2>2, NullPixels DEF PixelInv, TrueColor, Whole, Pixelled
<1>7. CASE \/ ReadCommand \/ Unreadable \/ Size \/ SizeNoMemory \/ NoCanvas
           \/ Rectangle \/ Circle \/ NoSlot \/ Tile \/ Sprite \/ UNCHANGED vars
  <2>1. UNCHANGED <<call, loaded_images, png>>
    BY <1>7 DEF vars, files, ReadCommand, Unreadable, Size, SizeNoMemory, NoCanvas,
       Rectangle, Circle, NoSlot, Tile, Sprite, Draw
  <2> QED
    BY <1>2, <2>1
<1> QED
  BY <1>3, <1>4, <1>5, <1>6, <1>7 DEF Next
-----------------------------------------------------------------------------
(* The output *)

\* The file holds the canvas, unless its size wraps or writing it has failed.
HoldsCanvas(output, image) ==
  ~TooLarge(image) /\ ~output.failed =>
    output.file = png_set_data(image.width, image.height, TRUECOLOR_ALPHA,
                               Append(LinesOf(image), End))

\* write_image has returned.
Writing == cmd = Nothing /\ call # NoCall

\* There is no file until write_image has been called; then its status tells
\* what there is, until the exit status does.
FileInv ==
  /\ exit \in {-1, 0, 1}
  /\ exit = -1 => IF Writing THEN IF call.status = "IMG_SUCCESS" THEN HoldsCanvas(out, canvas)
                                  ELSE out.file.signature # "png"
                             ELSE out = Written(NoFile, FALSE)
  /\ exit = 0 => HoldsCanvas(out, canvas)
  /\ exit = 1 => out.file.signature # "png"
  /\ exit = -1 /\ call # NoCall => cmd = Nothing \/ cmd.op = "L"

LEMMA NoFilePng == Written(NoFile, FALSE).file.signature # "png"
BY DEF Written, NoFile

\* What write_image leaves.
LEMMA WriteLeaves ==
  ASSUME DrawInv, FileInv, Write
  PROVE  FileInv'
<1>1. /\ exit = -1 /\ exit' = -1 /\ cmd = Nothing /\ cmd' = Nothing /\ call = NoCall
      /\ out = Written(NoFile, FALSE)
  BY DEF Write, FileInv, Writing
<1>2. PICK b : canvas' = [canvas EXCEPT !.intact = b]
  BY Zenon DEF Write
<1>3. /\ canvas'.data = canvas.data
      /\ canvas'.width = canvas.width /\ canvas'.height = canvas.height
  BY <1>2 DEF DrawInv, CanvasInv, Sized
<1>4. /\ call' # NoCall
      /\ IF call'.status = "IMG_SUCCESS" THEN HoldsCanvas(out', canvas)
                                         ELSE out'.file.signature # "png"
  <2>1. CASE WriteCannotOpen
    <3>1. call'.status = "IMG_ERR_COULD_NOT_OPEN" /\ out' = out
      BY <2>1 DEF WriteCannotOpen, Return
    <3>2. out'.file.signature # "png"
      BY <1>1, <3>1, NoFilePng
    <3>3. call' # NoCall
      BY <3>1 DEF NoCall
    <3> QED
      BY <3>1, <3>2, <3>3
  <2>2. CASE WriteNoMemory
    <3>1. /\ call'.status = "IMG_ERR_MALLOC_FAILED"
          /\ out' = Written([signature |-> "short"], FALSE)
      BY <2>2 DEF WriteNoMemory, Return
    <3> QED
      BY <3>1 DEF NoCall, Written
  <2>3. CASE WriteFile(canvas) \/ WriteNotCompressed(canvas)
    <3>1. PICK stream : WriteStream(canvas, stream)
      BY <2>3 DEF WriteFile, WriteNotCompressed
    <3>2. call'.status = "IMG_SUCCESS"
      BY <3>1 DEF WriteStream, Return
    <3>3. PICK file, failed :
            /\ file = png_set_data(canvas.width, canvas.height, TRUECOLOR_ALPHA, stream)
            /\ failed = (stream # Append(LinesOf(canvas), End))
            /\ \/ out' = Written(file, failed)
               \/ out' = Written([file EXCEPT !.chunks = Front(@)], TRUE)
      BY <3>1, Zenon DEF WriteStream
    <3>4. out'.failed \/ (out'.file = file /\ ~failed)
      BY <3>3 DEF Written
    <3>5. HoldsCanvas(out', canvas)
      BY <3>3, <3>4 DEF HoldsCanvas
    <3>6. call' # NoCall
      BY <3>2 DEF NoCall
    <3> QED
      BY <3>2, <3>5, <3>6
  <2>4. CASE WriteOutside(canvas)
    <3>1. call'.status = "IMG_SUCCESS" /\ TooLarge(canvas)
      BY <2>4 DEF WriteOutside, Return
    <3> QED
      BY <3>1 DEF NoCall, HoldsCanvas
  <2> QED
    BY <2>1, <2>2, <2>3, <2>4 DEF Write
<1>5. HoldsCanvas(out', canvas) => HoldsCanvas(out', canvas')
  BY <1>3 DEF HoldsCanvas, TooLarge, LinesOf, Bytes
<1> QED
  BY <1>1, <1>4, <1>5 DEF FileInv, Writing, HoldsCanvas

\* Only L calls anything while it runs.
LEMMA NoCallUnderway ==
  ASSUME FileInv, exit = -1, cmd # Nothing, cmd.op # "L"
  PROVE  call = NoCall
BY DEF FileInv

\* A command that is not the call of write_image leaves no file, whether it
\* succeeds or sets the exit status.
LEMMA StillNoFile ==
  ASSUME FileInv, exit = -1, cmd # Nothing,
         call' = NoCall \/ (exit' = 1 /\ call' = call),
         out' = out, exit' = exit \/ exit' = 1
  PROVE  FileInv'
<1>1. out = Written(NoFile, FALSE) /\ out' = Written(NoFile, FALSE)
  BY DEF FileInv, Writing
<1>2. CASE exit' = exit
  <2>1. exit' = -1 /\ call' = NoCall
    BY <1>2
  <2>2. ~Writing'
    BY <2>1 DEF Writing
  <2> QED
    BY <1>1, <2>1, <2>2 DEF FileInv
<1>3. CASE exit' = 1
  <2>1. out'.file.signature # "png"
    BY <1>1, NoFilePng
  <2> QED
    BY <1>3, <2>1 DEF FileInv
<1> QED
  BY <1>2, <1>3

\* No other command touches the output.
LEMMA FileStep ==
  ASSUME DrawInv, FileInv, [Next]_vars
  PROVE  FileInv'
<1>1. CASE UNCHANGED vars
  BY <1>1 DEF vars, files, FileInv, Writing, HoldsCanvas
<1>2. CASE Write
  BY <1>2, WriteLeaves
<1>3. CASE Leave
  <2>1. /\ exit = -1 /\ Writing /\ call' = NoCall /\ UNCHANGED <<out, canvas>>
        /\ exit' = IF call.status = "IMG_SUCCESS" THEN 0 ELSE 1
    BY <1>3 DEF Leave, Writing
  <2> QED
    BY <2>1 DEF FileInv, HoldsCanvas
<1>4. CASE Reads
  <2>1. UNCHANGED <<cmd, canvas, exit, out>> /\ call.status = "reading"
    BY <1>4 DEF Reads, ReadChunk, ReadFails, ReadSucceeds, Ends
  <2>2. exit = -1 /\ cmd.op = "L"
    BY <2>1 DEF DrawInv, LibraryInv, Underway
  <2>3. cmd # Nothing
    BY <2>2 DEF Nothing
  <2> QED
    BY <2>1, <2>2, <2>3 DEF FileInv, Writing
<1>5. CASE Load
  <2>1. UNCHANGED <<cmd, canvas, exit, out>> /\ exit = -1 /\ cmd.op = "L"
    BY <1>5 DEF Load, Running, read_image, ReadCannotOpen, ReadNotTrueColor, ReadOpens
  <2>2. cmd # Nothing
    BY <2>1 DEF Nothing
  <2> QED
    BY <2>1, <2>2 DEF FileInv, Writing
<1>6. CASE Loaded
  <2>1. exit = -1 /\ cmd.op = "L" /\ UNCHANGED out /\ call' = NoCall
    BY <1>6 DEF Loaded, Running
  <2>2. exit' = exit \/ exit' = 1
    BY <1>6 DEF Loaded, Done, Error
  <2> QED
    BY <2>1, <2>2, StillNoFile DEF Nothing
<1>7. CASE ReadCommand
  <2>1. exit = -1 /\ cmd = Nothing /\ call = NoCall /\ call' = NoCall /\ UNCHANGED <<exit, out>>
    BY <1>7 DEF ReadCommand, files
  <2> QED
    BY <2>1 DEF FileInv, Writing
<1>8. CASE Unreadable \/ NoSlot
  <2>1. exit = -1 /\ exit' = 1 /\ UNCHANGED <<call, out>>
    BY <1>8 DEF Unreadable, NoSlot, Running, Error, files
  <2>2. cmd.op \in {"?", "L", "T", "P"}
    BY <1>8 DEF Unreadable, NoSlot, Running
  <2>3. cmd # Nothing
    BY <2>2 DEF Nothing
  <2> QED
    BY <2>1, <2>3, StillNoFile
<1>9. CASE Size \/ SizeNoMemory \/ NoCanvas
  <2>1. exit = -1 /\ UNCHANGED <<call, out>>
    BY <1>9 DEF Size, SizeNoMemory, NoCanvas, Running, files
  <2>2. exit' = exit \/ exit' = 1
    BY <1>9 DEF Size, SizeNoMemory, NoCanvas, Done, Error
  <2>3. cmd.op \in {"S", "R", "C"}
    BY <1>9 DEF Size, SizeNoMemory, NoCanvas, Running
  <2> QED
    BY <2>1, <2>2, <2>3, NoCallUnderway, StillNoFile DEF Nothing
<1>10. CASE Rectangle \/ Circle \/ Tile \/ Sprite
  <2>1. exit = -1 /\ UNCHANGED <<call, out, exit>>
    BY <1>10 DEF Rectangle, Circle, Tile, Sprite, Running, Draw, Done, files
  <2>2. cmd.op \in {"R", "C", "T", "P"}
    BY <1>10 DEF Rectangle, Circle, Tile, Sprite, Running
  <2> QED
    BY <2>1, <2>2, NoCallUnderway, StillNoFile DEF Nothing
<1> QED
  BY <1>1, <1>2, <1>3, <1>4, <1>5, <1>6, <1>7, <1>8, <1>9, <1>10 DEF Next

\* An exit status of 1 means that no picture was written; one of 0 that the file
\* holds the canvas line by line, whatever commands came before, unless its size
\* wraps or a write or the compression has failed without anybody noticing.
THEOREM ExitAlwaysTells == Spec => []ExitTellsTheFile
<1>1. Init => PixelInv /\ FileInv
  <2> SUFFICES ASSUME Init
               PROVE  PixelInv /\ FileInv
    OBVIOUS
  <2>1. /\ canvas = Null /\ cmd = Nothing /\ call = NoCall /\ exit = -1
        /\ loaded_images = [n \in Slots |-> Null] /\ out = Written(NoFile, FALSE)
    BY DEF Init
  <2>2. call.status # "reading" /\ call.image = Null
    BY <2>1 DEF NoCall
  <2>3. PixelInv
    BY <2>1, <2>2, NullPixels DEF PixelInv
  <2> QED
    BY <2>1, <2>3 DEF FileInv, Writing
<1>2. DrawInv /\ PixelInv /\ FileInv /\ [Next]_vars => PixelInv' /\ FileInv'
  BY PixelStep, FileStep
<1>3. DrawInv /\ PixelInv /\ FileInv => ExitTellsTheFile
  <2> SUFFICES ASSUME DrawInv, PixelInv, FileInv, ~TooLarge(canvas)
               PROVE  /\ exit = 1 => out.file.signature # "png"
                      /\ exit = 0 => out.failed \/ Shows(out.file, canvas)
    BY DEF ExitTellsTheFile
  <2>1. ASSUME exit = 0, ~out.failed
        PROVE  Shows(out.file, canvas)
    <3>1. PICK file : file = out.file
      OBVIOUS
    <3>2. file = png_set_data(canvas.width, canvas.height, TRUECOLOR_ALPHA,
                              Append(LinesOf(canvas), End))
      BY <2>1, <3>1 DEF FileInv, HoldsCanvas
    <3>3. Sized(canvas) /\ Whole(canvas)
      BY SmallIsWhole DEF DrawInv, CanvasInv
    <3>4. Shows(file, canvas)
      BY <3>2, <3>3, FileShows DEF PixelInv
    <3> QED
      BY <3>1, <3>4
  <2> QED
    BY <2>1 DEF FileInv
<1> QED
  BY <1>1, <1>2, <1>3, DrawInvAlways, PTL DEF Spec
=============================================================================
