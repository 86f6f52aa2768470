-------------------------------- MODULE Png ---------------------------------
(***************************************************************************)
(* The PNG library of csf_assign02 (pnglite.c), reading from a file and    *)
(* writing to one.  A file is its signature and its chunks; a chunk is     *)
(* good, or has a wrong checksum ("bad"), or the file ends in its checksum *)
(* ("no crc") or before it ("cut").  The body of an IDAT is a piece of the *)
(* compressed stream, whose symbols are the bytes it stands for, End, and  *)
(* Garbage for anything that zlib refuses.                                 *)
(***************************************************************************)
EXTENDS Drawing

End == 256
Garbage == 257

VARIABLES
  png,     \* png_t: the header's fields, chunks (what is left of the file),
           \* result (of the last chunk), png_data, inflated (how much of it
           \* is), zs ("none", "open", "ended", or "broken"), readbuflen
  heap,    \* the blocks of memory that no struct Image owns
  memory   \* whether one more allocation can fail

GREYSCALE == 0
TRUECOLOR == 2
INDEXED == 3
GREYSCALE_ALPHA == 4
TRUECOLOR_ALPHA == 6

\* An allocation that fails; only one does (bound).
AllocFails == memory = "short" /\ memory' = "enough"

\* An unknown color type gives PNG_FILE_ERROR, -1, as an unsigned char.
png_get_bpp(color_type, depth) ==
  CASE color_type \in {GREYSCALE, INDEXED} -> depth \div 8
    [] color_type = GREYSCALE_ALPHA -> 2 * (depth \div 8)
    [] color_type = TRUECOLOR       -> 3 * (depth \div 8)
    [] color_type = TRUECOLOR_ALPHA -> 4 * (depth \div 8)
    [] OTHER -> 255

Supported(ihdr) ==
  IF ihdr.color_type = INDEXED \/ ihdr.depth \notin {8, 16} \/ ihdr.interlace
    THEN "PNG_NOT_SUPPORTED" ELSE "PNG_NO_ERROR"

\* A chunk is taken for IHDR by its length, not by its type.  A length or a
\* checksum that could not be read is what the stack holds.
png_read_ihdr(chunks) ==
  IF chunks = <<>> THEN {"PNG_CRC_ERROR", "PNG_EOF_ERROR"}
  ELSE LET c == Head(chunks) IN
    CASE c.type # "IHDR"    -> {"PNG_CRC_ERROR"}
      [] c.type = "IHDR" /\ c.state = "cut"    -> {"PNG_EOF_ERROR"}
      [] c.type = "IHDR" /\ c.state = "bad"    -> {"PNG_CRC_ERROR"}
      [] c.type = "IHDR" /\ c.state = "no crc" -> {"PNG_CRC_ERROR", Supported(c.body)}
      [] c.type = "IHDR" /\ c.state = "good"   -> {Supported(c.body)}

png_open_read(file) ==
  CASE file.signature = "short" -> {"PNG_EOF_ERROR"}
    [] file.signature = "other" -> {"PNG_HEADER_ERROR"}
    [] file.signature = "png"   -> png_read_ihdr(file.chunks)

\* png_t once the file is open and png_get_data has cleared it.
Opened(file) ==
  LET ihdr == Head(file.chunks).body
  IN [width |-> ihdr.width, height |-> ihdr.height,
      color_type |-> ihdr.color_type,
      bpp |-> png_get_bpp(ihdr.color_type, ihdr.depth),
      chunks |-> Tail(file.chunks), result |-> "PNG_NO_ERROR",
      png_data |-> <<>>, inflated |-> 0, zs |-> "none", readbuflen |-> 0]

Closed == [result |-> "closed"]
-----------------------------------------------------------------------------
(* png_get_data: one chunk after the other. *)

Returns(result) == png' = [png EXCEPT !.result = result]

Chunk == Head(png.chunks)

Reading(type) ==
  /\ png.result = "PNG_NO_ERROR"
  /\ png.chunks # <<>> /\ Chunk.type = type

NextChunkMissing ==
  /\ png.result = "PNG_NO_ERROR" /\ png.chunks = <<>>
  /\ Returns("PNG_FILE_ERROR")
  /\ UNCHANGED <<heap, memory>>

\* Neither the body nor the checksum of IEND is read.
EndChunk ==
  /\ Reading("IEND")
  /\ Returns("PNG_DONE")
  /\ UNCHANGED <<heap, memory>>

\* Of any other type, another header too: skipped with fseek, whose result
\* nobody looks at.
UnknownChunk ==
  /\ png.result = "PNG_NO_ERROR" /\ png.chunks # <<>>
  /\ Chunk.type \notin {"IDAT", "IEND"}
  /\ png' = [png EXCEPT !.chunks = Tail(@)]
  /\ UNCHANGED <<heap, memory>>

Datalen(p) == U(p.width * p.height * p.bpp + p.height)

\* The bytes that inflate makes of a body that it does not refuse.
Data(body) == IF body # <<>> /\ Last(body) = End THEN Front(body) ELSE body

\* inflate refuses the body, wants more or leaves some of it.
Refuses(body, room) ==
  \/ Garbage \in ToSet(body)
  \/ Len(Data(body)) > room
  \/ End \in ToSet(Front(body))
  \/ (png.zs = "ended") # (body = <<>>)

\* The results that reading and inflating the chunk can have: those of a
\* checksum that could not be read are left to what the stack holds.
IdatResults(room) ==
  LET png_inflate == IF Refuses(Chunk.body, room) THEN "PNG_ZLIB_ERROR"
                                                  ELSE "PNG_NO_ERROR"
  IN CASE Chunk.state = "cut"    -> {"PNG_FILE_ERROR"}
       [] Chunk.state = "bad"    -> {"PNG_CRC_ERROR"}
       [] Chunk.state = "no crc" -> {"PNG_CRC_ERROR", png_inflate}
       [] Chunk.state = "good"   -> {png_inflate}

\* png_data, allocated at the first IDAT.
Before ==
  IF png.png_data = <<>> THEN [i \in 1..Datalen(png) |-> Undef] ELSE png.png_data

\* The first IDAT allocates png_data and the stream.
DataChunk ==
  /\ Reading("IDAT")
  /\ \E result \in IdatResults(Datalen(png) - png.inflated) :
       LET data == Data(Chunk.body)
           ok == result = "PNG_NO_ERROR"
       IN png' = [png EXCEPT
            !.result = result,
            !.chunks = Tail(@),
            !.png_data = IF ok THEN [i \in DOMAIN Before |->
                                IF i - png.inflated \in DOMAIN data
                                  THEN data[i - png.inflated] ELSE Before[i]]
                         ELSE Before,
            !.inflated = IF ok THEN @ + Len(data) ELSE @,
            !.zs = IF End \in ToSet(Chunk.body) THEN "ended"
                   ELSE IF @ = "none" THEN "open" ELSE @,
            !.readbuflen = IF Len(Chunk.body) > @ THEN Len(Chunk.body) ELSE @]
  /\ heap' = heap \cup {"png_data", "zs", "readbuf"}
  /\ UNCHANGED memory

\* One of its allocations fails.  When it is one of inflateInit's the stream
\* is there, but broken; a read buffer that is too small has been freed.
DataChunkNoMemory ==
  /\ Reading("IDAT")
  /\ AllocFails
  /\ \/ /\ png.png_data = <<>>
        /\ Returns("PNG_MEMORY_ERROR")
        /\ UNCHANGED heap
     \/ /\ png.zs = "none"
        /\ png' = [png EXCEPT !.result = "PNG_MEMORY_ERROR", !.png_data = Before]
        /\ heap' = heap \cup {"png_data"}
     \/ /\ png.zs = "none"
        /\ png' = [png EXCEPT !.result = "PNG_ZLIB_ERROR", !.png_data = Before,
                              !.zs = "broken"]
        /\ heap' = heap \cup {"png_data", "zs"}
     \/ /\ "readbuf" \notin heap \/ png.readbuflen < Len(Chunk.body)
        /\ png' = [png EXCEPT !.result = "PNG_MEMORY_ERROR", !.png_data = Before,
                              !.zs = IF @ = "none" THEN "open" ELSE @]
        /\ heap' = (heap \cup {"png_data", "zs"}) \ {"readbuf"}

png_process_chunk ==
  NextChunkMissing \/ EndChunk \/ UnknownChunk \/ DataChunk \/ DataChunkNoMemory

\* Mutant: after an error the data is not freed.
FreedAtEnd_NotOnError ==
  IF png.result = "PNG_DONE" THEN {"png_data", "readbuf", "zs"} ELSE {"readbuf", "zs"}

\* What png_get_data frees before it returns: not a stream that inflateEnd
\* refuses.
FreedAtEnd == {"png_data", "readbuf"} \cup IF png.zs = "broken" THEN {} ELSE {"zs"}
-----------------------------------------------------------------------------
(* png_unfilter. *)

Plus(a, b) == IF Undef \in {a, b} THEN Undef ELSE (a + b) % 256

\* out[i] = in[i] + predict(left, above, above left), where what lies outside
\* of the image is 0; prev is empty in the first line.
Reconstruct(predict(_, _, _), stride, in, prev) ==
  LET above(i) == IF i \in DOMAIN prev THEN prev[i] ELSE 0
      out[i \in 1..Len(in)] ==
        Plus(in[i], predict(IF i > stride THEN out[i - stride] ELSE 0, above(i),
                            above(i - stride)))
  IN [i \in 1..Len(in) |-> out[i]]

png_filter_sub(stride, in) == Reconstruct(LAMBDA a, b, c : a, stride, in, <<>>)

png_filter_up(in, prev) == Reconstruct(LAMBDA a, b, c : b, Len(in), in, prev)

\* Mutant: the sum is kept in a byte before it is halved.
png_filter_average_Byte(stride, in, prev) ==
  Reconstruct(LAMBDA a, b, c : IF Undef \in {a, b} THEN Undef
                                                   ELSE ((a + b) % 256) \div 2,
              stride, in, prev)

png_filter_average(stride, in, prev) ==
  Reconstruct(LAMBDA a, b, c : IF Undef \in {a, b} THEN Undef ELSE (a + b) \div 2,
              stride, in, prev)

Distance(m, n) == IF m < n THEN n - m ELSE m - n

png_paeth(a, b, c) ==
  LET p == a + b - c
      pa == Distance(p, a)
      pb == Distance(p, b)
      pc == Distance(p, c)
  IN IF Undef \in {a, b, c} THEN Undef
     ELSE IF pa <= pb /\ pa <= pc THEN a
     ELSE IF pb <= pc THEN b ELSE c

png_filter_paeth(stride, in, prev) == Reconstruct(png_paeth, stride, in, prev)

\* A filter that nobody has written can be any: what comes out is not known.
Unfiltered(filter, stride, in, prev) ==
  CASE filter = 0 -> in
    [] filter = 1 -> png_filter_sub(stride, in)
    [] filter = 2 -> png_filter_up(in, prev)
    [] filter = 3 -> png_filter_average(stride, in, prev)
    [] filter = 4 -> png_filter_paeth(stride, in, prev)
    [] OTHER -> [i \in DOMAIN in |-> Undef]

\* What png_unfilter can return, and the bytes that it then has written.
png_unfilter ==
  LET len == png.width * png.bpp
      lines == Len(png.png_data) \div (len + 1)
      pos(l) == (l - 1) * (len + 1) + 1
      filters == {png.png_data[pos(l)] : l \in 1..lines}
      line[l \in 0..lines] ==
        IF l = 0 THEN <<>>
        ELSE Unfiltered(png.png_data[pos(l)], png.bpp,
                        SubSeq(png.png_data, pos(l) + 1, pos(l) + len), line[l - 1])
  IN {[result |-> r, bytes |-> FlattenSeq([l \in 1..lines |-> line[l]])] :
        r \in CASE filters \subseteq 0..4 -> {"PNG_NO_ERROR"}
                [] filters \subseteq 0..4 \cup {Undef} /\ Undef \in filters
                     -> {"PNG_NO_ERROR", "PNG_UNKNOWN_FILTER"}
                [] OTHER -> {"PNG_UNKNOWN_FILTER"}}
-----------------------------------------------------------------------------
(* png_set_data: the file that is written. *)

\* Mutant: the filter of a line is left out after the first.
Filtered_Once(bytes, width, height, bpp) == <<0>> \o bytes

\* Every line with the filter 0 before it.
Filtered(bytes, width, height, bpp) ==
  FlattenSeq([l \in 1..height |->
    <<0>> \o SubSeq(bytes, (l - 1) * width * bpp + 1, l * width * bpp)])

png_write_ihdr(width, height, color_type) ==
  [type |-> "IHDR", state |-> "good",
   body |-> [width |-> width, height |-> height, depth |-> 8,
             color_type |-> color_type, interlace |-> FALSE]]

\* What zlib may need for size bytes.
compressBound(size) ==
  size + size \div 4096 + size \div 16384 + size \div 33554432 + 13

\* The streams that compress can leave in chunk: the one of all bytes, or, when
\* chunk_size has wrapped, as much of it as there was room for.
compress(filtered) ==
  {Append(filtered, End)} \cup
  IF compressBound(Len(filtered)) < UintSize THEN {}
  ELSE {SubSeq(filtered, 1, n) : n \in 0 .. Len(filtered)}

\* What it leaves without memory of its own, depending on the version of zlib:
\* nothing, or what malloc found there.
NotCompressed == {<<>>, <<Garbage>>}

\* Nobody looks at the result of compress: whatever it has left is written,
\* with the right checksum.
png_write_idats(stream) ==
  <<[type |-> "IDAT", state |-> "good", body |-> stream],
    [type |-> "IEND", state |-> "good", body |-> <<>>]>>

png_set_data(width, height, color_type, stream) ==
  [signature |-> "png",
   chunks |-> <<png_write_ihdr(width, height, color_type)>> \o png_write_idats(stream)]
=============================================================================
