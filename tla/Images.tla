------------------------------- MODULE Images -------------------------------
(***************************************************************************)
(* The image functions of csf_assign02 (image.c): an image is made, read   *)
(* from a PNG file through the library, or written to one.                 *)
(***************************************************************************)
EXTENDS Png

VARIABLES
  call,     \* the status of the call: "none", "reading", or the one returned
            \* with the image
  streams,  \* how many files are open
  out       \* the output file: what it is, and whether a write, or the
            \* compression, has failed and nobody has noticed

NoFile == [signature |-> "none"]

Null == [width |-> 0, height |-> 0, data |-> <<>>, intact |-> TRUE, null |-> TRUE]

Image(width, height, data) ==
  [width |-> width, height |-> height, data |-> data, intact |-> TRUE,
   null |-> FALSE]

OpaqueBlack == <<0, 0, 0, 255>>

init_image(width, height) ==
  Image(width, height, [i \in 1..U(width * height) |-> OpaqueBlack])

\* The bytes of a uint32_t in memory, the lowest first, and back.
Memory(pixel) == Reverse(pixel)

Word(bytes) == Reverse(bytes)

\* Its bytes in memory become those of the result from the highest one.
byteswap(pixel) == Memory(pixel)
-----------------------------------------------------------------------------
(* read_image. *)

NoCall == [status |-> "none", image |-> Null]

Return(status, image) == call' = [status |-> status, image |-> image]

\* fopen fails, or png_open_read does, and then nobody closes the file.
ReadCannotOpen(file) ==
  /\ call = NoCall
  /\ \/ file = NoFile /\ UNCHANGED streams
     \/ /\ file # NoFile
        /\ png_open_read(file) # {"PNG_NO_ERROR"}
        /\ streams' = streams + 1
  /\ Return("IMG_ERR_COULD_NOT_OPEN", Null)
  /\ UNCHANGED <<png, heap, memory, out>>

TrueColor(p) == <<p.color_type, p.bpp>> \in {<<TRUECOLOR, 3>>, <<TRUECOLOR_ALPHA, 4>>}

Opens(file) == call = NoCall /\ file # NoFile /\ "PNG_NO_ERROR" \in png_open_read(file)

ReadNotTrueColor(file) ==
  /\ Opens(file) /\ ~TrueColor(Opened(file))
  /\ Return("IMG_ERR_NOT_TRUECOLOR", Null)
  /\ UNCHANGED <<png, heap, memory, streams, out>>

ReadOpens(file) ==
  /\ Opens(file) /\ TrueColor(Opened(file))
  /\ png' = Opened(file)
  /\ call' = [status |-> "reading", image |-> Null]
  /\ streams' = streams + 1
  /\ heap' = heap \cup {"pixel_data"} \cup
       IF Opened(file).color_type = TRUECOLOR THEN {"pixel_data_raw"} ELSE {}
  /\ UNCHANGED <<memory, out>>

ReadChunk ==
  /\ call.status = "reading"
  /\ png_process_chunk
  /\ UNCHANGED <<call, streams, out>>

\* The bytes of the i-th pixel; those that png_unfilter did not write are
\* what malloc has found there.
Raw(bytes, i) ==
  [k \in 1..png.bpp |-> LET at == (i - 1) * png.bpp + k
                        IN IF at \in DOMAIN bytes THEN bytes[at] ELSE Undef]

Pixels(bytes) ==
  [i \in 1..U(png.width * png.height) |->
    IF png.color_type = TRUECOLOR THEN Append(Raw(bytes, i), 255)
                                  ELSE byteswap(Word(Raw(bytes, i)))]

Ends == call.status = "reading" /\ png.result # "PNG_NO_ERROR"

\* Every error has the same status; pixel_data_raw is not freed then.
ReadFails ==
  /\ Ends
  /\ \/ png.result # "PNG_DONE"
     \/ /\ png.result = "PNG_DONE"
        /\ \E r \in png_unfilter : r.result # "PNG_NO_ERROR"
  /\ Return("IMG_ERR_MALLOC_FAILED", Null)
  /\ streams' = streams - 1
  /\ heap' = heap \ (FreedAtEnd \cup {"pixel_data"})
  /\ png' = Closed
  /\ UNCHANGED <<memory, out>>

\* The caller's image owns the pixels now.
ReadSucceeds ==
  /\ Ends /\ png.result = "PNG_DONE"
  /\ \E r \in png_unfilter :
       /\ r.result = "PNG_NO_ERROR"
       /\ Return("IMG_SUCCESS", Image(png.width, png.height, Pixels(r.bytes)))
  /\ streams' = streams - 1
  /\ heap' = heap \ (FreedAtEnd \cup {"pixel_data", "pixel_data_raw"})
  /\ png' = Closed
  /\ UNCHANGED <<memory, out>>

read_image(file) ==
  \/ ReadCannotOpen(file) \/ ReadNotTrueColor(file) \/ ReadOpens(file)
-----------------------------------------------------------------------------
(* write_image. *)

WriteCannotOpen ==
  /\ Return("IMG_ERR_COULD_NOT_OPEN", Null)
  /\ UNCHANGED <<out, memory>>

Written(file, failed) == [file |-> file, failed |-> failed]

WriteNoMemory ==
  /\ AllocFails
  /\ out' = Written([signature |-> "short"], FALSE)
  /\ Return("IMG_ERR_MALLOC_FAILED", Null)

\* The bytes that the lines of img are taken from.
Bytes(img) == FlattenSeq([i \in DOMAIN img.data |-> Memory(byteswap(img.data[i]))])

\* The size of the filtered data wraps.
TooLarge(img) == img.width * img.height * 4 + img.height >= UintSize

\* Its lines are written outside of it; what the file gets is not known.
WriteOutside(img) ==
  /\ TooLarge(img)
  /\ out' = Written([signature |-> "short"], TRUE)
  /\ Return("IMG_SUCCESS", Null)
  /\ UNCHANGED memory

\* The lines of img, each after its filter.
LinesOf(img) ==
  Filtered(Bytes(img), img.width, img.height, png_get_bpp(TRUECOLOR_ALPHA, 8))

\* png_set_data cannot fail: a write that does goes unnoticed, and so does a
\* stream that is not that of the lines.
WriteStream(img, stream) ==
  /\ LET file == png_set_data(img.width, img.height, TRUECOLOR_ALPHA, stream)
     IN \/ out' = Written(file, stream # Append(LinesOf(img), End))
        \/ out' = Written([file EXCEPT !.chunks = Front(@)], TRUE)
  /\ Return("IMG_SUCCESS", Null)

WriteFile(img) ==
  /\ ~TooLarge(img)
  /\ \E stream \in compress(LinesOf(img)) : WriteStream(img, stream)
  /\ UNCHANGED memory

WriteNotCompressed(img) ==
  /\ ~TooLarge(img)
  /\ AllocFails
  /\ \E stream \in NotCompressed : WriteStream(img, stream)
=============================================================================
