------------------------------- MODULE Driver -------------------------------
(***************************************************************************)
(* The drawing program of csf_assign02 (c_driver.c): commands that make a  *)
(* canvas, draw on it, load images and copy parts of them onto it; at the  *)
(* end of the input the canvas is written to a PNG file.                   *)
(***************************************************************************)
EXTENDS Images

CONSTANTS
  NUM_IMAGE_SLOTS,
  Files,       \* the files that there are, by name
  Commands,    \* the commands that the input is made of
  MaxCommands  \* bound: their number

ASSUME DriverAssumption ==
  NUM_IMAGE_SLOTS \in Nat \ {0} /\ MaxCommands \in Nat

\* What scanf reads with %u and %d.
ASSUME CommandsAssumption ==
  \A c \in Commands :
    /\ c.op = "S" => c.width \in 0 .. UintSize - 1 /\ c.height \in 0 .. UintSize - 1
    /\ c.op \in {"R", "T", "P"} => c.rect \in Rect
    /\ c.op \in {"C", "T", "P"} => c.x \in Int32 /\ c.y \in Int32
    /\ c.op = "C" => c.r \in Int32

\* The signature of a file is cut off, another one, or that of PNG; the size in
\* a header is unsigned; nothing follows a chunk that is cut off.
ASSUME FilesAssumption ==
  \A f \in DOMAIN Files :
    /\ Files[f].signature \in {"short", "other", "png"}
    /\ Files[f].signature = "png" =>
         /\ Files[f].chunks \in Seq(ToSet(Files[f].chunks))
         /\ \A k \in DOMAIN Files[f].chunks :
              LET chunk == Files[f].chunks[k]
              IN /\ chunk.type = "IHDR" => /\ chunk.body.width \in 0 .. UintSize - 1
                                           /\ chunk.body.height \in 0 .. UintSize - 1
                 /\ chunk.type = "IDAT" => chunk.body \in Seq(0 .. Garbage)
                 /\ chunk.state \in {"good", "bad", "no crc", "cut"}
                 /\ chunk.state \in {"no crc", "cut"} => k = Len(Files[f].chunks)

VARIABLES
  cmd,            \* the command that has been read, or Nothing
  canvas,
  loaded_images,
  exit,           \* the exit status, -1 while the program runs
  count,          \* how many commands have been read
  source          \* history: the file that each loaded image was read from

files == <<png, heap, memory, call, streams, out>>
vars == <<files, cmd, canvas, loaded_images, exit, count, source>>

Nothing == [op |-> "none"]

Slots == 0 .. NUM_IMAGE_SLOTS - 1

Init ==
  /\ cmd = Nothing
  /\ canvas = Null
  /\ loaded_images = [n \in Slots |-> Null]
  /\ exit = -1
  /\ count = 0
  /\ source = [n \in Slots |-> ""]
  /\ png = Closed /\ heap = {} /\ streams = 0
  /\ memory \in {"enough", "short"}
  /\ call = NoCall
  /\ out = Written(NoFile, FALSE)

\* The next command, with its operands as scanf reads them; "?" is one that
\* is not known or whose operands cannot be read.
ReadCommand ==
  /\ exit = -1 /\ cmd = Nothing /\ call = NoCall /\ count < MaxCommands
  /\ count' = count + 1
  /\ cmd' \in Commands
  /\ UNCHANGED <<files, canvas, loaded_images, exit, source>>

Running(op) == exit = -1 /\ cmd.op = op

Done == cmd' = Nothing /\ UNCHANGED exit

\* error = 1: nothing more is read, nothing is written.
Error == cmd' = Nothing /\ exit' = 1

Unreadable ==
  /\ Running("?")
  /\ Error
  /\ UNCHANGED <<files, canvas, loaded_images, count, source>>

\* Another canvas is not freed.
Size ==
  /\ Running("S")
  /\ canvas' = init_image(cmd.width, cmd.height)
  /\ heap' = IF canvas.null THEN heap ELSE heap \cup {"old canvas"}
  /\ Done
  /\ UNCHANGED <<png, memory, call, streams, out, loaded_images, count, source>>

SizeNoMemory ==
  /\ Running("S")
  /\ AllocFails
  /\ Error
  /\ UNCHANGED <<png, heap, call, streams, out, canvas, loaded_images, count, source>>

NoCanvas ==
  /\ Running("R") \/ Running("C")
  /\ canvas.null
  /\ Error
  /\ UNCHANGED <<files, canvas, loaded_images, count, source>>

Draw(image) ==
  /\ canvas' = image
  /\ Done
  /\ UNCHANGED <<files, loaded_images, count, source>>

Rectangle ==
  /\ Running("R") /\ ~canvas.null
  /\ Draw(draw_rect(canvas, cmd.rect, cmd.color))

Circle ==
  /\ Running("C") /\ ~canvas.null
  /\ Draw(draw_circle(canvas, cmd.x, cmd.y, cmd.r, cmd.color))

\* An image to draw from must be loaded, one to load must not be.
NoSlot ==
  /\ \/ Running("L") /\ (cmd.n \in Slots => ~loaded_images[cmd.n].null)
     \/ (Running("T") \/ Running("P")) /\ (cmd.n \in Slots => loaded_images[cmd.n].null)
  /\ call = NoCall
  /\ Error
  /\ UNCHANGED <<files, canvas, loaded_images, count, source>>

Load ==
  /\ Running("L") /\ cmd.n \in Slots /\ loaded_images[cmd.n].null
  /\ read_image(IF cmd.filename \in DOMAIN Files THEN Files[cmd.filename] ELSE NoFile)
  /\ UNCHANGED <<cmd, canvas, loaded_images, exit, count, source>>

Reads ==
  /\ ReadChunk \/ ReadFails \/ ReadSucceeds
  /\ UNCHANGED <<cmd, canvas, loaded_images, exit, count, source>>

Loaded ==
  /\ Running("L") /\ call.status \notin {"none", "reading"}
  /\ IF call.status = "IMG_SUCCESS"
       THEN /\ loaded_images' = [loaded_images EXCEPT ![cmd.n] = call.image]
            /\ source' = [source EXCEPT ![cmd.n] = cmd.filename]
            /\ Done
       ELSE Error /\ UNCHANGED <<loaded_images, source>>
  /\ call' = NoCall
  /\ UNCHANGED <<png, heap, memory, streams, out, canvas, count>>

\* The canvas need not be there: its size is 0 then.
Tile ==
  /\ Running("T") /\ cmd.n \in Slots /\ ~loaded_images[cmd.n].null
  /\ Draw(draw_tile(canvas, cmd.x, cmd.y, loaded_images[cmd.n], cmd.rect))

Sprite ==
  /\ Running("P") /\ cmd.n \in Slots /\ ~loaded_images[cmd.n].null
  /\ Draw(draw_sprite(canvas, cmd.x, cmd.y, loaded_images[cmd.n], cmd.rect))

\* End of the input.
Write ==
  /\ exit = -1 /\ cmd = Nothing /\ call = NoCall
  /\ \/ WriteCannotOpen \/ WriteNoMemory \/ WriteFile(canvas)
     \/ WriteNotCompressed(canvas) \/ WriteOutside(canvas)
  /\ canvas' = [canvas EXCEPT !.intact =
       @ /\ ~(TooLarge(canvas) /\ call'.status = "IMG_SUCCESS")]
  /\ UNCHANGED <<png, heap, streams, cmd, loaded_images, exit, count, source>>

Leave ==
  /\ exit = -1 /\ cmd = Nothing /\ call # NoCall
  /\ exit' = IF call.status = "IMG_SUCCESS" THEN 0 ELSE 1
  /\ call' = NoCall
  /\ UNCHANGED <<png, heap, memory, streams, out, cmd, canvas, loaded_images, count,
                 source>>

Next ==
  \/ ReadCommand \/ Unreadable \/ Size \/ SizeNoMemory \/ NoCanvas \/ Rectangle
  \/ Circle \/ NoSlot \/ Load \/ Reads \/ Loaded \/ Tile \/ Sprite \/ Write \/ Leave

Spec == Init /\ [][Next]_vars
=============================================================================
