# A verification development of CSF-AVI-SIMCHA

The repository holds three programs: a concurrent key/value server with its
clients (`src/csf_assign05`), a cache simulator (`src/csf_assign03`) and a
drawing library with a driver (`src/csf_assign02`). This directory holds TLA+
models of them, TLC runs that check the models on small instances, and proofs,
checked by TLAPS, of what matters most for every instance.

The server is the program with concurrency, failures and undocumented corners,
and has the largest model. What is left out is said with each part and collected
under "Not modelled".

## Inventory

| part | state | operations | interacts with |
|---|---|---|---|
| Tables (`table.cpp`) | `data`, `staged_data`, a mutex, the flag `is_locked` | lock, trylock, unlock, set, get, commit_changes, rollback_changes | every session thread |
| Sessions (`client_connection.cpp`) | `is_logged_in`, `in_transaction`, `locked_tables`, the operand stack, the socket | one handler for each message type, rollback, send_response | its socket, the server's tables |
| Server (`server.cpp`) | the vector of tables, the listening socket | accept loop, one detached thread per connection, find_table, create_table | sessions |
| Operand stack (`value_stack.cpp`) | a stack of strings | push, pop, top, is_empty; four arithmetic handlers | its session only |
| Messages (`message*.cpp`) | none | encode, decode, is_valid | sessions and clients |
| Clients (`get_value`, `set_value`, `incr_value`) | position in a fixed dialogue | send a line, read a reply | the server |
| Robust I/O (`csapp.c`) | a read buffer | readlineb, writen, the exiting wrappers | sockets |
| Cache (`cache.cpp`) | sets of blocks, an index from tags to blocks, counters | load, store, replacement | the driver |
| Cache driver (`csim.cpp`) | the configuration | check arguments, split addresses | the cache |
| Drawing (`c_drawing_funcs.c`, `asm_drawing_funcs.S`) | an image | pixel, rectangle, circle, tile, sprite | the driver |
| Drawing driver (`c_driver.c`) | canvas, eight image slots | S, R, C, L, T, P commands | drawing, images |
| Images (`image.c`) | none | init, read, write | the PNG library, the driver |
| PNG library (`pnglite.c`) | `png_t`: header, buffers, the inflating stream | open, read chunks, inflate, unfilter, write | files, zlib |

What is hard in them, and what makes each correct:

* *Tables and sessions.* A transaction keeps table locks across commands;
  autocommit SET and every GET lock for one command; exceptions, that of a
  reply that is too long among them, leave handlers
  through catch blocks that unlock, roll back and reply again; a client can
  vanish at any time. Correct means: a table has one user at a time, staged
  writes belong to the transaction that holds the table, nobody reads them, a
  commit is atomic, each line gets one reply, locks are released.
* *Server.* Threads share the vector of tables without a lock. Correct means
  that a name keeps meaning the same table, and that one client's failure is its
  own.
* *Operand stack, messages, robust I/O.* Integer edges, operands lost on failure;
  reads and writes that the kernel cuts anywhere, a line buffer that keeps the
  last line at end of file. Correct means: lines are executed in order, once,
  with one complete reply each, a result is right, a failure keeps what it could
  not use.
* *Clients.* Increments in several commands, replies compared with exact texts, a
  server that ends. Correct means: success is real, an increment counts once, a
  client ends, and gives up only when it was refused.
* *Cache.* Index and blocks agree, the victim is the least recently used or the
  oldest block, a dirty block is written back once, counters wrap.
* *Drawing, images, PNG.* Clipping and index arithmetic in 32 bits, blending within
  a byte; files that are damaged, cut off or too short, allocations that fail
  half way, byte orders. Correct means: exactly the pixels described are drawn,
  an image is what its file was made from or is not loaded, buffers are freed,
  and the exit status tells whether the file is there.

`PROJECT.json` lists the hazards line by line with the properties that cover
them.

## Modules

| module | what it is |
|---|---|
| `Table` | the two maps of a table and what set, get and commit_changes do to them |
| `KVServer` | the server: state, one action per atomic step of a thread, specifications |
| `AtomicStore` | what the tables promise to sessions, without threads and locks |
| `KVServerProps` | type invariant, invariants, action and liveness properties, the refinement mapping to `AtomicStore`, and the statements of the repository that the code does not live up to |
| `MCKVServer` | symmetry sets and warm initial states for TLC |
| `KVServerProofs` | proofs about find_table, types and control flow, locks, staged data and replies, and that the tables implement `AtomicStore` |
| `Cache` | the set-associative cache: state, loads, stores, replacement |
| `AbstractCache` | what a cache promises: the tags of each set, the order of their eviction, the cost of each access |
| `CacheProps` | type invariant, invariants, the refinement mapping to `AbstractCache` |
| `MCCache` | `Csim` and `CacheProps` together, for TLC |
| `CacheProofs` | proofs of the cache's invariants, that it implements `AbstractCache`, and about its cycles |
| `Csim` | the driver's loop over a `Cache`: the split of addresses, and what it must not lose |
| `CsimProofs` | proofs that the split loses nothing |
| `CommonLemmas` | lemmas shared by the proofs: least counterexamples, functions defined by recursion, quotients and rests, and what `FlattenSeq` and `Reverse` yield |
| `Protocol` | encode, decode and validation of lines |
| `Rio` | robust reads and writes on one socket |
| `Session` | one client's lines through `Rio` and `Protocol`, the stack handlers and back: composes both |
| `SessionProps`, `MCSession` | what a client may rely on; the streams that clients send |
| `SessionProofs` | proofs about the lines of a session, its replies, its operations and its messages |
| `Clients` | the three command line programs and, in one step for each request, the handlers of the server they talk to |
| `ClientsProofs` | proofs about what clients report and what they add up to |
| `Drawing` | the drawing functions as operators on images |
| `Png` | the PNG library: chunks, inflating, filters, what is written |
| `Images` | init, read and write of an image over `Png` |
| `Driver` | the command loop over `Images` and `Drawing` |
| `DriverProps`, `MCDriver` | what is expected of the drawing program; pictures, files and commands |
| `DriverProofs` | proofs about what is freed, what is drawn and what is written |
| `PngProofs` | proofs that the filters are undone and that what is loaded is what the file shows |

### How KVServer corresponds to the code

Each accepted connection `c` is a thread. `pc[c]` is a label in the control flow
of `chat_with_client` and its handlers, `cur[c]` the handler's local variables
(`tableName`, `key`, `table`, `value`), `todo[c]` what is left of the set that a
commit or rollback loop visits, `resp[c]` the type of the reply about to be sent.
The members of `ClientConnection`, `Table` and `Server` are the variables of the
same names. A handler is cut into actions where it touches something that other
threads see: a lock or trylock (`SetLock`, `SetTrylock`, `GetLock`), a table
access (`SetWrite`, `SetStaged`, `GetRead`), an unlock (`SetUnlock`, `GetUnlock`,
`GetCatch`, `GetRecatch`), an iteration of a loop over tables (`CommitTable`,
`RollbackTable`), a lookup (`HandleSet`, `HandleGet`, `HandleCreate`), an append
(`CreateTable`), a send (`SendReply` ... `SendKilled`). What comes before the
first of these belongs to the action `Handle...` that reads the line.

*Exceptions.* `send_response` throws `CommException`, which is a `std::exception`.
`AfterThrow` says where it lands: the try of `handle_pop`, `handle_top`, `handle_set`,
`handle_get` or `handle_commit` if the send is inside it, else out of
`chat_with_client` into `client_worker`, which ends the thread. `CommitThrows` and
`RollbackThrows` are the `std::logic_error`s of `table.cpp`; `LogicErrorNever` proves
that they do not happen before a double unlock. `EncodeThrows` is the `InvalidMessage`
of `encode` for a reply whose text is too long, which only TOP of a long value and the
failure of a GET of a long key can have (`Long`: decode limits no key and no value).
In `handle_top` it is thrown inside the try and answered; in `handle_get` it is thrown
out of the catch, past the `catch (CommException)` of `client_worker`, and ends the
server.

*The socket* is modelled from how the code uses it. `link[c]` is "open"; "fin"
when the client has closed its side, so that the next write still succeeds;
"rst" when it has reset the connection, so that the next read or write fails
once; "dead" when a further write raises SIGPIPE. Nothing in the program
ignores SIGPIPE, and `Rio_readlineb` exits the process when a read fails, so both
are `process' = "down"`.

*Double unlock.* `GetRecatch` unlocks a mutex that the thread no longer holds.
This is undefined behaviour; the model lets it free the mutex whoever holds it,
as glibc does, and sets the history variable `overreleased`. Invariants are
stated up to that moment, and `kv_double_unlock` shows one of them broken after
it.

*Left out of KVServer.* The vector of tables is read and extended in single
steps: the data race on it is not modelled. The four arithmetic handlers change
only the session's own stack and are in `Session`. At end of file
`chat_with_client` executes the last line again; KVServer allows any command
at any time, which includes that one, and `Session` has the loop as it is.
`std::bad_alloc`, a failed mutex initialisation and a failed thread creation are
not modelled.

### How Protocol, Rio and Session correspond to the code

A line is a sequence of units: words, quoted texts, sentences and the newline.
`encode` writes the type, the first argument whatever it is, and a second one for SET
and GET. `decode` does what `operator>>` and `getline` do to each unit: an empty word
vanishes (so "OK " decodes like "OK"), a sentence falls apart into words, a quoted
text stays one argument and loses its quotes. `Joined` is the line that `encode` puts
together, `Length` its characters; `encode` throws, which is written `<<>>`, when they
are more than `MAX_ENCODED_LEN`. `decode` checks no length.

`Rio` moves units between the kernel (`wire`), the internal buffer (`rio_buf`) and the
caller's line (`usrbuf`): `Refill` is a `read` that brings any part of what there is,
`rio_read` one copy from the buffer, `LineRead` the two ways in which `rio_readlineb`
returns a line, `rio_writen` one `write` of any length. `link` is that of KVServer.
A read or write that a signal interrupts is tried again, which changes nothing.

`Session` is the thread of one client, alone: the handlers that touch tables are in
KVServer. `pc` says whether it reads, executes or replies. `buf` is the line buffer of
`chat_with_client`: at end of file the wrapper returns 0, which is not an error to the
loop, and `EofArrives` executes what the buffer holds once more, until a reply meets a
reset connection; what it holds before the first line is what the stack holds, so
`buf` begins as one of `Leftovers` and `usrbuf`, of which nothing is read before it is
written, as empty. The send is inside the try of a handler (`guarded`) or not, as in
KVServer. Ints end at `IntMax` and wrap, as the build without optimisation does
(signed overflow is undefined in C++); the smallest int divided by -1 traps and ends
the process. `isNumeric` accepts any text of digits and dashes: `stoi` then reads the
start of some and throws for others. `Popped` says how many operands are gone by the
time a handler fails.

### How Clients corresponds to the code

`Dialogue` has the requests of `get_value`, `set_value` and `incr_value` (with and
without `-t`); `step` is the position in it. `Accepts` is each program's test of a
reply. `read_response` reads into an array on the stack that nobody initialises,
and at end of file reads nothing: `ReadEof` lets it hold what the call before left
there, or anything that is not a line. A write to a server that has ended
raises SIGPIPE; the catch of get_value and set_value writes as well.

`send_message` throws when the connection was reset (`SendFails`), and the catch of
get_value and set_value then says BYE as well.

The server is the repository's own: `ServeLogin` ... `ServeCommit` are its handlers on
one key of one table, each request in one step, since what happens between the steps
is in KVServer. `ServeGet` needs the table free and keeps no lock, `ServeSet` stages
and locks inside a transaction and waits outside of one, and a trylock can meet the
moment in which another thread `Passes` through the table. A client of this server
does not get past its LOGIN, because the OK of `send_response` has an empty argument
(`clients_own_server`, with `OkArgument`); without `OkArgument` this fault alone is
mended, so that what the dialogues do to each other can be checked.

A client that fails or is killed leaves no BYE. `Left` says whose thread then repeats
its `LastLine` at end of file, with an answer each time, until a write raises SIGPIPE
and ends the server (`Hangup`); `Session` and KVServer have these steps one by one. If
a reply had not been read the kernel resets the connection: then a read ends the
server, a write only the thread, with whatever the transaction has locked.

### How Drawing, Png, Images and Driver correspond to the code

A pixel is the four bytes of its word, highest first. Drawing functions are operators
from image to image; a loop visits each pixel once, and since no pixel is visited
twice the order does not matter (`Loop`). Unsigned arithmetic wraps at `UintSize`,
2^32 in the code; the sums of `Inside` are compared with unsigned sizes, so a negative
sum is a large one. `Int32` are the int32_t of that width: coordinates and the fields
of a `Rect` are among them (`CommandsAssumption`: scanf stores nothing else), sizes
are unsigned (`FilesAssumption`). An access outside of `data` sets `intact` to FALSE
instead of changing some other memory. `Undef` is a byte nobody has written.

A file is a signature and chunks, each good, with a wrong checksum, or cut off before
or in its checksum. The compressed stream is a sequence of symbols: the bytes it
stands for, `End`, and `Garbage` for what zlib refuses; zlib is external and modelled
by what `inflate` returns. `png_process_chunk` is one action for each kind of chunk; a
second header is skipped like any chunk that is neither IDAT nor IEND. `heap` names
the blocks the library and `read_image` hold, `memory` lets one allocation fail at any
of the places that check for it, and inside zlib. `Reconstruct` is the common loop of
the filters, with `prev` empty in the first line; `png_unfilter` gives the bytes of
all lines. `read_image` and `write_image` are `Read...` and `Write...`; what a reader
gets of bytes that the file did not hold is what malloc found there. `compress` yields
the stream of all bytes, or as much of it as there is room for when `compressBound`
exceeds an unsigned int, and `NotCompressed` what it leaves when zlib gets no memory:
nobody looks at its result, so `WriteStream` writes whatever there is. `out.failed`
says that a write or the compression failed. What `png_write_idats` reads or writes
past the end of `chunk` in these cases is not modelled.

What a file shows is defined in `DriverProps` from the PNG format and not from the
library: `Stored` is the data of the chunks before the first IEND (`EndOf`), `Encoded`
the byte that a filter of the format stores for a byte of a picture, `Stores` says that
a file has the data of a picture, and `Undamaged` which files have to show one.
`Picture` names the pictures, and `PictureAssumption` says what they are: each undamaged
file has one whose bytes it stores. TLC evaluates it on the pictures and files of the
run, which are written down apart from each other. `FilesAssumption` says what a file
can be at all: nothing follows a chunk that is cut off, and data consists of symbols.

`Driver` has one action for each command of `main`, with its error paths, the slots
of loaded images, the canvas, the output and the exit status.

### How Cache and Csim correspond to the code

`blocks`, `index`, `counter` and the statistics are the members of `Set` and
`Cache`; 0 in `index` stands for a tag that is not in the unordered_map, so blocks
are numbered from 1. `load` and `store` are one action for each outcome
(`LoadHit`, `LoadMiss`, `StoreHit`, `StoreMiss`); `handleMiss` joins `handleMiss` and
`replaceBlock`. `Victim` is the loop of `handleMiss`: the first invalid block, else
the first with the smallest timestamp. `Reindexed` is the erase and the insertion
in one; erasing only matters when the block was valid. `Ticks` counts the
increments of an access: `load` increments the counter where it renews a
timestamp, `store` once more. The counter wraps at `CounterMod`; the statistics
do not, and are bounded by `MaxAccesses`. The policies are variables that the
initial state chooses among those that `checkArgValidity` accepts.

In `Csim` an access is a line of the trace. `tagOf` and `setOf` are the shifts of
32-bit words as written; with one set the code shifts by the whole width, which
C++ leaves undefined, and then throws the result away, so `setOf` is 0. A cache
whose sets and blocks use all 32 bits would shift the tag by 32 as well:
`CsimAssumption` excludes it. `logSets` is a variable so that one run covers several
numbers of sets: the sets from `Pow2[logSets]` on do not exist in the code, and
`CachedWasAccessed` says that they are never used. Parsing of lines and
arguments is not modelled.

## Runs

| run | instance | what it shows |
|---|---|---|
| `kv_txn` | 2 clients, 2 tables created by them, 1 key, 2 values | the lock discipline, isolation, the stability of lookups, one reply per line, and that the tables implement `AtomicStore`, when nobody disconnects |
| `kv_faults` | 3 clients, 1 table, resets | locks and staged data keep their owners with every error path of the handlers, until a double unlock |
| `kv_session` | 2 clients, 1 table, all commands, a value too long for a reply, both ways to disconnect | one reply per line, and at most one more after a double unlock; the tables implement `AtomicStore` although clients vanish, until a double unlock |
| `kv_live` | 2 clients, 2 tables, GETs included, a key too long for a reply | a command of a transaction that does not wait in GET is answered, and a lock that is not a transaction's is released, whoever deadlocks elsewhere, unless the text that the long key is missing has ended the server |
| `csim` | 1 or 2 sets of 2 blocks, 4-bit addresses, 4 lines, all policies | index, dirty bits and cycles are right, the cache implements `AbstractCache`, and the split of addresses loses nothing: what is cached was accessed, and a second access hits |
| `session` | 3-bit ints, a read buffer of 2 units, a line buffer of 4; 9 operands on either side of 4 operations, talks of 2 further lines | lines in order, one complete reply each, results and failures of the arithmetic, the end of a session; messages survive encoding and decoding |
| `clients` | 2 clients of any program on one key, numbers to 4, server and clients killed at any time, an OK without an argument | success is real while the server runs, the counter is never ahead of the increments, clients end and give up only when refused |
| `driver` | inputs of 4 commands out of 108, 32 files, 2 slots, one allocation that fails | what is loaded, drawn, freed and written |
| `kv_double_unlock` | 3 clients | violates `MutualExclusion` |
| `kv_deadlock` | 2 clients | violates `NoDeadlock` |
| `clients_own_server` | 2 clients, the OK of this repository's server | violates `GivesUpIfRefused` |
| `clients_increment` | 2 clients, nobody killed | violates `NoLostIncrement` |

The violations are disagreements with a statement of the repository, which the
findings of `PROJECT.json` quote:

* a GET whose OK cannot be sent unlocks its table twice, and two threads get in
  (README:12);
* a GET in a transaction waits for its own table (README:17);
* the clients give up after the server's first OK (exceptions.h:6), which was also
  seen with the programs as built;
* with that mended, two transactions that increment a key can count once, since GET
  keeps no lock (README:12, 17).

The models contain other disagreements, and the properties of the passing runs are
worded around them:

* a failed trylock aborts nothing, against README:17, and a closed connection keeps
  what its transaction has locked, against client_connection.cpp:18: `LocksAgree` and
  `StagedHasOwner` count such locks and writes as those of the transaction;
* a GET of a long key that is missing ends the server, against client_connection.cpp:341
  (`EncodeThrows`): `TxnAnswered` and `LocksReleased` except it (`Unencodable`);
* two CREATEs of one name can both succeed, against exceptions.h:27: `StableLookup`
  holds for the first table of the name, the second is never found;
* `decode` accepts lines of any length, against unit_tests.cpp:372-377; what is too long
  to be sent fails later, at TOP or in a GET;
* a set_value whose server ends can report success: `SuccessIsReal` is about a server
  that runs;
* the drawing program returns 0 although a write or the compression failed, against
  c_driver.c:148: `ExitTellsTheFile` excepts it (`out.failed`).

*Bounds.* `MaxTables` bounds the tables created, `MaxStack` the operands a session
holds (one is enough for SET and GET to consume and produce one). Two clients are
enough for two threads to meet at a table or a name; a double unlock needs a third one
to enter while the second is inside. Two tables are enough for a commit to be seen
half done and for locks to be taken in opposite orders; two values tell an old one
from a new one. The runs with one value or one table ask nothing that a second would
answer. `Long` has a value in `kv_session` and the key in `kv_live`; elsewhere all
texts fit into a reply. Rollbacks only happen after a double unlock, so `kv_faults`
has three clients and goes on past it. `WarmSpec` starts with all clients logged in
and the tables created, in any order, which the server reaches from its initial state.
Connections, names, keys and values are symmetric in safety runs; the liveness runs
use no symmetry.

Four accesses fill a set of two blocks, renew one of them by a hit and evict the other,
or evict two dirty blocks; with two sets the counter that they share must not disturb the
order within one. 4-bit addresses have two bits of offset and two that the number of sets
divides between tag and set index. What `csim` checks is proved for any numbers of bits,
sets, blocks and accesses. `CounterMod` is more than twice the accesses, so the counter
does not wrap: `AbstractCacheSpec` depends on it. With `CounterMod = 4` TLC finds it
violated: the newest block gets the smallest timestamp and is the next victim, as it
would be in the code after 2^32 increments of the counter.

In `session` a line is longer than the read buffer, some lines are longer than the
line buffer, reads and writes are cut anywhere. Three bits give every overflow, both
signs of a quotient and the trap; the operands are one of each class that the code
tells apart. `MAX_ENCODED_LEN` is 12, so that "toolong" can be sent and not be
answered. In `clients` two clients are enough to lose an increment or to hold a table
the other needs; the numbers suffice for two increments of what set_value writes. In
`driver` four commands make a canvas, load an image, and draw twice, or overlap two
drawings; `UintSize` is 64, so that a canvas of 8 by 8 is the one whose size wraps,
one of 1 by 11 the one whose bytes fit and whose `compressBound` does not, and 2 by 2
pictures with two lines exercise every filter against each boundary (first line, first
pixel, inside). The files include each one that takes a different path through the
library.

*Deadlock* is not checked: a thread stuck in GET, a process that is down and
the end of a trace are states the program really stops in.

*Fairness.* In KVServer `WF_vars(Step(c))` for each thread: a thread that can run
until its next read runs, as under any fair kernel scheduler, and a thread blocked on
a mutex that stays free is woken. Mutexes promise no order among waiters, so nothing
stronger is assumed; the liveness properties are the ones that hold without it.
Clients are not fair: they may stop sending at any time. In `Session` the thread is
fair and the client need not be. In `Clients` programs and server are fair each on its
own; being killed is not assumed. `Hangup` is fair for a client that has read all
replies: its thread repeats the last line and writes until SIGPIPE comes, as
`LeavingEnds` of `Session` shows.

## Proofs

For any connections, table names, keys, values and bounds that satisfy
`ConstantsAssumption`.

`KVServerProofs`. `find_table` returns the first table of a name (`FindResult`), so
different names give different tables (`FindInjective`), and `push_back` leaves
every lookup that succeeded as it was (`FindAppend`). `FlowInv` joins the types
with what the control flow knows: `CurValid` (a handler between lookup and reply
has the table that `find_table` gives for its name) and `TxnValid` (locked names
resolve, a session outside a transaction has none, and where each label
stands with respect to the transaction). It is inductive only as a whole: the
type of `cur` needs the lookup, `CurValid` needs the stability of lookups, which
needs the type of `tables`. From it follow `TypesCorrect`, `NoLocksOutsideTxn`,
`SetNeverHoldsAndWaits` and `LookupsAreStable`.

Its second part is about locks. `LockInv` says that the mutexes owned by a thread are
exactly the tables its control flow accounts for (`Locks`), that `is_locked` says
which are owned, that a handler never holds the table its own transaction holds, and
that staged data has an owner. The third part is what makes the first inductive:
without it a handler's unlock would release a transaction's lock. `LockStep` shows
that LockInv is kept by any step that treats each object in one of three ways (kept,
acquired, released) and stages only what it owns; each action is then shown to be such
a step. The exception is `GetRecatch`, so everything is proved up to `overreleased`.
From it follow `LocksAlwaysAgree`, `OneUserPerTable`, `StagedDataHasOwner`,
`ReadsAreCommitted` and `LogicErrorNever`. `ReplyInv` adds to FlowInv what each label
owes to the line being handled. Up to a double unlock that is one reply, which needs
`LockInv`: no handler of a SET meets a `logic_error` (`LogicErrorNever`). After it a
SET in a transaction may get the FAILED of its catch and the OK of the rollback, and
no line more than these two: `OneReplyAlways` states both.

`CommonLemmas`. Induction over data is out of reach, but a set of naturals has a least
member (`LeastNat`, from the well-foundedness of <): a recursive definition that goes
wrong somewhere goes wrong somewhere first. `RecursionExists` gives the function whose
value at i is made from the one at i - k, as the filters and the lines of an image
are. `Flattened` is `FlattenSeq` without recursion, `FlattenOnes` and `FlattenEqual`
say what it makes of sequences that have one length, `FlattenAppend` what one more
sequence adds.

The last part of `KVServerProofs` is the refinement. `StoreInv` joins to `ReplyInv`
that a SET under way has its value (`HasValue`) and that a rollback finds nothing to
roll back (`NothingToRollBack`: `LogicErrorNever` for SET, the cleared `locked_tables`
for a COMMIT that could not be answered). `Local` is what a step does at most: it
touches the tables that its own thread has locked. `OthersView` and `StoreStutters`
turn that into what the mapping sees, so each action is checked against its own tables
only. `SetWrite` is a write of the abstract store (`WriteStep`), `SetStaged` a staged
one (`StageStep`), `GetRead` a read (`ReadStep`), the OK to a GET hands the answer
over (`HandedStep`), and a transaction is committed as a whole when `HandleCommit`
enters its loop (`CommitStep`); the iterations of that loop, trylocks, rollbacks,
failures and lost connections change nothing (`CommitUnseen`, `TrylockUnseen`,
`QuietUnseen`). `TablesAreAtomic` is the sum, until a table is unlocked twice.

`CacheProofs`, for any sets, tags, blocks and accesses and any width of the counter
(`CacheAssumption`). `VictimInWay`: a miss finds a block, an invalid one first, else
one with a smallest timestamp. `CacheInv` joins the types, `IndexAgrees` and
`DirtyBlocks`: a miss needs the index to know that no other block has the tag it
brings in, and a hit needs it to find a valid block. `HitKeeps` and `MissKeeps` show
the two ways in which an access changes a set. From it follow `CacheTypes`,
`IndexAlwaysAgrees` and `DirtyBlocksAlways`; none of them depends on the counter not
wrapping.

It implements `AbstractCache`. `StampInv`: the valid blocks of a set have different
timestamps, all below the counter, which is at most two for each access. It needs
`CounterMod > 2 * MaxAccesses`, the hypothesis of `CacheFollowsPolicy`: a store that
hits under LRU uses two values of the counter, so a trace of 2^31 lines can wrap the
one of the code, and then the policy is lost (see Bounds; the hazard at
`cache.cpp:97`). `AccessKinds` says that an access is a hit that renews its block, a
miss that replaces one, or a store that passes the cache by; `HitView` and `MissView`
show each as its abstract counterpart. `CyclesAlwaysExplained` needs no such
hypothesis: `CyclesInv` counts the blocks written back, each dirty before, beside the
statistics.

`CsimProofs`, for any numbers of bits of a word, a set index and an offset, and any
numbers of blocks (`CsimAssumption`). Powers of two are a recursive function, `Pow2`:
that such a function exists for any number of bits, and `Pow2Sum`, that shifts add
up, are inductions, done by taking a least counterexample. `SplitNumber` is the
arithmetic of a left and a right shift in a word; from it `SplitAddress`: tag and set
index of an address are the two parts of its memory block, and the set is one of
those in use. `TraceInv` joins to `CacheInv` what a set may hold, and that the block
of the last load is there: `CachedWasAlwaysAccessed` and `SecondAccessAlwaysHits`.

`SessionProofs`, for any streams, sizes of the two buffers and widths of an int
(`ProtocolAssumption`, `RioAssumption`, `SessionAssumption`: streams are sequences of
strings). `LinesInv` says where the units are that a client has sent: executed, in
`usrbuf`, in `rio_buf` or on the wire, in this order, and that neither the line being
read nor the line being executed has a newline before its end. Each of the three
actions that move units keeps the concatenation, so `LinesAlwaysInOrder` holds
wherever reads and writes are cut. `FailedAlwaysKeeps` needs no invariant: among the
steps that perform an operation only `ArithmeticFails` begins its reply with FAILED,
since every reply begins with its type (`ReplyStarts`), and it drops `Popped`
operands. `OkAlwaysMeans` needs none either: only `ArithmeticDone` begins with OK,
`ResultReplaces` says what it leaves on the stack, `Wrapped` that a sum, difference or
product is off by a multiple of the number of ints, `Divided` that a quotient is
rounded towards zero. `RepliesInv` counts newlines: as many have been received as
there were replies, one less while a reply is under way, and it still has its newline
at its end and nowhere else (`ReplyIsLine`, which needs every unit of a line to be
other than a newline, `LineUnits`). `NewlinesKept` and `NewlineAdded` say what a write
cut anywhere adds, so `RepliesAlwaysComplete`. `RoundTripAlways` is about `encode` and
`decode` alone: `EncodedLine` gives the units of the line, `FlattenOnes` says that
splitting them into words changes none of them, for a line that `encode` does not
refuse, `DecodeWhole` puts the arguments together and `UnquotedValid` says that what
was valid with quotes is valid without. They use of the texts that numerals and texts
are strings other than a newline, that a quoted text is neither word nor sentence, and
that no type is a sentence.

`ClientsProofs`, for any clients, values and interleaving. `StepInv` says where a
client is in its dialogue and which replies can be on their way to it. `RefusedInv`
adds that an unpleasing reply is a refusal; it is inductive only when the server's OK
has no argument, hence the hypothesis `~OkArgument` of `GivesUpOnlyIfRefused`
(`clients_own_server` violates the property without it). `SuccessIsAlwaysReal` holds
with either OK. `NothingIsCountedTwice` bounds the counter by what was applied: what
an increment has on its stack, adds up or has staged counts no more than the
increments applied by now and itself, which is not yet among them (`CountInv`); it
needs finitely many clients and values that can hold as many increments as there are
clients. That none is lost cannot be proved, since it is not so (`clients_increment`).

`DriverProofs`, for any pictures, files, commands and width of an int, in three parts.
*What is freed*: `LibraryInv` says that nothing of the library is held between two
calls (`AtRest`) but for two leaks (`Leaks`), and what is held during one
(`Underway`); from it `LibraryAlwaysFrees`. The leaks: a stream that `inflateInit`
could not make is refused by `inflateEnd`, and `png_end_inflate` then returns before
it frees it (pnglite.c:405-412); after an error of `png_get_data` `read_image` frees
`pixel_data` and not `pixel_data_raw` (image.c:67-71). *What is drawn*: a loop's body
is `Body`, which puts a pixel where `in_bounds` and `compute_index` say. `Painted(i,
s, ...)` says that image i is what it was with the pixels of the set s drawn; one more
body adds one pixel to s (`BodyStep`), since two pixels of a loop never have one place
(`PlacesDiffer`). The loops are folds over a set; that a fold paints its whole set
(`FoldExists`, `FoldPaints`) is an induction, done by taking a smallest set for which
it fails. Each of the four functions is such a fold over its `Area` (`CommandPaints`),
and what it puts in a place is what `Expected` says by coordinates (`PixelAsExpected`;
`InsideIsWhole` and `BlendIsOver` are the two places where unsigned sums could differ
from the numbers they stand for). `DrawInv` says that the canvas, the slots and an
image being read have a pixel in each place, and that a canvas whose size does not
wrap is intact, if those of the loaded images do not either (`InsideIsInMap`: a tile
or sprite reads only where its image has pixels); from it `AlwaysInside` and
`DrawingIsExact`. *What is written*: `FileShows` says that the chunks which
`png_set_data` makes of a canvas have the bytes that `Shows` asks for: `Bytes` takes
the pixels one by one (`BytesOf`), a filtered line is a 0 and the bytes of its pixels
(`FilteredLines`). It needs four bytes in each pixel, which all images have
(`PixelInv`: `ReadPixels` for those read, `DrawPixels` for those drawn). `FileInv`
says what there is before, between and after `write_image` and the exit: no picture
until the write, and then, if the status is success, the canvas or a failure that
nobody noticed. From the two follows `ExitAlwaysTells`, for canvases of less than 2^32
bytes; it cannot be had without that exception (`WriteNotCompressed`). These are about
canvases and images whose sizes do not wrap (`Whole`, `TooLarge`): where `width *
height` exceeds 2^32 two pixels share a place, or have none. Sums of coordinates that
leave an int32_t are taken as numbers, although C leaves them undefined.

`PngProofs`, for any files, pictures and commands and any width of an int. *One line*:
`Reconstruct` is a recursion over the bytes of a line; `UnfilteredLine` says that its
result is the line whose bytes are what is stored plus what is predicted from the
bytes before and above. `PaethIsNearest`: `png_paeth` picks the nearest of its three
arguments, with ties in the order of the format. A byte comes out right if those it is
predicted from did (`ByteDecoded`), or unknown where data may be missing. *All lines*:
`ByteShows` is that step for the pixel in column x and row y, from its neighbours
left, above and above left; the first pixel that comes out wrong would contradict it
(`LinesComeOut`). `RawPixels` puts the lines side by side, and `PixelDecoded` adds the
fourth byte or swaps the bytes twice. The quotients that give a byte its line, column
and pixel are the ones of `Stored`, although the library computes them with sizes that
wrap (`Sizes`, `HeldLines`, `AllLines`). *The chunks*: `LoadInv` says, while a file is
read, that its header is the one in png_t (`Opening`), that nothing is wrong with the
chunks before the next one, and that png_data starts with their data and is unwritten
after it (`ReadTo`); and that each loaded image is the picture of its file
(`PictureInv`). A chunk that is skipped or inflated keeps it (`SkipsChunk`,
`InflatesChunk`), any other ends the read with an error (`ChunkReads`). At IEND the
file is undamaged (`EndsUndamaged`): bad checksums, garbage, too much data and unknown
filters have ended the read before (of other chunks than the header and the data
nobody looks at the checksum), and a checksum that was cut off has no chunk after it.
So the file has a picture, and the image is that picture (`PictureRead`). From it
`LoadsAlwaysThePicture`: with a file that is complete, each pixel is the picture's;
with one that has too little data, each pixel is, or has a byte that was never
written.

Every invariant that a passing run checks is proved. Only model-checked:

* liveness, which is beyond TLAPS as installed: `TxnAnswered`, `LocksReleased`,
  `LeavingEnds`, `ClientsEnd`;
* the violations, which are counterexamples.

## Not modelled

* The data race on the vector of tables (`server.cpp:70`): undefined behaviour whose
  outcomes depend on the allocator.
* Failed thread creation, `std::bad_alloc`, and the mallocs whose result nobody checks
  (`image.c:61`, `:66`, `pnglite.c:490`, `:819`), which never fail here: when they do,
  the program crashes.
* What is written outside of a canvas whose size wraps (`image.c:20`), and what
  follows from it.
* A chunk that is taken for a header because it is 13 bytes long but of another type
  (`pnglite.c:159`): `png_read_ihdr` goes by the type.
* Files whose image size wraps, drawing coordinates near the ends of an
  `int32_t`, 16-bit samples (`read_image` refuses such files before the library
  reads them), interlaced and indexed files beyond being refused, callbacks for
  reading and writing, and functions that nobody calls: in `pnglite.c` deflating
  in pieces and `png_print_info`, in `csapp.c` all but reading lines, writing and
  opening connections.
* Arguments and trace lines of the cache simulator as text; `printResults`.
* The assembly version of the drawing functions, and the tests.

## Plan

1. `KVServer` with its proofs, `Cache` with its refinement of `AbstractCache` and its
   proofs, `Csim`: done.
2. `Protocol`, `Rio`, `Session`; `Clients`; `Drawing`, `Png`, `Images`, `Driver`:
   done, as runs.
3. Proofs about KVServer, its refinement of `AtomicStore` included, about Cache and
   its refinement of `AbstractCache`, about the address split, sessions, clients, and
   about freeing, drawing, writing and loading: done. Liveness is left to TLC.
