# zipcode-conv: models, checks and proofs

zipcode-conv converts zipped Commodore 64 disks ("zipdisks", four or five
slice files `1!name` ... `5!name`) to D64 disk images.  It is a sequential C
program: one process, no threads, no network.  What can go wrong lies in the
bytes it is given, in what the host does (files that cannot be opened or read,
full disks, memory running out), in the command lines it is called with, and in
the order in which handles and lists are set up, used and freed.  Beside it the
repository has a program for its unit tests, with a test runner of its own.

This directory holds TLA+ models of the program's core, the TLC
configurations that check them on small instances, and theorems that TLAPS
proves for all instances.  Line numbers refer to `src/src/`, those of `unit.c`
and `unit_tests.c` to `src/tests/`.

    tlc -config D64_device.cfg MCD64.tla        # check one run
    tlapm D64Proofs.tla                         # check the proofs of a module

## The system

| Component | State | Operations | Modules |
|---|---|---|---|
| D64 geometry (d64.c 53-210) | speed zone table | block and track offset, sectors of a track, checks of track and sector | `D64Geometry` |
| D64 handle (d64.c 224-413, io.c 140-161) | path, data, size, type; `zcc_errno` | init, alloc, read, write, free, block read, block write | `D64`, `BlockDevice`, `D64Proofs` |
| RLE decoder (rle.c 50-84) | buffer on the stack, two indices | decode | `RleCodec`, `Rle`, `RleProofs`, `SetInduction` |
| Host files (io.c 63-126) | stream, growing buffer | read a file of unknown size | `FreadAlloc`, `FreadAllocProofs` |
| Zipdisk handle (zipdisk.c 57-135) | path, six slices, slice count | init, read, free | `Zipdisk`, `ZipdiskProofs` |
| Zipdisk iterator (zipdisk.c 257-363) | slice index, offset, block pointer, track, sector, method | init, next | `Zipdisk`, `ZipdiskProofs` |
| Conversion (zipdisk.c 210-240, 415-461; main.c 151-208) | the above together, a block buffer | unpack a block, unzip | `Unzip`, `Conversion`, `ZipdiskProofs` |
| Zipdisk information (zipdisk.c 146-197, 470-493) | slice, pointer into it | sizes of the slices, dump of their blocks | `ZipdiskInfo`, `ZipdiskProofs` |
| Directory, block chains, BAM (d64.c 426-873, main.c 211-240) | directory iterator, block iterator, entries of a directory | init, next, read, dump | `D64Dir`, `D64DirProofs`, `Listing` |
| PETSCII (petasc.c), file types (cbmdos.c) | tables | a name, a file type as text | `Petasc`, `Listing` |
| String list (strlist.c) | growing array | init, add, get, free | `Strlist`, `CmdlineProofs` |
| Command line (cmdline.c) | option list, targets, argument list | init, add options, parse, exit | `OptionTables`, `Cmdline`, `CmdlineProofs` |
| Commands (main.c) | chosen command, file names | dispatch, name of the output file, exit status | `Main`, `CmdlineProofs` |
| Unit test runner (unit.c, unit_tests.c) | modules, counters of a module and of all | register, run by name, run all | `UnitTests`, `UnitTestsProofs` |
| Memory helpers (mem.c) | | allocate or exit, hexdump | `FreadAlloc`; hexdump only prints |
| Error messages (errors.c) | table | look up a text | wording, not modelled |

How they interact: `main` parses the command line and calls a command.  The
command reads a zipdisk (`zcc_zipdisk_read` reads each slice with
`zcc_fread_alloc`), and converts it: `zcc_zipdisk_unzip` allocates a D64
handle, walks the blocks with the iterator, unpacks each (with
`zcc_rle_decode` where it is packed), writes it into the image with
`zcc_d64_block_write`, and writes the image with `zcc_d64_write`, which calls
`zcc_fwrite`.  The directory command reads an image into a D64 handle, and
fills a directory object with the directory iterator, which measures each file
with the block iterator; what it prints goes through the tables of petasc.c and
cbmdos.c.  The information command reads a zipdisk and dumps it without the
iterator.  All functions share the global `zcc_errno`.  The program of the unit
tests has the same command line parser, and calls back into test modules.

What is hard in it:

* *Protocol.*  Handles are plain structures whose fields are freed, left
  dangling, and read by the next call.  A failed `zcc_d64_read` leaves the
  size and type of an older image; `zcc_d64_alloc` sets a size but no type.
* *Boundaries.*  Offsets are sums over speed zones.  Slices end where the file
  ends, in the middle of a block or of its header.  The iterator's bound lies
  past its array.  The run length of the RLE decoder comes from the file.
* *Partial failure.*  A file is read in blocks, each of which may fail; a
  conversion may fail in the middle; a file may be cut short when it is closed.
* *Ordering.*  The iterator delivers the last block of each slice twice.  That
  this does no harm depends on the conversion being idempotent in a block.
* *Agreement.*  The iterator and the dump step over blocks by two different
  rules, which must agree.  A table is given by rows, and a row with an entry
  too few moves everything behind it.
* *Termination.*  Every loop's progress depends on bytes from a file: links of
  directory blocks and files may lead anywhere, and in a circle.
* *Ownership.*  Strings and lists belong to the option, the argument list or the
  command, whichever way the parsing and the command end.

What makes each component correct: accesses stay in their buffers; two blocks
never share bytes; what is written is read back; a result is complete or an
error; the blocks of an archive are visited in order and none is lost; the
converted image holds every block of the archive as it unpacks; the directory
is listed in its order and in its array, under the names it has; a command line
means the same wherever its options stand; memory is freed once; tests are run
in order and counted once; every call returns.

## The modules

**`D64Geometry`** has the constants and the pure functions of d64.c as
operators.  A function that may set `zcc_errno` is two operators, the value
and the `zcc_errno` it leaves (`BlockOffset`, `BlockOffsetErrno`).  The
numbers are those of the code: nothing is scaled.

**`D64`** is a handle in the hands of any caller: one action per function that
reads or changes it.  The image buffer is kept sparse, as a function from the
byte offsets of the written blocks to their content.  The offsets are computed
as the code computes them and used unchecked, so that an access outside the
buffer would show.  `ret` is the last call with its result, `buf` the caller's
block, `file` what the last call wrote to the host.  A host file is any
`[size, blocks]` of the constant `HostFiles`; `Fwrite` has every outcome of
`zcc_fwrite`, the disk that fills up while `fclose` flushes included.  Callers
init, alloc and read in any order and as often as they like, which is more than
those in the repository do.  They copy blocks and write the image only while
there is a buffer, and call nothing but init on a freed handle: no function of
d64.c looks out for the rest.  What is stored behind the buffer is kept in
`blocks` like any other block, so that it shows, and what is read there is
anything; what it destroys there is not modelled.

**`BlockDevice`** is what such a handle promises: a disk drive with blocks by
(track, sector), in which a read gives what was last written.  A medium has
the `tracks` its label promises, by which accesses are refused, and `room` for
a number of tracks, which in the code may be less: a block there is no room for
is not kept.  It knows nothing of offsets.  `D64` implements it under the mapping
`BlockView`, `TrackView` (the type), `RoomView` (the size), `ReplyView`.

**`RleCodec`** is the function that the decoder computes; **`Rle`** is the
decoder loop by loop, with `reach` for the highest source index it has read.
Block length is a constant, 256 in the code.  An input may come with the `block`
that was packed and with `place`, where in it each piece of the packing goes;
`Packs` says what that means, by `doc/reference/formats/zip_disk.txt`, without
unpacking anything.

**`FreadAlloc`** is `zcc_fread_alloc`, one action per step that can fail.
`fread` returns a full block, the rest with end-of-file, or less with an
error.  `malloc` and `realloc` fail where the code uses them, with what the
code makes of it: `zcc_malloc` and `zcc_realloc` exit, the bare `realloc` of
line 124 gives NULL.

**`Zipdisk`** is the handle and its iterator driven by
`zcc_zipdisk_test_iter`: check the name, read the slices one by one, start the
iterator, call it until it says false, free.  A slice is its size and the
memory from its first byte on; that memory is longer than the size because the
iterator reads a header of which only the first byte need be in the file.  With
the files comes `starts`, where the blocks of the archive start, which is what
the walk is measured by; `BlocksPlaced` says that they lie one behind the other
from where the iterator begins a slice, which is behind the disk id in the
first one and behind the load address in the others.  The load address itself
may be anything.  **`ZipdiskFiles`** builds archives in the format of
`doc/reference/formats/zip_disk.txt`.

**`ZipdiskInfo`** adds the other use of an archive to `Zipdisk`: once it is
read, its blocks are iterated, or dumped by `zcc_zipdisk_show_info`, or only
their sizes are shown.  `shown` is the sequence of blocks printed.  The dump begins a
slice where its load address says, `SameBeginning` tells for which slices that is
where the iterator begins.  It ends by `exit(1)` at a method it does not know, and by a crash (`pc = "crash"`)
at a slice without a byte, whose load address it reads first.

**`Unzip`** composes `Zipdisk`, `RleCodec` and `D64`: it uses the actions of
`Zipdisk` to read and to walk, and those of `D64` (an `INSTANCE` with the
variables `img_...`) for the image.  Its archives have `items`: the track, the
sector and the content of each block, or `NoContent` for one that does not unpack
(`ItemsStored`).  **`Conversion`** is its specification:
the blocks of the archive are put on a disk, one after the other and each as
it unpacks; the disk is written to a file; or the conversion fails and there
is no file.  It may end (`ends`) behind the last block, before a fifth slice
that cannot be read, and before a slice without blocks, where the iterator stops
as if the archive were over.  `Unzip` implements it: `PutView` tells how many blocks are on the
disk, and the second delivery of a slice's last block is a stutter.

**`D64Dir`** composes the directory command with the handle of `D64`: it is
opened and loaded by the actions of `D64`, and each further action is one call
or one turn of a loop in d64.c.  A block on the disk is what the program makes
of its bytes, `[link, entries, bam]`, and has all three, because any block may
be reached over a wrong link.  When a directory block cannot be read the entry
is one of `Garbage`, for it comes out of an uninitialised buffer.  The count of
a file's bytes starts over at `SizeCap`; a file that runs in a circle is so a
lasso in the state graph, and the listing that never ends can be found.

**`Petasc`** has the table of petasc.c as a function on codes, given by ranges,
and the conversion of a string; **`Listing`** adds to `D64Dir` the lines that
`zcc_d64_dir_dump` prints: each step of `ListNext` is one of `DirNext`, and
the one from `"dump"` prints.  The disk name is a further field of a block;
the name of an entry, a value in `D64Dir`, stands for the bytes `NameBytes` gives.

**`Strlist`** has the string list as operators on `[items, items_max]`, and
**`OptionTables`** the tables of options of both programs.  **`Cmdline`** is
the life of a command line: registering the options, one action for each turn
of the parser's loop by what the word leads to, the program's work as one step
`Call`, and `cmdline_exit`.  A word is what the parser sees in it, `[kind,
name, num]`.  `heap` is the set of live blocks, each named by what owns it;
`badFree` is set when a block is freed that is not live, or overwritten while
it is.

**`Main`** puts the work of zipcode-conv in the place of `Call`: which command
runs, the names of its files, what it allocates, and the exit status.  What a
command does to files is one Boolean here and a module of its own elsewhere
(`Unzip`, `ZipdiskInfo`, `Listing`).  With another table of options the work
stays the one step `OtherProgram`, so that one run has the parser for every
table and the program for its own.

**`UnitTests`** puts the test runner there: registering modules, then a run of
one by its name or of all.  A step is a callback with what the runner does
around it; a callback succeeds or fails, and a test counts what `Counts` allows.
`log` has the callbacks that were called, with their results.

### Correspondence

| Code | Model |
|---|---|
| return value of a call, `*_errno` | `ret`, `zcc_errno` |
| pointer that is NULL, valid, dangling | `"NULL"`, `"live"`, `"freed"`; in `Cmdline` a member of `heap` |
| `d64->data` | `data` and the sparse `blocks` |
| early return | a disjunct of the action with `UNCHANGED` for what comes after it |
| `iter->block_data`, and track, sector, method read through it | `block_data = <<slice, offset>>`, and `TrackAt`, `SectorAt`, `MethodAt` |
| program counter of a loop | `pc`; `dpc` of the listing, `step` of a command, `ustep` of the test runner |
| null pointer or memory past an array that is read | `pc = "crash"`, `step = "crash"`, `ustep = "crash"` |
| `exit(1)` in `zcc_malloc` | `pc = "exit"` in `FreadAlloc`; left out in `Cmdline` |

## The runs

| Run | Question | Instance |
|---|---|---|
| `d64_device` | Is a handle a disk drive after any calls, and by which of them can an access leave its buffer? | tracks 17, 18, 36, sectors 0, 20; two contents; two types; a missing file, a 35- and a 40-track image |
| `rle_decode` | Does it unpack every packing, stay in its buffer, near its source, and return? | blocks of 4 bytes; all packings of them with two plain bytes, and all sequences of up to 4 bytes of {0, run byte, 6} |
| `fread_alloc` | Is a file read completely or not at all, with nothing leaked? | read blocks of 3 bytes, files of 0 to 10 bytes |
| `zipdisk_walk` | Is an archive walked in order and to the end, with live pointers, and does the dump find the same blocks? | slices of every method, cut at five places, without blocks, empty, missing, with the load address of one another, in all positions |
| `unzip_convert` | Does the image hold the blocks of the archive, and does the command end? | blocks of 4 bytes of each method; tracks 1 to 63; blocks that do not unpack; 4 and 5 slices; an archive with a slice without blocks in its middle |
| `d64_dir_list` | Is the directory listed in order, in its array, with the names and the sizes of its files? | directories of two blocks of two entries whose links end, run in a circle, or lead to the BAM, to an empty block or nowhere; files of one and two blocks, in a circle, led off the disk, or without a first block; disk names with every code and a zero in every place |
| `programs` | Does every command line mean what it says, run the command asked for on the files named, and free what it took? | up to four words; the tables of both programs, and one with an option of every type and an illegal one; every switch, names long and short |
| `unit_tests` | Are tests called in order, counted once, and decisive for the exit status? | up to two words; suites of no to three modules, one more than there is room for, with and without set-up and tear-down, with tests that are fatal or keep going, and two modules of one name |

Each of the following runs shows one disagreement between a comment and the
code (`findings` in PROJECT.json):

| Run | What it shows |
|---|---|
| `unzip_forty_tracks` | blocks of tracks 36-40 are refused by the image made for them |
| `d64_file_size` | a file whose blocks run in a circle is measured for ever |
| `listing_name_cut` | a disk name with the code 255 is printed only up to it |
| `unit_run_all` | a run of all test modules in which nothing fails crashes behind the last |

Noted while reading, and part of the models, but without a run of their own:

* d64.c:100 fails without an error code for a sector beyond its zone (against
  71-72); d64.c:146 returns a count where a "maximum sector number (indexed by
  0)" is documented (128).
* d64.c:303 sets the size of the new buffer and leaves the type of the handle.
  After a 40-track image, still loaded or lost in a read that failed (341), an
  alloc of 35 tracks makes a 40-track type with a 35-track buffer, and
  `zcc_d64_block_write(36, 0)` stores behind it.  The model does so, see
  `OnlyAllocOverlabels`; no caller in the repository allocates over an image.
* d64.c:409 returns the result of `zcc_fwrite` inverted: `zcc_d64_write` says
  false for a file that was written and true for one that was not, where io.c:137
  and d64.c:385 have true for success.  The only caller ignores it.
* d64.c:403: a new path is not taken by a handle that has none, although the
  comment (385-386) allows NULL only for one that has.
* d64.c:538 cuts the block count of a directory entry to eight bits, where
  d64.h:217-218 has a `uint16_t`; d64.c:547 leaves the size of the entry before
  in an entry that has no file; d64.c:855 prints the disk's id from its name.  No
  property says what such an entry, or a count beyond eight bits, is to show.
* io.c:101 ends the program when the buffer cannot shrink, although "we still
  have the data" (io.c:100); io.c:124 uses the result of a `realloc` that may
  have failed, where -1 is documented for errors (io.c:61).
* zipdisk.c:123 takes a fifth slice that cannot be read for a missing one;
  zipdisk.c:344 returns true and shows the same block again, where "true when
  a next block was found" is documented (314); entering a slice without blocks
  fails with no "error code already set" (356); `zcc_zipdisk_unzip` returns true
  when no file could be written (456).
* The dump begins the blocks of a slice by its load address (zipdisk.c:153-159),
  the iterator by the number of the slice (302, 354).
  `doc/reference/formats/zip_disk.txt:52-54` has a first slice with $0400 and no
  disk id: the dump begins it at its first block, the iterator two bytes
  later.  With $03FE in a later slice it is the dump that begins two bytes
  late.  What either then takes for blocks is in the model.
* zipdisk.c:150 reads the load address of a slice before its size, also of an
  empty one; the dump ends the program at method 3 with `exit(1)` and the
  zipdisk not freed (zipdisk.c:191).
* cmdline.c:427: a lone dash names the first option without a short form, the
  character 0 of both being equal.  A long form may be NULL by cmdline.h and
  is given to `strcmp`; no option of either program leaves it out.
* main.c:175: the length to copy wraps when the base name is shorter than two
  characters; main.c:176 puts no zero byte behind the name it makes, for which
  main.c:173 has room; main.c:207: the unzip command never frees the zipdisk.
* petasc.c:76 calls the row of the table for $60 a copy of $c0-$df, where the
  letters are; its entries are the codes $c0-$df as they are, no ASCII, so that
  a name has an underscore for each.
* petasc.c:97: the row of the table for $c0 has 31 entries, so that the codes
  from $dc on have the entry of their neighbour.
* unit.c:237: a fatal failure skips the tear-down of its module, and what its
  tests counted does not go into the totals.

### The properties

Type invariants are parts of what is proved for every instance, and no run
repeats them.

* `AccessInBounds` (D64): every block copied lies in the buffer, although no
  access is checked against its size, unless the handle is `Overlabelled`: its
  type has 40 tracks and its buffer 35.  Then it lies in the place of the 40.
* `OnlyAllocOverlabels` (D64): a handle becomes overlabelled by an alloc of 35
  tracks over what a 40-track image left in it, and by nothing else: not by a
  read, whatever type it is asked for, whatever the file is, and if it fails.
* `ImplementsDevice` (D64): every call is a step of the disk drive, on an
  overlabelled handle as on others.
* `InBuffer`, `ReadsNear`, `AllOrNothing`, `RoundTrip`, `ComputesDecoded`,
  `Terminates` (Rle): stores stay in the buffer; reads go at most two bytes
  past the packed data; the caller's block is whole or untouched; packed
  blocks unpack; the loops compute the function `Unzip` uses; the decoder
  returns.
* `RoomForBlock`, `ResultExact`, `NothingLeaks` (FreadAlloc).
* `SliceIndexInBounds` (Zipdisk): the iterator's own bound allows index 6 of
  an array of 6; that the slot behind the last slice is empty stops it first.
* `BlockPointerLive`: `block_data` points into live data, also after a length
  byte has moved the offset past the slice.
* `VisitsInOrder`, `ReachesLast`: no block is skipped; the walk ends at the
  last block if every slice has one.
* `NoDoubleFree` (Zipdisk): a handle is freed once, also one whose name was
  refused and that still points to a freed path.
* `InfoShowsAll`, `InfoEnds` (ZipdiskInfo): the dump goes forward through the
  slices; of each that it begins where the iterator does it prints the blocks the
  iterator is to visit, no other, and skips none; the program comes to an end on
  any archive.
* `ImplementsConversion`, `Converts` (Unzip).
* `EntriesInBounds` (D64Dir): the only bound on the array of entries is the
  index of the iterator, which runs in step with it.
* `ListsInOrder`, `SizesExact`, `Lists`: the entries are those of the chain of
  directory blocks, in order, up to the first without a name; a size is that
  of the file; the listing ends where the files do.
* `NamesShown` (Listing): the disk and every entry are listed under their own
  names, up to the first zero, each byte as it is to appear: letters, digits
  and signs as such, graphics as an underscore.  Nothing is asked of control codes but that they are ASCII,
  and so of the codes for which the table is not what its comments say.
* `ListsHaveRoom`, `MemoryExact` (Cmdline): lists stay in their arrays; every
  block is freed once and none is lost, whatever way the parsing ends.
* `ResultExact`, `ArgsExact`, `TargetsExact` (Cmdline): the parser's result,
  list of arguments and targets are those of a definition that reads the
  command line as a whole, without a loop: which words are values of the
  option before them, which word ends the parsing, what stands before it.
* `CommandAsAsked`, `FilesAsNamed`, `StatusExact`, `MainMemory`, `MainEnds`
  (Main): the same for the program, from the command line to the exit status,
  and that it comes to its end.
* `RunsInOrder`, `CountsExact`, `VerdictExact`, `UnitEnds` (UnitTests): the
  callbacks called are a prefix of the script that the registered modules are,
  cut only where something failed fatally; every counter is what the callbacks
  that count add up to; the exit status is a failure for that failure only; and
  the program ends.

### Bounds, and why they are enough

* D64 needs tracks on both sides of a zone border (17/18), one that only a
  40-track image has (36), and a sector that exists in one zone and not in the
  next (20).  Offsets are the real ones.  With two contents a block can be told
  from an unwritten one.  Arbitrary tracks and sectors are left to the proofs.
* The RLE decoder treats no block length specially; with 4 bytes it has runs
  that end at, before and beyond the end, and counts 0, 1, 2.
* `FreadAlloc`: `MaxFile` = 10 with blocks of 3 has the empty file, exact
  multiples, and growth three times over.
* Archives have one or two blocks per slice; the iterator keeps nothing of a
  slice but its index and an offset.  All six slots of the array are reached.
  A cut-off block has 1 to 10 bytes missing, which takes it through payload,
  length, sector and track byte.  What lies behind the slice is one of two
  fillings of the heap: bytes that read as a raw block or as a packed one.
* `D64Dir` and `Listing` keep tracks and sectors and make the directory block hold
  `SlotsPerBlock` = 2 entries of 8 and the directory `DirentMax` = 5 of 144, an
  odd number, so that the array fills up in the middle of a block.  Names have
  `ZCC_CBMDOS_FILENAME_MAX` = 4 bytes of 16 and ids `ZCC_D64_DISKID_MAXLEN` = 2
  of 5; 64 disk names have all 256 codes between them.
* Command lines, `ArgvMax` = 4: four words are an option with its value, before
  and behind words that are arguments, and an option twice.
  `STRLIST_INITIAL_SIZE` and `OPT_LIST_INITIAL_SIZE` = 1 make every list grow.
  `IntHalf` = 4 stands for 2^31, and the number given, 5, is beyond it.
* `UnitTests`: `UNIT_MODULE_MAX` = 2 is reached and passed; a module runs behind
  another, so that its counters have something to start over from.  Two words
  are an option with its value; the parser's own cases are in `programs`.

### Fairness

A crash or an `exit(1)` is an end like any other: `MainEnds` says nothing of the
crash at main.c:175, nor `InfoEnds` of the one at zipdisk.c:150, nor `UnitEnds` of
the one at unit.c:297, which has a run of its own.

Liveness is checked under weak fairness of the next-state relation as a whole:
the program is sequential and waits for nobody, so a step that is possible is
taken.  No outcome of the host is assumed to occur; the callbacks of the test
modules are assumed to return.  Terminating runs switch
the deadlock check off because the function or program they model returns;
`D64` is driven by callers without end and is checked for deadlock.

## The proofs

The constants are arbitrary up to the named assumptions of each module, which
the runs evaluate for their instances.  What they assume is what the code is given:
host files hold blocks where blocks lie (`HostFilesAssumption`); memory behind
the packed bytes, and behind a slice, exists for as far as the code reads it; a
packed block, an archive and its items are what the format says they are
(`PackedAssumption`, `PlacedAssumption`, `ItemsAssumption`: they describe the
file, not what the code makes of it, and leave in bytes that are no packing, files
cut off anywhere, methods that do not exist and any load address; only where the
blocks begin, `PlacedAssumption` takes from the iterator, because it is what the
walk is measured by); names of a directory have
bytes; and what counts a file's bytes counts as far as an image has blocks.

Every safety property, action property and refinement that a passing run checks
is also a theorem.

* **`D64Proofs`.**  `BlocksDisjoint`: the byte ranges of different blocks do
  not meet, for every pair of tracks and sectors, from the arithmetic of the
  four zones.  `TypeCorrect` and `InBounds` rest on the inductive invariant
  `TypeOK /\ Coherent /\ AccessInBounds` with every stored offset being the
  offset of a block.  `Coherent` says that a handle with a type of 40 tracks has
  had a size, one with a buffer has one, and one without has no blocks: the access checks the type and the
  bound is about the size, so without it the bound is not inductive.  `Limit` is
  where accesses end.  `Implements`: initial states map to initial states and
  every action to a step or stutter of `BlockDevice`; where a block write has to
  leave the others alone, `BlocksDisjoint` is what is used, and that there is
  room for a track just when its blocks fit is `RoomIsFit`.
* **`RleProofs`.**  `StaysInBuffer`, `ReadsNearEnd`, `WholeBlocks` from an
  invariant that adds where in the source a run starts (`s < len` in the inner
  loop).  `DecodesAsDefined`: first that the function `Decoding` exists and
  solves its equation, for every input, by induction on the bytes left; then
  `DecodeInv`, that the bytes stored, what is left of the run, and what the
  function makes of the bytes still to be read are together what it makes of
  all.  `DecodesPackings`: `PackedInv` says that the decoder is at the start of
  a piece of the packing (`AtPiece`), in the middle of a run (`InsideRun`), or,
  since it leaves a run one byte early, before its last copy (`AtLastOfRun`),
  with the first `b` bytes of the block stored.
* **`FreadAllocProofs`.**  `RoomForEveryBlock`, `ResultsExact` from an invariant
  that ties `bufsize`, `bufread` and the position of the stream together at
  each program counter; `LeaksNothing` from the same.
* **`ZipdiskProofs`.**  `TypeCorrect`, `StaysInArray`, `ShowsLiveBlocks`.  The
  invariant says which slots of the array are still empty while slices are
  read, so that the slot behind the last slice is empty when the walk starts.
  `InfoStaysInArray`, `InfoShowsLiveBlocks`, `InfoReadsMemory`: the invariant of
  the iterator holds whenever the archive is not dumped; while it is, the part
  that speaks of the archive is kept (`Opened`), and that is enough to free it
  afterwards.  `InfoFreesOnce`: until the handle is freed nothing it points to is.
  - *Order.*  `IteratesInOrder`, `IteratesToTheEnd`, from `OrderInv`: what was
    loaded is what the files hold (`Loaded`), and the iterator is at a block of
    the archive, or, for the last of a slice, at the place behind it (`AtBlock`).
    That the next block of the file is the next one of the archive is
    `NextBlock`, from `BlocksPlaced`.  `InfoShowsInOrder`, from `DumpInv`: what is
    printed lies in front of the dump and goes forward; in a slice that both begin
    at one place the blocks printed are the first ones of that slice, and the dump
    is at the next.  It steps by a rule of its own, which is shown to lead to the
    same places.
  - *Conversion.*  `ImplementsTheConversion`: every behaviour of `Unzip` is one
    of `Conversion`.  `UnzipInv` adds to the order that the image has blocks where
    the geometry puts them, and nowhere else, and that a block shown again is on
    the disk already (`OnDisk`), which is why writing it again is a stutter.  That
    the other blocks stay is `BlocksDisjoint`, taken from `D64Proofs`.  There is
    one lemma for each action, which shows both that `UnzipInv` is kept and which
    step of `Conversion` it is.  `UnzipStaysInMemory`: the iterator and the image
    keep their bounds beside each other, and each call on the image finds one
    that is allocated, into which every block fits that is copied.
* **`D64DirProofs`.**  `DirTypeCorrect`, `StaysInDirectory`,
  `ListingKeepsHandle`.  The invariant relates the number of entries, the index
  and the program counter.  The accesses of the listing are those of `D64`, whose
  invariant is used with what the listing adds: its handle is never allocated, and
  keeps the type of 35 tracks, so that every block the checks let through, on any
  track and sector, lies in the buffer.  `ReadsInOrder`, from `InOrder`: entry `n`
  of the directory is the one in row `n \div SlotsPerBlock`, which the iterator
  has reached along the links.  `SizesAreExact`, from `Measuring`: the count is
  that of the blocks behind it on the chain of the file, if the chain ends; a
  chain that ends has no block twice, so it fits `SizeCap`.  `NamesArePrinted`,
  from `Printing`, for every table of names.  `PrintingListsDirectory`: `Listing`
  implements `D64Dir`, so that the rest holds beside the printing.
* **`CmdlineProofs`.**
  - *Parser.*  `CmdlineTypeCorrect`, `ListsStayInArrays`.  `CmdInv` adds that no
    array is empty, without which doubling it gives no room, and uses that no two
    options share a target.
  - *Memory.*  `MemoryFreedOnce`, `OnlyZipdiskLeft`, `ParserMemoryFreedOnce`.
    Blocks are named by their owners, so that those of different owners do not
    meet; `MemInv` says which are live at each program counter: those of the
    program's name, the options and the targets from `"add"` on, with them those
    of the arguments once the list is made; `MainMemInv` has beside them what each
    step of a command holds.  `cmdline_exit` frees just those of the parser.
  - *Meaning.*  `ReturnsExactly`, `ArgumentsExactly`, `TargetsExactly`, from
    `ResultInv`: the parser is never at a word that is a value, and what it has
    stored is what the words it has dealt with say (`Dealt`).  That a word is a
    value only if the one before it is none (`ValueWords`) is the heart of it, by
    induction on the word's number.  `MainParsesExactly` carries them over to
    `Main`.
  - *Program.*  `RunsCommandAsked`, `NamesFilesGiven`, `ExitsExactly`, from
    `WorkInv`, which says for each step of the work what is known of the command
    line.
* **`UnitTestsProofs`.**  `ExitsWithVerdict`, from `Verdict`: nothing that ends a
  run is in `log` but as its last entry.  `CallsInOrder`, from `Scripted`: `log` is
  the scripts of the modules before, and a part of the present one.
  `CountsWhatRan`, from `Counting`: the counters are sums over the entries of
  `log` of the modules gone through, and those of the module over its own.  The
  module has the facts on sums over sets, and on sequences put together, that
  these need.
* **`SetInduction`.**  Induction for a set of numbers that the lemma chooses: the
  induction theorems of the library take an operator, which no prover here can be
  given, but a set is a value.  From it least and greatest members, the existence
  of functions defined by recursion, and counting in rows.

Only model-checked: liveness (`Terminates`, `InfoEnds`, `Converts`, `Lists`,
`MainEnds`, `UnitEnds`), which the provers do not reach.  The four disagreements
are counterexamples, for TLC to find.

## Abstractions

* Wording, logging and hexdumps are left out.  `block_nr` of the iterator is
  only printed.
* Block contents in `D64` are values without structure; in `Unzip` they are
  blocks of 4 bytes, so that unpacking is real.
* File names are one Boolean: whether the name has a digit and `!` where
  `zcc_zipdisk_read` looks for them.
* `Cmdline` leaves out the exit for lack of memory.  Options have a long form.
* A command's work in `Main` ends well or not; how it does is in other modules.
* With a NULL destination, as the dump calls it, the decoder copies nothing, and
  what is left of it is the error code.  What the decoder reads is that of `Rle`.
* A callback of a test module succeeds or fails; what it does is its own.
* What follows a file name in memory (main.c:176) is left out.
* The iterator is driven as its callers drive it, to its first false.  A
  caller that went on would move the index past the array (zipdisk.c:353).

## Not modelled

* `zcc_asc_to_pet`, `zcc_asc_to_pet_str`, `zcc_pet_filename_to_host` and
  `zcc_write_petscii_digits` of petasc.c, and `strlist_dup`: no program calls
  them.
* `zcc_hexdump` and what cmdline.c prints for help and version: output.
* errors.c: the messages.  The codes are in every module.
* The test modules themselves (tests/*.c but the runner): they are callbacks.

## Plan

The modules are written, and what the runs check but liveness is proved.  What is
left:

1. More of `Main` with the work of its commands in it: that what a command does to
   files (`Unzip`, `ZipdiskInfo`, `Listing`) is what the one Boolean there stands for.
2. Shorter proofs: the lemmas on sequences and sums of `UnitTestsProofs` could be
   stated once for any sequence of records.
