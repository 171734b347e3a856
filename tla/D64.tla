--------------------------------- MODULE D64 ---------------------------------
(***************************************************************************)
(* A D64 handle (zcc_d64_t of d64.c) in the hands of its callers: one      *)
(* action per function of d64.c that reads or changes the handle.          *)
(*                                                                         *)
(* The fields of the handle are the variables path, data, size and type.   *)
(* The image buffer is kept sparse: blocks maps the byte offsets that      *)
(* blocks were copied to to what was copied; the rest is as calloc left    *)
(* it.  An offset is used as the code computes it, in the buffer or not.   *)
(* Callers may init, alloc and read in any order and again, as the code    *)
(* lets them: what a handle pointed to before is leaked.  They copy blocks *)
(* and write the image only while there is a buffer, and call nothing but  *)
(* init once the handle is freed: anything else would be a use of NULL or  *)
(* of freed memory that no function of d64.c looks out for.                *)
(***************************************************************************)
EXTENDS D64Geometry

CONSTANTS
  Content,     \* what a block can hold
  Zero,        \* the content calloc leaves
  Paths,       \* paths on the host file system
  NoPath,      \* the NULL path
  HostFiles,   \* what a host file can be when it is read: [size, blocks]
  Types,       \* the image types callers ask for
  TrackArgs,   \* the track numbers callers pass, good and bad
  SectorArgs   \* the sector numbers callers pass, good and bad

Fits(off, size) == off >= 0 /\ off + BlockSizeRaw <= size

\* Where blocks can lie: the offsets of d64.c.
Offsets == {BlockOffset(t, s) : t \in TrackMin..TrackMaxExt,
                                s \in SectorMin..SectorMax} \ {-1}

ASSUME ContentAssumption == Zero \in Content
ASSUME PathAssumption == NoPath \notin Paths
ASSUME TypesAssumption == Types \subseteq ImageTypes
ASSUME ArgsAssumption == TrackArgs \subseteq Int /\ SectorArgs \subseteq Int
\* A file of size -1 is missing or cannot be read.
ASSUME HostFilesAssumption ==
  \A f \in HostFiles : /\ f.size \in Int
                       /\ f.blocks \in [DOMAIN f.blocks -> Content]
                       /\ \A o \in DOMAIN f.blocks : /\ o \in Offsets
                                                     /\ Fits(o, f.size)

VARIABLES
  path,       \* the handle: its path, NoPath when NULL
  data,       \* "NULL", or "live" when it points to a buffer
  blocks,     \* the content of that buffer, by byte offset
  size,       \* the size it has according to the handle
  type,       \* the image type
  phase,      \* "dead" before init and after free, "live" in between
  zcc_errno,
  ret,        \* the last call and what it returned; booleans as 0 and 1
  buf,        \* the caller's block buffer
  file        \* the host file the last call wrote, NoFile if it wrote none

vars == <<path, data, blocks, size, type, phase, zcc_errno, ret, buf, file>>

Empty == [o \in {} |-> Zero]

NoFile == [size |-> -1, blocks |-> Empty]

Bool(b) == IF b THEN 1 ELSE 0

Gives(op, track, sector, result) ==
  ret' = [op |-> op, track |-> track, sector |-> sector, result |-> result]

Returns(op, track, sector, result) ==
  Gives(op, track, sector, result) /\ file' = NoFile

Init ==
  /\ path = NoPath
  /\ data = "NULL"
  /\ blocks = Empty
  /\ size = 0
  /\ type = "CBMDOS"
  /\ phase = "dead"
  /\ zcc_errno = "OK"
  /\ ret = [op |-> "none", track |-> 0, sector |-> 0, result |-> 0]
  /\ buf = Zero
  /\ file = NoFile

-------------------------------------------------------------------------------
(* Creating and destroying a handle.                                       *)

HandleInit ==
  /\ path' = NoPath
  /\ data' = "NULL"
  /\ blocks' = Empty
  /\ size' = 0
  /\ type' = "CBMDOS"
  /\ phase' = "live"
  /\ Returns("init", 0, 0, 0)
  /\ UNCHANGED <<zcc_errno, buf>>

AllocSize(t) == IF t = "CBMDOS" THEN SizeCbmdos ELSE SizeExtended

\* The type asked for is not stored in the handle: it keeps the one it has.
Alloc(t) ==
  /\ phase = "live"
  /\ data' = "live"
  /\ blocks' = Empty
  /\ size' = AllocSize(t)
  /\ Returns("alloc", 0, 0, 0)
  /\ UNCHANGED <<path, type, phase, zcc_errno, buf>>

\* The pointers are freed, and left dangling.
Free ==
  /\ phase = "live"
  /\ phase' = "dead"
  /\ blocks' = Empty
  /\ Returns("free", 0, 0, 0)
  /\ UNCHANGED <<path, data, size, type, zcc_errno, buf>>

-------------------------------------------------------------------------------
(* Host files.                                                             *)

\* The type the handle gets: the caller's is ignored for 35 tracks.
LoadedTypeAsGiven(n, t) == t
LoadedType(n, t) == IF n = SizeCbmdos THEN "CBMDOS" ELSE t

\* A failed read frees the image it may have read, and leaves the other
\* fields as an earlier image set them.
Read(p, t, f) ==
  /\ phase = "live"
  /\ \/ /\ f.size \in {SizeCbmdos, SizeExtended}
        /\ path' = p
        /\ data' = "live"
        /\ blocks' = f.blocks
        /\ size' = f.size
        /\ type' = LoadedType(f.size, t)
        /\ zcc_errno' = zcc_errno
        /\ Returns("read", 0, 0, 1)
     \/ /\ f.size \notin {SizeCbmdos, SizeExtended}
        /\ data' = "NULL"
        /\ blocks' = Empty
        /\ zcc_errno' = IF f.size < 0 THEN "IO" ELSE zcc_errno
        /\ Returns("read", 0, 0, 0)
        /\ UNCHANGED <<path, size, type>>
  /\ UNCHANGED <<phase, buf>>

\* What is left of an image of which only the first n bytes were written.
Cut(n) == [size |-> n,
           blocks |-> [o \in {o \in DOMAIN blocks : Fits(o, n)} |-> blocks[o]]]

\* zcc_fwrite: the file cannot be opened (a NULL path cannot), the disk is
\* full before the last byte was accepted, the last bytes are lost when
\* fclose flushes them (its result is ignored), or all is well.  A file that
\* is cut short ends at one of the lengths ShortSizes; one of them is that of
\* a 35-track image.
ShortSizes == {n \in {0, SizeCbmdos} : n < size}

Fwrite(p, ok) ==
  \/ /\ ~ok
     /\ zcc_errno' = "IO"
     /\ file' = NoFile
  \/ /\ p # NoPath
     /\ zcc_errno' = IF ok THEN zcc_errno ELSE "IO"
     /\ \E n \in ShortSizes \cup (IF ok THEN {size} ELSE {}) : file' = Cut(n)

\* A path given replaces the handle's only when it has one; the result of
\* zcc_fwrite is inverted.
Write(p) ==
  /\ phase = "live"
  /\ data = "live"
  /\ \/ /\ p = NoPath /\ path = NoPath
        /\ zcc_errno' = "INVALID_FILENAME"
        /\ Returns("write", 0, 0, 0)
        /\ UNCHANGED path
     \/ /\ p # NoPath \/ path # NoPath
        /\ path' = IF p # NoPath /\ path # NoPath THEN p ELSE path
        /\ \E ok \in BOOLEAN : /\ Fwrite(path', ok)
                              /\ Gives("write", 0, 0, Bool(~ok))
  /\ UNCHANGED <<data, blocks, size, type, phase, buf>>

-------------------------------------------------------------------------------
(* Blocks.                                                                 *)

Store(off, c) ==
  [o \in DOMAIN blocks \cup {off} |-> IF o = off THEN c ELSE blocks[o]]

Fetch(off) == IF off \in DOMAIN blocks THEN blocks[off] ELSE Zero

\* What memcpy may find: behind the buffer lies something else.
Found(off) == IF Fits(off, size) THEN {Fetch(off)} ELSE Content

BlockRead(t, s) ==
  /\ phase = "live"
  /\ data = "live"
  /\ buf' \in IF CanAccess(type, t, s) THEN Found(BlockOffset(t, s)) ELSE {buf}
  /\ zcc_errno' = AccessErrno(type, t, s, zcc_errno)
  /\ Returns("block_read", t, s, Bool(CanAccess(type, t, s)))
  /\ UNCHANGED <<path, data, blocks, size, type, phase>>

\* The caller fills its buffer with c and writes it.  A block that is stored
\* behind the buffer is recorded in blocks like any other, so that it shows;
\* what it destroys there is not modelled.
BlockWrite(t, s, c) ==
  /\ phase = "live"
  /\ data = "live"
  /\ buf' = c
  /\ blocks' = IF CanAccess(type, t, s) THEN Store(BlockOffset(t, s), c) ELSE blocks
  /\ zcc_errno' = AccessErrno(type, t, s, zcc_errno)
  /\ Returns("block_write", t, s, Bool(CanAccess(type, t, s)))
  /\ UNCHANGED <<path, data, size, type, phase>>

\* The questions a caller can ask: zcc_d64_block_offset (and
\* zcc_d64_track_offset), zcc_d64_track_max_sector, zcc_d64_block_is_valid.
Ask(op, t, s, result, errno) ==
  /\ phase = "live"
  /\ zcc_errno' = errno
  /\ Returns(op, t, s, result)
  /\ UNCHANGED <<path, data, blocks, size, type, phase, buf>>

AskOffset(t, s) ==
  Ask("block_offset", t, s, BlockOffset(t, s), BlockOffsetErrno(t, s, zcc_errno))

AskMaxSector(t) ==
  Ask("track_max_sector", t, 0, TrackMaxSector(t), TrackMaxSectorErrno(t, zcc_errno))

AskIsValid(t, s) ==
  Ask("block_is_valid", t, s, Bool(BlockIsValid(type, t, s)),
      BlockIsValidErrno(type, t, s, zcc_errno))

Next ==
  \/ HandleInit
  \/ \E t \in Types : Alloc(t)
  \/ Free
  \/ \E p \in Paths, t \in Types, f \in HostFiles : Read(p, t, f)
  \/ \E p \in Paths \cup {NoPath} : Write(p)
  \/ \E t \in TrackArgs : AskMaxSector(t)
  \/ \E t \in TrackArgs, s \in SectorArgs :
       \/ BlockRead(t, s)
       \/ \E c \in Content : BlockWrite(t, s, c)
       \/ AskOffset(t, s)
       \/ AskIsValid(t, s)

Spec == Init /\ [][Next]_vars

-------------------------------------------------------------------------------
(* Properties.                                                             *)

\* Every variable stays in its range; the values of size are the two image
\* sizes, and 0 before an image is there.
TypeOK ==
  /\ path \in Paths \cup {NoPath}
  /\ data \in {"NULL", "live"}
  /\ blocks \in [DOMAIN blocks -> Content]
  /\ size \in {0, SizeCbmdos, SizeExtended}
  /\ type \in ImageTypes
  /\ phase \in {"dead", "live"}
  /\ zcc_errno \in ErrorCodes
  /\ ret.track \in Int /\ ret.sector \in Int /\ ret.result \in Int
  /\ buf \in Content

\* zcc_d64_alloc leaves the type of an earlier image in the handle, and a
\* read that fails leaves size and type: an image of 40 tracks, whether it is
\* still there or not, followed by an alloc of 35 tracks makes a handle that
\* promises more tracks than its buffer has.
Overlabelled == type # "CBMDOS" /\ size = SizeCbmdos

\* zcc_d64_block_read and zcc_d64_block_write check an access against the
\* image type and the speed zones, never against the size of the buffer.
\* Every block they copied lies inside it nevertheless, whatever calls the
\* handle went through; on an overlabelled handle, and on no other, it may
\* lie behind it, in the 5 tracks an image of 40 tracks would have there.
AccessInBounds ==
  LET limit == IF Overlabelled THEN SizeExtended ELSE size
  IN  /\ \A o \in DOMAIN blocks : Fits(o, limit)
      /\ ret.op = "block_read" /\ ret.result = 1
           => Fits(BlockOffset(ret.track, ret.sector), limit)

\* There is one way to an overlabelled handle: zcc_d64_alloc, of 35 tracks,
\* on a handle that still has type and size of an image of 40 tracks.  No
\* zcc_d64_read makes one, whatever type it is given and whatever it finds,
\* and neither does one that fails.
OnlyAllocOverlabels ==
  [][~Overlabelled /\ Overlabelled'
       => ret'.op = "alloc" /\ type # "CBMDOS" /\ size = SizeExtended]_vars

Mounted == phase = "live" /\ data = "live"

\* A handle is a disk drive: with blocks read off the buffer through
\* zcc_d64_block_offset, as many tracks as its type has, and room for as many
\* as its buffer has, every call is a step of BlockDevice.  Two blocks never
\* share bytes, a refused access changes nothing, and no other call disturbs
\* a block, on an overlabelled handle as on others.
OnImage(a) == LET off == BlockOffset(a[1], a[2])
              IN  TrackIsValid(type, a[1]) /\ Fits(off, size) /\ off \in DOMAIN blocks

BlockView == [a \in {a \in TrackArgs \X SectorArgs : OnImage(a)} |->
                blocks[BlockOffset(a[1], a[2])]]

TrackView == IF Mounted THEN IF type = "CBMDOS" THEN TrackMax ELSE TrackMaxExt
                        ELSE 0

RoomView == IF Mounted THEN IF size = SizeCbmdos THEN TrackMax ELSE TrackMaxExt
                       ELSE 0

ReplyView ==
  LET access(op, b) == [op |-> op, track |-> ret.track, sector |-> ret.sector,
                        ok |-> ret.result = 1, buf |-> b]
  IN  IF ret.op = "block_read"
      THEN access("get", IF ret.result = 1 THEN buf ELSE Zero)
      ELSE IF ret.op = "block_write"
      THEN access("put", buf)
      ELSE [op |-> IF ret.op \in {"init", "alloc", "read", "free"}
                   THEN "insert" ELSE "none",
            track |-> 0, sector |-> 0, ok |-> FALSE, buf |-> Zero]

Device == INSTANCE BlockDevice WITH
            blocks <- BlockView, tracks <- TrackView, room <- RoomView,
            reply <- ReplyView

ImplementsDevice == Device!Spec

===============================================================================
