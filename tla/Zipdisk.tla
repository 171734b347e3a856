------------------------------- MODULE Zipdisk -------------------------------
(***************************************************************************)
(* The zipdisk handle and the block iterator (zipdisk.c), driven as        *)
(* zcc_zipdisk_test_iter drives them: read the slices of an archive, visit *)
(* its blocks, free the handle.                                            *)
(*                                                                         *)
(* The archive is chosen at the start: the host files its slices are read  *)
(* from.  A slice is its size and the memory from its first byte on, which *)
(* goes on past the size: the iterator reads the header of a block without *)
(* asking whether all of it is there.  Offsets count from 0 as in C.       *)
(*                                                                         *)
(* The iterator stores track, sector and method together with the pointer  *)
(* to the block they are read from, so they are functions of block_data;   *)
(* block_nr is only printed.                                               *)
(***************************************************************************)
EXTENDS Integers, Sequences

CONSTANTS
  BlockSize,  \* 256 in the code
  Archives    \* [name, files, starts]: whether the name given starts with a
              \* digit 1-5 and a '!'; the files by slice index; and where the
              \* blocks of the archive start, as pairs <<slice, offset>>.  Unzip
              \* wants their items, too: what the blocks hold

SliceMax == 6   \* ZCC_ZIPCODE_SLICE_MAX

SliceFiles == 0..(SliceMax - 2)

ASSUME BlockSizeAssumption == BlockSize \in Nat \ {0}

\* A file of size -1 is not there.  The header the iterator reads is at most
\* three bytes long, and it starts inside the file.
ASSUME ArchivesAssumption ==
  \A a \in Archives :
    /\ a.name \in BOOLEAN
    /\ a.files \in [SliceFiles -> [size : Int, bytes : Seq(0..255)]]
    /\ \A n \in SliceFiles : a.files[n].size + 2 <= Len(a.files[n].bytes)

\* The files as doc/reference/formats/zip_disk.txt describes them: behind the
\* load address, and the disk id in the first, one block behind the other.  A
\* block starts with its track, which has the method in its upper bits, and its
\* sector; then comes the block as it is, one byte, or the length of the packed
\* bytes, the run byte, and those.  A file may be cut off anywhere; how long a
\* block with a method that is not one of these is, nobody knows.
\*
\* That the disk id is in the first file, and in no other, is what the iterator
\* takes for granted: the format tells by the load address ($03FE), and a first
\* file with another one ($0400) has none.  The load address may be anything
\* here; starts are the blocks that lie where the iterator begins.
FirstOffset(n) == IF n = 0 THEN 4 ELSE 2

FileMethod(a, p) == a.files[p[1]].bytes[p[2] + 1] \div 64

FileEnd(a, p) ==
  p[2] + (IF FileMethod(a, p) = 0 THEN BlockSize + 2
          ELSE IF FileMethod(a, p) = 1 THEN 3
          ELSE a.files[p[1]].bytes[p[2] + 3] + 4)

Before(p, q) == p[1] < q[1] \/ (p[1] = q[1] /\ p[2] < q[2])

Placed(a) == {a.starts[k] : k \in DOMAIN a.starts}

BlocksPlaced(a) ==
  /\ a.starts \in Seq(SliceFiles \X Nat)
  /\ \A j, k \in DOMAIN a.starts : j < k => Before(a.starts[j], a.starts[k])
  /\ \A n \in SliceFiles :
       FirstOffset(n) < a.files[n].size => <<n, FirstOffset(n)>> \in Placed(a)
  /\ \A p \in Placed(a) :
       /\ FirstOffset(p[1]) <= p[2] /\ p[2] < a.files[p[1]].size
       /\ FileMethod(a, p) < 3 =>
            /\ FileEnd(a, p) < a.files[p[1]].size => <<p[1], FileEnd(a, p)>> \in Placed(a)
            /\ \A q \in Placed(a) : q[1] = p[1] /\ q[2] > p[2] => q[2] >= FileEnd(a, p)

ASSUME PlacedAssumption == \A a \in Archives : BlocksPlaced(a)

VARIABLES
  archive,
  pc,            \* "name", "read", "opened", "walk", "free", "done"
  i,             \* the slice being read
  path,          \* zip->path: "NULL", "live", "freed"
  slices,        \* zip->slices: data is "NULL", "live" or "freed"
  slice_count,
  slice_index,   \* the iterator: the slice it is in
  slice_offset,  \* where in that slice it is
  block_data,    \* the block it shows: <<slice, offset>>, or NULL
  zcc_errno,
  ret            \* the last call and what it returned

handleVars == <<path, slices, slice_count>>
iterVars == <<slice_index, slice_offset, block_data>>
vars == <<archive, pc, i, path, slices, slice_count, slice_index, slice_offset,
          block_data, zcc_errno, ret>>

Null == <<>>
NoSlice == [data |-> "NULL", size |-> 0, bytes |-> <<>>]

Returns(op, result) == ret' = [op |-> op, result |-> result]

\* zcc_zipdisk_init; the iterator is not set up yet.
Init ==
  /\ archive \in Archives
  /\ pc = "name"
  /\ i = 0
  /\ path = "NULL"
  /\ slices = [n \in 0..(SliceMax - 1) |-> NoSlice]
  /\ slice_count = 0
  /\ slice_index = 0
  /\ slice_offset = 0
  /\ block_data = Null
  /\ zcc_errno = "OK"
  /\ ret = [op |-> "none", result |-> FALSE]

-------------------------------------------------------------------------------
(* zcc_zipdisk_read.                                                       *)

\* Its callers give up when it fails, and leave the handle alone.
GivesUpFreeing == "free"
GivesUp == "done"

\* A bad name frees the path, and leaves the handle pointing to it.
CheckName ==
  /\ pc = "name"
  /\ \/ /\ archive.name
        /\ path' = "live"
        /\ pc' = "read"
        /\ UNCHANGED <<zcc_errno, ret>>
     \/ /\ ~archive.name
        /\ path' = "freed"
        /\ zcc_errno' = "INVALID_FILENAME"
        /\ Returns("read", FALSE)
        /\ pc' = GivesUp
  /\ UNCHANGED <<archive, i, slices, slice_count, iterVars>>

\* zcc_fread_alloc returns the size of the file; a file without bytes has no
\* buffer.
ReadSlice ==
  /\ pc = "read"
  /\ LET f == archive.files[i]
     IN  /\ f.size >= 0
         /\ slices' = [slices EXCEPT ![i] =
                         [data |-> IF f.size = 0 THEN "NULL" ELSE "live",
                          size |-> f.size, bytes |-> f.bytes]]
  /\ \/ /\ i < SliceMax - 2
        /\ i' = i + 1
        /\ UNCHANGED <<pc, slice_count, ret>>
     \/ /\ i = SliceMax - 2
        /\ slice_count' = 5
        /\ Returns("read", TRUE)
        /\ pc' = "opened"
        /\ UNCHANGED i
  /\ UNCHANGED <<archive, path, iterVars, zcc_errno>>

\* zcc_fread_alloc returns -1: the file is not there, or reading it fails,
\* which can happen to any file.  The last slice may be missing, so its
\* failure, of either kind, is a success that leaves the error code set.
SliceFails ==
  /\ pc = "read"
  /\ zcc_errno' = "IO"
  /\ \/ /\ i < SliceMax - 2
        /\ Returns("read", FALSE)
        /\ pc' = GivesUp
        /\ UNCHANGED slice_count
     \/ /\ i = SliceMax - 2
        /\ slice_count' = 4
        /\ Returns("read", TRUE)
        /\ pc' = "opened"
  /\ UNCHANGED <<archive, i, path, slices, iterVars>>

-------------------------------------------------------------------------------
(* The iterator.                                                           *)

\* Beyond the array there is no slice.
SizeOf(n) == IF n < SliceMax THEN slices[n].size ELSE 0

Byte(p, n) == slices[p[1]].bytes[p[2] + n + 1]

TrackAndMethod(p) == Byte(p, 0)
TrackAt(p) == Byte(p, 0) % 64
MethodAt(p) == Byte(p, 0) \div 64
SectorAt(p) == Byte(p, 1)

\* The zcc_pack_t values.
PackNone == 0
PackFill == 1
PackRle == 2

\* iter_current_block_info finds a block there.
InSliceClosed(n, offset) == offset <= SizeOf(n)
InSlice(n, offset) == offset < SizeOf(n)

\* Distance to the next block in the slice.
WidthBare(p) == IF MethodAt(p) = PackNone THEN BlockSize + 2
                ELSE IF MethodAt(p) = PackFill THEN 3 ELSE Byte(p, 2) + 3
Width(p) == IF MethodAt(p) = PackNone THEN BlockSize + 2
            ELSE IF MethodAt(p) = PackFill THEN 3 ELSE Byte(p, 2) + 4

\* zcc_zipdisk_iter_init: the two bytes of the load address and the two of
\* the disk id are skipped unseen.
IterInit ==
  /\ slice_index' = 0
  /\ slice_offset' = 4
  /\ block_data' = IF InSlice(0, 4) THEN <<0, 4>> ELSE Null
  /\ Returns("iter_init", InSlice(0, 4))
  /\ UNCHANGED zcc_errno

Here == <<slice_index, slice_offset>>

\* zcc_zipdisk_iter_next on a block: step over it.  Whether a block follows
\* in the slice makes no difference to the result; block_data stays when
\* none does.
NextInSlice ==
  /\ InSlice(slice_index, slice_offset)
  /\ \/ /\ MethodAt(Here) > PackRle
        /\ zcc_errno' = "ZC_INVALID_PACK_METHOD"
        /\ block_data' = Here
        /\ Returns("iter_next", FALSE)
        /\ UNCHANGED <<slice_index, slice_offset>>
     \/ /\ MethodAt(Here) <= PackRle
        /\ slice_offset' = slice_offset + Width(Here)
        /\ block_data' = IF InSlice(slice_index, slice_offset')
                         THEN <<slice_index, slice_offset'>> ELSE Here
        /\ Returns("iter_next", TRUE)
        /\ UNCHANGED <<slice_index, zcc_errno>>

PastArchiveEarly(n) == n + 2 >= slice_count
PastArchive(n) == n >= slice_count + 1

FollowingSame(n) == n
Following(n) == n + 1

\* What zcc_zipdisk_iter_next returns on entering slice n.
FoundAlways(n) == TRUE
Found(n) == InSlice(n, 2)

\* zcc_zipdisk_iter_next at the end of a slice: enter the following one,
\* behind its load address.  The test for the end of the archive is never met
\* by a caller that stops at the first FALSE: the empty slot behind the last
\* slice has stopped it before.
LeaveSlice ==
  /\ ~InSlice(slice_index, slice_offset)
  /\ IF PastArchive(slice_index)
     THEN /\ Returns("iter_next", FALSE)
          /\ UNCHANGED iterVars
     ELSE /\ slice_index' = Following(slice_index)
          /\ slice_offset' = 2
          /\ block_data' = IF InSlice(slice_index', 2) THEN <<slice_index', 2>>
                           ELSE block_data
          /\ Returns("iter_next", Found(slice_index'))
  /\ UNCHANGED zcc_errno

IterNext == NextInSlice \/ LeaveSlice

-------------------------------------------------------------------------------
(* zcc_zipdisk_test_iter.                                                  *)

Start ==
  /\ pc = "opened"
  /\ IterInit
  /\ pc' = IF ret'.result THEN "walk" ELSE "free"
  /\ UNCHANGED <<archive, i, handleVars>>

Walk ==
  /\ pc = "walk"
  /\ IterNext
  /\ pc' = IF ret'.result THEN "walk" ELSE "free"
  /\ UNCHANGED <<archive, i, handleVars>>

\* zcc_zipdisk_free: whatever is not NULL is freed, and left dangling.
Free ==
  /\ path' = IF path = "NULL" THEN "NULL" ELSE "freed"
  /\ slices' = [n \in DOMAIN slices |->
                  IF slices[n].data = "NULL" THEN slices[n]
                  ELSE [slices[n] EXCEPT !.data = "freed"]]
  /\ UNCHANGED slice_count

Finish ==
  /\ pc = "free"
  /\ Free
  /\ pc' = "done"
  /\ UNCHANGED <<archive, i, iterVars, zcc_errno, ret>>

Next == CheckName \/ ReadSlice \/ SliceFails \/ Start \/ Walk \/ Finish

Spec == Init /\ [][Next]_vars

-------------------------------------------------------------------------------
(* Properties.                                                             *)

\* Where a pointer to a block can point.
Pointers == {Null} \cup ((0..(SliceMax - 1)) \X Nat)

TypeOK ==
  /\ pc \in {"name", "read", "opened", "walk", "free", "done"}
  /\ i \in SliceFiles
  /\ path \in {"NULL", "live", "freed"}
  /\ slices \in [0..(SliceMax - 1) -> [data : {"NULL", "live", "freed"},
                                       size : Nat, bytes : Seq(0..255)]]
  /\ slice_count \in {0, 4, 5}
  /\ slice_index \in Nat
  /\ slice_offset \in Nat
  /\ block_data \in Pointers
  /\ zcc_errno \in {"OK", "IO", "INVALID_FILENAME", "ZC_INVALID_PACK_METHOD", "RLE"}
  /\ ret.result \in BOOLEAN

\* The iterator looks for blocks in slices[slice_index], although the bound it
\* has, slice_count + 1, lies past the array when there are five slices: what
\* stops it is the slot behind the last slice, which is always empty.
SliceIndexInBounds == slice_index < SliceMax

\* While the walk goes on block_data points into the live data of a slice,
\* whatever the lengths in the archive say: also where the archive ends in the
\* middle of a block, and where the iterator has already left the slice.
BlockPointerLive ==
  pc = "walk" => /\ block_data # Null
                 /\ block_data[2] < slices[block_data[1]].size
                 /\ slices[block_data[1]].data = "live"

\* The iterator goes through the blocks of the archive in the order they lie
\* in it and skips none.
Starts == archive.starts

Follows(p, q) ==
  \E k \in DOMAIN Starts : /\ q = Starts[k]
                           /\ p = IF k = 1 THEN Null ELSE Starts[k - 1]

VisitsInOrder == [][block_data' # block_data => Follows(block_data, block_data')]_vars

\* A walk that meets no error ends at the last block, when every slice that
\* was read has one: a slice without blocks ends the walk, whatever follows.
Full(n) == SizeOf(n) > (IF n = 0 THEN 4 ELSE 2)

ReachesLast ==
  /\ pc = "free" /\ ret.op = "iter_next"
  /\ zcc_errno # "ZC_INVALID_PACK_METHOD"
  /\ \A n \in 0..(slice_count - 1) : Full(n)
  => \A k \in DOMAIN Starts :
       Starts[k][1] < slice_count
         => \E m \in k..Len(Starts) : block_data = Starts[m]

\* Nothing is freed twice: a bad name leaves the handle pointing to a freed
\* path, and no caller hands such a handle to zcc_zipdisk_free.
NoDoubleFree ==
  [][pc = "free" => /\ path # "freed"
                    /\ \A n \in DOMAIN slices : slices[n].data # "freed"]_vars

===============================================================================
