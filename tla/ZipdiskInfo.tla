----------------------------- MODULE ZipdiskInfo -----------------------------
(***************************************************************************)
(* zcc_zipdisk_show_info and zcc_zipdisk_dump_slice (zipdisk.c) beside the *)
(* test of the iterator: once the archive is read its blocks are either    *)
(* iterated or dumped.  The dump goes through the bytes of each slice on   *)
(* its own, with a step of its own for each method, and ends the program   *)
(* at a method it does not know.                                           *)
(***************************************************************************)
EXTENDS Zipdisk

VARIABLES
  dump_slice,   \* the slice the dump is at, from 0
  dump_offset,  \* p - data: where it is in that slice
  shown         \* the blocks it has printed, as pairs <<slice, offset>>

infoVars == <<dump_slice, dump_offset, shown>>

InfoInit ==
  /\ Init
  /\ dump_slice = 0
  /\ dump_offset = 0
  /\ shown = <<>>

\* zcc_zipdisk_show_info has read the archive.  When it is not verbose it
\* prints the sizes of the slices, and no block.
ShowSizes ==
  /\ pc = "opened"
  /\ pc' = "free"
  /\ UNCHANGED <<archive, i, handleVars, iterVars, zcc_errno, ret, infoVars>>

ShowInfo ==
  /\ pc = "opened"
  /\ pc' = "slice"
  /\ UNCHANGED <<archive, i, handleVars, iterVars, zcc_errno, ret, infoVars>>

\* The load address is read before the size is looked at: a slice without a
\* byte has no data to read it from.
Load(n) == slices[n].bytes[1] + 256 * slices[n].bytes[2]
FirstBlock(n) == IF Load(n) = 1022 THEN 4 ELSE 2

DumpSlice ==
  /\ pc = "slice"
  /\ dump_slice < slice_count
  /\ IF slices[dump_slice].data = "NULL"
     THEN pc' = "crash" /\ UNCHANGED dump_offset
     ELSE pc' = "dump" /\ dump_offset' = FirstBlock(dump_slice)
  /\ UNCHANGED <<archive, i, handleVars, iterVars, zcc_errno, ret, dump_slice, shown>>

\* How far p moves on behind the track and the sector.
PayloadOne(p) ==
  CASE MethodAt(p) = PackNone -> BlockSize
    [] MethodAt(p) = PackFill -> 1
    [] MethodAt(p) = PackRle -> Byte(p, 2) + 1
Payload(p) ==
  CASE MethodAt(p) = PackNone -> BlockSize
    [] MethodAt(p) = PackFill -> 1
    [] MethodAt(p) = PackRle -> Byte(p, 2) + 2

AtDump == <<dump_slice, dump_offset>>

InDump == pc = "dump" /\ dump_offset < slices[dump_slice].size

\* Packed bytes are decoded to print their number: when they stand for less
\* than a block, which is the subject of Rle, the error code is set.
DumpBlock ==
  /\ InDump
  /\ MethodAt(AtDump) <= PackRle
  /\ shown' = Append(shown, AtDump)
  /\ dump_offset' = dump_offset + Payload(AtDump) + 2
  /\ \/ UNCHANGED zcc_errno
     \/ MethodAt(AtDump) = PackRle /\ zcc_errno' = "RLE"
  /\ UNCHANGED <<archive, pc, i, handleVars, iterVars, ret, dump_slice>>

\* The default of the switch: exit(1), with the zipdisk as it is.
DumpUnknown ==
  /\ InDump
  /\ MethodAt(AtDump) > PackRle
  /\ shown' = Append(shown, AtDump)
  /\ pc' = "exit"
  /\ UNCHANGED <<archive, i, handleVars, iterVars, zcc_errno, ret, dump_slice, dump_offset>>

SliceAfter(n) == n + 1

DumpedSlice ==
  /\ pc = "dump"
  /\ dump_offset >= slices[dump_slice].size
  /\ dump_slice' = SliceAfter(dump_slice)
  /\ pc' = "slice"
  /\ UNCHANGED <<archive, i, handleVars, iterVars, zcc_errno, ret, dump_offset, shown>>

DumpEnds ==
  /\ pc = "slice"
  /\ dump_slice = slice_count
  /\ pc' = "free"
  /\ UNCHANGED <<archive, i, handleVars, iterVars, zcc_errno, ret, infoVars>>

TestIter == Next /\ UNCHANGED infoVars

InfoNext ==
  \/ TestIter
  \/ ShowSizes \/ ShowInfo
  \/ DumpSlice \/ DumpBlock \/ DumpUnknown \/ DumpedSlice \/ DumpEnds

InfoSpec == InfoInit /\ [][InfoNext]_<<vars, infoVars>>

\* The program waits for nobody.
FairInfoSpec == InfoSpec /\ WF_<<vars, infoVars>>(InfoNext)

-------------------------------------------------------------------------------
(* Properties.                                                             *)

\* The dump begins a slice where the load address says, the iterator by the
\* number of the slice: whether both begin slice n at one place depends on the
\* file.
LoadOf(f) == f.bytes[1] + 256 * f.bytes[2]

SameBeginning(n) ==
  FirstOffset(n) = IF LoadOf(archive.files[n]) = 1022 THEN 4 ELSE 2

\* The dump has gone past p.
Passed(p) == \/ p[1] < dump_slice
             \/ \E k \in DOMAIN shown : Before(p, shown[k])

\* The dump and the iterator each step over blocks by rules of their own.  The
\* dump goes forward through the slices that were read and prints nothing twice;
\* and in every slice in which both begin at one place it prints the blocks the
\* iterator is to visit, those alone, and has skipped none of them wherever it
\* is, also behind a slice without blocks, where the iterator gives up.
InfoShowsAll ==
  /\ \A k \in DOMAIN shown : shown[k][1] < slice_count
  /\ \A j, k \in DOMAIN shown : j < k => Before(shown[j], shown[k])
  /\ \A n \in 0..(slice_count - 1) : SameBeginning(n) =>
       /\ \A k \in DOMAIN shown : shown[k][1] = n => shown[k] \in Placed(archive)
       /\ \A p \in Placed(archive) :
            p[1] = n /\ Passed(p) => \E k \in DOMAIN shown : shown[k] = p

\* The program comes to an end on any archive: back from zcc_zipdisk_free, by
\* exit(1), or by a crash where a slice is empty.
InfoEnds == <>(pc \in {"done", "exit", "crash"})
===============================================================================
