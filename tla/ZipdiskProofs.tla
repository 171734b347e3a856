---------------------------- MODULE ZipdiskProofs ----------------------------
(***************************************************************************)
(* Proofs about the zipdisk iterator and what walks an archive, for every  *)
(* archive: the iterator stays in the array of slices, shows a block only  *)
(* while there is one to show, and the blocks in their order; the dump     *)
(* reads the header of a block only in live memory, and prints the same    *)
(* blocks; and the conversion puts them on the disk and the disk in its    *)
(* file.                                                                   *)
(***************************************************************************)
EXTENDS ZipdiskInfo, Unzip, TLAPS

-------------------------------------------------------------------------------
(* The iterator.                                                           *)

Slice == [data : {"NULL", "live", "freed"}, size : Nat, bytes : Seq(0..255)]

\* What the slices hold until they are freed: data where there are bytes, room
\* behind the size for the rest of a header, and nothing in the last slot.
SlicesRead ==
  /\ \A n \in 0..(SliceMax - 1) :
       slices[n].size > 0 => slices[n].size + 2 <= Len(slices[n].bytes)
  /\ pc \in {"name", "read", "opened", "walk"} =>
       \A n \in 0..(SliceMax - 1) : slices[n].size > 0 => slices[n].data = "live"
  /\ slices[SliceMax - 1].size = 0

\* While the walk goes on the iterator is in a slice that had a block.
InFile == pc = "walk" => slice_index < SliceMax - 1

\* Before the walk the iterator is where Init put it.
NotStarted == pc \in {"name", "read", "opened"} => slice_index = 0

Inv ==
  /\ TypeOK
  /\ archive \in Archives
  /\ SlicesRead
  /\ InFile
  /\ NotStarted
  /\ SliceIndexInBounds
  /\ BlockPointerLive

LEMMA EmptySlice == NoSlice \in Slice /\ NoSlice.size = 0
<1>1. <<>> \in Seq(0..255) OBVIOUS
<1> QED BY <1>1 DEF NoSlice, Slice

LEMMA ElementOf ==
  ASSUME NEW S, NEW q \in Seq(S), NEW j \in 1..Len(q)
  PROVE  q[j] \in S
OBVIOUS

LEMMA InvInit == Init => Inv
<1> SUFFICES ASSUME Init PROVE Inv
  OBVIOUS
<1>1. slices = [n \in 0..(SliceMax - 1) |-> NoSlice] BY DEF Init
<1>2. slices \in [0..(SliceMax - 1) -> Slice] BY <1>1, EmptySlice
<1>3. TypeOK
  BY <1>2 DEF Init, TypeOK, Slice, SliceFiles, SliceMax, Pointers, Null
<1>4. \A n \in 0..(SliceMax - 1) : slices[n].size = 0 BY <1>1, EmptySlice
<1>5. SlicesRead BY <1>4 DEF SlicesRead, SliceMax
<1> QED
  BY <1>3, <1>5 DEF Init, Inv, InFile, NotStarted, SliceIndexInBounds, BlockPointerLive,
     SliceMax

\* A block header is in memory where the iterator reads it.
LEMMA HeaderIsMemory ==
  ASSUME TypeOK, SlicesRead, NEW n \in 0..(SliceMax - 1), NEW o \in Nat, InSlice(n, o),
         NEW k \in 0..2
  PROVE  Byte(<<n, o>>, k) \in 0..255
<1>1. slices[n].size \in Nat /\ slices[n].bytes \in Seq(0..255) BY DEF TypeOK
<1>2. o < slices[n].size BY DEF InSlice, SizeOf, SliceMax
<1>3. slices[n].size + 2 <= Len(slices[n].bytes) BY <1>1, <1>2 DEF SlicesRead
<1>4. o + k + 1 \in 1..Len(slices[n].bytes) BY <1>1, <1>2, <1>3
<1>5. slices[n].bytes[o + k + 1] \in 0..255 BY <1>1, <1>4, ElementOf
<1>6. Byte(<<n, o>>, k) = slices[n].bytes[o + k + 1] BY DEF Byte
<1> QED BY <1>5, <1>6

LEMMA WidthIsNat ==
  ASSUME TypeOK, SlicesRead, NEW n \in 0..(SliceMax - 1), NEW o \in Nat, InSlice(n, o)
  PROVE  Width(<<n, o>>) \in Nat
<1>1. Byte(<<n, o>>, 2) \in 0..255 BY HeaderIsMemory
<1>2. BlockSize + 2 \in Nat BY BlockSizeAssumption
<1> QED BY <1>1, <1>2 DEF Width

\* Steps that leave the slices alone keep what is known of them.
LEMMA SlicesKept ==
  ASSUME SlicesRead, UNCHANGED slices,
         pc' \in {"name", "read", "opened", "walk"} => pc \in {"name", "read", "opened", "walk"}
  PROVE  SlicesRead'
BY DEF SlicesRead

LEMMA ResultReturned ==
  ASSUME NEW op, NEW result \in BOOLEAN, Returns(op, result)
  PROVE  ret'.result \in BOOLEAN
<1>1. ret'.result = result BY DEF Returns
<1> QED BY <1>1

LEMMA CheckNameKeeps == ASSUME Inv, CheckName PROVE Inv'
<1> USE DEF Inv
<1>1. UNCHANGED <<archive, i, slices, slice_count, slice_index, slice_offset, block_data>>
  BY DEF CheckName, iterVars
<1>2. SlicesRead' BY <1>1, SlicesKept DEF CheckName, GivesUp
<1>3. ret'.result \in BOOLEAN
  <2>1. ret' = ret \/ Returns("read", FALSE) BY DEF CheckName
  <2> QED BY <2>1, ResultReturned DEF TypeOK
<1>4. /\ pc' \in {"read", "done"} /\ path' \in {"live", "freed"}
      /\ zcc_errno' = zcc_errno \/ zcc_errno' = "INVALID_FILENAME"
  BY DEF CheckName, GivesUp
<1>5. TypeOK' BY <1>1, <1>3, <1>4 DEF TypeOK
<1> QED
  BY <1>1, <1>2, <1>5 DEF CheckName, GivesUp, InFile, NotStarted, SliceIndexInBounds,
     BlockPointerLive

LEMMA ReadSliceKeeps == ASSUME Inv, ReadSlice PROVE Inv'
<1> USE DEF Inv
<1> DEFINE f == archive.files[i]
           s == [data |-> IF f.size = 0 THEN "NULL" ELSE "live",
                 size |-> f.size, bytes |-> f.bytes]
<1>1. i \in 0..(SliceMax - 2) /\ pc = "read" BY DEF ReadSlice, TypeOK, SliceFiles
<1>2. f \in [size : Int, bytes : Seq(0..255)] /\ f.size + 2 <= Len(f.bytes)
  BY <1>1, ArchivesAssumption DEF SliceFiles
<1>3. f.size >= 0 /\ slices' = [slices EXCEPT ![i] = s] BY DEF ReadSlice
<1>4. s \in Slice /\ s.size + 2 <= Len(s.bytes) /\ (s.size > 0 => s.data = "live")
  BY <1>2, <1>3 DEF Slice
<1>5. slices \in [0..(SliceMax - 1) -> Slice] BY DEF TypeOK, Slice
<1>6. /\ slices' \in [0..(SliceMax - 1) -> Slice]
      /\ \A n \in 0..(SliceMax - 1) : slices'[n] = IF n = i THEN s ELSE slices[n]
  BY <1>1, <1>3, <1>4, <1>5 DEF SliceMax
<1>7. /\ pc' \in {"read", "opened"} /\ slice_count' \in {0, 4, 5} /\ i' \in SliceFiles
      /\ UNCHANGED <<archive, path, slice_index, slice_offset, block_data, zcc_errno>>
  <2>1. i' \in SliceFiles
    <3>1. \/ i < SliceMax - 2 /\ i' = i + 1
          \/ i' = i
      BY DEF ReadSlice
    <3>2. i < SliceMax - 2 => i + 1 \in SliceFiles BY <1>1 DEF SliceFiles, SliceMax
    <3> QED BY <3>1, <3>2 DEF TypeOK
  <2>2. pc' \in {"read", "opened"} BY <1>1 DEF ReadSlice
  <2>3. slice_count' \in {0, 4, 5} BY DEF ReadSlice, TypeOK
  <2> QED BY <2>1, <2>2, <2>3 DEF ReadSlice, iterVars
<1>8. ret'.result \in BOOLEAN
  <2>1. ret' = ret \/ Returns("read", TRUE) BY DEF ReadSlice
  <2> QED BY <2>1, ResultReturned DEF TypeOK
<1>9. TypeOK' BY <1>6, <1>7, <1>8 DEF TypeOK, Slice
<1>10. SlicesRead'
  <2>1. \A n \in 0..(SliceMax - 1) : slices'[n].size > 0
          => slices'[n].size + 2 <= Len(slices'[n].bytes) /\ slices'[n].data = "live"
    BY <1>1, <1>4, <1>6 DEF SlicesRead
  <2>2. slices'[SliceMax - 1].size = 0 BY <1>1, <1>6 DEF SlicesRead, SliceMax
  <2> QED BY <2>1, <2>2 DEF SlicesRead
<1> QED
  BY <1>1, <1>7, <1>9, <1>10 DEF InFile, NotStarted, SliceIndexInBounds, BlockPointerLive

LEMMA SliceFailsKeeps == ASSUME Inv, SliceFails PROVE Inv'
<1> USE DEF Inv
<1>1. /\ UNCHANGED <<archive, i, path, slices, slice_index, slice_offset, block_data>>
      /\ pc = "read" /\ pc' \in {"done", "opened"} /\ zcc_errno' = "IO"
      /\ slice_count' \in {0, 4, 5}
  BY DEF SliceFails, iterVars, TypeOK, GivesUp
<1>2. SlicesRead' BY <1>1, SlicesKept
<1>3. ret'.result \in BOOLEAN BY ResultReturned DEF SliceFails
<1>4. TypeOK' BY <1>1, <1>3 DEF TypeOK
<1> QED
  BY <1>1, <1>2, <1>4 DEF InFile, NotStarted, SliceIndexInBounds, BlockPointerLive

\* What the iterator promises when it returns TRUE; it never leaves the array.
Shown ==
  /\ slice_index \in 0..(SliceMax - 1) /\ slice_offset \in Nat /\ block_data \in Pointers
  /\ ret.result \in BOOLEAN
  /\ zcc_errno \in {"OK", "IO", "INVALID_FILENAME", "ZC_INVALID_PACK_METHOD", "RLE"}
  /\ ret.result => /\ slice_index < SliceMax - 1
                   /\ block_data # Null
                   /\ InSlice(block_data[1], block_data[2])

LEMMA InSliceIsFile ==
  ASSUME TypeOK, SlicesRead, NEW n \in 0..(SliceMax - 1), NEW o \in Nat, InSlice(n, o)
  PROVE  n < SliceMax - 1
BY DEF TypeOK, SlicesRead, InSlice, SizeOf, SliceMax

LEMMA IterInitShows == ASSUME Inv, IterInit, UNCHANGED slices PROVE Shown'
<1> USE DEF Inv
<1>1. /\ slice_index' = 0 /\ slice_offset' = 4 /\ zcc_errno' = zcc_errno
      /\ block_data' = (IF InSlice(0, 4) THEN <<0, 4>> ELSE Null)
      /\ ret'.result = InSlice(0, 4)
  BY DEF IterInit, Returns
<1>2. InSlice(0, 4) \in BOOLEAN BY DEF InSlice
<1>3. block_data' \in Pointers BY <1>1 DEF Pointers, SliceMax
<1>4. ret'.result => block_data' = <<0, 4>> /\ InSlice(0, 4)' BY <1>1 DEF InSlice, SizeOf
<1>5. <<0, 4>> # Null BY DEF Null
<1> QED BY <1>1, <1>2, <1>3, <1>4, <1>5 DEF Shown, TypeOK, SliceMax

LEMMA IterNextShows ==
  ASSUME Inv, slice_index < SliceMax - 1, IterNext, UNCHANGED slices
  PROVE  Shown'
<1> USE DEF Inv
<1>1. slice_index \in 0..(SliceMax - 1) /\ slice_offset \in Nat BY DEF TypeOK, SliceMax
<1>2. CASE NextInSlice
  <2>1. InSlice(slice_index, slice_offset) /\ Width(Here) \in Nat
    BY <1>1, <1>2, WidthIsNat DEF NextInSlice, Here
  <2>2. Here \in Pointers /\ Here # Null /\ Here[1] = slice_index /\ Here[2] = slice_offset
    BY <1>1 DEF Here, Pointers, Null
  <2>3. slice_index' = slice_index /\ slice_offset' \in Nat
        /\ ret'.result \in BOOLEAN
        /\ zcc_errno' \in {"OK", "IO", "INVALID_FILENAME", "ZC_INVALID_PACK_METHOD", "RLE"}
    <3>1. ret'.result \in BOOLEAN BY <1>2, ResultReturned DEF NextInSlice
    <3>2. slice_index' = slice_index /\ slice_offset' \in Nat
      <4>1. \/ slice_offset' = slice_offset
            \/ slice_offset' = slice_offset + Width(Here)
        BY <1>2 DEF NextInSlice
      <4>2. slice_offset + Width(Here) \in Nat BY <1>1, <2>1
      <4>3. slice_offset' \in Nat BY <1>1, <4>1, <4>2
      <4> QED BY <1>2, <4>3 DEF NextInSlice
    <3> QED BY <1>2, <3>1, <3>2 DEF NextInSlice, TypeOK
  <2>4. block_data' = Here \/
          (block_data' = <<slice_index, slice_offset'>> /\ InSlice(slice_index, slice_offset'))
    BY <1>2 DEF NextInSlice
  <2>5. CASE block_data' = Here
    <3>1. InSlice(block_data'[1], block_data'[2]) BY <2>1, <2>2, <2>5
    <3>2. InSlice(block_data[1], block_data[2])' BY <3>1 DEF InSlice, SizeOf
    <3> QED BY <1>1, <2>2, <2>3, <2>5, <3>2 DEF Shown
  <2>6. CASE block_data' = <<slice_index, slice_offset'>> /\ InSlice(slice_index, slice_offset')
    <3>1. InSlice(block_data[1], block_data[2])' BY <2>6 DEF InSlice, SizeOf
    <3>2. block_data' \in Pointers /\ block_data' # Null
      BY <1>1, <2>3, <2>6 DEF Pointers, Null
    <3> QED BY <1>1, <2>3, <3>1, <3>2 DEF Shown
  <2> QED BY <2>4, <2>5, <2>6
<1>3. CASE LeaveSlice /\ PastArchive(slice_index)
  <2>1. UNCHANGED <<slice_index, slice_offset, block_data, zcc_errno>> /\ ret'.result = FALSE
    BY <1>3 DEF LeaveSlice, Returns, iterVars
  <2> QED BY <1>1, <2>1 DEF Shown, TypeOK
<1>4. CASE LeaveSlice /\ ~PastArchive(slice_index)
  <2> DEFINE n == slice_index + 1
  <2>1. /\ slice_index' = n /\ slice_offset' = 2 /\ zcc_errno' = zcc_errno
        /\ block_data' = (IF InSlice(n, 2) THEN <<n, 2>> ELSE block_data)
        /\ ret'.result = InSlice(n, 2)
    BY <1>4 DEF LeaveSlice, Returns, Following, Found
  <2>2. n \in 0..(SliceMax - 1) BY <1>1 DEF SliceMax
  <2>3. InSlice(n, 2) \in BOOLEAN BY DEF InSlice
  <2>4. block_data' \in Pointers BY <2>1, <2>2 DEF Pointers, TypeOK
  <2>5. ASSUME InSlice(n, 2)
        PROVE  n < SliceMax - 1 /\ block_data' = <<n, 2>> /\ block_data' # Null
               /\ InSlice(block_data[1], block_data[2])'
    <3>1. n < SliceMax - 1 BY <2>2, <2>5, InSliceIsFile
    <3>2. block_data' = <<n, 2>> BY <2>1, <2>5
    <3> QED BY <2>5, <3>1, <3>2 DEF InSlice, SizeOf, Null
  <2> QED BY <2>1, <2>2, <2>3, <2>4, <2>5 DEF Shown, TypeOK
<1> QED BY <1>2, <1>3, <1>4 DEF IterNext

\* A step of the walk: what the iterator promises is what the walk relies on.
LEMMA ShownKeeps ==
  ASSUME Inv, Shown', UNCHANGED <<archive, i, path, slices, slice_count>>,
         pc \in {"opened", "walk"}, pc' = IF ret'.result THEN "walk" ELSE "free"
  PROVE  Inv'
<1> USE DEF Inv
<1>1. pc' \in {"walk", "free"} /\ ret'.result \in BOOLEAN BY DEF Shown
<1>2. SlicesRead' BY <1>1, SlicesKept
<1>3. TypeOK' BY <1>1 DEF TypeOK, Shown, SliceMax
<1>4. SliceIndexInBounds' BY DEF Shown, SliceIndexInBounds, SliceMax
<1>5. InFile' /\ NotStarted' BY <1>1 DEF InFile, NotStarted, Shown
<1>6. BlockPointerLive'
  <2> SUFFICES ASSUME pc' = "walk"
               PROVE  /\ block_data' # Null
                      /\ block_data'[2] < slices'[block_data'[1]].size
                      /\ slices'[block_data'[1]].data = "live"
    BY DEF BlockPointerLive
  <2>1. block_data' # Null /\ InSlice(block_data[1], block_data[2])' BY DEF Shown
  <2>2. block_data'[1] \in 0..(SliceMax - 1) /\ block_data'[2] \in Nat
    BY <2>1 DEF Shown, Pointers
  <2>3. block_data'[2] < slices'[block_data'[1]].size
    BY <2>1, <2>2 DEF InSlice, SizeOf, SliceMax
  <2>4. slices'[block_data'[1]].size \in Nat BY <1>3, <2>2 DEF TypeOK
  <2>5. slices'[block_data'[1]].size > 0 BY <2>2, <2>3, <2>4
  <2> QED BY <1>2, <2>1, <2>2, <2>3, <2>5 DEF SlicesRead
<1> QED BY <1>2, <1>3, <1>4, <1>5, <1>6

LEMMA FinishKeeps == ASSUME Inv, Finish PROVE Inv'
<1> USE DEF Inv
<1>1. /\ pc' = "done" /\ path' \in {"NULL", "live", "freed"}
      /\ UNCHANGED <<archive, i, slice_count, slice_index, slice_offset, block_data,
                     zcc_errno, ret>>
  BY DEF Finish, Free, iterVars, TypeOK
<1>2. slices \in [0..(SliceMax - 1) -> Slice] BY DEF TypeOK, Slice
<1>3. slices' = [n \in 0..(SliceMax - 1) |->
                   IF slices[n].data = "NULL" THEN slices[n]
                   ELSE [slices[n] EXCEPT !.data = "freed"]]
  BY <1>2 DEF Finish, Free
<1>4. \A n \in 0..(SliceMax - 1) : /\ slices'[n] \in Slice
                                   /\ slices'[n].size = slices[n].size
                                   /\ slices'[n].bytes = slices[n].bytes
  BY <1>2, <1>3 DEF Slice
<1>5. slices' \in [0..(SliceMax - 1) -> Slice] BY <1>3, <1>4
<1>6. TypeOK' BY <1>1, <1>5 DEF TypeOK, Slice
<1>7. SlicesRead'
  <2>1. slices'[SliceMax - 1].size = 0 BY <1>4 DEF SlicesRead, SliceMax
  <2>2. \A n \in 0..(SliceMax - 1) :
          slices'[n].size > 0 => slices'[n].size + 2 <= Len(slices'[n].bytes)
    BY <1>4 DEF SlicesRead
  <2> QED BY <1>1, <2>1, <2>2 DEF SlicesRead
<1> QED
  BY <1>1, <1>6, <1>7 DEF InFile, NotStarted, SliceIndexInBounds, BlockPointerLive

LEMMA InvNext == Inv /\ [Next]_vars => Inv'
<1> SUFFICES ASSUME Inv, [Next]_vars PROVE Inv'
  OBVIOUS
<1>1. CASE CheckName BY <1>1, CheckNameKeeps
<1>2. CASE ReadSlice BY <1>2, ReadSliceKeeps
<1>3. CASE SliceFails BY <1>3, SliceFailsKeeps
<1>4. CASE Start
  <2>1. Shown' BY <1>4, IterInitShows DEF Start, handleVars
  <2> QED BY <1>4, <2>1, ShownKeeps DEF Start, handleVars
<1>5. CASE Walk
  <2>1. Shown' BY <1>5, IterNextShows DEF Walk, handleVars, Inv, InFile
  <2> QED BY <1>5, <2>1, ShownKeeps DEF Walk, handleVars
<1>6. CASE Finish BY <1>6, FinishKeeps
<1>7. CASE UNCHANGED vars
  <2>1. UNCHANGED <<archive, pc, i, path, slices, slice_count, slice_index, slice_offset,
                    block_data, zcc_errno, ret>>
    BY <1>7 DEF vars
  <2> QED
    BY <2>1 DEF Inv, TypeOK, SlicesRead, InFile, NotStarted, SliceIndexInBounds,
       BlockPointerLive
<1> QED BY <1>1, <1>2, <1>3, <1>4, <1>5, <1>6, <1>7 DEF Next

\* Every variable of the walk stays in its type.
THEOREM TypeCorrect == Spec => []TypeOK
<1>1. Inv => TypeOK BY DEF Inv
<1> QED BY InvInit, InvNext, <1>1, PTL DEF Spec

\* The iterator never looks beyond the array of slices, whatever the slices
\* hold, although its own bound would let it.
THEOREM StaysInArray == Spec => []SliceIndexInBounds
<1>1. Inv => SliceIndexInBounds BY DEF Inv
<1> QED BY InvInit, InvNext, <1>1, PTL DEF Spec

\* Whenever the iterator has returned TRUE, its block lies in a slice that has
\* been read and not been freed.
THEOREM ShowsLiveBlocks == Spec => []BlockPointerLive
<1>1. Inv => BlockPointerLive BY DEF Inv
<1> QED BY InvInit, InvNext, <1>1, PTL DEF Spec

-------------------------------------------------------------------------------
(* The iterator beside the dump of the blocks.                             *)

Dumping == {"slice", "dump", "exit", "crash"}

\* What Inv says of the variables beside pc, while the archive is dumped.
Opened ==
  /\ i \in SliceFiles
  /\ path \in {"NULL", "live", "freed"}
  /\ slices \in [0..(SliceMax - 1) -> Slice]
  /\ slice_count \in {0, 4, 5}
  /\ slice_index = 0
  /\ slice_offset \in Nat
  /\ block_data \in Pointers
  /\ zcc_errno \in {"OK", "IO", "INVALID_FILENAME", "ZC_INVALID_PACK_METHOD", "RLE"}
  /\ ret.result \in BOOLEAN
  /\ archive \in Archives
  /\ \A n \in 0..(SliceMax - 1) :
       slices[n].size > 0 => /\ slices[n].size + 2 <= Len(slices[n].bytes)
                             /\ slices[n].data = "live"
  /\ slices[SliceMax - 1].size = 0

\* The dump is in a slice that was read.
InfoInv ==
  /\ pc \notin Dumping => Inv
  /\ pc \in Dumping => Opened
  /\ dump_slice \in Nat /\ dump_offset \in Nat
  /\ pc = "dump" => dump_slice < slice_count

\* The header of the block the dump is at: its slice is live, and the three
\* bytes are there, also where the file ends behind the first of them.
DumpReadsMemory ==
  InDump => /\ slices[dump_slice].data = "live"
            /\ \A k \in 0..2 : Byte(AtDump, k) \in 0..255

LEMMA OpenedDumps ==
  ASSUME Inv, pc = "opened"
  PROVE  Opened
BY DEF Inv, TypeOK, SlicesRead, NotStarted, Opened, Slice

\* The archive is freed once it has been dumped, or its sizes printed.
LEMMA OpenedFrees ==
  ASSUME Opened, pc' = "free",
         UNCHANGED <<archive, i, path, slices, slice_count, slice_index, slice_offset,
                     block_data, zcc_errno, ret>>
  PROVE  Inv'
<1>1. TypeOK' BY DEF Opened, TypeOK, Slice
<1>2. SlicesRead' BY DEF Opened, SlicesRead
<1>3. SliceIndexInBounds' BY DEF Opened, SliceIndexInBounds, SliceMax
<1> QED BY <1>1, <1>2, <1>3 DEF Opened, Inv, InFile, NotStarted, BlockPointerLive

LEMMA DumpingOpened ==
  ASSUME Opened, zcc_errno' \in {zcc_errno, "RLE"},
         UNCHANGED <<archive, i, path, slices, slice_count, slice_index, slice_offset,
                     block_data, ret>>
  PROVE  Opened'
BY DEF Opened

LEMMA OpenedKept ==
  ASSUME Opened,
         UNCHANGED <<archive, i, path, slices, slice_count, slice_index, slice_offset,
                     block_data, zcc_errno, ret>>
  PROVE  Opened'
BY DumpingOpened

LEMMA DumpHeader ==
  ASSUME Opened, dump_slice \in Nat, dump_slice < slice_count, dump_offset \in Nat,
         dump_offset < slices[dump_slice].size, NEW k \in 0..2
  PROVE  slices[dump_slice].data = "live" /\ Byte(AtDump, k) \in 0..255
<1>1. dump_slice \in 0..(SliceMax - 1) BY DEF Opened, SliceMax
<1>2. slices[dump_slice].size \in Nat /\ slices[dump_slice].bytes \in Seq(0..255)
  BY <1>1 DEF Opened, Slice
<1>3. /\ slices[dump_slice].size + 2 <= Len(slices[dump_slice].bytes)
      /\ slices[dump_slice].data = "live"
  BY <1>1, <1>2 DEF Opened
<1>4. dump_offset + k + 1 \in 1..Len(slices[dump_slice].bytes) BY <1>2, <1>3
<1>5. slices[dump_slice].bytes[dump_offset + k + 1] \in 0..255 BY <1>2, <1>4, ElementOf
<1>6. Byte(AtDump, k) = slices[dump_slice].bytes[dump_offset + k + 1] BY DEF Byte, AtDump
<1> QED BY <1>3, <1>5, <1>6

LEMMA InfoInvInit == InfoInit => InfoInv
<1> SUFFICES ASSUME InfoInit PROVE InfoInv
  OBVIOUS
<1>1. Inv BY InvInit DEF InfoInit
<1> QED BY <1>1 DEF InfoInit, Init, InfoInv, Dumping

LEMMA InfoInvNext == InfoInv /\ [InfoNext]_<<vars, infoVars>> => InfoInv'
<1> SUFFICES ASSUME InfoInv, [InfoNext]_<<vars, infoVars>> PROVE InfoInv'
  OBVIOUS
<1> USE DEF InfoInv
<1> DEFINE Same == UNCHANGED <<archive, i, path, slices, slice_count, slice_index,
                               slice_offset, block_data, zcc_errno, ret>>
<1>1. CASE TestIter
  <2>1. pc \notin Dumping /\ pc' \notin Dumping /\ UNCHANGED <<dump_slice, dump_offset>>
    <3>1. Next /\ UNCHANGED infoVars BY <1>1 DEF TestIter
    <3>2. pc \in {"name", "read", "opened", "walk", "free"}
      BY <3>1 DEF Next, CheckName, ReadSlice, SliceFails, Start, Walk, Finish
    <3>3. pc' \in {"read", "opened", "walk", "free", "done"}
      BY <3>1, <3>2 DEF Next, CheckName, ReadSlice, SliceFails, Start, Walk, Finish, GivesUp
    <3> QED BY <3>1, <3>2, <3>3 DEF Dumping, infoVars
  <2>2. Inv' BY <1>1, <2>1, InvNext DEF TestIter
  <2> QED BY <2>1, <2>2 DEF Dumping
<1>2. CASE ShowSizes
  <2>1. pc = "opened" /\ pc' = "free" /\ Same /\ UNCHANGED <<dump_slice, dump_offset>>
    BY <1>2 DEF ShowSizes, handleVars, iterVars, infoVars
  <2>2. Opened BY <2>1, OpenedDumps DEF Dumping
  <2>3. Inv' BY <2>1, <2>2, OpenedFrees
  <2> QED BY <2>1, <2>3 DEF Dumping
<1>3. CASE ShowInfo
  <2>1. pc = "opened" /\ pc' = "slice" /\ Same /\ UNCHANGED <<dump_slice, dump_offset>>
    BY <1>3 DEF ShowInfo, handleVars, iterVars, infoVars
  <2>2. Opened BY <2>1, OpenedDumps DEF Dumping
  <2>3. Opened' BY <2>1, <2>2, OpenedKept
  <2> QED BY <2>1, <2>3 DEF Dumping
<1>4. CASE DumpSlice
  <2>1. /\ pc = "slice" /\ pc' \in {"crash", "dump"} /\ Same /\ UNCHANGED dump_slice
        /\ dump_slice < slice_count /\ dump_offset' \in {dump_offset, 2, 4}
    BY <1>4 DEF DumpSlice, FirstBlock, handleVars, iterVars
  <2>2. Opened' BY <2>1, OpenedKept DEF Dumping
  <2> QED BY <2>1, <2>2 DEF Dumping
<1>5. CASE DumpBlock
  <2>1. /\ pc = "dump" /\ pc' = "dump" /\ UNCHANGED dump_slice
        /\ UNCHANGED <<archive, i, path, slices, slice_count, slice_index, slice_offset,
                       block_data, ret>>
        /\ zcc_errno' \in {zcc_errno, "RLE"}
        /\ dump_offset < slices[dump_slice].size
        /\ dump_offset' = dump_offset + Payload(AtDump) + 2
        /\ MethodAt(AtDump) <= PackRle
    BY <1>5 DEF DumpBlock, InDump, handleVars, iterVars
  <2>2. Opened' BY <2>1, DumpingOpened DEF Dumping
  <2>3. Byte(AtDump, 0) \in 0..255 /\ Byte(AtDump, 2) \in 0..255
    BY <2>1, DumpHeader DEF Dumping
  <2>4. Payload(AtDump) \in Nat
    <3>1. MethodAt(AtDump) \in {PackNone, PackFill, PackRle}
      BY <2>1, <2>3 DEF MethodAt, PackNone, PackFill, PackRle
    <3> QED BY <2>3, <3>1, BlockSizeAssumption DEF Payload, PackNone, PackFill, PackRle
  <2> QED BY <2>1, <2>2, <2>4 DEF Dumping
<1>6. CASE DumpUnknown
  <2>1. pc = "dump" /\ pc' = "exit" /\ Same /\ UNCHANGED <<dump_slice, dump_offset>>
    BY <1>6 DEF DumpUnknown, InDump, handleVars, iterVars
  <2>2. Opened' BY <2>1, OpenedKept DEF Dumping
  <2> QED BY <2>1, <2>2 DEF Dumping
<1>7. CASE DumpedSlice
  <2>1. /\ pc = "dump" /\ pc' = "slice" /\ Same /\ UNCHANGED dump_offset
        /\ dump_slice' = dump_slice + 1
    BY <1>7 DEF DumpedSlice, SliceAfter, handleVars, iterVars
  <2>2. Opened' BY <2>1, OpenedKept DEF Dumping
  <2> QED BY <2>1, <2>2 DEF Dumping
<1>8. CASE DumpEnds
  <2>1. pc = "slice" /\ pc' = "free" /\ Same /\ UNCHANGED <<dump_slice, dump_offset>>
    BY <1>8 DEF DumpEnds, handleVars, iterVars, infoVars
  <2>2. Inv' BY <2>1, OpenedFrees DEF Dumping
  <2> QED BY <2>1, <2>2 DEF Dumping
<1>9. CASE UNCHANGED <<vars, infoVars>>
  <2>1. Same /\ UNCHANGED <<pc, dump_slice, dump_offset>> /\ UNCHANGED vars
    BY <1>9 DEF vars, infoVars
  <2>2. CASE pc \in Dumping BY <2>1, <2>2, OpenedKept
  <2>3. CASE pc \notin Dumping BY <2>1, <2>3, InvNext
  <2> QED BY <2>2, <2>3
<1> QED BY <1>1, <1>2, <1>3, <1>4, <1>5, <1>6, <1>7, <1>8, <1>9 DEF InfoNext

\* Until the handle is freed nothing it points to has been.
Unfreed ==
  pc # "done" => /\ path # "freed"
                 /\ \A n \in DOMAIN slices : slices[n].data # "freed"

LEMMA UnfreedInit == InfoInit => Unfreed
BY DEF InfoInit, Init, Unfreed, NoSlice

LEMMA UnfreedNext == Unfreed /\ [InfoNext]_<<vars, infoVars>> => Unfreed'
<1> SUFFICES ASSUME Unfreed, [InfoNext]_<<vars, infoVars>> PROVE Unfreed'
  OBVIOUS
<1> USE DEF Unfreed
<1>1. CASE TestIter
  <2>1. CASE CheckName BY <2>1 DEF CheckName, GivesUp
  <2>2. CASE ReadSlice
    <3>1. /\ pc = "read" /\ UNCHANGED path
          /\ slices' = [slices EXCEPT ![i] =
                           [data |-> IF archive.files[i].size = 0 THEN "NULL" ELSE "live",
                            size |-> archive.files[i].size,
                            bytes |-> archive.files[i].bytes]]
      BY <2>2 DEF ReadSlice
    <3>2. \A n \in DOMAIN slices : \/ slices'[n] = slices[n]
                                   \/ slices'[n].data \in {"NULL", "live"}
      BY <3>1
    <3>3. DOMAIN slices' = DOMAIN slices BY <3>1
    <3> QED BY <3>1, <3>2, <3>3
  <2>3. CASE SliceFails BY <2>3 DEF SliceFails, GivesUp
  <2>4. CASE Start \/ Walk BY <2>4 DEF Start, Walk, handleVars
  <2>5. CASE Finish BY <2>5 DEF Finish
  <2> QED BY <1>1, <2>1, <2>2, <2>3, <2>4, <2>5 DEF TestIter, Next
<1>2. CASE ShowSizes \/ ShowInfo \/ DumpSlice \/ DumpUnknown \/ DumpedSlice \/ DumpEnds
  BY <1>2 DEF ShowSizes, ShowInfo, DumpSlice, DumpUnknown, InDump, DumpedSlice, DumpEnds,
     handleVars
<1>3. CASE DumpBlock BY <1>3 DEF DumpBlock, InDump, handleVars
<1>4. CASE UNCHANGED <<vars, infoVars>> BY <1>4 DEF vars, handleVars
<1> QED BY <1>1, <1>2, <1>3, <1>4 DEF InfoNext

\* The iterator stays in the array of slices in every use of an archive.
THEOREM InfoStaysInArray == InfoSpec => []SliceIndexInBounds
<1>1. InfoInv => SliceIndexInBounds
  BY DEF InfoInv, Inv, Opened, SliceIndexInBounds, SliceMax
<1> QED BY InfoInvInit, InfoInvNext, <1>1, PTL DEF InfoSpec

\* And it shows live blocks.
THEOREM InfoShowsLiveBlocks == InfoSpec => []BlockPointerLive
<1>1. InfoInv => BlockPointerLive
  BY DEF InfoInv, Inv, BlockPointerLive, Dumping
<1> QED BY InfoInvInit, InfoInvNext, <1>1, PTL DEF InfoSpec

\* Whichever way an archive was used, its handle is freed once.
THEOREM InfoFreesOnce == InfoSpec => NoDoubleFree
<1>1. Unfreed /\ [InfoNext]_<<vars, infoVars>>
        => [pc = "free" => /\ path # "freed"
                           /\ \A n \in DOMAIN slices : slices[n].data # "freed"]_vars
  BY DEF Unfreed
<1> QED BY UnfreedInit, UnfreedNext, <1>1, PTL DEF InfoSpec, NoDoubleFree

\* The dump reads headers only from memory that was read into, and never
\* through the null pointer of an empty slice.
THEOREM InfoReadsMemory == InfoSpec => []DumpReadsMemory
<1>1. InfoInv => DumpReadsMemory
  BY DumpHeader DEF InfoInv, DumpReadsMemory, InDump, Dumping
<1> QED BY InfoInvInit, InfoInvNext, <1>1, PTL DEF InfoSpec

-------------------------------------------------------------------------------
(* How the blocks lie in the files of an archive.                          *)

LEMMA PlacedBlock ==
  ASSUME NEW a \in Archives, NEW p \in Placed(a)
  PROVE  /\ FirstOffset(p[1]) <= p[2] /\ p[2] < a.files[p[1]].size
         /\ FileMethod(a, p) < 3 /\ FileEnd(a, p) < a.files[p[1]].size
              => <<p[1], FileEnd(a, p)>> \in Placed(a)
BY PlacedAssumption DEF BlocksPlaced

LEMMA PlacedBehind ==
  ASSUME NEW a \in Archives, NEW p \in Placed(a), NEW q \in Placed(a),
         FileMethod(a, p) < 3, q[1] = p[1], q[2] > p[2]
  PROVE  q[2] >= FileEnd(a, p)
<1>1. \A o \in Placed(a) : FileMethod(a, o) < 3 =>
        \A r \in Placed(a) : r[1] = o[1] /\ r[2] > o[2] => r[2] >= FileEnd(a, o)
  <2>1. BlocksPlaced(a) BY PlacedAssumption
  <2> QED BY ONLY <2>1, ZenonT(30) DEF BlocksPlaced
<1> QED BY <1>1

LEMMA StartFacts ==
  ASSUME NEW a \in Archives, NEW k \in DOMAIN a.starts
  PROVE  /\ Len(a.starts) \in Nat /\ DOMAIN a.starts = 1..Len(a.starts)
         /\ a.starts[k] \in SliceFiles \X Nat
         /\ FirstOffset(a.starts[k][1]) <= a.starts[k][2]
         /\ a.starts[k][2] < a.files[a.starts[k][1]].size
<1>1. BlocksPlaced(a) BY PlacedAssumption
<1>2. a.starts \in Seq(SliceFiles \X Nat) BY <1>1 DEF BlocksPlaced
<1>3. a.starts[k] \in Placed(a) BY DEF Placed
<1>4. a.starts[k] \in SliceFiles \X Nat BY <1>2
<1>5. Len(a.starts) \in Nat /\ DOMAIN a.starts = 1..Len(a.starts) BY <1>2
<1> QED BY <1>3, <1>4, <1>5, PlacedBlock

LEMMA StartsOrdered ==
  ASSUME NEW a \in Archives, NEW j \in DOMAIN a.starts, NEW k \in DOMAIN a.starts, j < k
  PROVE  Before(a.starts[j], a.starts[k])
BY PlacedAssumption DEF BlocksPlaced

LEMMA FileBytes ==
  ASSUME NEW a \in Archives, NEW n \in SliceFiles, NEW o \in Nat, o < a.files[n].size
  PROVE  /\ a.files[n].bytes[o + 1] \in 0..255
         /\ a.files[n].bytes[o + 2] \in 0..255
         /\ a.files[n].bytes[o + 3] \in 0..255
<1>1. /\ a.files[n].size \in Int /\ a.files[n].bytes \in Seq(0..255)
      /\ a.files[n].size + 2 <= Len(a.files[n].bytes)
  BY ArchivesAssumption
<1> DEFINE bytes == a.files[n].bytes
<1>2. o + 1 \in 1..Len(bytes) /\ o + 2 \in 1..Len(bytes) /\ o + 3 \in 1..Len(bytes)
  BY <1>1
<1>3. bytes \in Seq(0..255) BY <1>1
<1> HIDE DEF bytes
<1>4. bytes[o + 1] \in 0..255 /\ bytes[o + 2] \in 0..255 /\ bytes[o + 3] \in 0..255
  BY <1>2, <1>3, ElementOf
<1> QED BY <1>4 DEF bytes

LEMMA FileEndFacts ==
  ASSUME NEW a \in Archives, NEW k \in DOMAIN a.starts
  PROVE  FileEnd(a, a.starts[k]) \in Nat /\ FileEnd(a, a.starts[k]) > a.starts[k][2]
<1> DEFINE p == a.starts[k]
<1>1. p[1] \in SliceFiles /\ p[2] \in Nat /\ p[2] < a.files[p[1]].size BY StartFacts
<1> HIDE DEF p
<1>2. a.files[p[1]].bytes[p[2] + 3] \in 0..255 BY <1>1, FileBytes
<1>3. FileEnd(a, p) \in Nat /\ FileEnd(a, p) > p[2]
  <2>1. \/ FileEnd(a, p) = p[2] + (BlockSize + 2)
        \/ FileEnd(a, p) = p[2] + 3
        \/ FileEnd(a, p) = p[2] + (a.files[p[1]].bytes[p[2] + 3] + 4)
    BY DEF FileEnd
  <2>2. CASE FileEnd(a, p) = p[2] + (BlockSize + 2) BY <1>1, <2>2, BlockSizeAssumption
  <2>3. CASE FileEnd(a, p) = p[2] + 3 BY <1>1, <2>3
  <2>4. CASE FileEnd(a, p) = p[2] + (a.files[p[1]].bytes[p[2] + 3] + 4)
    <3>1. PICK x \in 0..255 : x = a.files[p[1]].bytes[p[2] + 3] BY <1>2
    <3>2. FileEnd(a, p) = p[2] + (x + 4) BY <2>4, <3>1
    <3> QED BY <1>1, <3>2
  <2> QED BY <2>1, <2>2, <2>3, <2>4
<1> QED BY <1>3 DEF p

\* The next block in the slice.
LEMMA NextBlock ==
  ASSUME NEW a \in Archives, NEW j \in DOMAIN a.starts, FileMethod(a, a.starts[j]) < 3,
         FileEnd(a, a.starts[j]) < a.files[a.starts[j][1]].size
  PROVE  /\ j + 1 \in DOMAIN a.starts
         /\ a.starts[j + 1] = <<a.starts[j][1], FileEnd(a, a.starts[j])>>
<1> DEFINE S == a.starts
           e == FileEnd(a, S[j])
<1>1. /\ Len(S) \in Nat /\ DOMAIN S = 1..Len(S)
      /\ S[j][1] \in Int /\ S[j][2] \in Nat /\ e \in Nat /\ e > S[j][2]
  <2>1. Len(S) \in Nat /\ DOMAIN S = 1..Len(S) /\ S[j] \in SliceFiles \X Nat BY StartFacts
  <2> QED BY <2>1, FileEndFacts DEF SliceFiles, SliceMax
<1>2. <<S[j][1], e>> \in Placed(a)
  <2>1. S[j] \in Placed(a) BY DEF Placed
  <2> QED BY <2>1, PlacedBlock
<1>3. PICK k \in DOMAIN S : S[k] = <<S[j][1], e>> BY <1>2 DEF Placed
<1>4. S[k][1] = S[j][1] /\ S[k][2] = e BY <1>3
<1>5. j < k
  <2>1. k # j BY <1>1, <1>4
  <2>2. ~(k < j)
    <3> SUFFICES ASSUME k < j PROVE FALSE
      OBVIOUS
    <3>1. Before(S[k], S[j]) BY StartsOrdered
    <3> QED BY <3>1, <1>1, <1>4 DEF Before
  <2> QED BY <1>1, <2>1, <2>2
<1>6. ~(j + 1 < k)
  <2> SUFFICES ASSUME j + 1 < k PROVE FALSE
    OBVIOUS
  <2>1. j + 1 \in DOMAIN S BY <1>1
  <2>2. Before(S[j], S[j + 1]) /\ Before(S[j + 1], S[k])
    <3>1. j < j + 1 BY <1>1
    <3> QED BY <2>1, <3>1, StartsOrdered
  <2>3. S[j + 1][1] \in Int /\ S[j + 1][2] \in Nat
    BY <2>1, StartFacts DEF SliceFiles, SliceMax
  <2>4. S[j + 1][1] = S[j][1] /\ S[j + 1][2] > S[j][2] /\ S[j + 1][2] < e
    BY <1>1, <1>4, <2>2, <2>3 DEF Before
  <2>5. S[j] \in Placed(a) /\ S[j + 1] \in Placed(a) BY <2>1 DEF Placed
  <2>6. S[j + 1][2] >= e BY <2>4, <2>5, PlacedBehind
  <2> QED BY <1>1, <2>3, <2>4, <2>6
<1>7. k = j + 1 BY <1>1, <1>5, <1>6
<1> QED BY <1>3, <1>7

\* The last block of a slice.
LEMMA LastBlock ==
  ASSUME NEW a \in Archives, NEW j \in DOMAIN a.starts, FileMethod(a, a.starts[j]) < 3,
         FileEnd(a, a.starts[j]) >= a.files[a.starts[j][1]].size
  PROVE  \A k \in DOMAIN a.starts : a.starts[k][1] <= a.starts[j][1] <=> k <= j
<1> DEFINE S == a.starts
<1> SUFFICES ASSUME NEW k \in DOMAIN S PROVE S[k][1] <= S[j][1] <=> k <= j
  OBVIOUS
<1>1. /\ Len(S) \in Nat /\ DOMAIN S = 1..Len(S)
      /\ S[j][1] \in SliceFiles /\ S[j][2] \in Nat /\ S[k][1] \in SliceFiles /\ S[k][2] \in Nat
      /\ S[k][2] < a.files[S[k][1]].size
      /\ FileEnd(a, S[j]) \in Nat
  BY StartFacts, FileEndFacts
<1>2. a.files[S[j][1]].size \in Int BY <1>1, ArchivesAssumption
<1>3. CASE k < j
  <2>1. Before(S[k], S[j]) BY <1>3, StartsOrdered
  <2> QED BY <1>1, <1>3, <2>1 DEF Before, SliceFiles, SliceMax
<1>4. CASE k = j BY <1>1, <1>4 DEF SliceFiles, SliceMax
<1>5. CASE j < k
  <2> SUFFICES ASSUME S[k][1] <= S[j][1] PROVE FALSE
    BY <1>1, <1>5
  <2>1. Before(S[j], S[k]) BY <1>5, StartsOrdered
  <2>2. S[k][1] = S[j][1] /\ S[k][2] > S[j][2]
    <3> DEFINE p == S[j]
               q == S[k]
    <3>1. p[1] \in Int /\ p[2] \in Int /\ q[1] \in Int /\ q[2] \in Int /\ q[1] <= p[1]
      BY <1>1 DEF SliceFiles, SliceMax
    <3>2. Before(p, q) BY <2>1
    <3> HIDE DEF p, q
    <3>3. q[1] = p[1] /\ q[2] > p[2] BY <3>1, <3>2 DEF Before
    <3> QED BY <3>3 DEF p, q
  <2>3. S[j] \in Placed(a) /\ S[k] \in Placed(a) BY DEF Placed
  <2>4. S[k][2] >= FileEnd(a, S[j]) BY <2>2, <2>3, PlacedBehind
  <2> QED BY <1>1, <1>2, <2>2, <2>4
<1> QED BY <1>1, <1>3, <1>4, <1>5

\* The first block of a slice that has one.
LEMMA FirstBlockOfSlice ==
  ASSUME NEW a \in Archives, NEW n \in SliceFiles, FirstOffset(n) < a.files[n].size
  PROVE  \E k \in DOMAIN a.starts :
           /\ a.starts[k] = <<n, FirstOffset(n)>>
           /\ \A m \in DOMAIN a.starts : m < k <=> a.starts[m][1] < n
<1> DEFINE S == a.starts
<1>1. <<n, FirstOffset(n)>> \in Placed(a) BY PlacedAssumption DEF BlocksPlaced
<1>2. PICK k \in DOMAIN S : S[k] = <<n, FirstOffset(n)>> BY <1>1 DEF Placed
<1>3. S[k][1] = n /\ S[k][2] = FirstOffset(n) BY <1>2
<1>4. ASSUME NEW m \in DOMAIN S PROVE m < k <=> S[m][1] < n
  <2>1. /\ Len(S) \in Nat /\ DOMAIN S = 1..Len(S)
        /\ S[m][1] \in SliceFiles /\ S[m][2] \in Nat /\ FirstOffset(S[m][1]) <= S[m][2]
    BY StartFacts
  <2>2. CASE m < k
    <3>1. Before(S[m], S[k]) BY <2>2, StartsOrdered
    <3>2. ~(S[m][1] = n /\ S[m][2] < FirstOffset(n)) BY <2>1 DEF FirstOffset
    <3> QED BY <1>3, <2>2, <3>1, <3>2 DEF Before
  <2>3. CASE m = k BY <1>3, <2>1, <2>3 DEF SliceFiles, SliceMax
  <2>4. CASE k < m
    <3>1. Before(S[k], S[m]) BY <2>4, StartsOrdered
    <3> QED BY <1>3, <2>1, <2>4, <3>1 DEF Before, SliceFiles, SliceMax
  <2> QED BY <2>1, <2>2, <2>3, <2>4
<1> QED BY <1>2, <1>4

-------------------------------------------------------------------------------
(* The iterator goes from block to block.                                  *)

SliceLoaded(n) ==
  /\ slices[n].size = archive.files[n].size
  /\ slices[n].bytes = archive.files[n].bytes

Loaded ==
  /\ slice_count \in {4, 5}
  /\ \A n \in 0..(slice_count - 1) : SliceLoaded(n)
  /\ \A n \in slice_count..(SliceMax - 1) : slices[n].size = 0

\* The iterator is at the block j, or behind it where that is the last one of
\* its slice.
AtBlock(j) ==
  /\ j \in DOMAIN Starts
  /\ block_data = Starts[j]
  /\ slice_index = Starts[j][1] /\ slice_index < slice_count
  /\ \/ slice_offset = Starts[j][2]
     \/ /\ FileMethod(archive, Starts[j]) < 3
        /\ slice_offset = FileEnd(archive, Starts[j])
        /\ slice_offset >= archive.files[slice_index].size

AtSomeBlock == \E j \in DOMAIN Starts : AtBlock(j)

\* In the first case the block is shown for the first time, in the second again.
FirstTime(j) == AtBlock(j) /\ InSlice(slice_index, slice_offset)
Again(j) == AtBlock(j) /\ ~InSlice(slice_index, slice_offset)

AllVisited ==
  (\A n \in 0..(slice_count - 1) : Full(n))
    => \A k \in DOMAIN Starts :
         Starts[k][1] < slice_count => \E m \in k..Len(Starts) : block_data = Starts[m]

\* The iterator and the file agree on a block that was loaded.
LEMMA LoadedBlock ==
  ASSUME archive \in Archives, Loaded, NEW k \in DOMAIN Starts, Starts[k][1] < slice_count
  PROVE  /\ InSlice(Starts[k][1], Starts[k][2])
         /\ SizeOf(Starts[k][1]) = archive.files[Starts[k][1]].size
         /\ Starts[k][2] \in Nat /\ Byte(Starts[k], 0) \in 0..255
         /\ MethodAt(Starts[k]) = FileMethod(archive, Starts[k])
         /\ MethodAt(Starts[k]) <= PackRle <=> FileMethod(archive, Starts[k]) < 3
         /\ Starts[k][2] + Width(Starts[k]) = FileEnd(archive, Starts[k])
<1> DEFINE p == Starts[k]
<1>1. /\ p[1] \in SliceFiles /\ p[2] \in Nat
      /\ p[2] < archive.files[p[1]].size
  BY StartFacts DEF Starts
<1>2. SliceLoaded(p[1]) /\ p[1] < SliceMax
  BY <1>1 DEF Loaded, SliceFiles, SliceMax
<1> HIDE DEF p
<1>3. SizeOf(p[1]) = archive.files[p[1]].size BY <1>2 DEF SizeOf, SliceLoaded
<1>4. /\ Byte(p, 0) = archive.files[p[1]].bytes[p[2] + 1]
      /\ Byte(p, 2) = archive.files[p[1]].bytes[p[2] + 3]
  BY <1>1, <1>2 DEF Byte, SliceLoaded
<1>5. Byte(p, 0) \in 0..255 /\ Byte(p, 2) \in 0..255 BY <1>1, <1>4, FileBytes
<1>6. MethodAt(p) = FileMethod(archive, p) BY <1>4 DEF MethodAt, FileMethod
<1>7. MethodAt(p) \in Int BY <1>5 DEF MethodAt
<1>8. p[2] + Width(p) = FileEnd(archive, p)
  BY <1>1, <1>4, <1>5, <1>6, BlockSizeAssumption DEF Width, FileEnd, PackNone, PackFill
<1> QED BY <1>1, <1>3, <1>5, <1>6, <1>7, <1>8 DEF p, InSlice, PackRle

LEMMA IterInitFinds ==
  ASSUME archive \in Archives, Loaded, block_data = Null, IterInit,
         UNCHANGED <<archive, slices, slice_count>>
  PROVE  /\ ret'.result => AtSomeBlock' /\ FirstTime(1)'
         /\ ~ret'.result => block_data' = Null
         /\ block_data' # block_data => Follows(block_data, block_data')
<1>0. /\ slice_index' = 0 /\ slice_offset' = 4
      /\ block_data' = (IF InSlice(0, 4) THEN <<0, 4>> ELSE Null)
      /\ ret'.result = InSlice(0, 4)
  BY DEF IterInit, Returns
<1> SUFFICES ASSUME InSlice(0, 4)
             PROVE  AtSomeBlock' /\ FirstTime(1)' /\ Follows(block_data, block_data')
  BY <1>0
<1>1. 0 \in SliceFiles /\ FirstOffset(0) = 4 BY DEF SliceFiles, SliceMax, FirstOffset
<1>2. FirstOffset(0) < archive.files[0].size
  BY <1>1 DEF InSlice, SizeOf, SliceMax, Loaded, SliceLoaded
<1>3. PICK k \in DOMAIN Starts : /\ Starts[k] = <<0, 4>>
                                 /\ \A m \in DOMAIN Starts : m < k <=> Starts[m][1] < 0
  BY <1>1, <1>2, FirstBlockOfSlice DEF Starts
<1>4. k = 1
  <2>1. Len(Starts) \in Nat /\ DOMAIN Starts = 1..Len(Starts) BY StartFacts DEF Starts
  <2>2. 1 \in DOMAIN Starts BY <2>1
  <2>3. Starts[1][1] \in SliceFiles BY <2>2, StartFacts DEF Starts
  <2>4. ~(1 < k) BY <1>3, <2>2, <2>3 DEF SliceFiles, SliceMax
  <2> QED BY <2>1, <2>4
<1>5. AtBlock(k)'
  BY <1>0, <1>3 DEF AtBlock, Starts, Loaded
<1>6. k \in DOMAIN Starts' BY DEF Starts
<1>7. AtSomeBlock' BY <1>5, <1>6 DEF AtSomeBlock
<1>8. Follows(block_data, block_data') BY <1>0, <1>3, <1>4 DEF Follows
<1>9. FirstTime(1)' BY <1>0, <1>4, <1>5 DEF FirstTime, InSlice, SizeOf
<1> QED BY <1>7, <1>8, <1>9

\* On a block: the next one of the slice, or the same one still.
LEMMA NextInSliceFinds ==
  ASSUME archive \in Archives, Loaded, NEW j \in DOMAIN Starts, AtBlock(j), NextInSlice,
         UNCHANGED <<archive, slices, slice_count>>
  PROVE  /\ ret'.result => AtSomeBlock' /\ (FirstTime(j + 1)' \/ Again(j)')
         /\ block_data' # block_data => Follows(block_data, block_data')
         /\ ~ret'.result => /\ zcc_errno' = "ZC_INVALID_PACK_METHOD"
                            /\ MethodAt(Starts[j]) > PackRle
<1> DEFINE p == Starts[j]
           e == FileEnd(archive, p)
<1>0. Starts' = Starts BY DEF Starts
<1>1. /\ block_data = p /\ slice_index = p[1] /\ slice_index < slice_count
      /\ slice_offset = p[2] \/ slice_offset >= archive.files[p[1]].size
  BY DEF AtBlock
<1>2. /\ SizeOf(p[1]) = archive.files[p[1]].size
      /\ p[2] \in Nat
      /\ MethodAt(p) <= PackRle <=> FileMethod(archive, p) < 3
      /\ Byte(p, 0) \in 0..255
      /\ p[2] + Width(p) = e
  BY <1>1, LoadedBlock
<1>3. p[1] \in SliceFiles /\ p \in SliceFiles \X Nat
      /\ Len(Starts) \in Nat /\ DOMAIN Starts = 1..Len(Starts)
  BY StartFacts DEF Starts
<1>4. archive.files[p[1]].size \in Int BY <1>3, ArchivesAssumption
<1>5. slice_offset = p[2]
  <2>1. slice_offset < archive.files[p[1]].size
    BY <1>1, <1>2 DEF NextInSlice, InSlice
  <2>2. slice_offset = p[2] \/ (FileMethod(archive, p) < 3 /\ slice_offset = e)
    BY DEF AtBlock
  <2>3. e \in Nat BY FileEndFacts DEF Starts
  <2> QED BY <1>1, <1>2, <1>4, <2>1, <2>2, <2>3
<1>6. Here = p BY <1>1, <1>3, <1>5 DEF Here
<1>7. MethodAt(p) \in Int
  <2>1. Byte(p, 0) \in 0..255 BY <1>2
  <2> QED BY <2>1 DEF MethodAt
<1>8. CASE MethodAt(p) > PackRle
  <2>1. ~(MethodAt(p) <= PackRle) BY <1>7, <1>8 DEF PackRle
  <2> QED BY <1>1, <1>6, <1>8, <2>1 DEF NextInSlice, Returns
<1>9. CASE MethodAt(p) <= PackRle
  <2>1. /\ slice_offset' = slice_offset + Width(p) /\ slice_index' = slice_index
        /\ block_data' = (IF InSlice(slice_index, slice_offset')
                          THEN <<slice_index, slice_offset'>> ELSE p)
        /\ ret'.result = TRUE
    <3>1. ~(MethodAt(p) > PackRle) BY <1>7, <1>9 DEF PackRle
    <3> QED BY <1>6, <3>1 DEF NextInSlice, Returns
  <2>2. slice_offset' = e /\ FileMethod(archive, p) < 3
    <3>1. slice_offset + Width(p) = p[2] + Width(p) BY <1>5
    <3>2. slice_offset' = e BY <1>2, <2>1, <3>1
    <3> QED BY <1>2, <1>9, <3>2
  <2>3. e \in Nat BY FileEndFacts DEF Starts
  <2>4. CASE InSlice(slice_index, e)
    <3>1. e < archive.files[p[1]].size BY <1>1, <1>2, <2>4 DEF InSlice
    <3>2. j + 1 \in DOMAIN Starts /\ Starts[j + 1] = <<p[1], e>>
      BY <2>2, <3>1, NextBlock DEF Starts
    <3>3. block_data' = Starts[j + 1] BY <1>1, <2>1, <2>2, <2>4, <3>2
    <3>4. AtBlock(j + 1)' BY <1>0, <1>1, <2>1, <2>2, <3>2, <3>3 DEF AtBlock
    <3>5. AtSomeBlock' BY <1>0, <3>2, <3>4 DEF AtSomeBlock
    <3>6. Follows(block_data, block_data')
      <4>1. j + 1 # 1 /\ (j + 1) - 1 = j BY <1>3
      <4> QED BY <1>1, <3>2, <3>3, <4>1 DEF Follows
    <3>7. FirstTime(j + 1)' BY <2>1, <2>2, <2>4, <3>4 DEF FirstTime, InSlice, SizeOf
    <3> QED BY <2>1, <3>5, <3>6, <3>7
  <2>5. CASE ~InSlice(slice_index, e)
    <3>1. e >= archive.files[p[1]].size BY <1>1, <1>2, <1>4, <2>3, <2>5 DEF InSlice
    <3>2. block_data' = p BY <2>1, <2>2, <2>5
    <3>3. AtBlock(j)' BY <1>0, <1>1, <2>1, <2>2, <3>1, <3>2 DEF AtBlock
    <3>4. Again(j)' BY <2>1, <2>2, <2>5, <3>3 DEF Again, InSlice, SizeOf
    <3> QED BY <1>0, <1>1, <2>1, <3>2, <3>3, <3>4 DEF AtSomeBlock
  <2> QED BY <2>4, <2>5
<1> QED BY <1>7, <1>8, <1>9 DEF PackRle

\* Behind the last block of a slice: the first one of the slice that follows,
\* and none only where there is no such block.
LEMMA LeaveSliceFinds ==
  ASSUME archive \in Archives, Loaded, NEW j \in DOMAIN Starts, AtBlock(j), LeaveSlice,
         UNCHANGED <<archive, slices, slice_count>>
  PROVE  /\ ret'.result => AtSomeBlock' /\ FirstTime(j + 1)'
         /\ block_data' # block_data => Follows(block_data, block_data')
         /\ ~ret'.result => AllVisited' /\ block_data' = block_data /\ EndsAfter(j)
<1> DEFINE p == Starts[j]
           n == slice_index + 1
<1>0. Starts' = Starts BY DEF Starts
<1>1. block_data = p /\ slice_index = p[1] /\ slice_index < slice_count BY DEF AtBlock
<1>2. InSlice(p[1], p[2]) /\ SizeOf(p[1]) = archive.files[p[1]].size BY <1>1, LoadedBlock
<1>3. /\ p[1] \in 0..4 /\ Len(Starts) \in Nat /\ DOMAIN Starts = 1..Len(Starts)
      /\ slice_count \in {4, 5}
  BY StartFacts DEF Starts, SliceFiles, SliceMax, Loaded
<1>4. /\ FileMethod(archive, p) < 3 /\ FileEnd(archive, p) >= archive.files[p[1]].size
  BY <1>1, <1>2 DEF AtBlock, LeaveSlice
<1>5. \A k \in DOMAIN Starts : Starts[k][1] <= slice_index <=> k <= j
  BY <1>1, <1>4, LastBlock DEF Starts
<1>6. n \in 1..5 /\ n <= slice_count /\ slice_index \in 0..4 BY <1>1, <1>3
<1>7. /\ slice_index' = n /\ slice_offset' = 2
      /\ block_data' = (IF InSlice(n, 2) THEN <<n, 2>> ELSE block_data)
      /\ ret'.result = InSlice(n, 2)
  <2>1. ~PastArchive(slice_index) BY <1>3, <1>6 DEF PastArchive
  <2> QED BY <2>1 DEF LeaveSlice, Returns, Following, Found
<1>8. CASE InSlice(n, 2)
  <2>1. n < slice_count
    <3> SUFFICES ASSUME n = slice_count PROVE FALSE
      BY <1>3, <1>6
    <3>1. n \in slice_count..(SliceMax - 1) BY <1>3, <1>6 DEF SliceMax
    <3>2. slices[n].size = 0 BY <3>1 DEF Loaded
    <3>3. SizeOf(n) = 0 BY <3>2 DEF SizeOf
    <3> QED BY <1>8, <3>3 DEF InSlice
  <2>2. n \in SliceFiles /\ FirstOffset(n) = 2 /\ n < SliceMax
    BY <1>3, <1>6, <2>1 DEF SliceFiles, SliceMax, FirstOffset
  <2>3. n \in 0..(slice_count - 1) BY <1>3, <1>6, <2>1
  <2>4. FirstOffset(n) < archive.files[n].size
    BY <1>8, <2>2, <2>3 DEF InSlice, SizeOf, Loaded, SliceLoaded
  <2>5. PICK k \in DOMAIN Starts : /\ Starts[k] = <<n, 2>>
                                   /\ \A m \in DOMAIN Starts : m < k <=> Starts[m][1] < n
    BY <2>2, <2>4, FirstBlockOfSlice DEF Starts
  <2>6. \A m \in DOMAIN Starts : m < k <=> m <= j
    <3> SUFFICES ASSUME NEW m \in DOMAIN Starts PROVE m < k <=> m <= j
      OBVIOUS
    <3>1. Starts[m][1] \in Int BY StartFacts DEF Starts, SliceFiles, SliceMax
    <3>2. Starts[m][1] < n <=> Starts[m][1] <= slice_index BY <1>6, <3>1
    <3> QED BY <1>5, <2>5, <3>2
  <2>7. k = j + 1
    <3>1. j < k BY <1>3, <2>6
    <3>2. ~(j + 1 < k)
      <4>1. j + 1 < k => j + 1 \in DOMAIN Starts BY <1>3
      <4> QED BY <1>3, <2>6, <4>1
    <3> QED BY <1>3, <3>1, <3>2
  <2>8. block_data' = Starts[k] /\ slice_index' = Starts[k][1] /\ slice_offset' = Starts[k][2]
    BY <1>7, <1>8, <2>5
  <2>9. AtBlock(k)' BY <1>0, <1>7, <2>1, <2>8 DEF AtBlock
  <2>10. AtSomeBlock' BY <1>0, <2>9 DEF AtSomeBlock
  <2>11. Follows(block_data, block_data')
    <3>1. k # 1 /\ k - 1 = j BY <1>3, <2>7
    <3> QED BY <1>1, <2>8, <3>1 DEF Follows
  <2>12. FirstTime(j + 1)'
    <3>1. InSlice(slice_index, slice_offset)' BY <1>7, <1>8 DEF InSlice, SizeOf
    <3> QED BY <2>7, <2>9, <3>1 DEF FirstTime
  <2> QED BY <1>7, <1>8, <2>10, <2>11, <2>12
<1>9. CASE ~InSlice(n, 2)
  <2>1. block_data' = Starts[j] BY <1>1, <1>7, <1>9
  <2>2. AllVisited'
    <3>1. CASE n < slice_count
      <4>1. n \in 0..(slice_count - 1) /\ n # 0 /\ n < SliceMax
        BY <1>3, <1>6, <3>1 DEF SliceMax
      <4>2. slices[n].size \in Int
        <5>1. n \in SliceFiles BY <1>3, <1>6, <3>1 DEF SliceFiles, SliceMax
        <5> QED BY <4>1, <5>1, ArchivesAssumption DEF Loaded, SliceLoaded
      <4>3. PICK x \in 0..(slice_count - 1) : x = n BY <4>1
      <4>4. ~(slices[x].size > 2) /\ x # 0 /\ x < SliceMax
        BY <1>9, <4>1, <4>2, <4>3 DEF InSlice, SizeOf
      <4>5. ~Full(x)' BY <4>4 DEF Full, SizeOf
      <4> QED BY <4>3, <4>5 DEF AllVisited
    <3>2. CASE n = slice_count
      <4> SUFFICES ASSUME NEW k \in DOMAIN Starts, Starts[k][1] < slice_count
                   PROVE  \E m \in k..Len(Starts) : block_data' = Starts[m]
        BY <1>0 DEF AllVisited
      <4>1. Starts[k][1] \in Int BY StartFacts DEF Starts, SliceFiles, SliceMax
      <4>2. Starts[k][1] <= slice_index BY <1>6, <3>2, <4>1
      <4>3. k <= j BY <1>5, <4>2
      <4>4. j \in k..Len(Starts) BY <1>3, <4>3
      <4> QED BY <2>1, <4>4
    <3> QED BY <1>3, <1>6, <3>1, <3>2
  <2>3. EndsAfter(j)
    <3>1. \A k \in DOMAIN Starts : k <= j <=> Starts[k][1] < n
      <4> SUFFICES ASSUME NEW k \in DOMAIN Starts PROVE k <= j <=> Starts[k][1] < n
        OBVIOUS
      <4>1. Starts[k][1] \in Int BY StartFacts DEF Starts, SliceFiles, SliceMax
      <4> QED BY <1>5, <1>6, <4>1
    <3>2. n >= 4 \/ archive.files[n].size <= FirstOffset(n)
      <4>1. CASE n >= 4 BY <4>1
      <4>2. CASE n < 4
        <5>1. n \in SliceFiles /\ n \in 0..(slice_count - 1) /\ n < SliceMax /\ n # 0
          BY <1>3, <1>6, <4>2 DEF SliceFiles, SliceMax
        <5>2. SizeOf(n) = archive.files[n].size BY <5>1 DEF Loaded, SliceLoaded, SizeOf
        <5>3. archive.files[n].size \in Int BY <5>1, ArchivesAssumption
        <5> QED BY <1>9, <5>1, <5>2, <5>3 DEF InSlice, FirstOffset
      <4> QED BY <1>6, <4>1, <4>2
    <3> QED BY <1>6, <3>1, <3>2 DEF EndsAfter
  <2> QED BY <1>7, <1>9, <2>1, <2>2, <2>3, <1>1
<1> QED BY <1>8, <1>9

\* What the handle holds on the way: the slices up to the one being read, then
\* those that were there; and no block is shown before the walk.
ReadSoFar ==
  /\ pc \in {"name", "read"} => /\ \A n \in 0..(i - 1) : SliceLoaded(n)
                                /\ \A n \in i..(SliceMax - 1) : slices[n].size = 0
  /\ pc = "name" => i = 0
  /\ pc \in {"opened", "walk", "free"} \cup Dumping => Loaded
  /\ pc \in {"name", "read", "opened"} => block_data = Null

\* And what the iterator has found.
FoundSoFar ==
  /\ pc = "walk" => AtSomeBlock
  /\ pc \in {"opened", "slice", "dump"} => ret.op = "read"
  /\ pc = "free" /\ ret.op = "iter_next" /\ zcc_errno # "ZC_INVALID_PACK_METHOD" => AllVisited

OrderInv == ReadSoFar /\ FoundSoFar

OneAfterAnother == block_data' # block_data => Follows(block_data, block_data')

LEMMA OrderInit == InfoInit => OrderInv
<1> SUFFICES ASSUME InfoInit PROVE OrderInv
  OBVIOUS
<1>1. /\ pc = "name" /\ i = 0 /\ block_data = Null
      /\ slices = [n \in 0..(SliceMax - 1) |-> NoSlice]
  BY DEF InfoInit, Init
<1>2. \A n \in 0..(SliceMax - 1) : slices[n].size = 0 BY <1>1, EmptySlice
<1> QED BY <1>1, <1>2 DEF OrderInv, ReadSoFar, FoundSoFar, Dumping

LEMMA CheckNameOrders == ASSUME OrderInv, CheckName PROVE OrderInv'
<1>1. /\ pc = "name" /\ pc' \in {"read", "done"}
      /\ UNCHANGED <<archive, i, slices, slice_count, block_data>>
  BY DEF CheckName, GivesUp, iterVars
<1> QED
  BY <1>1 DEF OrderInv, ReadSoFar, FoundSoFar, SliceLoaded, Dumping

LEMMA ReadSliceOrders == ASSUME Inv, OrderInv, ReadSlice PROVE OrderInv'
<1> DEFINE f == archive.files[i]
           new == [data |-> IF f.size = 0 THEN "NULL" ELSE "live",
                   size |-> f.size, bytes |-> f.bytes]
<1>1. /\ i \in 0..4 /\ pc = "read" /\ UNCHANGED <<archive, block_data>>
      /\ slices' = [slices EXCEPT ![i] = new]
  BY DEF ReadSlice, Inv, TypeOK, SliceFiles, SliceMax, iterVars
<1>2. \A n \in 0..5 : slices'[n] = IF n = i THEN new ELSE slices[n]
  <2>1. slices \in [0..5 -> Slice] BY DEF Inv, TypeOK, Slice, SliceMax
  <2> QED BY <1>1, <2>1
<1>3. /\ \A n \in 0..i : SliceLoaded(n)'
      /\ \A n \in (i + 1)..5 : slices'[n].size = 0
  <2>1. new.size = f.size /\ new.bytes = f.bytes OBVIOUS
  <2>2. ASSUME NEW n \in 0..i PROVE SliceLoaded(n)'
    <3>1. CASE n = i BY <1>1, <1>2, <2>1, <3>1 DEF SliceLoaded
    <3>2. CASE n # i
      <4>1. n \in 0..(i - 1) /\ n \in 0..5 BY <1>1, <3>2
      <4> QED BY <1>1, <1>2, <3>2, <4>1 DEF SliceLoaded, OrderInv, ReadSoFar
    <3> QED BY <3>1, <3>2
  <2>3. ASSUME NEW n \in (i + 1)..5 PROVE slices'[n].size = 0
    <3>1. n \in i..5 /\ n # i /\ n \in 0..5 BY <1>1
    <3> QED BY <1>1, <1>2, <3>1 DEF OrderInv, ReadSoFar, SliceMax
  <2> QED BY <2>2, <2>3
<1>4. CASE i < 4
  <2>1. i' = i + 1 /\ pc' = "read"
    <3>1. i # SliceMax - 2 BY <1>1, <1>4 DEF SliceMax
    <3> QED BY <1>1, <3>1 DEF ReadSlice
  <2>2. i' - 1 = i BY <1>1, <2>1
  <2>3. /\ \A n \in 0..(i' - 1) : SliceLoaded(n)'
        /\ \A n \in i'..5 : slices'[n].size = 0
    BY <1>3, <2>1, <2>2
  <2> QED
    BY <1>1, <2>1, <2>3 DEF OrderInv, ReadSoFar, FoundSoFar, Dumping, SliceMax
<1>5. CASE i = 4
  <2>1. slice_count' = 5 /\ pc' = "opened" /\ ret' = [op |-> "read", result |-> TRUE]
    BY <1>1, <1>5 DEF ReadSlice, SliceMax, Returns
  <2>2. Loaded' BY <1>3, <1>5, <2>1 DEF Loaded, SliceMax
  <2> QED BY <1>1, <2>1, <2>2 DEF OrderInv, ReadSoFar, FoundSoFar, Dumping
<1> QED BY <1>1, <1>4, <1>5

LEMMA SliceFailsOrders == ASSUME Inv, OrderInv, SliceFails PROVE OrderInv'
<1>1. /\ i \in 0..4 /\ pc = "read" /\ UNCHANGED <<archive, slices, block_data>>
  BY DEF SliceFails, Inv, TypeOK, SliceFiles, SliceMax, iterVars
<1>2. CASE i < 4
  <2>1. pc' = "done"
    <3>1. i # SliceMax - 2 BY <1>1, <1>2 DEF SliceMax
    <3> QED BY <1>1, <3>1 DEF SliceFails, GivesUp
  <2> QED BY <2>1 DEF OrderInv, ReadSoFar, FoundSoFar, Dumping
<1>3. CASE i = 4
  <2>1. slice_count' = 4 /\ pc' = "opened" /\ ret' = [op |-> "read", result |-> TRUE]
    BY <1>1, <1>3 DEF SliceFails, SliceMax, Returns
  <2>2. /\ \A n \in 0..3 : SliceLoaded(n)
        /\ \A n \in 4..5 : slices[n].size = 0
    BY <1>1, <1>3 DEF OrderInv, ReadSoFar, SliceMax
  <2>3. Loaded' BY <1>1, <2>1, <2>2 DEF Loaded, SliceLoaded, SliceMax
  <2> QED BY <1>1, <2>1, <2>3 DEF OrderInv, ReadSoFar, FoundSoFar, Dumping
<1> QED BY <1>1, <1>2, <1>3

LEMMA StartOrders == ASSUME Inv, OrderInv, Start PROVE OrderInv' /\ OneAfterAnother
<1>1. /\ pc = "opened" /\ IterInit /\ UNCHANGED <<archive, slices, slice_count>>
      /\ pc' = IF ret'.result THEN "walk" ELSE "free"
  BY DEF Start, handleVars
<1>2. Loaded /\ block_data = Null BY <1>1 DEF OrderInv, ReadSoFar
<1>3. archive \in Archives BY DEF Inv
<1>4. /\ ret'.result => AtSomeBlock'
      /\ OneAfterAnother
  BY <1>1, <1>2, <1>3, IterInitFinds DEF OneAfterAnother
<1>5. Loaded' BY <1>1, <1>2 DEF Loaded, SliceLoaded
<1>6. ret'.op = "iter_init" BY <1>1 DEF IterInit, Returns
<1>7. OrderInv'
  BY <1>1, <1>4, <1>5, <1>6 DEF OrderInv, ReadSoFar, FoundSoFar, Dumping
<1> QED BY <1>4, <1>7

LEMMA WalkOrders == ASSUME Inv, OrderInv, Walk PROVE OrderInv' /\ OneAfterAnother
<1>1. /\ pc = "walk" /\ IterNext /\ UNCHANGED <<archive, slices, slice_count>>
      /\ pc' = IF ret'.result THEN "walk" ELSE "free"
  BY DEF Walk, handleVars
<1>2. Loaded /\ AtSomeBlock BY <1>1 DEF OrderInv, ReadSoFar, FoundSoFar
<1>3. archive \in Archives BY DEF Inv
<1>4. PICK j \in DOMAIN Starts : AtBlock(j) BY <1>2 DEF AtSomeBlock
<1>5. /\ ret'.result => AtSomeBlock'
      /\ OneAfterAnother
      /\ ~ret'.result /\ zcc_errno' # "ZC_INVALID_PACK_METHOD" => AllVisited'
  BY <1>1, <1>2, <1>3, <1>4, NextInSliceFinds, LeaveSliceFinds DEF IterNext, OneAfterAnother
<1>6. Loaded' BY <1>1, <1>2 DEF Loaded, SliceLoaded
<1>7. OrderInv' BY <1>1, <1>5, <1>6 DEF OrderInv, ReadSoFar, FoundSoFar, Dumping
<1> QED BY <1>5, <1>7

\* The dump leaves the handle and the iterator alone.
LEMMA DumpingOrders ==
  ASSUME OrderInv, pc \in {"opened", "slice", "dump"}, pc' \in Dumping \cup {"free"},
         UNCHANGED <<archive, slices, slice_count, block_data, ret>>
  PROVE  OrderInv'
<1>1. Loaded' BY DEF OrderInv, ReadSoFar, Loaded, SliceLoaded, Dumping
<1> QED BY <1>1 DEF OrderInv, ReadSoFar, FoundSoFar, Dumping

LEMMA OrderNext ==
  InfoInv /\ OrderInv /\ [InfoNext]_<<vars, infoVars>> => OrderInv' /\ OneAfterAnother
<1> SUFFICES ASSUME InfoInv, OrderInv, [InfoNext]_<<vars, infoVars>>
             PROVE  OrderInv' /\ OneAfterAnother
  OBVIOUS
<1>1. CASE TestIter
  <2>1. Next BY <1>1 DEF TestIter
  <2>2. pc \in {"name", "read", "opened", "walk", "free"}
    BY <2>1 DEF Next, CheckName, ReadSlice, SliceFails, Start, Walk, Finish
  <2>3. Inv BY <2>2 DEF InfoInv, Dumping
  <2>4. CASE CheckName
    BY <2>4, CheckNameOrders DEF CheckName, iterVars, OneAfterAnother
  <2>5. CASE ReadSlice
    BY <2>3, <2>5, ReadSliceOrders DEF ReadSlice, iterVars, OneAfterAnother
  <2>6. CASE SliceFails
    BY <2>3, <2>6, SliceFailsOrders DEF SliceFails, iterVars, OneAfterAnother
  <2>7. CASE Start BY <2>3, <2>7, StartOrders
  <2>8. CASE Walk BY <2>3, <2>8, WalkOrders
  <2>9. CASE Finish
    <3>1. pc' = "done" /\ block_data' = block_data BY <2>9 DEF Finish, iterVars
    <3> QED BY <3>1 DEF OrderInv, ReadSoFar, FoundSoFar, Dumping, OneAfterAnother
  <2> QED BY <2>1, <2>4, <2>5, <2>6, <2>7, <2>8, <2>9 DEF Next
<1>2. CASE ShowSizes \/ ShowInfo \/ DumpSlice \/ DumpBlock \/ DumpUnknown \/ DumpedSlice
           \/ DumpEnds
  <2>1. /\ pc \in {"opened", "slice", "dump"} /\ pc' \in Dumping \cup {"free"}
        /\ UNCHANGED <<archive, slices, slice_count, block_data, ret>>
    BY <1>2 DEF ShowSizes, ShowInfo, DumpSlice, DumpBlock, DumpUnknown, InDump, DumpedSlice,
       DumpEnds, handleVars, iterVars, Dumping
  <2> QED BY <2>1, DumpingOrders DEF OneAfterAnother
<1>3. CASE UNCHANGED <<vars, infoVars>>
  <2>1. UNCHANGED <<archive, pc, i, slices, slice_count, slice_index, slice_offset,
                    block_data, zcc_errno, ret>>
    BY <1>3 DEF vars
  <2> QED
    BY <2>1 DEF OrderInv, ReadSoFar, FoundSoFar, OneAfterAnother, Loaded, SliceLoaded,
       AtSomeBlock, AtBlock, AllVisited, Full, SizeOf, Starts
<1> QED BY <1>1, <1>2, <1>3 DEF InfoNext

\* The iterator goes through the blocks of an archive in the order they lie in
\* its files, and skips none, also from one slice to the next.
THEOREM IteratesInOrder == InfoSpec => VisitsInOrder
<1>1. OneAfterAnother => [block_data' # block_data => Follows(block_data, block_data')]_vars
  BY DEF OneAfterAnother
<1>2. InfoInv /\ OrderInv /\ [InfoNext]_<<vars, infoVars>>
        => [block_data' # block_data => Follows(block_data, block_data')]_vars
  BY <1>1, OrderNext
<1> QED
  BY InfoInvInit, InfoInvNext, OrderInit, OrderNext, <1>2, PTL DEF InfoSpec, VisitsInOrder

\* A walk that meets no error has come to the last block.
THEOREM IteratesToTheEnd == InfoSpec => []ReachesLast
<1>1. OrderInv => ReachesLast BY DEF OrderInv, FoundSoFar, ReachesLast, AllVisited
<1> QED BY InfoInvInit, InfoInvNext, OrderInit, OrderNext, <1>1, PTL DEF InfoSpec

-------------------------------------------------------------------------------
(* The dump prints the same blocks.                                        *)

Printed(p) == \E k \in DOMAIN shown : shown[k] = p

\* The dump goes forward.
Forward ==
  /\ shown \in Seq(SliceFiles \X Nat)
  /\ \A k \in DOMAIN shown : shown[k][1] < slice_count
  /\ \A j, k \in DOMAIN shown : j < k => Before(shown[j], shown[k])

\* In the slices it begins where the iterator does it prints blocks only,
OnlyBlocksShown ==
  \A k \in DOMAIN shown : SameBeginning(shown[k][1]) => shown[k] \in Placed(archive)

\* all those of the slices before n,
WholeSlices(n) ==
  \A p \in Placed(archive) : p[1] < n /\ SameBeginning(p[1]) => Printed(p)

\* and all those it has passed in the slice it is in, where it is at another
\* one or behind the last.
SliceSoFar ==
  SameBeginning(dump_slice) =>
    \A p \in Placed(archive) : p[1] = dump_slice /\ p[2] < dump_offset => Printed(p)

AtNext ==
  SameBeginning(dump_slice) /\ dump_offset < slices[dump_slice].size
    => AtDump \in Placed(archive)

DumpInv ==
  /\ Forward
  /\ OnlyBlocksShown
  /\ WholeSlices(dump_slice)
  /\ pc \in {"name", "read", "opened", "walk"} => shown = <<>> /\ dump_slice = 0
  /\ pc = "slice" => dump_slice <= slice_count
  /\ pc = "dump" => /\ \A k \in DOMAIN shown : Before(shown[k], AtDump)
                    /\ AtNext
  /\ pc = "exit" => \A k \in DOMAIN shown : shown[k] = AtDump \/ Before(shown[k], AtDump)
  /\ pc \in {"dump", "exit"} => SliceSoFar
  /\ pc \notin {"dump", "exit"} => \A k \in DOMAIN shown : shown[k][1] < dump_slice

LEMMA FileSize ==
  ASSUME NEW a \in Archives, NEW n \in SliceFiles
  PROVE  a.files[n].size \in Int
BY ArchivesAssumption

LEMMA PlacedIsPair ==
  ASSUME NEW a \in Archives, NEW p \in Placed(a)
  PROVE  /\ p[1] \in SliceFiles /\ p[1] \in Nat /\ p[2] \in Nat /\ p = <<p[1], p[2]>>
         /\ FirstOffset(p[1]) <= p[2] /\ p[2] < a.files[p[1]].size
<1>1. PICK k \in DOMAIN a.starts : p = a.starts[k] BY DEF Placed
<1>2. p \in SliceFiles \X Nat BY <1>1, StartFacts
<1>3. /\ FirstOffset(p[1]) <= p[2] /\ p[2] < a.files[p[1]].size
  BY PlacedBlock
<1>4. p[1] \in SliceFiles /\ p[2] \in Nat /\ p = <<p[1], p[2]>> BY <1>2
<1>5. p[1] \in Nat BY <1>4 DEF SliceFiles, SliceMax
<1> QED BY <1>3, <1>4, <1>5

\* Where dump and iterator begin a slice at one place.
LEMMA SameFirst ==
  ASSUME NEW n, SliceLoaded(n), SameBeginning(n)
  PROVE  FirstBlock(n) = FirstOffset(n)
BY DEF SliceLoaded, SameBeginning, FirstBlock, Load, LoadOf

\* The dump and the iterator agree on how long a block is, and with the file.
LEMMA DumpStep ==
  ASSUME NEW p, Byte(p, 0) \in 0..255, Byte(p, 2) \in 0..255, MethodAt(p) <= PackRle
  PROVE  /\ Payload(p) + 2 = Width(p) /\ Payload(p) \in Nat
         /\ MethodAt(p) \in {PackNone, PackFill, PackRle}
<1>1. MethodAt(p) \in {PackNone, PackFill, PackRle}
  BY DEF MethodAt, PackNone, PackFill, PackRle
<1>2. CASE MethodAt(p) = PackNone
  BY <1>2, BlockSizeAssumption DEF Payload, Width, PackNone, PackFill, PackRle
<1>3. CASE MethodAt(p) = PackFill BY <1>3 DEF Payload, Width, PackNone, PackFill, PackRle
<1>4. CASE MethodAt(p) = PackRle BY <1>4 DEF Payload, Width, PackNone, PackFill, PackRle
<1> QED BY <1>1, <1>2, <1>3, <1>4

LEMMA DumpInit == InfoInit => DumpInv
<1> SUFFICES ASSUME InfoInit PROVE DumpInv
  OBVIOUS
<1>1. shown = <<>> /\ dump_slice = 0 /\ pc = "name" /\ archive \in Archives
  BY DEF InfoInit, Init
<1>2. DOMAIN shown = {} /\ shown \in Seq(SliceFiles \X Nat) BY <1>1
<1>3. WholeSlices(0)
  <2> SUFFICES ASSUME NEW p \in Placed(archive), p[1] < 0 PROVE FALSE
    BY DEF WholeSlices
  <2>1. p[1] \in Nat BY <1>1, PlacedIsPair
  <2> QED BY <2>1
<1> QED BY <1>1, <1>2, <1>3 DEF DumpInv, Forward, OnlyBlocksShown

\* Steps that print nothing.
LEMMA ShownKept ==
  ASSUME Forward, OnlyBlocksShown, WholeSlices(dump_slice), UNCHANGED <<archive, shown>>,
         shown = <<>> \/ UNCHANGED slice_count
  PROVE  /\ Forward' /\ OnlyBlocksShown'
         /\ dump_slice' = dump_slice => WholeSlices(dump_slice)'
<1>1. \A n : SameBeginning(n)' = SameBeginning(n)
  BY DEF SameBeginning, LoadOf, FirstOffset
<1>2. \A p : Printed(p)' = Printed(p) BY DEF Printed
<1>3. Forward'
  <2>1. CASE shown = <<>> BY <2>1 DEF Forward
  <2>2. CASE UNCHANGED slice_count BY <2>2 DEF Forward
  <2> QED BY <2>1, <2>2
<1>4. OnlyBlocksShown' BY <1>1 DEF OnlyBlocksShown, Placed
<1>5. dump_slice' = dump_slice => WholeSlices(dump_slice)'
  BY <1>1, <1>2 DEF WholeSlices, Placed
<1> QED BY <1>3, <1>4, <1>5

LEMMA TestIterDumps ==
  ASSUME InfoInv, OrderInv, DumpInv, TestIter
  PROVE  DumpInv'
<1>1. UNCHANGED <<dump_slice, dump_offset, shown>> /\ Next BY DEF TestIter, infoVars
<1>2. /\ pc \in {"name", "read", "opened", "walk", "free"}
      /\ pc' \in {"read", "opened", "walk", "free", "done"}
      /\ UNCHANGED archive
      /\ pc = "free" => pc' = "done" /\ UNCHANGED slice_count
  BY <1>1 DEF Next, CheckName, ReadSlice, SliceFails, Start, Walk, Finish, Free, GivesUp
<1>3. pc # "free" => shown = <<>> /\ dump_slice = 0 BY <1>2 DEF DumpInv
<1>4. /\ Forward' /\ OnlyBlocksShown' /\ WholeSlices(dump_slice)'
  BY <1>1, <1>2, <1>3, ShownKept DEF DumpInv
<1>5. \A k \in DOMAIN shown : shown[k][1] < dump_slice BY <1>2 DEF DumpInv
<1>6. pc' \in {"read", "opened", "walk"} => shown = <<>> /\ dump_slice = 0
  BY <1>2, <1>3
<1> QED BY <1>1, <1>2, <1>4, <1>5, <1>6 DEF DumpInv

LEMMA DumpSliceDumps ==
  ASSUME InfoInv, OrderInv, DumpInv, DumpSlice
  PROVE  DumpInv'
<1> DEFINE n == dump_slice
<1>1. /\ pc = "slice" /\ n < slice_count /\ pc' \in {"crash", "dump"}
      /\ pc' = "dump" => dump_offset' = FirstBlock(n)
      /\ UNCHANGED <<archive, slices, slice_count, dump_slice, shown>>
  BY DEF DumpSlice, handleVars
<1>2. /\ archive \in Archives /\ n \in Nat /\ Loaded
      /\ Forward /\ OnlyBlocksShown /\ WholeSlices(n)
      /\ \A k \in DOMAIN shown : shown[k][1] < n
  BY <1>1 DEF InfoInv, Opened, Dumping, OrderInv, ReadSoFar, DumpInv
<1>3. Forward' /\ OnlyBlocksShown' /\ WholeSlices(dump_slice)'
  BY <1>1, <1>2, ShownKept
<1>4. n \in 0..(slice_count - 1) /\ n \in SliceFiles
  BY <1>1, <1>2 DEF Loaded, SliceFiles, SliceMax
<1>5. SliceLoaded(n) BY <1>2, <1>4 DEF Loaded
<1>6. ASSUME pc' = "dump"
      PROVE  AtNext' /\ SliceSoFar' /\ \A k \in DOMAIN shown : Before(shown[k], AtDump')
  <2>1. AtDump' = <<n, FirstBlock(n)>> BY <1>1, <1>6 DEF AtDump
  <2>2. \A k \in DOMAIN shown : Before(shown[k], AtDump') BY <1>2, <2>1 DEF Before
  <2>3. SameBeginning(n)' <=> SameBeginning(n)
    BY <1>1 DEF SameBeginning, LoadOf, FirstOffset
  <2>4. SameBeginning(n) => FirstBlock(n) = FirstOffset(n) BY <1>5, SameFirst
  <2>5. AtNext'
    <3> SUFFICES ASSUME SameBeginning(n), FirstOffset(n) < slices[n].size
                 PROVE  <<n, FirstOffset(n)>> \in Placed(archive)
      BY <1>1, <1>6, <2>1, <2>3, <2>4 DEF AtNext, Placed
    <3>1. FirstOffset(n) < archive.files[n].size BY <1>5 DEF SliceLoaded
    <3> QED BY <1>2, <1>4, <3>1, PlacedAssumption DEF BlocksPlaced
  <2>6. SliceSoFar'
    <3> SUFFICES ASSUME SameBeginning(n), NEW p \in Placed(archive),
                        p[1] = n, p[2] < FirstOffset(n)
                 PROVE  FALSE
      BY <1>1, <1>6, <2>3, <2>4 DEF SliceSoFar, Placed
    <3>1. FirstOffset(n) <= p[2] /\ p[2] \in Nat BY <1>2, PlacedIsPair
    <3> QED BY <3>1 DEF FirstOffset
  <2> QED BY <2>2, <2>5, <2>6
<1> QED BY <1>1, <1>2, <1>3, <1>6 DEF DumpInv

\* The block the dump is at is printed.
LEMMA PrintedNext ==
  ASSUME archive \in Archives, dump_slice \in SliceFiles, dump_offset \in Nat,
         dump_slice < slice_count,
         Forward, OnlyBlocksShown, WholeSlices(dump_slice), SliceSoFar, AtNext,
         \A k \in DOMAIN shown : Before(shown[k], AtDump),
         dump_offset < slices[dump_slice].size,
         shown' = Append(shown, AtDump),
         UNCHANGED <<archive, slices, slice_count, dump_slice>>
  PROVE  /\ Forward' /\ OnlyBlocksShown' /\ WholeSlices(dump_slice)'
         /\ \A k \in DOMAIN shown' : shown'[k] = AtDump \/ Before(shown'[k], AtDump)
         /\ SameBeginning(dump_slice) =>
              \A p \in Placed(archive) : p[1] = dump_slice /\ p[2] <= dump_offset => Printed(p)'
<1> DEFINE L == Len(shown)
<1>1. shown \in Seq(SliceFiles \X Nat) /\ L \in Nat /\ DOMAIN shown = 1..L
  BY DEF Forward
<1>2. AtDump \in SliceFiles \X Nat /\ AtDump[1] = dump_slice /\ AtDump[2] = dump_offset
  BY DEF AtDump
<1>3. /\ shown' \in Seq(SliceFiles \X Nat) /\ DOMAIN shown' = 1..(L + 1)
      /\ \A k \in 1..L : shown'[k] = shown[k]
      /\ shown'[L + 1] = AtDump
  BY <1>1, <1>2
<1>4. \A n : SameBeginning(n)' = SameBeginning(n)
  BY DEF SameBeginning, LoadOf, FirstOffset
<1>5. ASSUME NEW k \in 1..(L + 1) PROVE k = L + 1 \/ k \in 1..L BY <1>1
<1>6. \A k \in DOMAIN shown' : shown'[k] = AtDump \/ Before(shown'[k], AtDump)
  BY <1>1, <1>3, <1>5
<1>7. Forward'
  <2>1. \A k \in DOMAIN shown' : shown'[k][1] < slice_count
    BY <1>1, <1>2, <1>3, <1>5 DEF Forward
  <2>2. ASSUME NEW j \in DOMAIN shown', NEW k \in DOMAIN shown', j < k
        PROVE  Before(shown'[j], shown'[k])
    <3>1. j \in 1..L BY <1>1, <1>3, <2>2
    <3>2. CASE k = L + 1 BY <1>1, <1>3, <3>1, <3>2
    <3>3. CASE k \in 1..L BY <1>1, <1>3, <2>2, <3>1, <3>3 DEF Forward
    <3> QED BY <1>3, <1>5, <3>2, <3>3
  <2> QED BY <1>3, <2>1, <2>2 DEF Forward
<1>8. OnlyBlocksShown'
  <2>1. SameBeginning(dump_slice) => AtDump \in Placed(archive) BY DEF AtNext
  <2> SUFFICES ASSUME NEW k \in DOMAIN shown', SameBeginning(shown'[k][1])
               PROVE  shown'[k] \in Placed(archive)
    BY <1>4 DEF OnlyBlocksShown, Placed
  <2>2. CASE k = L + 1 BY <1>2, <1>3, <2>1, <2>2
  <2>3. CASE k \in 1..L BY <1>1, <1>3, <2>3 DEF OnlyBlocksShown
  <2> QED BY <1>3, <1>5, <2>2, <2>3
<1>9. \A p : Printed(p) \/ p = AtDump => Printed(p)'
  <2> SUFFICES ASSUME NEW p, Printed(p) \/ p = AtDump
               PROVE  \E k \in DOMAIN shown' : shown'[k] = p
    BY DEF Printed
  <2>1. CASE p = AtDump
    <3>1. L + 1 \in DOMAIN shown' BY <1>1, <1>3
    <3> QED BY <1>3, <2>1, <3>1
  <2>2. CASE Printed(p)
    <3>1. PICK k \in 1..L : shown[k] = p BY <1>1, <2>2 DEF Printed
    <3>2. k \in DOMAIN shown' BY <1>1, <1>3
    <3> QED BY <1>3, <3>1, <3>2
  <2> QED BY <2>1, <2>2
<1>10. WholeSlices(dump_slice)' BY <1>4, <1>9 DEF WholeSlices, Placed
<1>11. ASSUME SameBeginning(dump_slice), NEW p \in Placed(archive),
              p[1] = dump_slice, p[2] <= dump_offset
       PROVE  Printed(p)'
  <2>1. p[2] \in Nat /\ p = <<p[1], p[2]>> BY PlacedIsPair
  <2>2. CASE p[2] < dump_offset BY <1>9, <1>11, <2>2 DEF SliceSoFar
  <2>3. CASE p[2] = dump_offset BY <1>9, <1>11, <2>1, <2>3 DEF AtDump
  <2> QED BY <1>11, <2>1, <2>2, <2>3
<1> QED BY <1>6, <1>7, <1>8, <1>10, <1>11

\* What the invariants say where a block is printed.
LEMMA WhereDumped ==
  ASSUME InfoInv, OrderInv, DumpInv, pc = "dump"
  PROVE  /\ archive \in Archives /\ Opened /\ Loaded
         /\ dump_slice \in SliceFiles /\ dump_offset \in Nat /\ dump_slice < slice_count
         /\ SliceLoaded(dump_slice) /\ slices[dump_slice].size \in Int
         /\ Forward /\ OnlyBlocksShown /\ WholeSlices(dump_slice) /\ SliceSoFar /\ AtNext
         /\ \A k \in DOMAIN shown : Before(shown[k], AtDump)
<1>1. /\ archive \in Archives /\ Opened /\ Loaded /\ dump_slice \in Nat
      /\ dump_offset \in Nat /\ dump_slice < slice_count
  BY DEF InfoInv, Opened, Dumping, OrderInv, ReadSoFar
<1>2. dump_slice \in 0..(slice_count - 1) /\ dump_slice \in SliceFiles
  BY <1>1 DEF Loaded, SliceFiles, SliceMax
<1>3. SliceLoaded(dump_slice) BY <1>1, <1>2 DEF Loaded
<1>4. slices[dump_slice].size \in Int BY <1>1, <1>2, <1>3, FileSize DEF SliceLoaded
<1> QED BY <1>1, <1>2, <1>3, <1>4 DEF DumpInv

LEMMA DumpBlockDumps ==
  ASSUME InfoInv, OrderInv, DumpInv, DumpBlock
  PROVE  DumpInv'
<1> DEFINE p == AtDump
           n == dump_slice
           e == FileEnd(archive, p)
<1>1. /\ pc = "dump" /\ pc' = "dump" /\ dump_offset < slices[n].size
      /\ MethodAt(p) <= PackRle
      /\ shown' = Append(shown, p) /\ dump_offset' = dump_offset + Payload(p) + 2
      /\ UNCHANGED <<archive, slices, slice_count, dump_slice>>
  BY DEF DumpBlock, InDump, handleVars
<1>2. /\ archive \in Archives /\ Opened
      /\ n \in SliceFiles /\ n \in Nat /\ dump_offset \in Nat /\ n < slice_count
      /\ SliceLoaded(n) /\ slices[n].size \in Int
      /\ Forward /\ OnlyBlocksShown /\ WholeSlices(n) /\ SliceSoFar /\ AtNext
      /\ \A k \in DOMAIN shown : Before(shown[k], p)
  BY <1>1, WhereDumped DEF SliceFiles, SliceMax
<1>3. /\ Forward' /\ OnlyBlocksShown' /\ WholeSlices(dump_slice)'
      /\ \A k \in DOMAIN shown' : shown'[k] = p \/ Before(shown'[k], p)
      /\ SameBeginning(n) =>
           \A q \in Placed(archive) : q[1] = n /\ q[2] <= dump_offset => Printed(q)'
  BY <1>1, <1>2, PrintedNext
<1>4. p[1] = n /\ p[2] = dump_offset BY DEF AtDump
<1>5. Byte(p, 0) \in 0..255 /\ Byte(p, 2) \in 0..255 BY <1>1, <1>2, DumpHeader
<1>6. /\ Payload(p) + 2 = Width(p) /\ Payload(p) \in Nat
      /\ MethodAt(p) \in {PackNone, PackFill, PackRle}
  BY <1>1, <1>5, DumpStep
<1>7. MethodAt(p) = FileMethod(archive, p) /\ p[2] + Width(p) = e
  <2>1. /\ Byte(p, 0) = archive.files[p[1]].bytes[p[2] + 1]
        /\ Byte(p, 2) = archive.files[p[1]].bytes[p[2] + 3]
    BY <1>2, <1>4 DEF Byte, SliceLoaded
  <2>2. MethodAt(p) = FileMethod(archive, p) BY <2>1 DEF MethodAt, FileMethod
  <2> HIDE DEF p
  <2> QED
    BY <1>2, <1>4, <1>5, <1>6, <2>1, <2>2, BlockSizeAssumption
    DEF Width, FileEnd, PackNone, PackFill, PackRle
<1>8. dump_offset' = e /\ e \in Nat /\ e > dump_offset
  <2>1. dump_offset + Payload(p) + 2 = dump_offset + Width(p) BY <1>2, <1>6
  <2> QED BY <1>1, <1>2, <1>4, <1>6, <1>7, <2>1
<1>9. FileMethod(archive, p) < 3 BY <1>6, <1>7 DEF PackNone, PackFill, PackRle
<1>10. AtDump' = <<n, e>> BY <1>1, <1>8 DEF AtDump
<1>11. \A k \in DOMAIN shown' : Before(shown'[k], AtDump')
  <2> SUFFICES ASSUME NEW k \in DOMAIN shown' PROVE Before(shown'[k], <<n, e>>)
    BY <1>10
  <2>1. shown'[k] \in SliceFiles \X Nat BY <1>3 DEF Forward
  <2>2. shown'[k][2] \in Nat /\ shown'[k][1] \in Nat BY <2>1 DEF SliceFiles, SliceMax
  <2>3. shown'[k] = p \/ Before(shown'[k], p) BY <1>3
  <2> QED BY <1>2, <1>4, <1>8, <2>2, <2>3 DEF Before
<1>12. SameBeginning(n)' <=> SameBeginning(n)
  BY <1>1 DEF SameBeginning, LoadOf, FirstOffset
<1>13. ASSUME SameBeginning(n) PROVE p \in Placed(archive)
  BY <1>1, <1>2, <1>13 DEF AtNext
<1>14. AtNext'
  <2> SUFFICES ASSUME SameBeginning(n), e < slices[n].size
               PROVE  <<n, e>> \in Placed(archive)
    BY <1>1, <1>8, <1>10, <1>12 DEF AtNext, Placed
  <2>1. e < archive.files[n].size BY <1>2 DEF SliceLoaded
  <2> QED BY <1>2, <1>4, <1>9, <1>13, <2>1, PlacedBlock
<1>15. SliceSoFar'
  <2> SUFFICES ASSUME SameBeginning(n), NEW q \in Placed(archive), q[1] = n, q[2] < e
               PROVE  Printed(q)'
    BY <1>1, <1>8, <1>12 DEF SliceSoFar, Placed
  <2>1. q[2] \in Nat BY <1>2, PlacedIsPair
  <2>2. ~(q[2] > dump_offset)
    <3> SUFFICES ASSUME q[2] > p[2] PROVE FALSE
      BY <1>4
    <3>1. q[2] >= e BY <1>2, <1>4, <1>9, <1>13, PlacedBehind
    <3> QED BY <1>8, <2>1, <3>1
  <2> QED BY <1>2, <1>3, <2>1, <2>2
<1> QED BY <1>1, <1>3, <1>11, <1>14, <1>15 DEF DumpInv

LEMMA DumpUnknownDumps ==
  ASSUME InfoInv, OrderInv, DumpInv, DumpUnknown
  PROVE  DumpInv'
<1>1. /\ pc = "dump" /\ pc' = "exit" /\ dump_offset < slices[dump_slice].size
      /\ shown' = Append(shown, AtDump)
      /\ UNCHANGED <<archive, slices, slice_count, dump_slice, dump_offset>>
  BY DEF DumpUnknown, InDump, handleVars
<1>2. /\ archive \in Archives
      /\ dump_slice \in SliceFiles /\ dump_offset \in Nat /\ dump_slice < slice_count
      /\ Forward /\ OnlyBlocksShown /\ WholeSlices(dump_slice) /\ SliceSoFar /\ AtNext
      /\ \A k \in DOMAIN shown : Before(shown[k], AtDump)
  BY <1>1, WhereDumped
<1>3. /\ Forward' /\ OnlyBlocksShown' /\ WholeSlices(dump_slice)'
      /\ \A k \in DOMAIN shown' : shown'[k] = AtDump \/ Before(shown'[k], AtDump)
      /\ SameBeginning(dump_slice) =>
           \A q \in Placed(archive) :
             q[1] = dump_slice /\ q[2] <= dump_offset => Printed(q)'
  BY <1>1, <1>2, PrintedNext
<1>4. SliceSoFar'
  <2> SUFFICES ASSUME SameBeginning(dump_slice), NEW q \in Placed(archive),
                      q[1] = dump_slice, q[2] < dump_offset
               PROVE  Printed(q)'
    BY <1>1 DEF SliceSoFar, Placed, SameBeginning, LoadOf, FirstOffset
  <2>1. q[2] \in Nat BY <1>2, PlacedIsPair
  <2> QED BY <1>2, <1>3, <2>1
<1>5. AtDump' = AtDump BY <1>1 DEF AtDump
<1> QED BY <1>1, <1>3, <1>4, <1>5 DEF DumpInv

LEMMA DumpedSliceDumps ==
  ASSUME InfoInv, OrderInv, DumpInv, DumpedSlice
  PROVE  DumpInv'
<1>1. /\ pc = "dump" /\ pc' = "slice" /\ dump_offset >= slices[dump_slice].size
      /\ dump_slice' = dump_slice + 1 /\ UNCHANGED <<archive, slices, slice_count, shown>>
  BY DEF DumpedSlice, SliceAfter, handleVars
<1>2. /\ archive \in Archives /\ Loaded
      /\ dump_slice \in SliceFiles /\ dump_slice \in Nat /\ dump_offset \in Nat
      /\ dump_slice < slice_count
      /\ SliceLoaded(dump_slice) /\ slices[dump_slice].size \in Int
      /\ Forward /\ OnlyBlocksShown /\ WholeSlices(dump_slice) /\ SliceSoFar
      /\ \A k \in DOMAIN shown : Before(shown[k], AtDump)
  BY <1>1, WhereDumped DEF SliceFiles, SliceMax
<1>3. Forward' /\ OnlyBlocksShown' BY <1>1, <1>2, ShownKept
<1>4. WholeSlices(dump_slice)'
  <2> SUFFICES ASSUME NEW p \in Placed(archive), p[1] < dump_slice + 1, SameBeginning(p[1])
               PROVE  Printed(p)
    BY <1>1 DEF WholeSlices, Placed, Printed, SameBeginning, LoadOf, FirstOffset
  <2>1. p[1] \in Nat /\ p[2] \in Nat /\ p[2] < archive.files[p[1]].size
    BY <1>2, PlacedIsPair
  <2>2. CASE p[1] < dump_slice BY <1>2, <2>2 DEF WholeSlices
  <2>3. CASE p[1] = dump_slice
    <3>1. p[2] < dump_offset BY <1>1, <1>2, <2>1, <2>3 DEF SliceLoaded
    <3> QED BY <1>2, <2>3, <3>1 DEF SliceSoFar
  <2> QED BY <1>2, <2>1, <2>2, <2>3
<1>5. \A k \in DOMAIN shown : shown[k][1] < dump_slice + 1
  <2> SUFFICES ASSUME NEW k \in DOMAIN shown PROVE shown[k][1] < dump_slice + 1
    OBVIOUS
  <2>1. shown[k] \in SliceFiles \X Nat /\ Before(shown[k], AtDump) BY <1>2 DEF Forward
  <2> QED BY <1>2, <2>1 DEF Before, AtDump, SliceFiles, SliceMax
<1>6. dump_slice' <= slice_count' BY <1>1, <1>2 DEF Loaded
<1> QED BY <1>1, <1>3, <1>4, <1>5, <1>6 DEF DumpInv

LEMMA DumpNext ==
  InfoInv /\ OrderInv /\ DumpInv /\ [InfoNext]_<<vars, infoVars>> => DumpInv'
<1> SUFFICES ASSUME InfoInv, OrderInv, DumpInv, [InfoNext]_<<vars, infoVars>>
             PROVE  DumpInv'
  OBVIOUS
<1>1. CASE TestIter BY <1>1, TestIterDumps
<1>2. CASE ShowSizes \/ ShowInfo
  <2>1. /\ pc = "opened" /\ pc' \in {"free", "slice"}
        /\ UNCHANGED <<archive, slices, slice_count, dump_slice, shown>>
    BY <1>2 DEF ShowSizes, ShowInfo, handleVars, infoVars
  <2>2. shown = <<>> /\ dump_slice = 0 /\ slice_count \in {4, 5}
    BY <2>1 DEF DumpInv, OrderInv, ReadSoFar, Loaded
  <2>3. Forward' /\ OnlyBlocksShown' /\ WholeSlices(dump_slice)'
    BY <2>1, ShownKept DEF DumpInv
  <2> QED BY <2>1, <2>2, <2>3 DEF DumpInv
<1>3. CASE DumpSlice BY <1>3, DumpSliceDumps
<1>4. CASE DumpBlock BY <1>4, DumpBlockDumps
<1>5. CASE DumpUnknown BY <1>5, DumpUnknownDumps
<1>6. CASE DumpedSlice BY <1>6, DumpedSliceDumps
<1>7. CASE DumpEnds
  <2>1. /\ pc = "slice" /\ pc' = "free"
        /\ UNCHANGED <<archive, slice_count, dump_slice, shown>>
    BY <1>7 DEF DumpEnds, handleVars, infoVars
  <2>2. Forward' /\ OnlyBlocksShown' /\ WholeSlices(dump_slice)'
    BY <2>1, ShownKept DEF DumpInv
  <2> QED BY <2>1, <2>2 DEF DumpInv
<1>8. CASE UNCHANGED <<vars, infoVars>>
  <2>1. UNCHANGED <<archive, pc, slices, slice_count, dump_slice, dump_offset, shown>>
    BY <1>8 DEF vars, infoVars
  <2>2. Forward' /\ OnlyBlocksShown' /\ WholeSlices(dump_slice)'
    BY <2>1, ShownKept DEF DumpInv
  <2>3. /\ AtDump' = AtDump /\ AtNext' = AtNext /\ SliceSoFar' = SliceSoFar
    BY <2>1 DEF AtDump, AtNext, SliceSoFar, Printed, Placed, SameBeginning, LoadOf, FirstOffset
  <2> QED BY <2>1, <2>2, <2>3 DEF DumpInv
<1> QED BY <1>1, <1>2, <1>3, <1>4, <1>5, <1>6, <1>7, <1>8 DEF InfoNext

\* The dump prints blocks forward through the archive, and in every slice that
\* it begins where the iterator does exactly the blocks the iterator is to visit.
THEOREM InfoShowsInOrder == InfoSpec => []InfoShowsAll
<1>1. InfoInv /\ OrderInv /\ DumpInv => InfoShowsAll
  <2> SUFFICES ASSUME InfoInv, OrderInv, DumpInv PROVE InfoShowsAll
    OBVIOUS
  <2>1. Forward /\ OnlyBlocksShown /\ WholeSlices(dump_slice) /\ archive \in Archives
    BY DEF DumpInv, InfoInv, Inv, Opened
  <2>2. dump_slice \in Nat /\ dump_offset \in Nat BY DEF InfoInv
  <2>3. ASSUME NEW p \in Placed(archive), SameBeginning(p[1]), Passed(p)
        PROVE  Printed(p)
    <3>1. p[1] \in Nat /\ p[2] \in Nat BY <2>1, PlacedIsPair
    <3>2. CASE p[1] < dump_slice BY <2>1, <2>3, <3>2 DEF WholeSlices
    <3>3. CASE \E k \in DOMAIN shown : Before(p, shown[k])
      <4>1. PICK k \in DOMAIN shown : Before(p, shown[k]) BY <3>3
      <4>2. shown[k] \in SliceFiles \X Nat BY <2>1 DEF Forward
      <4>3. shown[k][1] \in Nat /\ shown[k][2] \in Nat BY <4>2 DEF SliceFiles, SliceMax
      <4>4. CASE pc \in {"dump", "exit"}
        <5>1. shown[k] = AtDump \/ Before(shown[k], AtDump) BY <4>4 DEF DumpInv
        <5>2. AtDump[1] = dump_slice /\ AtDump[2] = dump_offset BY DEF AtDump
        <5>3. Before(p, AtDump) BY <2>2, <3>1, <4>1, <4>3, <5>1, <5>2 DEF Before
        <5>4. p[1] < dump_slice \/ (p[1] = dump_slice /\ p[2] < dump_offset)
          BY <5>2, <5>3 DEF Before
        <5>5. SliceSoFar BY <4>4 DEF DumpInv
        <5> QED BY <2>3, <3>2, <5>4, <5>5 DEF SliceSoFar
      <4>5. CASE pc \notin {"dump", "exit"}
        <5>1. shown[k][1] < dump_slice BY <4>5 DEF DumpInv
        <5>2. p[1] < dump_slice BY <2>2, <3>1, <4>1, <4>3, <5>1 DEF Before
        <5> QED BY <3>2, <5>2
      <4> QED BY <4>4, <4>5
    <3> QED BY <2>3, <3>2, <3>3 DEF Passed
  <2> QED BY <2>1, <2>3 DEF InfoShowsAll, Forward, OnlyBlocksShown, Printed
<1> QED
  BY InfoInvInit, InfoInvNext, OrderInit, OrderNext, DumpInit, DumpNext, <1>1, PTL
  DEF InfoSpec

-------------------------------------------------------------------------------
(* The conversion puts the blocks of the archive on the disk.              *)

\* What is proved of d64.c in any hands holds of the image of the conversion.
Disk == INSTANCE D64Proofs WITH
  path <- img_path, data <- img_data, blocks <- img_blocks, size <- img_size,
  type <- img_type, phase <- img_phase, ret <- img_ret, buf <- buffer,
  file <- img_file,
  Content <- [1..BlockSize -> 0..255], Zero <- ZeroBlock, Paths <- {Out},
  HostFiles <- {}, Types <- {"CBMDOS", "SPEEDDOS"},
  TrackArgs <- 0..63, SectorArgs <- 0..255

LEMMA DiskAssumptions ==
  /\ ZeroBlock \in [1..BlockSize -> 0..255]
  /\ NoPath \notin {Out}
  /\ {"CBMDOS", "SPEEDDOS"} \subseteq Disk!ImageTypes
  /\ 0..63 \subseteq Int /\ 0..255 \subseteq Int
BY OutAssumption DEF ZeroBlock, Disk!ImageTypes

LEMMA SameOffset ==
  ASSUME NEW t, NEW s
  PROVE  Disk!BlockOffset(t, s) = Image!BlockOffset(t, s)
BY DEF Disk!BlockOffset, Image!BlockOffset, Disk!ZoneOf, Image!ZoneOf, Disk!Zones, Image!Zones,
   Disk!speedzones, Image!speedzones, Disk!BytesBefore, Image!BytesBefore, Disk!ZoneBytes,
   Image!ZoneBytes, Disk!BlockSizeRaw, Image!BlockSizeRaw, Disk!TrackInTable,
   Image!TrackInTable, Disk!SectorInTable, Image!SectorInTable, Disk!TrackMin, Image!TrackMin,
   Disk!TrackMaxExt, Image!TrackMaxExt, Disk!SectorMin, Image!SectorMin, Disk!SectorMax,
   Image!SectorMax

\* Where the blocks of an image of 35 tracks lie.
OnImage(t, s) == Image!CanAccess("CBMDOS", t, s)

Offset(t, s) == Image!BlockOffset(t, s)

\* The blocks the image has are those of a disk.
LEMMA ImageIsDisk ==
  ASSUME NEW t \in Int, NEW s \in Int
  PROVE  /\ OnImage(t, s) <=> Convert!OnDisk(<<t, s>>)
         /\ OnImage(t, s) => /\ Offset(t, s) # -1 /\ Offset(t, s) \in Nat
                             /\ Image!Fits(Offset(t, s), Image!SizeCbmdos)
<1>1. Disk!BlockOffset(t, s) # -1 => /\ Disk!BlockOffset(t, s) \in Nat
                                     /\ t <= 35 => Disk!Fits(Disk!BlockOffset(t, s), Disk!SizeCbmdos)
  BY DiskAssumptions, Disk!OffsetInImage
<1>2. Disk!BlockOffset(t, s) # -1 <=> \/ t \in 1..17  /\ s \in 0..20
                                      \/ t \in 18..24 /\ s \in 0..18
                                      \/ t \in 25..30 /\ s \in 0..17
                                      \/ t \in 31..40 /\ s \in 0..16
  BY DiskAssumptions, Disk!OffsetDomain
<1> DEFINE off == Offset(t, s)
<1>3. off = Disk!BlockOffset(t, s) BY SameOffset DEF Offset
<1>4. /\ off # -1 => off \in Nat
      /\ off # -1 /\ t <= 35 => Image!Fits(off, Image!SizeCbmdos)
  BY <1>1, <1>3 DEF Disk!Fits, Image!Fits, Disk!SizeCbmdos, Image!SizeCbmdos,
     Disk!BlockSizeRaw, Image!BlockSizeRaw
<1>5. OnImage(t, s) <=> t \in 1..35 /\ off >= 0
  BY DEF OnImage, Offset, Image!CanAccess, Image!TrackIsValid, Image!TrackMin, Image!TrackMax
<1> HIDE DEF off
<1>6. off >= 0 <=> off # -1
  <2>1. CASE off = -1 BY <2>1
  <2>2. CASE off # -1 BY <1>4, <2>2
  <2> QED BY <2>1, <2>2
<1>7. t \in 1..35 => (off # -1 <=> s \in 0..(Convert!Sectors(t) - 1))
  BY <1>2, <1>3 DEF Convert!Sectors
<1>8. Convert!OnDisk(<<t, s>>) <=> t \in 1..35 /\ s \in 0..(Convert!Sectors(t) - 1)
  BY DEF Convert!OnDisk
<1> QED BY <1>4, <1>5, <1>6, <1>7, <1>8 DEF off

\* Two blocks of an image never lie in one place.
LEMMA OffsetsApart ==
  ASSUME NEW t \in Int, NEW s \in Int, NEW u \in Int, NEW r \in Int,
         Offset(t, s) # -1, Offset(u, r) = Offset(t, s)
  PROVE  <<u, r>> = <<t, s>>
<1>1. /\ Disk!BlockOffset(t, s) # -1
      /\ Disk!BlockOffset(u, r) = Disk!BlockOffset(t, s)
  BY SameOffset DEF Offset
<1>2. Disk!BlockOffset(t, s) \in Nat BY <1>1, DiskAssumptions, Disk!OffsetInImage
<1>3. <<t, s>> # <<u, r>>
        => \/ Disk!BlockOffset(t, s) + Disk!BlockSizeRaw <= Disk!BlockOffset(u, r)
           \/ Disk!BlockOffset(u, r) + Disk!BlockSizeRaw <= Disk!BlockOffset(t, s)
  BY <1>1, DiskAssumptions, Disk!BlocksDisjoint
<1> QED BY <1>1, <1>2, <1>3 DEF Disk!BlockSizeRaw

\* The blocks at the addresses A of an image, as BlocksOf has them, and the
\* image after a block was written.
View(A, b) == [a \in {a \in A : Offset(a[1], a[2]) \in DOMAIN b} |-> b[Offset(a[1], a[2])]]

Written(b, t, s, c) ==
  IF OnImage(t, s)
  THEN [o \in DOMAIN b \cup {Offset(t, s)} |-> IF o = Offset(t, s) THEN c ELSE b[o]]
  ELSE b

OnlyBlocks(b) ==
  \A o \in DOMAIN b : \E t \in Int, s \in Int : OnImage(t, s) /\ o = Offset(t, s)

\* The disk d with the content c put at the address a, if it has such a block.
PutOn(d, a, c) ==
  [x \in DOMAIN d \cup {y \in {a} : Convert!OnDisk(y)} |-> IF x = a THEN c ELSE d[x]]

\* Writing a block puts it on the disk, and leaves the others alone.
LEMMA ViewWritten ==
  ASSUME NEW A \in SUBSET (Int \X Int), NEW b, OnlyBlocks(b),
         NEW t \in Int, NEW s \in Int, <<t, s>> \in A, NEW c
  PROVE  View(A, Written(b, t, s, c)) = PutOn(View(A, b), <<t, s>>, c)
<1> DEFINE w == Written(b, t, s, c)
           D == {a \in A : Offset(a[1], a[2]) \in DOMAIN b}
           a0 == <<t, s>>
<1>1. DOMAIN View(A, b) = D /\ \A x \in D : View(A, b)[x] = b[Offset(x[1], x[2])] BY DEF View
<1>2. CASE OnImage(t, s)
  <2>1. Convert!OnDisk(a0) /\ Offset(t, s) # -1 BY <1>2, ImageIsDisk
  <2>2. /\ DOMAIN w = DOMAIN b \cup {Offset(t, s)}
        /\ \A o \in DOMAIN w : w[o] = IF o = Offset(t, s) THEN c ELSE b[o]
    BY <1>2 DEF Written
  <2> HIDE DEF w
  <2>3. \A x \in A : Offset(x[1], x[2]) = Offset(t, s) <=> x = a0
    <3> SUFFICES ASSUME NEW x \in A, Offset(x[1], x[2]) = Offset(t, s) PROVE x = a0
      OBVIOUS
    <3>1. x[1] \in Int /\ x[2] \in Int /\ x = <<x[1], x[2]>> OBVIOUS
    <3> QED BY <2>1, <3>1, OffsetsApart
  <2>4. {x \in A : Offset(x[1], x[2]) \in DOMAIN w} = D \cup {a0} BY <2>2, <2>3
  <2>5. \A x \in D \cup {a0} : w[Offset(x[1], x[2])] = IF x = a0 THEN c ELSE b[Offset(x[1], x[2])]
    BY <2>2, <2>3, <2>4
  <2>6. {y \in {a0} : Convert!OnDisk(y)} = {a0} BY <2>1
  <2>7. View(A, w) = [x \in D \cup {a0} |-> w[Offset(x[1], x[2])]] BY <2>4 DEF View
  <2>8. [x \in D \cup {a0} |-> w[Offset(x[1], x[2])]]
          = [x \in D \cup {a0} |-> IF x = a0 THEN c ELSE View(A, b)[x]]
    <3>1. \A x \in D \cup {a0} :
            w[Offset(x[1], x[2])] = IF x = a0 THEN c ELSE View(A, b)[x]
      BY <1>1, <2>5
    <3> QED BY <3>1
  <2> QED BY <1>1, <2>6, <2>7, <2>8 DEF w, PutOn
<1>3. CASE ~OnImage(t, s)
  <2>1. w = b /\ {y \in {a0} : Convert!OnDisk(y)} = {} BY <1>3, ImageIsDisk DEF Written
  <2>2. a0 \notin D
    <3> SUFFICES ASSUME Offset(t, s) \in DOMAIN b PROVE FALSE
      OBVIOUS
    <3>1. PICK u \in Int, r \in Int : OnImage(u, r) /\ Offset(t, s) = Offset(u, r)
      BY DEF OnlyBlocks
    <3>2. Offset(u, r) # -1 BY <3>1, ImageIsDisk
    <3>3. <<t, s>> = <<u, r>> BY <3>1, <3>2, OffsetsApart
    <3> QED BY <1>3, <3>1, <3>3
  <2>3. View(A, b) = [x \in D |-> IF x = a0 THEN c ELSE View(A, b)[x]]
    <3>1. View(A, b) = [x \in D |-> View(A, b)[x]] BY DEF View
    <3>2. \A x \in D : x # a0 BY <2>2
    <3>3. [x \in D |-> View(A, b)[x]] = [x \in D |-> IF x = a0 THEN c ELSE View(A, b)[x]]
      BY <3>2
    <3> QED BY <3>1, <3>3
  <2>4. DOMAIN View(A, b) \cup {y \in {a0} : Convert!OnDisk(y)} = D BY <1>1, <2>1
  <2> QED BY <2>1, <2>3, <2>4 DEF PutOn
<1> QED BY <1>2, <1>3

LEMMA WrittenOnlyBlocks ==
  ASSUME NEW b, OnlyBlocks(b), NEW t \in Int, NEW s \in Int, NEW c
  PROVE  OnlyBlocks(Written(b, t, s, c))
<1>1. DOMAIN Written(b, t, s, c) = IF OnImage(t, s) THEN DOMAIN b \cup {Offset(t, s)} ELSE DOMAIN b
  BY DEF Written
<1> QED BY <1>1 DEF OnlyBlocks

\* Writing a block once more changes nothing.
Has(b, t, s, c) == OnImage(t, s) => Offset(t, s) \in DOMAIN b /\ b[Offset(t, s)] = c

LEMMA ViewWrittenAgain ==
  ASSUME NEW A, NEW b, NEW t, NEW s, NEW c, Has(b, t, s, c)
  PROVE  View(A, Written(b, t, s, c)) = View(A, b)
<1>1. CASE OnImage(t, s)
  <2> DEFINE w == Written(b, t, s, c)
  <2>1. Offset(t, s) \in DOMAIN b /\ b[Offset(t, s)] = c BY <1>1 DEF Has
  <2>2. DOMAIN w = DOMAIN b /\ \A o \in DOMAIN b : w[o] = b[o] BY <1>1, <2>1 DEF Written
  <2> HIDE DEF w
  <2> QED BY <2>2 DEF View, w
<1>2. CASE ~OnImage(t, s) BY <1>2 DEF Written
<1> QED BY <1>1, <1>2

LEMMA HasWritten ==
  ASSUME NEW b, NEW t, NEW s, NEW c
  PROVE  Has(Written(b, t, s, c), t, s, c)
BY DEF Has, Written

\* A block that was loaded unpacks to what the archive has for it.
LEMMA BlockLength ==
  ASSUME NEW S, NEW f \in [1..BlockSize -> S]
  PROVE  Len(f) = BlockSize
BY BlockSizeAssumption

LEMMA ItemUnpacked ==
  ASSUME archive \in Archives, Loaded, NEW k \in DOMAIN Starts, Starts[k][1] < slice_count
  PROVE  /\ k \in DOMAIN archive.items
         /\ TrackAt(Starts[k]) = archive.items[k].track /\ archive.items[k].track \in Int
         /\ SectorAt(Starts[k]) = archive.items[k].sector /\ archive.items[k].sector \in Int
         /\ Unpacks(Starts[k]) <=> archive.items[k].content # NoContent
         /\ Unpacks(Starts[k]) => Unpacked(Starts[k]) = archive.items[k].content
<1> DEFINE p == Starts[k]
           x == archive.items[k]
           bytes == archive.files[p[1]].bytes
           at(n) == bytes[p[2] + n + 1]
           unpacked == Codec!Decoded(SubSeq(bytes, p[2] + 5, Len(bytes)), at(3), at(2))
           method == FileMethod(archive, p)
<1>1. /\ k \in DOMAIN archive.items
      /\ x.track = at(0) % 64 /\ x.sector = at(1)
      /\ method = 0 => x.content = [n \in 1..BlockSize |-> at(n + 1)]
      /\ method = 1 => x.content = [n \in 1..BlockSize |-> at(2)]
      /\ method = 2 /\ Len(unpacked) = BlockSize => x.content = unpacked
      /\ x.content = NoContent <=> \/ method = 2 /\ Len(unpacked) # BlockSize
                                  \/ method = 3
  BY ItemsAssumption DEF ItemsStored, Starts
<1>2. /\ p[1] \in SliceFiles /\ p[2] \in Nat /\ p[2] < archive.files[p[1]].size
  BY StartFacts DEF Starts
<1>3. slices[p[1]].bytes = bytes
  BY <1>2 DEF Loaded, SliceLoaded, SliceFiles, SliceMax
<1>4. at(0) \in 0..255 /\ at(1) \in 0..255
  <2>1. bytes[p[2] + 1] \in 0..255 /\ bytes[p[2] + 2] \in 0..255 BY <1>2, FileBytes
  <2>2. p[2] + 0 + 1 = p[2] + 1 /\ p[2] + 1 + 1 = p[2] + 2 BY <1>2
  <2> QED BY <2>1, <2>2
<1>5. Byte(p, 0) = at(0) /\ Byte(p, 1) = at(1) /\ Byte(p, 2) = at(2) /\ Byte(p, 3) = at(3)
  BY <1>3 DEF Byte
<1>6. MethodAt(p) = method BY LoadedBlock
<1>7. method \in {0, 1, 2, 3}
  <2>1. method = bytes[p[2] + 1] \div 64 BY DEF FileMethod
  <2>2. bytes[p[2] + 1] \in 0..255 BY <1>2, FileBytes
  <2> QED BY <2>1, <2>2
<1>8. TrackAt(p) = x.track /\ SectorAt(p) = x.sector
  <2>1. TrackAt(p) = Byte(p, 0) % 64 /\ SectorAt(p) = Byte(p, 1) BY DEF TrackAt, SectorAt
  <2>2. Byte(p, 0) = at(0) /\ Byte(p, 1) = at(1) BY <1>5
  <2>3. x.track = at(0) % 64 /\ x.sector = at(1) BY <1>1
  <2> QED BY ONLY <2>1, <2>2, <2>3
<1>9. x.track \in Int /\ x.sector \in Int
  <2>1. PICK c \in 0..255 : c = at(0) BY <1>4
  <2>2. x.track = c % 64 BY <1>1, <2>1
  <2>3. x.sector \in 0..255 BY <1>1, <1>4
  <2>4. c % 64 \in Int OBVIOUS
  <2> QED BY <2>2, <2>3, <2>4
<1>10. Unpacks(p) <=> method <= 2 /\ Len(Unpacked(p)) = BlockSize
  BY <1>6 DEF Unpacks, PackRle
<1>11. CASE method = 0
  <2>1. Unpacked(p) = [n \in 1..BlockSize |-> bytes[(p[2] + 2) + n]]
    BY <1>3, <1>6, <1>11 DEF Unpacked, PackNone
  <2>2. \A n \in 1..BlockSize : (p[2] + 2) + n = p[2] + (n + 1) + 1
    BY <1>2, BlockSizeAssumption
  <2>3. Unpacked(p) = x.content BY <1>1, <1>11, <2>1, <2>2
  <2>4. Len(Unpacked(p)) = BlockSize
    <3>1. Unpacked(p) \in [1..BlockSize -> {bytes[(p[2] + 2) + n] : n \in 1..BlockSize}]
      BY <2>1
    <3> QED BY <3>1, BlockLength
  <2> QED BY <1>1, <1>8, <1>9, <1>10, <1>11, <2>3, <2>4
<1>12. CASE method = 1
  <2>1. Unpacked(p) = [n \in 1..BlockSize |-> bytes[(p[2] + 2) + 1]]
    BY <1>3, <1>6, <1>12 DEF Unpacked, PackNone, PackFill
  <2>2. (p[2] + 2) + 1 = p[2] + 2 + 1 BY <1>2
  <2>3. Unpacked(p) = x.content BY <1>1, <1>12, <2>1, <2>2
  <2>4. Len(Unpacked(p)) = BlockSize
    <3>1. Unpacked(p) \in [1..BlockSize -> {bytes[(p[2] + 2) + 1]}]
      BY <2>1
    <3> QED BY <3>1, BlockLength
  <2> QED BY <1>1, <1>8, <1>9, <1>10, <1>12, <2>3, <2>4
<1>13. CASE method = 2
  <2>1. Unpacked(p) = Codec!Decoded(SubSeq(bytes, (p[2] + 2) + 3, Len(bytes)),
                                    Byte(p, 3), Byte(p, 2))
    BY <1>3, <1>6, <1>13 DEF Unpacked, PackNone, PackFill
  <2>2. (p[2] + 2) + 3 = p[2] + 5 BY <1>2
  <2>3. Byte(p, 2) = at(2) /\ Byte(p, 3) = at(3) BY <1>5
  <2> HIDE DEF at, bytes
  <2>4. Unpacked(p) = unpacked BY <2>1, <2>2, <2>3
  <2> QED BY <1>1, <1>8, <1>9, <1>10, <1>13, <2>4
<1>14. CASE method = 3
  BY <1>1, <1>8, <1>9, <1>10, <1>14
<1> QED BY <1>7, <1>11, <1>12, <1>13, <1>14

\* A block is known by its place.
LEMMA ShownBlock ==
  ASSUME archive \in Archives, NEW j \in DOMAIN Starts
  PROVE  /\ Number(Starts[j]) = j /\ Starts[j] # Null
         /\ j \in Nat \ {0} /\ j <= Len(archive.items) /\ Len(archive.items) \in Nat
<1>1. ItemsStored(archive) BY ItemsAssumption
<1>2. Len(archive.items) = Len(Starts) BY <1>1 DEF ItemsStored, Starts
<1>3. /\ Len(Starts) \in Nat /\ DOMAIN Starts = 1..Len(Starts)
      /\ Starts[j] \in SliceFiles \X Nat
  BY StartFacts DEF Starts
<1>4. ASSUME NEW k \in DOMAIN Starts, Starts[k] = Starts[j] PROVE k = j
  <2>1. /\ Starts[j][1] \in Int /\ Starts[j][2] \in Nat
    BY <1>3 DEF SliceFiles, SliceMax
  <2>2. ~Before(Starts[j], Starts[j]) BY <2>1 DEF Before
  <2>3. k < j => Before(Starts[k], Starts[j]) BY StartsOrdered DEF Starts
  <2>4. j < k => Before(Starts[j], Starts[k]) BY StartsOrdered DEF Starts
  <2> QED BY <1>3, <1>4, <2>2, <2>3, <2>4
<1>5. Number(Starts[j]) = j BY <1>4 DEF Number
<1>6. Starts[j] # Null BY <1>3 DEF Null
<1> QED BY <1>2, <1>3, <1>5, <1>6

\* The state of Conversion that a state of Unzip stands for.
Mapped ==
  /\ StatusView = "converting" => DiskView = View(Addresses, img_blocks)
  /\ StatusView # "converting" => DiskView = Convert!Blank
  /\ host = Image!NoFile => D64View = NoD64
  /\ host # Image!NoFile => D64View = View(Addresses, host.blocks)

LEMMA BlankView == ASSUME NEW A PROVE View(A, Image!Empty) = Convert!Blank
BY DEF View, Image!Empty, Convert!Blank

LEMMA AddressesInt ==
  ASSUME archive \in Archives
  PROVE  Addresses \in SUBSET (Int \X Int)
<1> SUFFICES ASSUME NEW k \in DOMAIN archive.items
             PROVE  archive.items[k].track \in Int /\ archive.items[k].sector \in Int
  BY DEF Addresses
<1> DEFINE x == archive.items[k]
           bytes == archive.files[archive.starts[k][1]].bytes
           o == archive.starts[k][2]
<1>1. /\ k \in DOMAIN archive.starts
      /\ x.track = bytes[o + 0 + 1] % 64 /\ x.sector = bytes[o + 1 + 1]
  BY ItemsAssumption DEF ItemsStored
<1>2. /\ archive.starts[k] \in SliceFiles \X Nat
      /\ o < archive.files[archive.starts[k][1]].size
  BY <1>1, StartFacts
<1>3. bytes[o + 1] \in 0..255 /\ bytes[o + 2] \in 0..255 BY <1>2, FileBytes
<1>4. o + 0 + 1 = o + 1 /\ o + 1 + 1 = o + 2 BY <1>2
<1>5. PICK b \in 0..255 : b = bytes[o + 1] BY <1>3
<1>6. x.track = b % 64 /\ x.sector \in 0..255 BY <1>1, <1>3, <1>4, <1>5
<1>7. b % 64 \in Int OBVIOUS
<1> QED BY <1>6, <1>7

LEMMA ViewOfBlocks == ASSUME NEW b PROVE BlocksOf(b) = View(Addresses, b)
BY DEF BlocksOf, View, Offset

LEMMA IsMapped == Mapped
BY BlankView, ViewOfBlocks DEF Mapped, DiskView, D64View

Reading == {"name", "read", "opened"}
Converting == {"alloc", "start", "unpack", "next", "write", "release", "fail"}

\* The block that is shown is on the disk.
OnDisk == /\ Unpacks(block_data)
          /\ Has(img_blocks, TrackAt(block_data), SectorAt(block_data), Unpacked(block_data))

\* The image is one of 35 tracks, whatever was allocated, and has blocks where
\* the geometry puts them.
ImageInv ==
  /\ img_type = "CBMDOS"
  /\ pc \in Converting \ {"alloc"} => img_size \in {Image!SizeCbmdos, Image!SizeExtended}
  /\ OnlyBlocks(img_blocks)
  /\ pc \in Reading \cup {"alloc", "start"} => img_blocks = Image!Empty
  /\ pc \in Reading \cup (Converting \ {"release"}) => host = Image!NoFile

\* Where the iterator is, and what has become of the block it shows: one that is
\* shown again was put on the disk before.
BlockInv ==
  /\ pc \in Reading \cup {"alloc", "start"} => block_data = Null
  /\ pc \in {"unpack", "next"} => AtSomeBlock
  /\ pc = "unpack" /\ ~InSlice(slice_index, slice_offset) => OnDisk
  /\ pc = "next" => OnDisk
  /\ pc = "write" => \E j \in DOMAIN Starts : block_data = Starts[j] /\ EndsAfter(j)
  /\ pc = "fail" => \/ block_data = Null
                    \/ \E j \in DOMAIN Starts : /\ block_data = Starts[j]
                                                /\ archive.items[j].content = NoContent

UnzipInv ==
  /\ archive \in Archives
  /\ pc \in Reading => Inv /\ OrderInv
  /\ pc \in Converting => Loaded
  /\ ImageInv
  /\ BlockInv

LEMMA NoBlocks == OnlyBlocks(Image!Empty)
BY DEF OnlyBlocks, Image!Empty

LEMMA UnzipInvInit == UnzipInit => UnzipInv /\ Convert!Init
<1> SUFFICES ASSUME UnzipInit PROVE UnzipInv /\ Convert!Init
  OBVIOUS
<1>1. /\ Init /\ pc = "name" /\ block_data = Null /\ archive \in Archives
      /\ img_type = "CBMDOS" /\ img_blocks = Image!Empty /\ host = Image!NoFile
  BY DEF UnzipInit, Init, Image!Init
<1>2. Inv BY <1>1, InvInit
<1>3. OrderInv
  <2>1. \A n \in 0..(SliceMax - 1) : slices[n].size = 0 BY <1>1, EmptySlice DEF Init
  <2> QED BY <1>1, <2>1 DEF Init, OrderInv, ReadSoFar, FoundSoFar, Dumping
<1>4. UnzipInv
  BY <1>1, <1>2, <1>3, NoBlocks DEF UnzipInv, ImageInv, BlockInv, Reading, Converting
<1>5. Convert!Init
  <2>1. Ends \subseteq 0..Len(archive.items) BY DEF Ends
  <2>2. StatusView = "converting" BY <1>1 DEF StatusView, Failed
  <2>3. PutView = 0 BY <1>1 DEF PutView
  <2>4. DiskView = Convert!Blank BY <1>1, <2>2, IsMapped, BlankView DEF Mapped
  <2>5. D64View = NoD64 BY <1>1, IsMapped DEF Mapped
  <2> QED BY <2>1, <2>2, <2>3, <2>4, <2>5 DEF Convert!Init
<1> QED BY <1>4, <1>5

\* A step of Conversion, or none.
ConvertStep == [Convert!Next]_(Convert!vars)

LEMMA NoStep ==
  ASSUME UNCHANGED archive, PutView' = PutView, StatusView' = StatusView,
         DiskView' = DiskView, D64View' = D64View
  PROVE  Convert!vars' = Convert!vars
BY DEF Convert!vars, Ends, EndsAfter, Starts

\* Reading the archive.
LEMMA ReadingStep ==
  ASSUME UnzipInv, CheckName \/ ReadSlice \/ SliceFails, UNCHANGED <<imageVars, host>>
  PROVE  UnzipInv' /\ ConvertStep
<1>1. /\ pc \in {"name", "read"} /\ pc' \in {"read", "opened", "done"}
      /\ pc' = "done" => ~ret'.result
      /\ UNCHANGED <<archive, block_data, img_blocks, img_type, img_size, host>>
  BY DEF CheckName, ReadSlice, SliceFails, iterVars, imageVars, GivesUp, Returns
<1>2. Inv /\ OrderInv /\ block_data = Null /\ host = Image!NoFile
  BY <1>1 DEF UnzipInv, BlockInv, ImageInv, Reading
<1>3. Inv' /\ OrderInv'
  BY <1>2, CheckNameKeeps, ReadSliceKeeps, SliceFailsKeeps, CheckNameOrders, ReadSliceOrders,
     SliceFailsOrders
<1>4. UnzipInv'
  BY <1>1, <1>2, <1>3 DEF UnzipInv, ImageInv, BlockInv, Reading, Converting
<1>5. Mapped /\ Mapped' BY IsMapped, PTL
<1>6. PutView = 0 /\ PutView' = 0 BY <1>1, <1>2 DEF PutView
<1>7. D64View = NoD64 /\ D64View' = NoD64 BY <1>1, <1>2, <1>5 DEF Mapped
<1>8. StatusView = "converting" BY <1>1 DEF StatusView, Failed
<1>9. CASE pc' = "done"
  <2>1. StatusView' = "failed" BY <1>1, <1>9 DEF StatusView, Failed
  <2>2. DiskView' = Convert!Blank BY <1>5, <2>1 DEF Mapped
  <2>3. Ends' = Ends BY <1>1 DEF Ends, EndsAfter, Starts
  <2>4. Convert!Fail BY <1>1, <1>6, <1>7, <1>8, <2>1, <2>2, <2>3 DEF Convert!Fail
  <2> QED BY <1>4, <2>4 DEF ConvertStep, Convert!Next
<1>10. CASE pc' # "done"
  <2>1. StatusView' = "converting" BY <1>1, <1>10 DEF StatusView, Failed
  <2>2. DiskView' = DiskView BY <1>1, <1>5, <1>8, <2>1 DEF Mapped, Addresses
  <2> QED BY <1>1, <1>4, <1>6, <1>7, <1>8, <2>1, <2>2, NoStep DEF ConvertStep
<1> QED BY <1>9, <1>10

\* Making an image.
LEMMA ImageStep ==
  ASSUME UnzipInv, NewImage \/ AllocImage
  PROVE  UnzipInv' /\ ConvertStep
<1>1. /\ pc \in {"opened", "alloc"} /\ pc' \in {"alloc", "start"}
      /\ UNCHANGED <<archive, slices, slice_count, block_data, host>>
      /\ img_blocks' = Image!Empty
      /\ pc = "alloc" <=> pc' = "start"
      /\ pc = "alloc" => img_size' \in {Image!SizeCbmdos, Image!SizeExtended}
      /\ img_type' \in {"CBMDOS", img_type}
  BY DEF NewImage, AllocImage, Go, Untouched, handleVars, iterVars, Image!HandleInit,
     Image!Alloc, Image!AllocSize
<1>2. /\ archive \in Archives /\ Loaded /\ block_data = Null /\ host = Image!NoFile
      /\ img_type = "CBMDOS" /\ img_blocks = Image!Empty
  BY <1>1 DEF UnzipInv, BlockInv, ImageInv, Reading, Converting, OrderInv, ReadSoFar
<1>3. Loaded' BY <1>1, <1>2 DEF Loaded, SliceLoaded
<1>4. UnzipInv'
  BY <1>1, <1>2, <1>3, NoBlocks DEF UnzipInv, ImageInv, BlockInv, Reading, Converting
<1>5. Mapped /\ Mapped' BY IsMapped, PTL
<1>6. PutView = 0 /\ PutView' = 0 BY <1>1, <1>2 DEF PutView
<1>7. StatusView = "converting" /\ StatusView' = "converting" BY <1>1 DEF StatusView, Failed
<1>8. DiskView' = DiskView /\ D64View' = D64View
  BY <1>1, <1>2, <1>5, <1>7 DEF Mapped, Addresses
<1> QED BY <1>1, <1>4, <1>6, <1>7, <1>8, NoStep DEF ConvertStep

\* The first block, or none.
LEMMA StartStep ==
  ASSUME UnzipInv, StartUnzip
  PROVE  UnzipInv' /\ ConvertStep
<1>1. /\ pc = "start" /\ IterInit /\ pc' = IF ret'.result THEN "unpack" ELSE "fail"
      /\ UNCHANGED <<archive, slices, slice_count, img_blocks, img_type, img_size, host>>
  BY DEF StartUnzip, Untouched, handleVars
<1>2. /\ archive \in Archives /\ Loaded /\ block_data = Null /\ host = Image!NoFile
      /\ img_blocks = Image!Empty /\ img_type = "CBMDOS"
      /\ img_size \in {Image!SizeCbmdos, Image!SizeExtended}
  BY <1>1 DEF UnzipInv, BlockInv, ImageInv, Converting
<1>3. Loaded' BY <1>1, <1>2 DEF Loaded, SliceLoaded
<1>4. /\ ret'.result => AtSomeBlock' /\ FirstTime(1)'
      /\ ~ret'.result => block_data' = Null
  BY <1>1, <1>2, IterInitFinds
<1>5. ret'.result => InSlice(slice_index, slice_offset)' /\ AtBlock(1)'
  BY <1>4 DEF FirstTime
<1>6. UnzipInv'
  BY <1>1, <1>2, <1>3, <1>4, <1>5, NoBlocks
     DEF UnzipInv, ImageInv, BlockInv, Reading, Converting
<1>7. Mapped /\ Mapped' BY IsMapped, PTL
<1>8. PutView = 0 BY <1>2 DEF PutView
<1>9. PutView' = 0
  <2>1. CASE ret'.result
    <3>1. Starts' = Starts /\ 1 \in DOMAIN Starts /\ block_data' = Starts[1]
      BY <1>1, <1>5, <2>1 DEF AtBlock, Starts
    <3>2. Number(Starts[1])' = Number(Starts[1]) BY <3>1 DEF Number
    <3>3. Number(block_data)' = 1 /\ block_data' # Null
      BY <1>2, <3>1, <3>2, ShownBlock DEF Number
    <3>4. Pending' BY <1>1, <1>5, <2>1 DEF Pending
    <3> QED BY <3>3, <3>4 DEF PutView
  <2>2. CASE ~ret'.result BY <1>4, <2>2 DEF PutView
  <2> QED BY <2>1, <2>2
<1>10. StatusView = "converting" /\ StatusView' = "converting"
  BY <1>1 DEF StatusView, Failed
<1>11. DiskView' = DiskView /\ D64View' = D64View
  BY <1>1, <1>2, <1>7, <1>10 DEF Mapped, Addresses
<1> QED BY <1>1, <1>6, <1>8, <1>9, <1>10, <1>11, NoStep DEF ConvertStep

\* How many blocks are on the disk, by what the iterator shows.
LEMMA PutCount ==
  ASSUME archive \in Archives, NEW j \in DOMAIN Starts, block_data = Starts[j]
  PROVE  PutView = IF Pending THEN j - 1 ELSE j
BY ShownBlock DEF PutView

\* A block is unpacked and put on the disk; putting it there again changes
\* nothing.
LEMMA UnpackStep ==
  ASSUME UnzipInv, UnpackBlock
  PROVE  UnzipInv' /\ ConvertStep
<1> DEFINE t == TrackAt(block_data)
           s == SectorAt(block_data)
           c == Unpacked(block_data)
<1>1. /\ pc = "unpack" /\ pc' = "next" /\ Unpacks(block_data)
      /\ UNCHANGED <<archive, slices, slice_count, slice_index, slice_offset, block_data, host,
                     img_type, img_size>>
      /\ img_blocks' = IF Image!CanAccess(img_type, t, s)
                       THEN Image!Store(Image!BlockOffset(t, s), c) ELSE img_blocks
  BY DEF UnpackBlock, Go, Untouched, handleVars, iterVars, Image!BlockWrite
<1>2. /\ archive \in Archives /\ Loaded /\ AtSomeBlock /\ host = Image!NoFile
      /\ OnlyBlocks(img_blocks) /\ img_type = "CBMDOS"
      /\ img_size \in {Image!SizeCbmdos, Image!SizeExtended}
      /\ ~InSlice(slice_index, slice_offset) => OnDisk
  BY <1>1 DEF UnzipInv, BlockInv, ImageInv, Converting
<1>3. img_blocks' = Written(img_blocks, t, s, c)
  BY <1>1, <1>2 DEF Written, OnImage, Offset, Image!Store
<1>4. PICK j \in DOMAIN Starts : AtBlock(j) BY <1>2 DEF AtSomeBlock
<1>5. block_data = Starts[j] /\ Starts[j][1] < slice_count BY <1>4 DEF AtBlock
<1> DEFINE x == archive.items[j]
<1>6. /\ t = x.track /\ s = x.sector /\ t \in Int /\ s \in Int
      /\ x.content # NoContent /\ c = x.content /\ j \in DOMAIN archive.items
  BY <1>1, <1>2, <1>5, ItemUnpacked
<1>7. UnzipInv'
  <2>1. Loaded' BY <1>1, <1>2 DEF Loaded, SliceLoaded
  <2>2. OnlyBlocks(img_blocks') BY <1>2, <1>3, <1>6, WrittenOnlyBlocks
  <2>3. AtBlock(j)' BY <1>1, <1>4 DEF AtBlock, Starts
  <2>4. AtSomeBlock' BY <1>1, <2>3 DEF AtSomeBlock, Starts
  <2>5. OnDisk'
    <3>1. Has(img_blocks', t, s, c) BY <1>3, HasWritten
    <3>2. /\ TrackAt(block_data)' = t /\ SectorAt(block_data)' = s
          /\ Unpacked(block_data)' = c /\ Unpacks(block_data)'
      BY <1>1 DEF TrackAt, SectorAt, Unpacked, Unpacks, MethodAt, Byte
    <3> QED BY <3>1, <3>2 DEF OnDisk
  <2> QED
    BY <1>1, <1>2, <2>1, <2>2, <2>4, <2>5 DEF UnzipInv, ImageInv, BlockInv, Reading, Converting
<1>8. Mapped /\ Mapped' BY IsMapped, PTL
<1>9. StatusView = "converting" /\ StatusView' = "converting" BY <1>1 DEF StatusView, Failed
<1>10. /\ DiskView = View(Addresses, img_blocks) /\ DiskView' = View(Addresses, img_blocks')
       /\ D64View = NoD64 /\ D64View' = NoD64
  BY <1>1, <1>2, <1>8, <1>9 DEF Mapped, Addresses
<1>11. PutView' = j
  <2>1. ~Pending' BY <1>1 DEF Pending, Failed
  <2>2. PutView' = Number(block_data)' BY <1>5, <2>1, <1>1, <1>2, ShownBlock DEF PutView
  <2>3. Number(block_data)' = Number(Starts[j]) BY <1>1, <1>5 DEF Number, Starts
  <2> QED BY <1>2, <2>2, <2>3, ShownBlock
<1>12. CASE InSlice(slice_index, slice_offset)
  <2>1. PutView = j - 1 BY <1>1, <1>2, <1>5, <1>12, PutCount DEF Pending
  <2>2. Addresses \in SUBSET (Int \X Int) BY <1>2, AddressesInt
  <2>3. <<t, s>> \in Addresses BY <1>6 DEF Addresses
  <2>4. DiskView' = PutOn(DiskView, <<t, s>>, c)
    <3>1. t \in Int /\ s \in Int BY <1>6
    <3> HIDE DEF t, s, c
    <3>2. View(Addresses, Written(img_blocks, t, s, c))
            = PutOn(View(Addresses, img_blocks), <<t, s>>, c)
      BY <1>2, <2>2, <2>3, <3>1, ViewWritten
    <3> QED BY <1>3, <1>10, <3>2
  <2>5. j - 1 + 1 = j /\ j - 1 < Len(archive.items) BY <1>2, ShownBlock
  <2>6. Ends' = Ends BY <1>1 DEF Ends, EndsAfter, Starts
  <2>7. Convert!Put
    BY <1>1, <1>6, <1>9, <1>10, <1>11, <2>1, <2>4, <2>5, <2>6 DEF Convert!Put, PutOn
  <2> QED BY <1>7, <2>7 DEF ConvertStep, Convert!Next
<1>13. CASE ~InSlice(slice_index, slice_offset)
  <2>1. PutView = j BY <1>1, <1>2, <1>5, <1>13, PutCount DEF Pending, Failed
  <2>2. Has(img_blocks, t, s, c) BY <1>2, <1>13 DEF OnDisk
  <2>3. DiskView' = DiskView BY <1>3, <1>10, <2>2, ViewWrittenAgain
  <2> QED BY <1>1, <1>7, <1>9, <1>10, <1>11, <2>1, <2>3, NoStep DEF ConvertStep
<1> QED BY <1>12, <1>13

\* A block that does not unpack has not been on the disk.
LEMMA UnpackFailsStep ==
  ASSUME UnzipInv, UnpackFails
  PROVE  UnzipInv' /\ ConvertStep
<1>1. /\ pc = "unpack" /\ pc' = "fail" /\ ~Unpacks(block_data)
      /\ UNCHANGED <<archive, slices, slice_count, slice_index, slice_offset, block_data, host,
                     img_blocks, img_type, img_size>>
  BY DEF UnpackFails, Go, Untouched, handleVars, iterVars, imageVars
<1>2. /\ archive \in Archives /\ Loaded /\ AtSomeBlock /\ host = Image!NoFile
      /\ OnlyBlocks(img_blocks) /\ img_type = "CBMDOS"
      /\ img_size \in {Image!SizeCbmdos, Image!SizeExtended}
      /\ InSlice(slice_index, slice_offset)
  BY <1>1 DEF UnzipInv, BlockInv, ImageInv, Converting, OnDisk
<1>3. PICK j \in DOMAIN Starts : AtBlock(j) BY <1>2 DEF AtSomeBlock
<1>4. block_data = Starts[j] /\ Starts[j][1] < slice_count BY <1>3 DEF AtBlock
<1>5. archive.items[j].content = NoContent BY <1>1, <1>2, <1>4, ItemUnpacked
<1>6. Loaded' BY <1>1, <1>2 DEF Loaded, SliceLoaded
<1>7. j \in DOMAIN Starts' /\ block_data' = Starts'[j] /\ archive'.items[j].content = NoContent
  BY <1>1, <1>4, <1>5 DEF Starts
<1>8. UnzipInv'
  BY <1>1, <1>2, <1>6, <1>7 DEF UnzipInv, ImageInv, BlockInv, Reading, Converting
<1>9. Mapped /\ Mapped' BY IsMapped, PTL
<1>10. StatusView = "converting" /\ StatusView' = "converting" BY <1>1 DEF StatusView, Failed
<1>11. DiskView' = DiskView /\ D64View' = D64View
  BY <1>1, <1>2, <1>9, <1>10 DEF Mapped, Addresses
<1>12. PutView' = PutView
  <2>1. Pending /\ Pending' BY <1>1, <1>2 DEF Pending
  <2> QED BY <1>1, <2>1 DEF PutView, Number, Starts
<1> QED BY <1>1, <1>8, <1>10, <1>11, <1>12, NoStep DEF ConvertStep

\* The iterator moves to the next block, shows the last one of a slice again, or
\* has come to an end of the archive.
LEMMA AdvanceStep ==
  ASSUME UnzipInv, Advance
  PROVE  UnzipInv' /\ ConvertStep
<1>1. /\ pc = "next" /\ IterNext /\ pc' = IF ret'.result THEN "unpack" ELSE "write"
      /\ UNCHANGED <<archive, slices, slice_count, img_blocks, img_type, img_size, host>>
  BY DEF Advance, Untouched, handleVars, imageVars
<1>2. /\ archive \in Archives /\ Loaded /\ AtSomeBlock /\ host = Image!NoFile
      /\ OnlyBlocks(img_blocks) /\ img_type = "CBMDOS"
      /\ img_size \in {Image!SizeCbmdos, Image!SizeExtended}
      /\ OnDisk
  BY <1>1 DEF UnzipInv, BlockInv, ImageInv, Converting
<1>3. PICK j \in DOMAIN Starts : AtBlock(j) BY <1>2 DEF AtSomeBlock
<1>4. block_data = Starts[j] /\ Starts[j][1] < slice_count BY <1>3 DEF AtBlock
<1>5. MethodAt(Starts[j]) <= PackRle BY <1>2, <1>4 DEF OnDisk, Unpacks
<1>6. ~(MethodAt(Starts[j]) > PackRle)
  <2>1. Byte(Starts[j], 0) \in 0..255 BY <1>2, <1>4, LoadedBlock
  <2>2. MethodAt(Starts[j]) \in Int BY <2>1 DEF MethodAt
  <2> QED BY <1>5, <2>2 DEF PackRle
<1>7. /\ ret'.result => AtSomeBlock' /\ (FirstTime(j + 1)' \/ Again(j)')
      /\ ~ret'.result => block_data' = block_data /\ EndsAfter(j)
  BY <1>1, <1>2, <1>3, <1>6, NextInSliceFinds, LeaveSliceFinds DEF IterNext
<1>8. Loaded' BY <1>1, <1>2 DEF Loaded, SliceLoaded
<1>9. Starts' = Starts BY <1>1 DEF Starts
<1>10. UnzipInv'
  <2>1. CASE ~ret'.result
    <3>1. pc' = "write" /\ block_data' = Starts[j] /\ EndsAfter(j)'
      BY <1>1, <1>4, <1>7, <1>9, <2>1 DEF EndsAfter
    <3> QED
      BY <1>1, <1>2, <1>8, <1>9, <3>1 DEF UnzipInv, ImageInv, BlockInv, Reading, Converting
  <2>2. CASE ret'.result /\ Again(j)'
    <3>1. pc' = "unpack" /\ block_data' = block_data /\ ~InSlice(slice_index, slice_offset)'
      BY <1>1, <1>4, <1>9, <2>2 DEF Again, AtBlock
    <3>2. OnDisk'
      <4>1. /\ TrackAt(block_data)' = TrackAt(block_data)
            /\ SectorAt(block_data)' = SectorAt(block_data)
            /\ Unpacked(block_data)' = Unpacked(block_data)
            /\ Unpacks(block_data)' = Unpacks(block_data)
        BY <1>1, <3>1 DEF TrackAt, SectorAt, Unpacked, Unpacks, MethodAt, Byte
      <4> QED BY <1>1, <1>2, <4>1 DEF OnDisk
    <3> QED
      BY <1>1, <1>2, <1>7, <1>8, <2>2, <3>1, <3>2
         DEF UnzipInv, ImageInv, BlockInv, Reading, Converting
  <2>3. CASE ret'.result /\ FirstTime(j + 1)'
    <3>1. /\ pc' = "unpack" /\ InSlice(slice_index, slice_offset)'
          /\ j + 1 \in DOMAIN Starts /\ block_data' = Starts[j + 1]
      BY <1>1, <1>9, <2>3 DEF FirstTime, AtBlock
    <3> QED
      BY <1>1, <1>2, <1>7, <1>8, <2>3, <3>1 DEF UnzipInv, ImageInv, BlockInv, Reading, Converting
  <2> QED BY <1>7, <2>1, <2>2, <2>3
<1>11. PutView = j BY <1>1, <1>2, <1>4, PutCount DEF Pending, Failed
<1>12. PutView' = j
  <2>1. j \in Nat /\ Number(Starts[j]) = j /\ Starts[j] # Null BY <1>2, ShownBlock
  <2>2. ASSUME NEW k \in DOMAIN Starts, block_data' = Starts[k]
        PROVE  block_data' # Null /\ Number(block_data)' = k
    <3>1. Number(block_data)' = Number(Starts[k]) BY <1>9, <2>2 DEF Number
    <3> QED BY <1>2, <2>2, <3>1, ShownBlock
  <2>3. CASE ~ret'.result
    <3>1. ~Pending' BY <1>1, <2>3 DEF Pending, Failed
    <3> QED BY <1>4, <1>7, <2>2, <2>3, <3>1 DEF PutView
  <2>4. CASE ret'.result /\ Again(j)'
    <3>1. ~InSlice(slice_index, slice_offset)' /\ block_data' = Starts[j]
      BY <1>9, <2>4 DEF Again, AtBlock
    <3>2. ~Pending' BY <1>1, <2>4, <3>1 DEF Pending, Failed
    <3> QED BY <2>2, <3>1, <3>2 DEF PutView
  <2>5. CASE ret'.result /\ FirstTime(j + 1)'
    <3>1. /\ InSlice(slice_index, slice_offset)'
          /\ j + 1 \in DOMAIN Starts /\ block_data' = Starts[j + 1]
      BY <1>9, <2>5 DEF FirstTime, AtBlock
    <3>2. Pending' BY <1>1, <2>5, <3>1 DEF Pending
    <3>3. PutView' = (j + 1) - 1 BY <2>2, <3>1, <3>2 DEF PutView
    <3> QED BY <2>1, <3>3
  <2> QED BY <1>7, <2>3, <2>4, <2>5
<1>13. Mapped /\ Mapped' BY IsMapped, PTL
<1>14. StatusView = "converting" /\ StatusView' = "converting" BY <1>1 DEF StatusView, Failed
<1>15. DiskView' = DiskView /\ D64View' = D64View
  BY <1>1, <1>2, <1>13, <1>14 DEF Mapped, Addresses
<1> QED BY <1>1, <1>10, <1>11, <1>12, <1>14, <1>15, NoStep DEF ConvertStep

\* The file holds the blocks of the image, or nothing.
LEMMA CutView ==
  ASSUME NEW A, OnlyBlocks(img_blocks), img_size \in {Image!SizeCbmdos, Image!SizeExtended},
         NEW m \in {0, Image!SizeCbmdos, img_size}
  PROVE  /\ Image!Cut(m) # Image!NoFile
         /\ \/ View(A, Image!Cut(m).blocks) = View(A, img_blocks)
            \/ View(A, Image!Cut(m).blocks) = Convert!Blank
<1> DEFINE B == {o \in DOMAIN img_blocks : Image!Fits(o, m)}
<1>1. /\ Image!Cut(m).size = m
      /\ Image!Cut(m).blocks = [o \in B |-> img_blocks[o]]
  BY DEF Image!Cut
<1>2. m \in Nat BY DEF Image!SizeCbmdos, Image!SizeExtended
<1>3. Image!Cut(m) # Image!NoFile BY <1>1, <1>2 DEF Image!NoFile
<1>4. \A o \in DOMAIN img_blocks : o \in Int /\ Image!Fits(o, Image!SizeCbmdos)
  <2> SUFFICES ASSUME NEW o \in DOMAIN img_blocks
               PROVE  o \in Int /\ Image!Fits(o, Image!SizeCbmdos)
    OBVIOUS
  <2>1. PICK t \in Int, s \in Int : OnImage(t, s) /\ o = Offset(t, s) BY DEF OnlyBlocks
  <2>2. Offset(t, s) \in Nat /\ Image!Fits(Offset(t, s), Image!SizeCbmdos)
    BY <2>1, ImageIsDisk
  <2> QED BY <2>1, <2>2
<1>5. CASE m = 0
  <2>1. B = {} BY <1>4, <1>5 DEF Image!Fits, Image!BlockSizeRaw
  <2>2. Image!Cut(m).blocks = Image!Empty BY <1>1, <2>1 DEF Image!Empty
  <2> QED BY <1>3, <2>2, BlankView
<1>6. CASE m # 0
  <2>1. m >= Image!SizeCbmdos BY <1>6 DEF Image!SizeCbmdos, Image!SizeExtended
  <2>2. B = DOMAIN img_blocks
    BY <1>2, <1>4, <2>1 DEF Image!Fits, Image!BlockSizeRaw, Image!SizeCbmdos
  <2>3. /\ DOMAIN Image!Cut(m).blocks = DOMAIN img_blocks
        /\ \A o \in DOMAIN img_blocks : Image!Cut(m).blocks[o] = img_blocks[o]
    BY <1>1, <2>2
  <2> QED BY <1>3, <2>3 DEF View
<1> QED BY <1>5, <1>6

\* The image is written to its file.
LEMMA WriteStep ==
  ASSUME UnzipInv, WriteImage
  PROVE  UnzipInv' /\ ConvertStep
<1>1. /\ pc = "write" /\ pc' = "release" /\ Image!Write(Out) /\ host' = img_file'
      /\ UNCHANGED <<archive, slices, slice_count, block_data, img_blocks, img_type, img_size>>
  BY DEF WriteImage, Go, Untouched, handleVars, iterVars, Image!Write
<1>2. /\ archive \in Archives /\ Loaded /\ host = Image!NoFile
      /\ OnlyBlocks(img_blocks) /\ img_type = "CBMDOS"
      /\ img_size \in {Image!SizeCbmdos, Image!SizeExtended}
      /\ \E j \in DOMAIN Starts : block_data = Starts[j] /\ EndsAfter(j)
  BY <1>1 DEF UnzipInv, BlockInv, ImageInv, Converting
<1>3. PICK j \in DOMAIN Starts : block_data = Starts[j] /\ EndsAfter(j) BY <1>2
<1>4. Loaded' BY <1>1, <1>2 DEF Loaded, SliceLoaded
<1>5. UnzipInv'
  BY <1>1, <1>2, <1>4 DEF UnzipInv, ImageInv, BlockInv, Reading, Converting
<1>6. \/ host' = Image!NoFile
      \/ \E m \in {0, Image!SizeCbmdos, img_size} : host' = Image!Cut(m)
  <2>1. \E ok \in BOOLEAN : Image!Fwrite(img_path', ok)
    BY <1>1, OutAssumption DEF Image!Write
  <2> QED BY <1>1, <2>1 DEF Image!Fwrite, Image!ShortSizes
<1>7. Mapped /\ Mapped' BY IsMapped, PTL
<1>8. StatusView = "converting" /\ StatusView' = "ok" BY <1>1 DEF StatusView, Failed
<1>9. DiskView = View(Addresses, img_blocks) /\ DiskView' = Convert!Blank
  BY <1>7, <1>8 DEF Mapped
<1>10. D64View' \in {DiskView, Convert!Blank, NoD64}
  <2>1. CASE host' = Image!NoFile BY <1>7, <2>1 DEF Mapped
  <2>2. CASE \E m \in {0, Image!SizeCbmdos, img_size} : host' = Image!Cut(m)
    <3>1. PICK m \in {0, Image!SizeCbmdos, img_size} : host' = Image!Cut(m) BY <2>2
    <3>2. /\ Image!Cut(m) # Image!NoFile
          /\ \/ View(Addresses, Image!Cut(m).blocks) = View(Addresses, img_blocks)
             \/ View(Addresses, Image!Cut(m).blocks) = Convert!Blank
      BY <1>2, CutView
    <3>3. D64View' = View(Addresses, Image!Cut(m).blocks)
      BY <1>1, <1>7, <3>1, <3>2 DEF Mapped, Addresses
    <3> QED BY <1>9, <3>2, <3>3
  <2> QED BY <1>6, <2>1, <2>2
<1>11. PutView = j BY <1>1, <1>2, <1>3, PutCount DEF Pending, Failed
<1>12. PutView' = PutView
  <2>1. ~Pending /\ ~Pending' BY <1>1 DEF Pending, Failed
  <2> QED BY <1>1, <2>1 DEF PutView, Number, Starts
<1>13. j \in Ends /\ j > 0 BY <1>2, <1>3, ShownBlock DEF Ends
<1>14. Ends' = Ends BY <1>1 DEF Ends, EndsAfter, Starts
<1>15. Convert!Finish
  BY <1>1, <1>8, <1>9, <1>10, <1>11, <1>12, <1>13, <1>14 DEF Convert!Finish
<1> QED BY <1>5, <1>15 DEF ConvertStep, Convert!Next

\* The conversion is over, with or without a file.
LEMMA ReleaseStep ==
  ASSUME UnzipInv, Release
  PROVE  UnzipInv' /\ ConvertStep
<1>1. /\ pc' = "done" /\ UNCHANGED <<archive, block_data, img_type, host>>
      /\ img_blocks' = Image!Empty
      /\ \/ pc = "release" /\ ret'.result = TRUE
         \/ pc = "fail" /\ ret'.result = FALSE
  BY DEF Release, Go, Returns, Untouched, iterVars, Image!Free
<1>2. /\ archive \in Archives /\ img_type = "CBMDOS"
      /\ pc = "fail" => /\ host = Image!NoFile
                        /\ \/ block_data = Null
                           \/ \E j \in DOMAIN Starts : /\ block_data = Starts[j]
                                                       /\ archive.items[j].content = NoContent
  BY <1>1 DEF UnzipInv, BlockInv, ImageInv, Converting
<1>3. UnzipInv'
  BY <1>1, <1>2, NoBlocks DEF UnzipInv, ImageInv, BlockInv, Reading, Converting
<1>4. Mapped /\ Mapped' BY IsMapped, PTL
<1>5. StatusView' # "converting" /\ DiskView' = Convert!Blank
  BY <1>1, <1>4 DEF StatusView, Failed, Mapped
<1>6. D64View' = D64View BY <1>1, <1>4 DEF Mapped, Addresses
<1>7. PutView' = PutView
  <2>1. Pending' <=> Pending BY <1>1 DEF Pending, Failed
  <2> QED BY <1>1, <2>1 DEF PutView, Number, Starts
<1>8. CASE pc = "release"
  <2>1. StatusView = "ok" /\ StatusView' = "ok" BY <1>1, <1>8 DEF StatusView, Failed
  <2>2. DiskView = Convert!Blank BY <1>4, <2>1 DEF Mapped
  <2> QED BY <1>1, <1>3, <1>5, <1>6, <1>7, <2>1, <2>2, NoStep DEF ConvertStep
<1>9. CASE pc = "fail"
  <2>1. StatusView = "converting" /\ StatusView' = "failed"
    BY <1>1, <1>9 DEF StatusView, Failed
  <2>2. PutView > 0 => /\ PutView < Len(archive.items)
                       /\ archive.items[PutView + 1].content = NoContent
    <3>1. CASE block_data = Null BY <3>1 DEF PutView
    <3>2. CASE block_data # Null
      <4>1. PICK j \in DOMAIN Starts : /\ block_data = Starts[j]
                                       /\ archive.items[j].content = NoContent
        BY <1>2, <1>9, <3>2
      <4>2. PutView = j - 1 BY <1>2, <1>9, <4>1, PutCount DEF Pending
      <4> QED BY <1>2, <4>1, <4>2, ShownBlock
    <3> QED BY <3>1, <3>2
  <2>3. Ends' = Ends BY <1>1 DEF Ends, EndsAfter, Starts
  <2>4. Convert!Fail
    BY <1>1, <1>5, <1>6, <1>7, <2>1, <2>2, <2>3 DEF Convert!Fail
  <2> QED BY <1>3, <2>4 DEF ConvertStep, Convert!Next
<1> QED BY <1>1, <1>8, <1>9

LEMMA UnzipStep == UnzipInv /\ [UnzipNext]_unzipVars => UnzipInv' /\ ConvertStep
<1> SUFFICES ASSUME UnzipInv, [UnzipNext]_unzipVars PROVE UnzipInv' /\ ConvertStep
  OBVIOUS
<1>1. CASE UNCHANGED unzipVars
  <2>1. UNCHANGED <<archive, pc, i, path, slices, slice_count, slice_index, slice_offset,
                    block_data, zcc_errno, ret, img_blocks, img_type, img_size, host>>
    BY <1>1 DEF unzipVars, vars, imageVars
  <2>2. pc \in Reading => Inv' /\ OrderInv'
    <3>1. UNCHANGED vars BY <1>1 DEF unzipVars
    <3>2. Inv => Inv' BY <3>1, InvNext
    <3>3. OrderInv => OrderInv'
      BY <2>1 DEF OrderInv, ReadSoFar, FoundSoFar, Loaded, SliceLoaded, AtSomeBlock, AtBlock,
         AllVisited, Full, SizeOf, Starts
    <3> QED BY <3>2, <3>3 DEF UnzipInv
  <2>3. UnzipInv'
    <3>1. Loaded => Loaded' BY <2>1 DEF Loaded, SliceLoaded
    <3>2. ImageInv' BY <2>1 DEF UnzipInv, ImageInv
    <3>3. BlockInv'
      BY <2>1 DEF UnzipInv, BlockInv, AtSomeBlock, AtBlock, OnDisk, Unpacks, Unpacked, TrackAt,
         SectorAt, MethodAt, Byte, InSlice, SizeOf, EndsAfter, Starts
    <3> QED BY <2>1, <2>2, <3>1, <3>2, <3>3 DEF UnzipInv
  <2>4. Convert!vars' = Convert!vars
    BY <2>1 DEF Convert!vars, Ends, EndsAfter, Starts, PutView, Pending, Failed, Number, InSlice,
       SizeOf, DiskView, BlocksOf, Addresses, D64View, StatusView
  <2> QED BY <2>3, <2>4 DEF ConvertStep
<1>2. CASE (CheckName \/ ReadSlice \/ SliceFails) /\ UNCHANGED <<imageVars, host>>
  BY <1>2, ReadingStep
<1>3. CASE NewImage \/ AllocImage BY <1>3, ImageStep
<1>4. CASE StartUnzip BY <1>4, StartStep
<1>5. CASE UnpackBlock BY <1>5, UnpackStep
<1>6. CASE UnpackFails BY <1>6, UnpackFailsStep
<1>7. CASE Advance BY <1>7, AdvanceStep
<1>8. CASE WriteImage BY <1>8, WriteStep
<1>9. CASE Release BY <1>9, ReleaseStep
<1> QED BY <1>1, <1>2, <1>3, <1>4, <1>5, <1>6, <1>7, <1>8, <1>9 DEF UnzipNext

\* Every behaviour of the conversion is one of Conversion: the blocks come on
\* the disk as they unpack, in their order and without a gap, although the last
\* block of every slice is delivered twice; a block that does not unpack ends it
\* without a file; and the file holds what was put on the disk.
THEOREM ImplementsTheConversion == UnzipSpec => ImplementsConversion
<1>1. UnzipInv /\ [UnzipNext]_unzipVars => [Convert!Next]_(Convert!vars)
  BY UnzipStep DEF ConvertStep
<1> QED
  BY UnzipInvInit, UnzipStep, <1>1, PTL DEF UnzipSpec, ImplementsConversion, Convert!Spec

-------------------------------------------------------------------------------
(* The conversion stays in its memory.                                     *)

\* The image that d64.c is called with exists, every block in it lies inside its
\* buffer, and no block is read from it.
ImageUsable ==
  /\ pc \in Converting \ {"alloc"} => img_phase = "live" /\ img_data = "live"
  /\ \A o \in DOMAIN img_blocks : Image!Fits(o, img_size)
  /\ img_ret.op # "block_read"

\* Until the command returns the iterator is in the array of slices, and shows a
\* block that starts in live data.
SlicesLive ==
  \A n \in 0..(SliceMax - 1) : slices[n].size > 0 => slices[n].data = "live"

ShowsLive ==
  pc \in {"unpack", "next"} =>
    /\ block_data # Null
    /\ block_data[2] < slices[block_data[1]].size
    /\ slices[block_data[1]].data = "live"

MemoryInv ==
  /\ slice_index \in Nat /\ SliceIndexInBounds
  /\ pc \in Converting => SlicesLive
  /\ pc \in Reading \cup {"alloc"} => img_blocks = Image!Empty
  /\ pc = "alloc" => img_phase = "live"
  /\ ImageUsable

LEMMA MemoryInvInit == UnzipInit => MemoryInv
<1> SUFFICES ASSUME UnzipInit PROVE MemoryInv
  OBVIOUS
<1>1. /\ pc = "name" /\ slice_index = 0
      /\ img_blocks = Image!Empty /\ img_ret.op = "none"
  BY DEF UnzipInit, Init, Image!Init
<1>2. DOMAIN img_blocks = {} BY <1>1 DEF Image!Empty
<1> QED
  BY <1>1, <1>2 DEF MemoryInv, ImageUsable, SliceIndexInBounds, SliceMax, Converting, Reading

LEMMA BlocksFit ==
  ASSUME NEW b, OnlyBlocks(b), NEW n \in {Image!SizeCbmdos, Image!SizeExtended}
  PROVE  \A o \in DOMAIN b : Image!Fits(o, n)
<1> SUFFICES ASSUME NEW o \in DOMAIN b PROVE Image!Fits(o, n)
  OBVIOUS
<1>1. PICK t \in Int, s \in Int : OnImage(t, s) /\ o = Offset(t, s) BY DEF OnlyBlocks
<1>2. Offset(t, s) \in Nat /\ Image!Fits(Offset(t, s), Image!SizeCbmdos)
  BY <1>1, ImageIsDisk
<1> QED
  BY <1>1, <1>2 DEF Image!Fits, Image!SizeCbmdos, Image!SizeExtended, Image!BlockSizeRaw

LEMMA MemoryInvNext ==
  UnzipInv /\ UnzipInv' /\ MemoryInv /\ [UnzipNext]_unzipVars => MemoryInv'
<1> SUFFICES ASSUME UnzipInv, UnzipInv', MemoryInv, [UnzipNext]_unzipVars PROVE MemoryInv'
  OBVIOUS
<1> USE DEF MemoryInv, Converting, Reading
<1>1. CASE UNCHANGED unzipVars
  BY <1>1 DEF unzipVars, vars, imageVars, ImageUsable, SlicesLive, SliceIndexInBounds
<1>2. CASE (CheckName \/ ReadSlice \/ SliceFails) /\ UNCHANGED <<imageVars, host>>
  <2>1. /\ pc \in {"name", "read"} /\ pc' \in {"read", "opened", "done"}
        /\ UNCHANGED <<slice_index, img_blocks, img_size, img_ret, img_phase, img_data>>
    BY <1>2 DEF CheckName, ReadSlice, SliceFails, iterVars, imageVars, GivesUp
  <2> QED BY <2>1 DEF ImageUsable, SliceIndexInBounds
<1>3. CASE NewImage
  <2>1. /\ pc = "opened" /\ pc' = "alloc" /\ UNCHANGED <<slices, slice_index>>
        /\ img_blocks' = Image!Empty /\ img_phase' = "live" /\ img_ret'.op = "init"
    BY <1>3 DEF NewImage, Go, Untouched, handleVars, iterVars, Image!HandleInit, Image!Returns,
       Image!Gives
  <2>2. SlicesLive BY <2>1 DEF UnzipInv, Inv, SlicesRead, SlicesLive
  <2>3. SlicesLive' BY <2>1, <2>2 DEF SlicesLive
  <2> QED BY <2>1, <2>3 DEF ImageUsable, SliceIndexInBounds, Image!Empty
<1>4. CASE AllocImage
  <2>1. /\ pc = "alloc" /\ pc' = "start" /\ UNCHANGED <<slices, slice_index, img_phase>>
        /\ img_blocks' = Image!Empty /\ img_data' = "live" /\ img_ret'.op = "alloc"
    BY <1>4 DEF AllocImage, Go, Untouched, handleVars, iterVars, Image!Alloc, Image!Returns,
       Image!Gives
  <2>2. SlicesLive' BY <2>1 DEF SlicesLive
  <2> QED BY <2>1, <2>2 DEF ImageUsable, SliceIndexInBounds, Image!Empty
<1>5. CASE StartUnzip
  <2>1. /\ pc = "start" /\ pc' \in {"unpack", "fail"} /\ slice_index' = 0
        /\ UNCHANGED <<slices, img_blocks, img_size, img_ret, img_phase, img_data>>
    BY <1>5 DEF StartUnzip, IterInit, Untouched, handleVars
  <2>2. SlicesLive' BY <2>1 DEF SlicesLive
  <2> QED BY <2>1, <2>2 DEF ImageUsable, SliceIndexInBounds, SliceMax
<1>6. CASE UnpackBlock
  <2>1. /\ pc = "unpack" /\ pc' = "next"
        /\ UNCHANGED <<slices, slice_index, img_size, img_phase, img_data>>
        /\ img_ret'.op = "block_write"
    BY <1>6 DEF UnpackBlock, Go, Untouched, handleVars, iterVars, Image!BlockWrite,
       Image!Returns, Image!Gives
  <2>2. SlicesLive' BY <2>1 DEF SlicesLive
  <2>3. OnlyBlocks(img_blocks') /\ img_size' \in {Image!SizeCbmdos, Image!SizeExtended}
    BY <2>1 DEF UnzipInv, ImageInv
  <2>4. \A o \in DOMAIN img_blocks' : Image!Fits(o, img_size') BY <2>3, BlocksFit
  <2> QED BY <2>1, <2>2, <2>4 DEF ImageUsable, SliceIndexInBounds
<1>7. CASE UnpackFails
  <2>1. /\ pc = "unpack" /\ pc' = "fail"
        /\ UNCHANGED <<slices, slice_index, img_blocks, img_size, img_ret, img_phase, img_data>>
    BY <1>7 DEF UnpackFails, Go, Untouched, handleVars, iterVars, imageVars
  <2>2. SlicesLive' BY <2>1 DEF SlicesLive
  <2> QED BY <2>1, <2>2 DEF ImageUsable, SliceIndexInBounds
<1>8. CASE Advance
  <2>1. /\ pc = "next" /\ IterNext /\ pc' \in {"unpack", "write"}
        /\ UNCHANGED <<slices, img_blocks, img_size, img_ret, img_phase, img_data>>
    BY <1>8 DEF Advance, Untouched, handleVars, imageVars
  <2>2. SlicesLive' BY <2>1 DEF SlicesLive
  <2>3. slice_index < slice_count /\ slice_count \in {4, 5}
    BY <2>1 DEF UnzipInv, BlockInv, AtSomeBlock, AtBlock, Loaded
  <2>4. slice_index' \in {slice_index, slice_index + 1}
    BY <2>1 DEF IterNext, NextInSlice, LeaveSlice, iterVars, Following
  <2>5. slice_index' \in Nat /\ slice_index' < SliceMax BY <2>3, <2>4 DEF SliceMax
  <2> QED BY <2>1, <2>2, <2>5 DEF ImageUsable, SliceIndexInBounds
<1>9. CASE WriteImage
  <2>1. /\ pc = "write" /\ pc' = "release"
        /\ UNCHANGED <<slices, slice_index, img_blocks, img_size, img_phase, img_data>>
        /\ img_ret'.op = "write"
    BY <1>9 DEF WriteImage, Go, Untouched, handleVars, iterVars, Image!Write, Image!Returns,
       Image!Gives
  <2>2. SlicesLive' BY <2>1 DEF SlicesLive
  <2> QED BY <2>1, <2>2 DEF ImageUsable, SliceIndexInBounds
<1>10. CASE Release
  <2>1. /\ pc' = "done" /\ UNCHANGED slice_index
        /\ img_blocks' = Image!Empty /\ img_ret'.op = "free"
    BY <1>10 DEF Release, Go, Untouched, iterVars, Image!Free, Image!Returns, Image!Gives
  <2> QED BY <2>1 DEF ImageUsable, SliceIndexInBounds, Image!Empty
<1> QED BY <1>1, <1>2, <1>3, <1>4, <1>5, <1>6, <1>7, <1>8, <1>9, <1>10 DEF UnzipNext

\* zcc_zipdisk_unzip stays in its memory, whatever the archive holds: the iterator
\* in the array of slices, and what it shows in live data; every call for the
\* image goes to one that was allocated and not freed; and no block is copied
\* outside its buffer, although its track and sector come from the archive.
THEOREM UnzipStaysInMemory ==
  UnzipSpec => [](SliceIndexInBounds /\ ShowsLive /\ ImageUsable)
<1>1. ASSUME UnzipInv, MemoryInv
      PROVE  SliceIndexInBounds /\ ShowsLive /\ ImageUsable
  <2>1. SliceIndexInBounds /\ ImageUsable BY <1>1 DEF MemoryInv
  <2>2. ASSUME pc \in {"unpack", "next"}
        PROVE  /\ block_data # Null
               /\ block_data[2] < slices[block_data[1]].size
               /\ slices[block_data[1]].data = "live"
    <3>1. archive \in Archives /\ Loaded /\ AtSomeBlock /\ SlicesLive
      BY <1>1, <2>2 DEF UnzipInv, BlockInv, MemoryInv, Converting
    <3>2. PICK j \in DOMAIN Starts : AtBlock(j) BY <3>1 DEF AtSomeBlock
    <3>3. block_data = Starts[j] /\ Starts[j][1] < slice_count BY <3>2 DEF AtBlock
    <3>4. /\ Starts[j] # Null /\ Starts[j][1] \in 0..(SliceMax - 1)
          /\ Starts[j][2] \in Nat
          /\ Starts[j][2] < archive.files[Starts[j][1]].size
      BY <3>1, ShownBlock, StartFacts DEF Starts, SliceFiles, SliceMax
    <3>5. slices[Starts[j][1]].size = archive.files[Starts[j][1]].size
      BY <3>1, <3>3, <3>4 DEF Loaded, SliceLoaded, SliceMax
    <3>6. archive.files[Starts[j][1]].size \in Int
      BY <3>1, <3>4, StartFacts, ArchivesAssumption DEF Starts
    <3> QED BY <3>1, <3>3, <3>4, <3>5, <3>6 DEF SlicesLive
  <2> QED BY <2>1, <2>2 DEF ShowsLive
<1> QED
  BY UnzipInvInit, UnzipStep, MemoryInvInit, MemoryInvNext, <1>1, PTL DEF UnzipSpec
=============================================================================
