----------------------------- MODULE ZipdiskFiles -----------------------------
(***************************************************************************)
(* Archives for TLC, as doc/reference/formats/zip_disk.txt lays them out,  *)
(* with blocks of BlockSize bytes.  A block is written down as what it     *)
(* stores: [track, sector, method, payload, content].                      *)
(***************************************************************************)
EXTENDS Integers, SequencesExt

CONSTANT BlockSize

Rep == 9      \* starts a run in the packed data
Byte1 == 1
Byte2 == 2

Block(t, s, m, payload, content) ==
  [track |-> t, sector |-> s, method |-> m, payload |-> payload, content |-> content]

All(x) == [k \in 1..BlockSize |-> x]

\* A content that no fill makes.
Mixed == [k \in 1..BlockSize |-> IF k = 1 THEN Byte2 ELSE Byte1]

\* The content of a block that cannot be unpacked.
NoBytes == <<>>

Raw(t, s) == Block(t, s, 0, Mixed, Mixed)
Fill(t, s, x) == Block(t, s, 1, <<x>>, All(x))
Filled(t, s) == Fill(t, s, Byte2)

\* Packed to a literal and a run.
Packed(t, s) == Block(t, s, 2, <<4, Rep, Byte2, Rep, BlockSize - 1, Byte1>>, Mixed)

\* Packed bytes that stand for one byte less than a block, and for more.
TooFew(t, s) == Block(t, s, 2, <<3, Rep, Rep, BlockSize - 1, Byte1>>, NoBytes)
TooMany(t, s) == Block(t, s, 2, <<3, Rep, Rep, BlockSize + 1, Byte1>>, All(Byte1))

Unused(t, s) == Block(t, s, 3, <<Byte1>>, NoBytes)

BlockBytes(b) == <<b.track + 64 * b.method, b.sector>> \o b.payload

\* What lies before the blocks the iterator visits: the load address, and in
\* the first slice the disk id.  With the load address of the others the first
\* slice has no disk id, and its first block begins behind the load address: a
\* filled one, the byte of which the iterator takes for a track.
Header(n, other) ==
  IF n = 0 THEN IF other THEN <<0, 4>> \o SubSeq(BlockBytes(Filled(1, 0)), 1, 2)
                ELSE <<254, 3, 88, 88>>
  ELSE IF other THEN <<254, 3>> ELSE <<0, 4>>

FileBytes(n, other, blocks) ==
  Header(n, other) \o FlattenSeq([k \in DOMAIN blocks |-> BlockBytes(blocks[k])])

\* Slice n: a list of blocks, the last cut bytes of which are missing from the
\* file.  After its end lies what the heap holds.
SliceOf(blocks, cut) == [blocks |-> blocks, cut |-> cut, other |-> FALSE]
Missing == SliceOf(<<>>, -1)

\* With the load address of the first slice elsewhere, or another in the first.
OtherLoad(blocks) == [blocks |-> blocks, cut |-> 0, other |-> TRUE]

Heap(x) == [k \in 1..(BlockSize + 4) |-> x]

BytesOf(n, s) == FileBytes(n, s.other, s.blocks)

SliceSize(n, s) == IF s = Missing THEN -1 ELSE Len(BytesOf(n, s)) - s.cut

SliceFile(n, s, heap) ==
  [size |-> SliceSize(n, s),
   bytes |-> SubSeq(BytesOf(n, s), 1, SliceSize(n, s)) \o Heap(heap)]

\* Where the blocks of slice n start.
SliceStarts(n, s) ==
  SelectSeq([k \in DOMAIN s.blocks |->
               <<n, Len(FileBytes(n, s.other, SubSeq(s.blocks, 1, k - 1)))>>],
            LAMBDA p : p[2] < SliceSize(n, s))

\* The archive of the slices ss[1], ss[2], ... up to five.
Archive(name, ss, heap) ==
  LET slice(n) == IF n < Len(ss) THEN ss[n + 1] ELSE Missing
  IN  [name   |-> name,
       files  |-> [n \in 0..4 |-> SliceFile(n, slice(n), heap)],
       starts |-> FlattenSeq([k \in DOMAIN ss |-> SliceStarts(k - 1, ss[k])]),
       items  |-> FlattenSeq([k \in DOMAIN ss |-> ss[k].blocks])]
===============================================================================
