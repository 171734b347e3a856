------------------------------- MODULE MCD64Dir -------------------------------
(***************************************************************************)
(* Images for Listing: a directory of up to two blocks that ends, runs in  *)
(* a circle or leads nowhere, entries for files of every kind, and disk    *)
(* names with every PETSCII code.                                          *)
(***************************************************************************)
EXTENDS Listing, TLC

CONSTANT p

NoBam == [t \in TrackMin..TrackMax |-> {}]

\* Names with letters of both cases, the space that fills them, signs that are
\* no ASCII, and a zero byte.
MCNameBytes == <<<<193, 66, 49, 160>>, <<90, 0, 65, 65>>, <<218, 45, 192, 255>>,
                 <<96, 161, 219, 224>>>>
               @@ 0 :> <<0, 65, 65, 0>> @@ 9 :> <<255, 0, 1, 2>>

\* A type of each kind: closed, open, locked, and with no name.
Entry(name, a, n) ==
  [name |-> name, filetype |-> <<130, 1, 195, 71>>[(name % 4) + 1],
   track |-> a[1], sector |-> a[2], blocks |-> n]
NoEntry == Entry(0, <<0, 0>>, 0)

NoName == <<0, 0, 0, 0>>

Data(a) == [link |-> a, entries |-> [n \in Slots |-> NoEntry], bam |-> NoBam,
            diskname |-> NoName]
MCBlank == Data(<<0, 0>>)

DirBlock(next, e, f) ==
  [Data(<<18, next>>) EXCEPT !.entries = [n \in Slots |-> IF n = 0 THEN e ELSE f]]

\* Sectors 0 to 3 are free on every track.
Bam(diskname) == [Data(<<18, 1>>) EXCEPT !.bam = [t \in TrackMin..TrackMax |-> 0..3],
                                         !.diskname = diskname]

\* First blocks: of a file, a blank block, and blocks that are not on the
\* image: of track 36, and the one that only zcc_d64_block_is_valid accepts.
FileBlocks == {<<17, 0>>, <<17, 2>>, <<36, 0>>, <<35, 17>>}

\* What follows the first block of the file: nothing, another block, itself,
\* no block.
Links == {<<0, 100>>, <<17, 1>>, <<17, 0>>, <<36, 5>>}

NamedImage(diskname, dir1, dir2, file1, file2) ==
  [size |-> SizeCbmdos,
   blocks |-> BlockOffset(18, 0) :> Bam(diskname) @@ BlockOffset(18, 1) :> dir1
              @@ BlockOffset(18, 4) :> dir2 @@ BlockOffset(17, 0) :> Data(file1)
              @@ BlockOffset(17, 1) :> Data(file2)]

Image(dir1, dir2, file1, file2) ==
  NamedImage(<<77, 89, 160, 160>>, dir1, dir2, file1, file2)

\* Directories of every shape with the same file everywhere.
Last(next, named) == DirBlock(next, Entry(3, <<17, 0>>, 2),
                              IF named THEN Entry(4, <<17, 0>>, 2) ELSE NoEntry)

Shapes == {Image(DirBlock(next, Entry(1, <<17, 0>>, 300), Entry(2, <<17, 2>>, 2)),
                 Last(after, named), <<17, 1>>, <<0, 50>>) :
             next \in {255, 0, 1, 4, 19, 30}, after \in {255, 1, 4, 20},
             named \in BOOLEAN}

\* Files of every shape in one directory.
Files == {Image(DirBlock(4, Entry(1, a, 2), Entry(2, b, 2)), Last(255, TRUE), c, d) :
            a \in FileBlocks, b \in FileBlocks, c \in Links,
            d \in {<<0, 50>>, <<17, 0>>}}

\* An empty directory under disk names with every code, and with a zero byte
\* in every place.
Codes(n) == [k \in 1..4 |-> n + 64 * (k - 1)]
Disks == {NamedImage(d, DirBlock(255, NoEntry, NoEntry), MCBlank, <<0, 50>>, <<0, 50>>) :
            d \in {Codes(n) : n \in 0..63}
                    \cup {[Codes(1) EXCEPT ![k] = 0] : k \in 1..4}}

MCHostFiles == Shapes \cup Files \cup Disks \cup {[size |-> -1, blocks |-> Empty],
                                       [size |-> SizeExtended, blocks |-> Empty]}

MCContent == UNION {{f.blocks[o] : o \in DOMAIN f.blocks} : f \in MCHostFiles} \cup {MCBlank}

MCGarbage == {NoEntry, Entry(9, <<17, 0>>, 1), Entry(9, <<17, 2>>, 1)}
===============================================================================
