-------------------------------- MODULE D64Dir --------------------------------
(***************************************************************************)
(* Listing the directory of a D64 image: cmd_d64_dir of main.c, with the   *)
(* directory object, the directory entry iterator, the block iterator and  *)
(* the block counts of d64.c, over the handle of D64.                      *)
(*                                                                         *)
(* A block on the disk is what the program makes of its bytes:             *)
(* [link, entries, bam].  The link is the first two bytes; entries are the *)
(* directory entries it would hold, each [name, filetype, track, sector,   *)
(* blocks] with name 0 where the name starts with a zero byte; bam gives   *)
(* the free sectors of a track.  Every block has them all, for any block   *)
(* may be reached over a wrong link.                                       *)
(***************************************************************************)
EXTENDS D64, FiniteSetsExt, Sequences

CONSTANTS
  SlotsPerBlock,  \* entries in a directory block, 8 in the code
  DirentMax,      \* entries in a directory object, 144 in the code
  Garbage,        \* entries an uninitialised buffer may read as
  SizeCap,        \* bound on the byte count of a file: one that does not end
                  \* starts over
  Uninit          \* the size in the iterator before one was stored

DirTrack == 18
DirSector == 1
BamSector == 0
DataSize == 254

ASSUME SlotsAssumption == SlotsPerBlock \in Nat \ {0}
ASSUME DirentMaxAssumption == DirentMax \in Nat \ {0}
\* The count of a file that ends does not start over.
ASSUME SizeCapAssumption ==
  /\ SizeCap \in Nat
  /\ \A f \in HostFiles : DataSize * Cardinality(DOMAIN f.blocks) <= SizeCap
ASSUME CbmdosAssumption == "CBMDOS" \in Types
ASSUME UninitAssumption == Uninit \notin Nat

Names == Nat
BlockCounts == 0..65535
Slots == 0..(SlotsPerBlock - 1)
Entries == [name : Names, filetype : 0..255, track : 0..255, sector : 0..255,
            blocks : BlockCounts]

ASSUME GarbageAssumption == Garbage \subseteq Entries /\ Garbage # {}
ASSUME BlocksAssumption ==
  \A c \in Content : /\ c.link \in (0..255) \X (0..255)
                     /\ c.entries \in [Slots -> Entries]

VARIABLES
  dpc,        \* "open", "load", "dir", "size", "chain", "entry", "next",
              \* "dump", "close", "done"
  sector,     \* the iterator: sector on track 18,
  slot,       \* the entry in it (offset / 32),
  index,      \* how many entries it has passed,
  dirent,     \* and the entry itself
  link,       \* the block iterator: link of the block it is on
  total,      \* bytes counted by zcc_d64_file_size
  entries,    \* the entries of the directory object
  shown       \* the blocks free printed, -1 before

iterVars == <<sector, slot, index, dirent>>
chainVars == <<link, total>>
dirVars == <<dpc, iterVars, chainVars, entries, shown>>
handleVars == <<path, data, blocks, size, type, phase, ret, buf, file>>

NoDirent == [name |-> 0, filetype |-> 0, track |-> 0, sector |-> 0, blocks |-> 0,
             size |-> Uninit]

DirInit ==
  /\ Init
  /\ dpc = "open"
  /\ sector = DirSector
  /\ slot = 0
  /\ index = 0
  /\ dirent = NoDirent
  /\ link = <<0, 0>>
  /\ total = 0
  /\ entries = <<>>
  /\ shown = -1

Go(from, to) == dpc = from /\ dpc' = to

Block(t, s) == Fetch(BlockOffset(t, s))

-------------------------------------------------------------------------------
(* The image.                                                              *)

Open ==
  /\ Go("open", "load")
  /\ HandleInit
  /\ UNCHANGED <<iterVars, chainVars, entries, shown>>

\* The command asks for type 0.
Load(p, f) ==
  /\ dpc = "load"
  /\ Read(p, "CBMDOS", f)
  /\ dpc' = IF ret'.result = 1 THEN "dir" ELSE "done"
  /\ UNCHANGED <<iterVars, chainVars, entries, shown>>

-------------------------------------------------------------------------------
(* The directory entry iterator.                                           *)

BlockCount(n) == n % 256

\* zcc_d64_dirent_read, but for the size: that stays as the entry before left
\* it until the file has been measured.
DirentRead(e) ==
  dirent' = [name |-> e.name, filetype |-> e.filetype, track |-> e.track,
             sector |-> e.sector, blocks |-> BlockCount(e.blocks), size |-> dirent.size]

\* A block of track 18 into the buffer on the stack, and the entry at the
\* slot out of it.  Nobody looks at the result, so the entry may be anything
\* when there is no such block.
ReadEntry(s, n) ==
  /\ zcc_errno' = AccessErrno(type, DirTrack, s, zcc_errno)
  /\ \E e \in IF CanAccess(type, DirTrack, s) THEN {Block(DirTrack, s).entries[n]}
                                              ELSE Garbage : DirentRead(e)

\* zcc_d64_dir_init, and zcc_d64_dir_read with zcc_d64_dirent_iter_init to
\* the first entry.  Block 18, 1 is on every image, so that the exit for a
\* read that fails is never taken.
IterInit ==
  /\ Go("dir", "size")
  /\ entries' = <<>>
  /\ sector' = DirSector
  /\ slot' = 0
  /\ index' = 0
  /\ ReadEntry(DirSector, 0)
  /\ UNCHANGED <<handleVars, chainVars, shown>>

LastIndexPast == DirentMax
LastIndex == DirentMax - 1

\* The entry before was the last there is room for, or it had no name.
AtEnd == index = LastIndex \/ dirent.name = 0

FirstSlotStale == slot
FirstSlot == 0

\* zcc_d64_dirent_iter_next where it finds no more entries: the index is at
\* its end, the block it is on does not exist, or no block follows.
IterEnds ==
  /\ Go("next", "dump")
  /\ \/ /\ AtEnd
        /\ UNCHANGED zcc_errno
     \/ /\ ~AtEnd
        /\ slot = SlotsPerBlock - 1
        /\ \/ BlockOffset(DirTrack, sector) < 0
           \/ BlockOffset(DirTrack, sector) >= 0 /\ Block(DirTrack, sector).link[2] = 255
        /\ zcc_errno' = BlockOffsetErrno(DirTrack, sector, zcc_errno)
  /\ UNCHANGED <<handleVars, iterVars, chainVars, entries, shown>>

\* zcc_d64_dirent_iter_next: the next entry of the block, or the first of the
\* block that follows.  Only the sector of the link is looked at.
IterNext ==
  /\ Go("next", "size")
  /\ ~AtEnd
  /\ \/ /\ slot < SlotsPerBlock - 1
        /\ slot' = slot + 1
        /\ UNCHANGED sector
     \/ /\ slot = SlotsPerBlock - 1
        /\ BlockOffset(DirTrack, sector) >= 0
        /\ Block(DirTrack, sector).link[2] # 255
        /\ sector' = Block(DirTrack, sector).link[2]
        /\ slot' = FirstSlot
  /\ index' = index + 1
  /\ ReadEntry(sector', slot')
  /\ UNCHANGED <<handleVars, chainVars, entries, shown>>

-------------------------------------------------------------------------------
(* The block iterator and zcc_d64_file_size.                               *)

HasBlock(t, s) == BlockIsValid(type, t, s) /\ CanAccess(type, t, s)

\* The end of zcc_d64_dirent_read, as far as zcc_d64_block_iter_init.  The
\* size stays what it was when the entry has no first block.
SizeInit ==
  /\ dpc = "size"
  /\ LET t == dirent.track
         s == dirent.sector
     IN  /\ \/ /\ HasBlock(t, s)
               /\ link' = Block(t, s).link
               /\ total' = 0
               /\ dpc' = "chain"
            \/ /\ ~HasBlock(t, s)
               /\ dpc' = "entry"
               /\ UNCHANGED chainVars
         /\ zcc_errno' = IF BlockIsValid(type, t, s)
                         THEN AccessErrno(type, t, s, zcc_errno)
                         ELSE BlockIsValidErrno(type, t, s, zcc_errno)
  /\ UNCHANGED <<handleVars, iterVars, entries, shown>>

AddBlockRaw(n) == n + BlockSizeRaw
AddBlock(n) == n + DataSize

Capped(n) == IF n > SizeCap THEN 0 ELSE n

LinkStale(t, s) == link
LinkOf(t, s) == Block(t, s).link

\* zcc_d64_block_iter_next moves on.
ChainNext ==
  /\ dpc = "chain"
  /\ link[1] # 0
  /\ CanAccess(type, link[1], link[2])
  /\ link' = LinkOf(link[1], link[2])
  /\ total' = Capped(AddBlock(total))
  /\ UNCHANGED <<handleVars, zcc_errno, dpc, iterVars, entries, shown>>

\* It does not: the last block, or a link to no block, of which the count
\* makes no difference.
ChainEnds ==
  /\ Go("chain", "entry")
  /\ \/ /\ link[1] = 0
        /\ UNCHANGED zcc_errno
     \/ /\ link[1] # 0
        /\ ~CanAccess(type, link[1], link[2])
        /\ zcc_errno' = AccessErrno(type, link[1], link[2], zcc_errno)
  /\ LET n == total + link[2] - 1
     IN  dirent' = IF n >= 0 THEN [dirent EXCEPT !.size = n] ELSE dirent
  /\ UNCHANGED <<handleVars, sector, slot, index, chainVars, entries, shown>>

-------------------------------------------------------------------------------
(* zcc_d64_dir_read and zcc_d64_dir_dump.                                  *)

\* An entry without a name ends the directory; any other is copied.
AddEntry ==
  /\ Go("entry", "next")
  /\ dirent.name # 0
  /\ entries' = Append(entries, dirent)
  /\ UNCHANGED <<handleVars, zcc_errno, iterVars, chainVars, shown>>

EndOfDir ==
  /\ Go("entry", "dump")
  /\ dirent.name = 0
  /\ UNCHANGED <<handleVars, zcc_errno, iterVars, chainVars, entries, shown>>

CountedTracks == (TrackMin..TrackMax) \ {DirTrack}

\* zcc_d64_blocks_free: the bits set in the bitmaps of the BAM.
BlocksFree ==
  LET bam == Block(DirTrack, BamSector).bam
  IN  MapThenSumSet(LAMBDA t : Cardinality(bam[t]), CountedTracks)

Dump ==
  /\ Go("dump", "close")
  /\ shown' = BlocksFree
  /\ UNCHANGED <<handleVars, zcc_errno, iterVars, chainVars, entries>>

Close ==
  /\ Go("close", "done")
  /\ Free
  /\ UNCHANGED <<iterVars, chainVars, entries, shown>>

DirNext ==
  \/ Open
  \/ \E p \in Paths, f \in HostFiles : Load(p, f)
  \/ IterInit
  \/ IterEnds
  \/ IterNext
  \/ SizeInit
  \/ ChainNext
  \/ ChainEnds
  \/ AddEntry
  \/ EndOfDir
  \/ Dump
  \/ Close

DirSpec == DirInit /\ [][DirNext]_<<vars, dirVars>>

-------------------------------------------------------------------------------
(* Properties.                                                             *)

Dirents == [name : Names, filetype : 0..255, track : 0..255, sector : 0..255,
            blocks : 0..255, size : Nat \cup {Uninit}]

\* The variables of the listing stay in their types; a block count has eight
\* bits, whatever the image says.
DirTypeOK ==
  /\ dpc \in {"open", "load", "dir", "size", "chain", "entry", "next", "dump",
              "close", "done"}
  /\ sector \in 0..255 /\ slot \in Slots /\ index \in Nat
  /\ dirent \in Dirents
  /\ link \in (0..255) \X (0..255) /\ total \in Nat
  /\ entries \in Seq(Dirents)

\* The directory object has room for DirentMax entries, and zcc_d64_dir_read
\* adds entries for as long as the iterator goes on, without looking at the
\* count: it stays in the array although the blocks of a directory may run in
\* a circle.
EntriesInBounds == Len(entries) <= DirentMax

\* The sectors of the directory, block by block along the links, and 255
\* behind its end.
DirSectors ==
  LET s[b \in 0..DirentMax] ==
        IF b = 0 THEN DirSector
        ELSE IF BlockOffset(DirTrack, s[b - 1]) >= 0
             THEN Block(DirTrack, s[b - 1]).link[2] ELSE 255
  IN  s

\* The directory object holds the entries of the image in their order, from
\* the first to the last before one without a name, or before the end of the
\* directory, or to its capacity; where a link leads to no block, whatever
\* the buffer held goes in, for one block at most.
ListsInOrder ==
  dpc = "dump" =>
    LET sectorOf(k) == DirSectors[k \div SlotsPerBlock]
        exists(k) == BlockOffset(DirTrack, sectorOf(k)) >= 0
        entry(k) == Block(DirTrack, sectorOf(k)).entries[k % SlotsPerBlock]
        n == Len(entries)
    IN  /\ \A k \in 0..(n - 1) :
             /\ sectorOf(k) # 255
             /\ exists(k) => /\ entry(k).name # 0
                             /\ entries[k + 1].name = entry(k).name
                             /\ entries[k + 1].track = entry(k).track
                             /\ entries[k + 1].sector = entry(k).sector
        /\ n < DirentMax /\ exists(n) => entry(n).name = 0

OnDisk(a) == CanAccess(type, a[1], a[2])

\* The blocks from a on along the links; a link to no block leads no farther.
Walk(a) ==
  LET w[n \in 0..Cardinality(DOMAIN blocks)] ==
        IF n = 0 THEN a
        ELSE IF OnDisk(w[n - 1]) THEN Block(w[n - 1][1], w[n - 1][2]).link ELSE w[n - 1]
  IN  w

\* The file at a has n blocks before its last.
EndsAfter(a, n) ==
  /\ \A k \in 0..n : OnDisk(Walk(a)[k])
  /\ Block(Walk(a)[n][1], Walk(a)[n][2]).link[1] = 0

\* A file that ends gets its own size, whatever size the entries before it
\* have left in the iterator: 254 bytes for every block but the last, and
\* there the sector of the link is the place of the last byte.
SizesExact ==
  dpc = "dump" =>
    \A k \in DOMAIN entries :
      LET a == <<entries[k].track, entries[k].sector>>
      IN  \A n \in DOMAIN Walk(a) :
            LET last == Block(Walk(a)[n][1], Walk(a)[n][2]).link[2]
            IN  EndsAfter(a, n) /\ last > 0 => entries[k].size = n * 254 + last - 1

\* zcc_d64_file_size is in a file that runs in a circle.
Loops == dpc = "chain" /\ \A n \in DOMAIN Walk(link) : OnDisk(Walk(link)[n])

\* The listing comes to its end, also when the directory runs in a circle,
\* unless it meets a file that does.
Lists == <>(dpc = "done" \/ Loops)

-------------------------------------------------------------------------------
(* What the comments of d64.c say and the code does not do.                *)

\* d64.c:761: zcc_d64_file_size returns the "file size or -1 on error".
FileSizeReturns == dpc = "chain" ~> dpc # "chain"
===============================================================================
