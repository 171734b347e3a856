-------------------------------- MODULE Unzip --------------------------------
(***************************************************************************)
(* zcc_zipdisk_unzip and the command that calls it (cmd_zipdisk_unzip of   *)
(* main.c): the archive is read and walked as in Zipdisk, every block is   *)
(* unpacked and written to a D64 image through the functions of D64, and   *)
(* the image is written to a file.                                         *)
(***************************************************************************)
EXTENDS Zipdisk

CONSTANTS
  Out,        \* the path of the D64 file
  NoPath,     \* the NULL path
  NoContent,  \* the content of a block that cannot be unpacked
  NoD64       \* no D64 file

ZeroBlock == [k \in 1..BlockSize |-> 0]

Codec == INSTANCE RleCodec

\* The caller has a name for the file.
ASSUME OutAssumption == Out # NoPath

\* Beside files and starts an archive has items: for each block its track and
\* sector and what it holds, by the method it is stored with.  What packed bytes
\* stand for is the subject of Rle.  NoContent is for the blocks that cannot be
\* unpacked, and for no others.
ItemsStored(a) ==
  /\ DOMAIN a.items = DOMAIN a.starts /\ Len(a.items) = Len(a.starts)
  /\ \A k \in DOMAIN a.starts :
       LET p == a.starts[k]
           x == a.items[k]
           bytes == a.files[p[1]].bytes
           at(n) == bytes[p[2] + n + 1]
           unpacked == Codec!Decoded(SubSeq(bytes, p[2] + 5, Len(bytes)), at(3), at(2))
       IN  /\ x.track = at(0) % 64 /\ x.sector = at(1)
           /\ FileMethod(a, p) = 0 => x.content = [n \in 1..BlockSize |-> at(n + 1)]
           /\ FileMethod(a, p) = 1 => x.content = [n \in 1..BlockSize |-> at(2)]
           /\ FileMethod(a, p) = 2 /\ Len(unpacked) = BlockSize => x.content = unpacked
           /\ x.content = NoContent <=> \/ FileMethod(a, p) = 2 /\ Len(unpacked) # BlockSize
                                       \/ FileMethod(a, p) = 3

ASSUME ItemsAssumption == \A a \in Archives : ItemsStored(a)

VARIABLES
  \* the D64 handle, and what goes with it in D64
  img_path, img_data, img_blocks, img_size, img_type, img_phase, img_ret,
  buffer,     \* the block buffer on the stack
  img_file,
  host        \* the D64 file on the host, NoFile before it is written

imageVars == <<img_path, img_data, img_blocks, img_size, img_type, img_phase,
               img_ret, buffer, img_file>>
unzipVars == <<vars, imageVars, host>>

Image == INSTANCE D64 WITH
  path <- img_path, data <- img_data, blocks <- img_blocks, size <- img_size,
  type <- img_type, phase <- img_phase, ret <- img_ret, buf <- buffer,
  file <- img_file,
  Content <- [1..BlockSize -> 0..255], Zero <- ZeroBlock, Paths <- {Out},
  HostFiles <- {}, Types <- {"CBMDOS", "SPEEDDOS"},
  TrackArgs <- 0..63, SectorArgs <- 0..255

UnzipInit ==
  /\ Init
  /\ Image!Init
  /\ host = Image!NoFile

-------------------------------------------------------------------------------
(* zcc_unpack_block.                                                       *)

\* What the block at p unpacks to; RLE data may give less than a block.
Unpacked(p) ==
  LET bytes == slices[p[1]].bytes
      data == p[2] + 2
  IN  IF MethodAt(p) = PackNone THEN [k \in 1..BlockSize |-> bytes[data + k]]
      ELSE IF MethodAt(p) = PackFill THEN [k \in 1..BlockSize |-> bytes[data + 1]]
      ELSE Codec!Decoded(SubSeq(bytes, data + 3, Len(bytes)), Byte(p, 3), Byte(p, 2))

Unpacks(p) == MethodAt(p) <= PackRle /\ Len(Unpacked(p)) = BlockSize

-------------------------------------------------------------------------------
(* zcc_zipdisk_unzip.                                                      *)

Go(from, to) == pc = from /\ pc' = to

Untouched == UNCHANGED <<archive, i, handleVars>>

NewImage ==
  /\ Go("opened", "alloc")
  /\ Image!HandleInit
  /\ Untouched
  /\ UNCHANGED <<iterVars, ret, host>>

WantedType == IF slice_count = 5 THEN "SPEEDDOS" ELSE "CBMDOS"

AllocImage ==
  /\ Go("alloc", "start")
  /\ Image!Alloc(WantedType)
  /\ Untouched
  /\ UNCHANGED <<iterVars, ret, host>>

StartUnzip ==
  /\ pc = "start"
  /\ img_path' = Out
  /\ IterInit
  /\ pc' = IF ret'.result THEN "unpack" ELSE "fail"
  /\ Untouched
  /\ UNCHANGED <<img_data, img_blocks, img_size, img_type, img_phase, img_ret,
                 buffer, img_file, host>>

\* The result of zcc_d64_block_write is not looked at.
UnpackBlock ==
  /\ Go("unpack", "next")
  /\ Unpacks(block_data)
  /\ Image!BlockWrite(TrackAt(block_data), SectorAt(block_data), Unpacked(block_data))
  /\ Untouched
  /\ UNCHANGED <<iterVars, ret, host>>

\* The pack method that is not used ends the conversion without an error code.
UnpackFails ==
  /\ Go("unpack", "fail")
  /\ ~Unpacks(block_data)
  /\ zcc_errno' = IF MethodAt(block_data) = PackRle THEN "RLE" ELSE zcc_errno
  /\ Untouched
  /\ UNCHANGED <<iterVars, ret, imageVars, host>>

Advance ==
  /\ pc = "next"
  /\ IterNext
  /\ pc' = IF ret'.result THEN "unpack" ELSE "write"
  /\ Untouched
  /\ UNCHANGED <<imageVars, host>>

\* Nor is the result of zcc_d64_write.
WriteImage ==
  /\ Go("write", "release")
  /\ Image!Write(Out)
  /\ host' = img_file'
  /\ Untouched
  /\ UNCHANGED <<iterVars, ret>>

Release ==
  /\ \/ Go("release", "done") /\ Returns("unzip", TRUE)
     \/ Go("fail", "done") /\ Returns("unzip", FALSE)
  /\ Image!Free
  /\ Untouched
  /\ UNCHANGED <<iterVars, host>>

UnzipNext ==
  \/ (CheckName \/ ReadSlice \/ SliceFails) /\ UNCHANGED <<imageVars, host>>
  \/ NewImage
  \/ AllocImage
  \/ StartUnzip
  \/ UnpackBlock
  \/ UnpackFails
  \/ Advance
  \/ WriteImage
  \/ Release

UnzipSpec == UnzipInit /\ [][UnzipNext]_unzipVars

\* The program waits for nobody.
FairUnzipSpec == UnzipSpec /\ WF_unzipVars(UnzipNext)

-------------------------------------------------------------------------------
(* Properties.                                                             *)

\* The conversion puts the blocks of the archive on the disk, each as it
\* unpacks, in order and without a gap, although the iterator delivers the
\* last block of every slice twice; a block that does not unpack ends it; and
\* the file holds what was put on the disk.
Number(p) == CHOOSE k \in DOMAIN Starts : Starts[k] = p

Failed == pc = "done" /\ ~ret.result

\* The block shown has not been put on the disk.
Pending == \/ pc = "unpack" /\ InSlice(slice_index, slice_offset)
           \/ pc = "fail"
           \/ Failed

PutView == IF block_data = Null THEN 0
           ELSE IF Pending THEN Number(block_data) - 1 ELSE Number(block_data)

Addresses == {<<archive.items[k].track, archive.items[k].sector>> :
                k \in DOMAIN archive.items}

\* The archive ends where its last slice does.  The fifth slice may be taken for
\* missing, and a slice without blocks ends the walk.
EndsAfter(k) ==
  \E n \in 1..5 : /\ n >= 4 \/ archive.files[n].size <= FirstOffset(n)
                  /\ \A j \in DOMAIN Starts : j <= k <=> Starts[j][1] < n

Ends == {k \in 0..Len(archive.items) : EndsAfter(k)}

BlocksOf(blocks) ==
  LET off(a) == Image!BlockOffset(a[1], a[2])
  IN  [a \in {a \in Addresses : off(a) \in DOMAIN blocks} |-> blocks[off(a)]]

StatusView == IF Failed THEN "failed"
              ELSE IF pc \in {"release", "done"} THEN "ok" ELSE "converting"

DiskView == BlocksOf(IF StatusView = "converting" THEN img_blocks ELSE Image!Empty)

D64View == IF host = Image!NoFile THEN NoD64 ELSE BlocksOf(host.blocks)

Convert == INSTANCE Conversion WITH
  Tracks <- 35, items <- archive.items, ends <- Ends, n <- PutView,
  disk <- DiskView, d64 <- D64View, status <- StatusView

ImplementsConversion == Convert!Spec

\* The command comes to an end, whatever the archive holds and whatever the
\* host does.
Converts == <>(pc = "done")

-------------------------------------------------------------------------------
(* What the comments say and the code does not do.                         *)

\* zipdisk.c:423-424: with five slices the conversion needs a "40-track image",
\* of any type "as long it's 40 tracks".  So the blocks of tracks 36 to 40 are on it.
FortyTracks ==
  pc = "release" /\ slice_count = 5
    => \A k \in DOMAIN archive.items :
         LET x == archive.items[k]
         IN  x.track \in 36..40 /\ x.sector \in 0..16
               => Image!BlockOffset(x.track, x.sector) \in DOMAIN img_blocks
===============================================================================
