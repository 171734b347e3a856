----------------------------- MODULE D64Geometry -----------------------------
(***************************************************************************)
(* The layout of a D64 image (d64.c, d64.h): the speed zones, the byte     *)
(* offset of a block, and the checks that guard an access.  A C function   *)
(* that returns a value and may set zcc_errno is a pair of operators: the  *)
(* value, and the zcc_errno it leaves behind, given the one it started     *)
(* with.                                                                   *)
(***************************************************************************)
EXTENDS Integers

BlockSizeRaw == 256
TrackMin == 1
TrackMax == 35
TrackMaxExt == 40
SectorMin == 0
SectorMax == 20
SizeCbmdos == 174848
SizeExtended == SizeCbmdos + 5 * 17 * 256

ImageTypes == {"CBMDOS", "SPEEDDOS", "DOLPHINDOS", "PROFDOS", "PROLOGICDOS"}

\* zcc_errno_e of errors.h, without its prefix.
ErrorCodes == {"OK", "NULL", "IO", "TRACK_RANGE", "SECTOR_RANGE",
               "INVALID_FILENAME", "RLE", "ZC_INVALID_DATA",
               "ZC_INVALID_PACK_METHOD"}

speedzones == << [first |->  1, last |-> 17, sectors |-> 21],
                 [first |-> 18, last |-> 24, sectors |-> 19],
                 [first |-> 25, last |-> 30, sectors |-> 18],
                 [first |-> 31, last |-> 40, sectors |-> 17] >>

Zones == 1..4

\* The zone a scan of the table stops at: the first that ends at or after
\* the track.
ZoneOf(track) ==
  CHOOSE z \in Zones : /\ track <= speedzones[z].last
                       /\ \A y \in 1..(z - 1) : track > speedzones[y].last

ZoneBytesShort(z) == (speedzones[z].last - speedzones[z].first)
                       * BlockSizeRaw * speedzones[z].sectors
ZoneBytes(z) == (speedzones[z].last - speedzones[z].first + 1)
                  * BlockSizeRaw * speedzones[z].sectors

\* Bytes of the complete zones a scan passes over before it reaches zone z.
BytesBefore(z) == (IF z > 1 THEN ZoneBytes(1) ELSE 0)
                + (IF z > 2 THEN ZoneBytes(2) ELSE 0)
                + (IF z > 3 THEN ZoneBytes(3) ELSE 0)

TrackInTable(track) == track \in TrackMin..TrackMaxExt
SectorInTable(sector) == sector \in SectorMin..SectorMax

\* zcc_d64_block_offset
BlockOffset(track, sector) ==
  IF TrackInTable(track) /\ SectorInTable(sector)
  THEN LET z == ZoneOf(track)
       IN  IF sector < speedzones[z].sectors
           THEN BytesBefore(z)
                  + (track - speedzones[z].first) * BlockSizeRaw
                      * speedzones[z].sectors
                  + sector * BlockSizeRaw
           ELSE -1
  ELSE -1

\* The last check of zcc_d64_block_offset, against the zone's own sector
\* count, returns -1 and leaves zcc_errno alone.
BlockOffsetErrno(track, sector, errno) ==
  IF ~TrackInTable(track) THEN "TRACK_RANGE"
  ELSE IF ~SectorInTable(sector) THEN "SECTOR_RANGE" ELSE errno

\* zcc_d64_track_max_sector
TrackMaxSector(track) ==
  IF TrackInTable(track) THEN speedzones[ZoneOf(track)].sectors ELSE -1

TrackMaxSectorErrno(track, errno) ==
  IF TrackInTable(track) THEN errno ELSE "TRACK_RANGE"

TrackIsValidAnyType(type, track) == track \in TrackMin..TrackMaxExt

\* zcc_d64_track_is_valid, for an image of the given type.
TrackIsValid(type, track) ==
  track \in TrackMin..(IF type = "CBMDOS" THEN TrackMax ELSE TrackMaxExt)

\* zcc_d64_block_is_valid
BlockIsValid(type, track, sector) ==
  /\ TrackIsValid(type, track)
  /\ sector \in SectorMin..TrackMaxSector(track)

BlockIsValidErrno(type, track, sector, errno) ==
  IF ~TrackIsValid(type, track) THEN "TRACK_RANGE"
  ELSE IF ~BlockIsValid(type, track, sector) THEN "SECTOR_RANGE" ELSE errno

\* The guard of zcc_d64_block_read and zcc_d64_block_write, and the
\* zcc_errno they leave.
CanAccess(type, track, sector) ==
  TrackIsValid(type, track) /\ BlockOffset(track, sector) >= 0

AccessErrno(type, track, sector, errno) ==
  IF TrackIsValid(type, track)
  THEN BlockOffsetErrno(track, sector, errno) ELSE "TRACK_RANGE"
===============================================================================
