------------------------------ MODULE D64Proofs ------------------------------
(***************************************************************************)
(* Proofs about D64 handles: the layout puts every block inside the image  *)
(* and no two blocks on the same bytes; the handle leaves its buffer only  *)
(* when it is overlabelled, which only an alloc makes it; and it           *)
(* implements BlockDevice.                                                 *)
(***************************************************************************)
EXTENDS D64, TLAPS

-------------------------------------------------------------------------------
(* The layout.                                                             *)

\* Each track of the table lies in the zone the scan stops at.
LEMMA ZoneOfTrack ==
  ASSUME NEW t \in TrackMin..TrackMaxExt
  PROVE  /\ ZoneOf(t) \in Zones
         /\ t >= speedzones[ZoneOf(t)].first
         /\ t <= speedzones[ZoneOf(t)].last
<1> DEFINE Stops(z) == /\ t <= speedzones[z].last
                       /\ \A y \in 1..(z - 1) : t > speedzones[y].last
<1>1. \E z \in Zones : Stops(z)
  <2>1. CASE t <= 17
    <3>1. Stops(1) BY <2>1 DEF speedzones
    <3> QED BY <3>1 DEF Zones
  <2>2. CASE t > 17 /\ t <= 24
    <3>1. Stops(2) BY <2>2 DEF speedzones
    <3> QED BY <3>1 DEF Zones
  <2>3. CASE t > 24 /\ t <= 30
    <3>1. Stops(3) BY <2>3 DEF speedzones
    <3> QED BY <3>1 DEF Zones
  <2>4. CASE t > 30
    <3>1. Stops(4) BY <2>4 DEF speedzones, TrackMin, TrackMaxExt
    <3> QED BY <3>1 DEF Zones
  <2> QED BY <2>1, <2>2, <2>3, <2>4 DEF TrackMin, TrackMaxExt
<1>2. ZoneOf(t) = CHOOSE z \in Zones : Stops(z) BY DEF ZoneOf
<1>3. ZoneOf(t) \in Zones /\ Stops(ZoneOf(t)) BY <1>1, <1>2
<1>4. t >= speedzones[ZoneOf(t)].first
  <2>1. CASE ZoneOf(t) = 1 BY <2>1 DEF speedzones, TrackMin, TrackMaxExt
  <2>2. CASE ZoneOf(t) = 2
    <3>1. t > speedzones[1].last BY <1>3, <2>2
    <3> QED BY <3>1, <2>2 DEF speedzones, TrackMin, TrackMaxExt
  <2>3. CASE ZoneOf(t) = 3
    <3>1. t > speedzones[2].last BY <1>3, <2>3
    <3> QED BY <3>1, <2>3 DEF speedzones, TrackMin, TrackMaxExt
  <2>4. CASE ZoneOf(t) = 4
    <3>1. t > speedzones[3].last BY <1>3, <2>4
    <3> QED BY <3>1, <2>4 DEF speedzones, TrackMin, TrackMaxExt
  <2> QED BY <1>3, <2>1, <2>2, <2>3, <2>4 DEF Zones
<1> QED BY <1>3, <1>4

\* The offset of a block in closed form, zone by zone.
LEMMA OffsetForm ==
  ASSUME NEW t \in Int, NEW s \in Int, BlockOffset(t, s) # -1
  PROVE  /\ t \in 1..40 /\ s \in 0..20
         /\ \/ t \in 1..17  /\ s < 21 /\ BlockOffset(t, s) = 256 * ((t - 1) * 21 + s)
            \/ t \in 18..24 /\ s < 19 /\ BlockOffset(t, s) = 256 * (357 + (t - 18) * 19 + s)
            \/ t \in 25..30 /\ s < 18 /\ BlockOffset(t, s) = 256 * (490 + (t - 25) * 18 + s)
            \/ t \in 31..40 /\ s < 17 /\ BlockOffset(t, s) = 256 * (598 + (t - 31) * 17 + s)
<1>1. t \in 1..40 /\ s \in 0..20
  BY DEF BlockOffset, TrackInTable, SectorInTable, TrackMin, TrackMaxExt, SectorMin, SectorMax
<1> DEFINE z == ZoneOf(t)
<1>2. z \in Zones /\ t >= speedzones[z].first /\ t <= speedzones[z].last
  BY <1>1, ZoneOfTrack DEF TrackMin, TrackMaxExt
<1>3. /\ s < speedzones[z].sectors
      /\ BlockOffset(t, s) = BytesBefore(z)
            + (t - speedzones[z].first) * BlockSizeRaw * speedzones[z].sectors
            + s * BlockSizeRaw
  BY <1>1 DEF BlockOffset, TrackInTable, SectorInTable
<1> HIDE DEF z
<1>4. CASE z = 1
  <2>1. t \in 1..17 /\ s < 21 BY <1>1, <1>2, <1>3, <1>4 DEF speedzones
  <2>2. BlockOffset(t, s) = (t - 1) * 256 * 21 + s * 256
    BY <1>1, <1>3, <1>4 DEF speedzones, BytesBefore, BlockSizeRaw
  <2> QED BY <2>1, <2>2, <1>1
<1>5. CASE z = 2
  <2>1. t \in 18..24 /\ s < 19 BY <1>1, <1>2, <1>3, <1>5 DEF speedzones
  <2>2. BlockOffset(t, s) = 17 * 256 * 21 + (t - 18) * 256 * 19 + s * 256
    BY <1>1, <1>3, <1>5 DEF speedzones, BytesBefore, ZoneBytes, BlockSizeRaw
  <2> QED BY <2>1, <2>2, <1>1
<1>6. CASE z = 3
  <2>1. t \in 25..30 /\ s < 18 BY <1>1, <1>2, <1>3, <1>6 DEF speedzones
  <2>2. BlockOffset(t, s) = 17 * 256 * 21 + 7 * 256 * 19 + (t - 25) * 256 * 18 + s * 256
    BY <1>1, <1>3, <1>6 DEF speedzones, BytesBefore, ZoneBytes, BlockSizeRaw
  <2> QED BY <2>1, <2>2, <1>1
<1>7. CASE z = 4
  <2>1. t \in 31..40 /\ s < 17 BY <1>1, <1>2, <1>3, <1>7 DEF speedzones
  <2>2. BlockOffset(t, s) = 17 * 256 * 21 + 7 * 256 * 19 + 6 * 256 * 18
                              + (t - 31) * 256 * 17 + s * 256
    BY <1>1, <1>3, <1>7 DEF speedzones, BytesBefore, ZoneBytes, BlockSizeRaw
  <2> QED BY <2>1, <2>2, <1>1
<1> QED BY <1>1, <1>2, <1>4, <1>5, <1>6, <1>7 DEF Zones

\* A block has an offset exactly when its track has that sector.
LEMMA OffsetDomain ==
  ASSUME NEW t \in Int, NEW s \in Int
  PROVE  BlockOffset(t, s) # -1 <=> \/ t \in 1..17  /\ s \in 0..20
                                    \/ t \in 18..24 /\ s \in 0..18
                                    \/ t \in 25..30 /\ s \in 0..17
                                    \/ t \in 31..40 /\ s \in 0..16
<1>1. ASSUME \/ t \in 1..17  /\ s \in 0..20
             \/ t \in 18..24 /\ s \in 0..18
             \/ t \in 25..30 /\ s \in 0..17
             \/ t \in 31..40 /\ s \in 0..16
      PROVE  BlockOffset(t, s) # -1
  <2> DEFINE z == ZoneOf(t)
  <2>1. t \in 1..40 /\ s \in 0..20 BY <1>1
  <2>2. z \in Zones /\ t >= speedzones[z].first /\ t <= speedzones[z].last
    BY <2>1, ZoneOfTrack DEF TrackMin, TrackMaxExt
  <2>3. s < speedzones[z].sectors
    BY <1>1, <2>1, <2>2 DEF speedzones, Zones
  <2>4. BlockOffset(t, s) = BytesBefore(z)
            + (t - speedzones[z].first) * BlockSizeRaw * speedzones[z].sectors
            + s * BlockSizeRaw
    BY <2>1, <2>3 DEF BlockOffset, TrackInTable, SectorInTable,
                      TrackMin, TrackMaxExt, SectorMin, SectorMax
  <2> HIDE DEF z
  <2>5. BytesBefore(z) \in Nat
    BY DEF BytesBefore, ZoneBytes, speedzones, BlockSizeRaw
  <2>6. \E n \in Nat, k \in Nat : (t - speedzones[z].first) = n /\ speedzones[z].sectors = k
    BY <2>1, <2>2 DEF speedzones, Zones
  <2>7. PICK n \in Nat, k \in Nat : (t - speedzones[z].first) = n /\ speedzones[z].sectors = k
    BY <2>6
  <2>8. n * 256 * k \in Nat OBVIOUS
  <2> QED BY <2>1, <2>4, <2>5, <2>7, <2>8 DEF BlockSizeRaw
<1>2. ASSUME BlockOffset(t, s) # -1
      PROVE  \/ t \in 1..17  /\ s \in 0..20
             \/ t \in 18..24 /\ s \in 0..18
             \/ t \in 25..30 /\ s \in 0..17
             \/ t \in 31..40 /\ s \in 0..16
  BY <1>2, OffsetForm
<1> QED BY <1>1, <1>2

\* Every block lies inside an extended image, and inside a 35-track one exactly
\* when its track does.
LEMMA OffsetInImage ==
  ASSUME NEW t \in Int, NEW s \in Int, BlockOffset(t, s) # -1
  PROVE  /\ BlockOffset(t, s) \in Nat
         /\ Fits(BlockOffset(t, s), SizeExtended)
         /\ t <= 35 <=> Fits(BlockOffset(t, s), SizeCbmdos)
<1> DEFINE off == BlockOffset(t, s)
<1>1. /\ t \in 1..40 /\ s \in 0..20
      /\ \/ t \in 1..17  /\ s < 21 /\ off = 256 * ((t - 1) * 21 + s)
         \/ t \in 18..24 /\ s < 19 /\ off = 256 * (357 + (t - 18) * 19 + s)
         \/ t \in 25..30 /\ s < 18 /\ off = 256 * (490 + (t - 25) * 18 + s)
         \/ t \in 31..40 /\ s < 17 /\ off = 256 * (598 + (t - 31) * 17 + s)
  BY OffsetForm
<1> HIDE DEF off
<1> QED BY <1>1 DEF off, Fits, SizeExtended, SizeCbmdos, BlockSizeRaw

\* Two blocks never share a byte: zcc_d64_block_offset keeps them a block or
\* more apart.
THEOREM BlocksDisjoint ==
  ASSUME NEW t \in Int, NEW s \in Int, NEW u \in Int, NEW r \in Int,
         BlockOffset(t, s) # -1, BlockOffset(u, r) # -1,
         <<t, s>> # <<u, r>>
  PROVE  \/ BlockOffset(t, s) + BlockSizeRaw <= BlockOffset(u, r)
         \/ BlockOffset(u, r) + BlockSizeRaw <= BlockOffset(t, s)
<1> DEFINE off == BlockOffset(t, s)
           oth == BlockOffset(u, r)
<1>1. /\ t \in 1..40 /\ s \in 0..20
      /\ \/ t \in 1..17  /\ s < 21 /\ off = 256 * ((t - 1) * 21 + s)
         \/ t \in 18..24 /\ s < 19 /\ off = 256 * (357 + (t - 18) * 19 + s)
         \/ t \in 25..30 /\ s < 18 /\ off = 256 * (490 + (t - 25) * 18 + s)
         \/ t \in 31..40 /\ s < 17 /\ off = 256 * (598 + (t - 31) * 17 + s)
  BY OffsetForm
<1>2. /\ u \in 1..40 /\ r \in 0..20
      /\ \/ u \in 1..17  /\ r < 21 /\ oth = 256 * ((u - 1) * 21 + r)
         \/ u \in 18..24 /\ r < 19 /\ oth = 256 * (357 + (u - 18) * 19 + r)
         \/ u \in 25..30 /\ r < 18 /\ oth = 256 * (490 + (u - 25) * 18 + r)
         \/ u \in 31..40 /\ r < 17 /\ oth = 256 * (598 + (u - 31) * 17 + r)
  BY OffsetForm
<1>3. t # u \/ s # r OBVIOUS
<1> HIDE DEF off, oth
<1>4. off + 256 <= oth \/ oth + 256 <= off BY <1>1, <1>2, <1>3
<1> QED BY <1>4 DEF off, oth, BlockSizeRaw

-------------------------------------------------------------------------------
(* The handle.                                                             *)

\* A type with 40 tracks was set with the size of an image, a buffer that is
\* there has a size, and nothing stays behind of one that is not.
Coherent ==
  /\ type # "CBMDOS" => size # 0
  /\ data = "live" => size # 0
  /\ ~Mounted => blocks = Empty

Inv == TypeOK /\ Coherent /\ AccessInBounds

\* How far the blocks of a handle may reach.
Limit == IF Overlabelled THEN SizeExtended ELSE size

\* An access the code allows stays below that in a handle that satisfies the
\* invariant.
LEMMA AccessFits ==
  ASSUME TypeOK, Coherent, data = "live",
         NEW t \in Int, NEW s \in Int, CanAccess(type, t, s)
  PROVE  /\ BlockOffset(t, s) \in Nat
         /\ Fits(BlockOffset(t, s), Limit)
<1>1. BlockOffset(t, s) # -1 /\ TrackIsValid(type, t) BY DEF CanAccess
<1>2. /\ BlockOffset(t, s) \in Nat
      /\ Fits(BlockOffset(t, s), SizeExtended)
      /\ t <= 35 => Fits(BlockOffset(t, s), SizeCbmdos)
  BY <1>1, OffsetInImage
<1>3. size \in {SizeCbmdos, SizeExtended} BY DEF TypeOK, Coherent
<1>4. CASE Limit = SizeExtended BY <1>2, <1>4
<1>5. CASE Limit # SizeExtended
  <2>1. Limit = SizeCbmdos /\ type = "CBMDOS"
    BY <1>3, <1>5 DEF Limit, Overlabelled
  <2>2. t <= 35 BY <1>1, <2>1 DEF TrackIsValid, TrackMin, TrackMax
  <2> QED BY <1>2, <2>1, <2>2
<1> QED BY <1>4, <1>5

LEMMA ResultsAreNumbers ==
  ASSUME NEW t \in Int, NEW s \in Int
  PROVE  BlockOffset(t, s) \in Int /\ TrackMaxSector(t) \in Int
<1>1. BlockOffset(t, s) \in Int
  <2>1. CASE BlockOffset(t, s) = -1 BY <2>1
  <2>2. CASE BlockOffset(t, s) # -1 BY <2>2, OffsetInImage
  <2> QED BY <2>1, <2>2
<1>2. TrackMaxSector(t) \in Int
  <2>1. CASE TrackInTable(t)
    <3>1. ZoneOf(t) \in Zones BY <2>1, ZoneOfTrack DEF TrackInTable
    <3>2. speedzones[ZoneOf(t)].sectors \in Int BY <3>1 DEF Zones, speedzones
    <3> QED BY <2>1, <3>2 DEF TrackMaxSector
  <2>2. CASE ~TrackInTable(t) BY <2>2 DEF TrackMaxSector
  <2> QED BY <2>1, <2>2
<1> QED BY <1>1, <1>2

LEMMA ErrnoIsCode ==
  ASSUME NEW e \in ErrorCodes, NEW kind, NEW t, NEW s
  PROVE  /\ BlockOffsetErrno(t, s, e) \in ErrorCodes
         /\ TrackMaxSectorErrno(t, e) \in ErrorCodes
         /\ BlockIsValidErrno(kind, t, s, e) \in ErrorCodes
         /\ AccessErrno(kind, t, s, e) \in ErrorCodes
BY DEF BlockOffsetErrno, TrackMaxSectorErrno, BlockIsValidErrno, AccessErrno, ErrorCodes

LEMMA InvInit == Init => Inv
BY ContentAssumption DEF Init, Inv, TypeOK, Coherent, Mounted, AccessInBounds,
   Empty, ErrorCodes, ImageTypes, Overlabelled

LEMMA InvNext == Inv /\ [Next]_vars => Inv'
<1> SUFFICES ASSUME Inv, [Next]_vars PROVE Inv'
  OBVIOUS
<1> USE DEF Inv
<1>0. Empty \in [DOMAIN Empty -> Content] /\ DOMAIN Empty = {}
  BY DEF Empty
<1>1. CASE HandleInit
  BY <1>0, <1>1 DEF HandleInit, TypeOK, Coherent, Mounted, AccessInBounds, Returns, Gives, ImageTypes
<1>2. ASSUME NEW t \in Types, Alloc(t) PROVE Inv'
  BY <1>0, <1>2 DEF Alloc, AllocSize, TypeOK, Coherent, Mounted, AccessInBounds, Returns, Gives,
     SizeCbmdos, SizeExtended
<1>3. CASE Free
  BY <1>0, <1>3 DEF Free, TypeOK, Coherent, Mounted, AccessInBounds, Returns, Gives
<1>4. ASSUME NEW p \in Paths, NEW t \in Types, NEW f \in HostFiles, Read(p, t, f)
      PROVE  Inv'
  <2>1. CASE f.size \in {SizeCbmdos, SizeExtended}
    <3>1. /\ f.blocks \in [DOMAIN f.blocks -> Content]
          /\ \A o \in DOMAIN f.blocks : Fits(o, f.size)
      BY HostFilesAssumption
    <3>2. LoadedType(f.size, t) \in ImageTypes
      BY TypesAssumption DEF LoadedType, ImageTypes
    <3>3. TypeOK'
      BY <1>4, <2>1, <3>1, <3>2 DEF Read, TypeOK, Returns, Gives
    <3>4. Coherent'
      BY <1>4, <2>1 DEF Read, Coherent, Mounted, LoadedType, SizeCbmdos, SizeExtended
    <3>5. ~Overlabelled'
      BY <1>4, <2>1 DEF Read, LoadedType, Overlabelled
    <3>6. AccessInBounds'
      BY <1>4, <2>1, <3>1, <3>5 DEF Read, AccessInBounds, Returns, Gives
    <3> QED BY <3>3, <3>4, <3>6
  <2>2. CASE f.size \notin {SizeCbmdos, SizeExtended}
    <3>1. /\ data' = "NULL" /\ blocks' = Empty
          /\ UNCHANGED <<path, size, type, phase, buf>>
          /\ zcc_errno' \in {"IO", zcc_errno}
          /\ Returns("read", 0, 0, 0)
      BY <1>4, <2>2 DEF Read
    <3>2. TypeOK' BY <1>0, <3>1 DEF TypeOK, Returns, Gives, ErrorCodes
    <3>3. Coherent' BY <3>1 DEF Coherent, Mounted
    <3>4. AccessInBounds' BY <1>0, <3>1 DEF AccessInBounds, Returns, Gives
    <3> QED BY <3>2, <3>3, <3>4
  <2> QED BY <2>1, <2>2
<1>5. ASSUME NEW p \in Paths \cup {NoPath}, Write(p) PROVE Inv'
  <2>1. path' \in Paths \cup {NoPath}
    BY <1>5 DEF Write, TypeOK
  <2>2. /\ ret'.op = "write" /\ ret'.result \in Int
        /\ ret'.track = 0 /\ ret'.sector = 0
    BY <1>5 DEF Write, Returns, Gives, Bool
  <2>3. zcc_errno' \in ErrorCodes
    BY <1>5 DEF Write, Fwrite, ErrorCodes, TypeOK
  <2>4. UNCHANGED <<data, blocks, size, type, phase, buf>> BY <1>5 DEF Write
  <2> QED BY <2>1, <2>2, <2>3, <2>4
          DEF TypeOK, Coherent, Mounted, AccessInBounds, Overlabelled
<1>6. ASSUME NEW t \in TrackArgs, AskMaxSector(t) PROVE Inv'
  <2>1. t \in Int /\ TrackMaxSector(t) \in Int BY ArgsAssumption, ResultsAreNumbers
  <2>2. zcc_errno' \in ErrorCodes BY <1>6, ErrnoIsCode DEF AskMaxSector, Ask, TypeOK
  <2> QED
    BY <1>6, <2>1, <2>2 DEF AskMaxSector, Ask, TypeOK, Coherent, Mounted, AccessInBounds,
       Overlabelled, Returns, Gives
<1>7. ASSUME NEW t \in TrackArgs, NEW s \in SectorArgs,
             AskOffset(t, s) \/ AskIsValid(t, s)
      PROVE  Inv'
  <2>1. t \in Int /\ s \in Int /\ BlockOffset(t, s) \in Int
    BY ArgsAssumption, ResultsAreNumbers
  <2>2. zcc_errno' \in ErrorCodes
    BY <1>7, ErrnoIsCode DEF AskOffset, AskIsValid, Ask, TypeOK
  <2> QED
    BY <1>7, <2>1, <2>2 DEF AskOffset, AskIsValid, Ask, TypeOK, Coherent, Mounted,
       AccessInBounds, Overlabelled, Returns, Gives, Bool
<1>8. ASSUME NEW t \in TrackArgs, NEW s \in SectorArgs, BlockRead(t, s) PROVE Inv'
  <2>1. t \in Int /\ s \in Int BY ArgsAssumption
  <2>2. zcc_errno' \in ErrorCodes BY <1>8, ErrnoIsCode DEF BlockRead, TypeOK
  <2>3. buf' \in Content
    BY <1>8, ContentAssumption DEF BlockRead, Found, Fetch, TypeOK
  <2>4. /\ UNCHANGED <<path, data, blocks, size, type, phase>> /\ Limit' = Limit
        /\ ret' = [op |-> "block_read", track |-> t, sector |-> s,
                   result |-> Bool(CanAccess(type, t, s))]
    BY <1>8 DEF BlockRead, Returns, Gives, Limit, Overlabelled
  <2>5. ret'.result = 1 => Fits(BlockOffset(t, s), Limit)
    BY <1>8, <2>1, <2>4, AccessFits DEF BlockRead, Bool
  <2>6. \A o \in DOMAIN blocks : Fits(o, Limit) BY DEF AccessInBounds, Limit
  <2>7. AccessInBounds' <=> /\ \A o \in DOMAIN blocks' : Fits(o, Limit')
                            /\ ret'.op = "block_read" /\ ret'.result = 1
                                 => Fits(BlockOffset(ret'.track, ret'.sector), Limit')
    BY DEF AccessInBounds, Limit
  <2>8. AccessInBounds' BY <2>4, <2>5, <2>6, <2>7
  <2> QED BY <2>1, <2>2, <2>3, <2>4, <2>8 DEF TypeOK, Coherent, Mounted, Bool
<1>9. ASSUME NEW t \in TrackArgs, NEW s \in SectorArgs, NEW c \in Content,
             BlockWrite(t, s, c)
      PROVE  Inv'
  <2>1. t \in Int /\ s \in Int BY ArgsAssumption
  <2>2. zcc_errno' \in ErrorCodes BY <1>9, ErrnoIsCode DEF BlockWrite, TypeOK
  <2>3. /\ UNCHANGED <<path, data, size, type, phase>> /\ Limit' = Limit
        /\ buf' = c
        /\ ret' = [op |-> "block_write", track |-> t, sector |-> s,
                   result |-> Bool(CanAccess(type, t, s))]
    BY <1>9 DEF BlockWrite, Returns, Gives, Limit, Overlabelled
  <2>4. /\ blocks' \in [DOMAIN blocks' -> Content]
        /\ \A o \in DOMAIN blocks' : Fits(o, Limit)
    <3>1. CASE CanAccess(type, t, s)
      <4> DEFINE off == BlockOffset(t, s)
      <4>1. Fits(off, Limit) BY <1>9, <2>1, <3>1, AccessFits DEF BlockWrite
      <4>2. blocks' = Store(off, c) BY <1>9, <3>1 DEF BlockWrite
      <4> HIDE DEF off
      <4>3. /\ DOMAIN Store(off, c) = DOMAIN blocks \cup {off}
            /\ Store(off, c) \in [DOMAIN blocks \cup {off} -> Content]
        BY DEF Store, TypeOK
      <4> QED BY <4>1, <4>2, <4>3 DEF AccessInBounds, Limit
    <3>2. CASE ~CanAccess(type, t, s)
      BY <1>9, <3>2 DEF BlockWrite, TypeOK, AccessInBounds, Limit
    <3> QED BY <3>1, <3>2
  <2>5. AccessInBounds'
    <3>1. AccessInBounds' <=> /\ \A o \in DOMAIN blocks' : Fits(o, Limit')
                              /\ ret'.op = "block_read" /\ ret'.result = 1
                                   => Fits(BlockOffset(ret'.track, ret'.sector), Limit')
      BY DEF AccessInBounds, Limit
    <3> QED BY <2>3, <2>4, <3>1
  <2>6. Mounted BY <1>9 DEF BlockWrite, Mounted
  <2> QED BY <2>1, <2>2, <2>3, <2>4, <2>5, <2>6 DEF TypeOK, Coherent, Mounted, Bool
<1>10. CASE UNCHANGED vars
  BY <1>10 DEF vars, TypeOK, Coherent, Mounted, AccessInBounds, Overlabelled
<1> QED BY <1>1, <1>2, <1>3, <1>4, <1>5, <1>6, <1>7, <1>8, <1>9, <1>10 DEF Next

\* A handle becomes overlabelled by an alloc of 35 tracks and by nothing else.
LEMMA OnlyAlloc ==
  Inv /\ [Next]_vars
    => [~Overlabelled /\ Overlabelled'
          => ret'.op = "alloc" /\ type # "CBMDOS" /\ size = SizeExtended]_vars
<1> SUFFICES ASSUME Inv, Next, ~Overlabelled, Overlabelled'
             PROVE  ret'.op = "alloc" /\ type # "CBMDOS" /\ size = SizeExtended
  OBVIOUS
<1>1. CASE HandleInit BY <1>1 DEF HandleInit, Overlabelled
<1>2. ASSUME NEW t \in Types, Alloc(t)
      PROVE  ret'.op = "alloc" /\ type # "CBMDOS" /\ size = SizeExtended
  <2>1. ret'.op = "alloc" /\ type' = type BY <1>2 DEF Alloc, Returns, Gives
  <2>2. size \in {0, SizeCbmdos, SizeExtended} /\ (type # "CBMDOS" => size # 0)
    BY DEF Inv, TypeOK, Coherent
  <2> QED BY <2>1, <2>2 DEF Overlabelled
<1>3. ASSUME NEW p \in Paths, NEW t \in Types, NEW f \in HostFiles, Read(p, t, f)
      PROVE  FALSE
  BY <1>3 DEF Read, LoadedType, Overlabelled
<1>4. ASSUME UNCHANGED <<size, type>> PROVE FALSE BY <1>4 DEF Overlabelled
<1>5. CASE Free BY <1>4, <1>5 DEF Free
<1>6. ASSUME NEW p \in Paths \cup {NoPath}, Write(p) PROVE FALSE
  BY <1>4, <1>6 DEF Write
<1>7. ASSUME NEW t \in TrackArgs, AskMaxSector(t) PROVE FALSE
  BY <1>4, <1>7 DEF AskMaxSector, Ask
<1>8. ASSUME NEW t \in TrackArgs, NEW s \in SectorArgs,
             \/ BlockRead(t, s) \/ \E c \in Content : BlockWrite(t, s, c)
             \/ AskOffset(t, s) \/ AskIsValid(t, s)
      PROVE  FALSE
  BY <1>4, <1>8 DEF BlockRead, BlockWrite, AskOffset, AskIsValid, Ask
<1> QED BY <1>1, <1>2, <1>3, <1>5, <1>6, <1>7, <1>8 DEF Next

\* The fields of a handle are in their ranges, and its type promises more
\* tracks than its buffer has only after an alloc over what an image of 40
\* tracks left in the handle.
THEOREM TypeCorrect == Spec => []TypeOK /\ OnlyAllocOverlabels
<1>1. Inv => TypeOK BY DEF Inv
<1> QED BY InvInit, InvNext, OnlyAlloc, <1>1, PTL DEF Spec, OnlyAllocOverlabels

\* Whatever calls a handle went through, zcc_d64_block_read and
\* zcc_d64_block_write copy no byte outside the image buffer unless the handle
\* is overlabelled, and then no byte behind the 40 tracks its type promises.
THEOREM InBounds == Spec => []AccessInBounds
<1>1. Inv => AccessInBounds BY DEF Inv
<1> QED BY InvInit, InvNext, <1>1, PTL DEF Spec

-------------------------------------------------------------------------------
(* The handle is a disk drive.                                             *)

\* The accesses the code allows are those to blocks of the medium.
LEMMA MediumIsAccess ==
  ASSUME TypeOK, Mounted, NEW t \in Int, NEW s \in Int
  PROVE  Device!OnMedium(t, s) <=> CanAccess(type, t, s)
<1>1. TrackIsValid(type, t) <=> t \in 1..TrackView
  BY DEF TrackIsValid, TrackView, TrackMin, TrackMax, TrackMaxExt
<1>2. TrackView <= 40 /\ TrackView \in Nat
  BY DEF TrackView, TrackMax, TrackMaxExt
<1>3. BlockOffset(t, s) >= 0 <=> BlockOffset(t, s) # -1
  <2>1. CASE BlockOffset(t, s) = -1 BY <2>1
  <2>2. CASE BlockOffset(t, s) # -1 BY <2>2, OffsetInImage
  <2> QED BY <2>1, <2>2
<1>4. ASSUME t \in 1..TrackView
      PROVE  BlockOffset(t, s) # -1 <=> s \in 0..(Device!SectorsOn(t) - 1)
  <2>1. t \in 1..40 BY <1>2, <1>4
  <2> QED BY <2>1, OffsetDomain DEF Device!SectorsOn
<1> QED BY <1>1, <1>3, <1>4 DEF Device!OnMedium, CanAccess

\* A block of the medium lies in the buffer when there is room for its track.
LEMMA RoomIsFit ==
  ASSUME TypeOK, Coherent, Mounted, NEW t \in Int, NEW s \in Int,
         CanAccess(type, t, s)
  PROVE  t <= RoomView <=> Fits(BlockOffset(t, s), size)
<1>1. BlockOffset(t, s) # -1 BY DEF CanAccess
<1>2. /\ Fits(BlockOffset(t, s), SizeExtended)
      /\ t <= 35 <=> Fits(BlockOffset(t, s), SizeCbmdos)
  BY <1>1, OffsetInImage
<1>3. t <= 40 BY DEF CanAccess, TrackIsValid, TrackMax, TrackMaxExt, TrackMin
<1>4. size \in {SizeCbmdos, SizeExtended} BY DEF TypeOK, Coherent, Mounted
<1>5. RoomView = IF size = SizeCbmdos THEN 35 ELSE 40
  BY DEF RoomView, TrackMax, TrackMaxExt
<1>6. CASE size = SizeCbmdos BY <1>2, <1>5, <1>6
<1>7. CASE size = SizeExtended /\ size # SizeCbmdos BY <1>2, <1>3, <1>5, <1>7
<1> QED BY <1>4, <1>6, <1>7

\* The view of the handle is always a drive with a medium that fits.
Formatted == /\ TrackView \in {0, 35, 40} /\ RoomView \in {0, 35, 40}
             /\ \A a \in DOMAIN BlockView : /\ BlockView[a] \in Content
                                           /\ Device!OnMedium(a[1], a[2])
                                           /\ Device!HasRoom(a[1])

LEMMA ViewFormatted == Inv => Formatted
<1> SUFFICES ASSUME Inv PROVE Formatted
  OBVIOUS
<1>1. TrackView \in {0, 35, 40} /\ RoomView \in {0, 35, 40}
  BY DEF TrackView, RoomView, TrackMax, TrackMaxExt
<1>2. ASSUME NEW a \in DOMAIN BlockView
      PROVE  /\ BlockView[a] \in Content
             /\ Device!OnMedium(a[1], a[2]) /\ Device!HasRoom(a[1])
  <2>1. a \in TrackArgs \X SectorArgs /\ OnImage(a) BY <1>2 DEF BlockView
  <2>2. a[1] \in Int /\ a[2] \in Int BY <2>1, ArgsAssumption
  <2>3. /\ BlockOffset(a[1], a[2]) \in DOMAIN blocks /\ TrackIsValid(type, a[1])
        /\ Fits(BlockOffset(a[1], a[2]), size)
    BY <2>1 DEF OnImage
  <2>4. Mounted BY <2>3 DEF Inv, Coherent, Empty
  <2>5. BlockOffset(a[1], a[2]) >= 0 BY <2>3 DEF Fits
  <2>6. CanAccess(type, a[1], a[2]) BY <2>3, <2>5 DEF CanAccess
  <2>7. BlockView[a] = blocks[BlockOffset(a[1], a[2])] BY <1>2 DEF BlockView
  <2>8. BlockView[a] \in Content BY <2>3, <2>7 DEF Inv, TypeOK
  <2>9. Device!HasRoom(a[1])
    BY <2>2, <2>3, <2>4, <2>6, RoomIsFit DEF Inv, Device!HasRoom
  <2> QED BY <2>2, <2>4, <2>6, <2>8, <2>9, MediumIsAccess DEF Inv
<1> QED BY <1>1, <1>2 DEF Formatted

\* A block of the view is the block at its offset, and blocks of the view
\* with one offset are one block.
LEMMA ViewFetch ==
  ASSUME Inv, Mounted, NEW t \in TrackArgs, NEW s \in SectorArgs,
         CanAccess(type, t, s), Fits(BlockOffset(t, s), size)
  PROVE  Fetch(BlockOffset(t, s)) = Device!Contents(t, s)
<1>1. <<t, s>> \in DOMAIN BlockView <=> BlockOffset(t, s) \in DOMAIN blocks
  BY DEF BlockView, OnImage, CanAccess
<1>2. <<t, s>> \in DOMAIN BlockView
        => BlockView[<<t, s>>] = blocks[BlockOffset(t, s)]
  BY DEF BlockView
<1> QED BY <1>1, <1>2 DEF Fetch, Device!Contents

\* A block that is stored is a block of the view when it lies in the buffer,
\* and leaves the view as it is when it lies behind it.
LEMMA ViewStore ==
  ASSUME Inv, NEW t \in TrackArgs, NEW s \in SectorArgs, NEW c \in Content,
         CanAccess(type, t, s),
         blocks' = Store(BlockOffset(t, s), c), type' = type, size' = size
  PROVE  BlockView' = IF Fits(BlockOffset(t, s), size)
                      THEN [a \in DOMAIN BlockView \cup {<<t, s>>} |->
                              IF a = <<t, s>> THEN c ELSE BlockView[a]]
                      ELSE BlockView
<1> DEFINE off == BlockOffset(t, s)
           Args == TrackArgs \X SectorArgs
           fits(a) == /\ TrackIsValid(type, a[1])
                      /\ Fits(BlockOffset(a[1], a[2]), size)
           after == [a \in DOMAIN BlockView \cup {<<t, s>>} |->
                       IF a = <<t, s>> THEN c ELSE BlockView[a]]
<1>1. DOMAIN blocks' = DOMAIN blocks \cup {off}
  BY DEF Store
<1>2. \A o \in DOMAIN blocks' : blocks'[o] = IF o = off THEN c ELSE blocks[o]
  BY DEF Store
<1>3. off # -1 /\ TrackIsValid(type, t) /\ <<t, s>> \in Args
  BY DEF CanAccess
<1>4. ASSUME NEW a \in Args, BlockOffset(a[1], a[2]) = off
      PROVE  a = <<t, s>>
  <2>1. PICK u \in TrackArgs, r \in SectorArgs : a = <<u, r>> BY <1>4
  <2>2. u \in Int /\ r \in Int /\ t \in Int /\ s \in Int BY ArgsAssumption
  <2>3. BlockOffset(u, r) = off BY <1>4, <2>1
  <2>4. off \in Nat BY <1>3, <2>2, OffsetInImage
  <2> QED BY <1>3, <2>1, <2>2, <2>3, <2>4, BlocksDisjoint DEF BlockSizeRaw
<1>5. DOMAIN BlockView' = {a \in Args : fits(a) /\ BlockOffset(a[1], a[2]) \in DOMAIN blocks'}
  BY DEF BlockView, OnImage
<1>6. DOMAIN BlockView = {a \in Args : fits(a) /\ BlockOffset(a[1], a[2]) \in DOMAIN blocks}
  BY DEF BlockView, OnImage
<1>7. BlockView' = [a \in DOMAIN BlockView' |-> BlockView'[a]] BY DEF BlockView
<1>8. CASE Fits(off, size)
  <2>1. fits(<<t, s>>) BY <1>3, <1>8
  <2> HIDE DEF fits, off, Args
  <2>2. DOMAIN BlockView' = DOMAIN BlockView \cup {<<t, s>>}
    BY <1>1, <1>3, <1>4, <1>5, <1>6, <2>1 DEF off
  <2>3. ASSUME NEW a \in DOMAIN BlockView'
        PROVE  BlockView'[a] = after[a]
    <3>1. BlockView'[a] = blocks'[BlockOffset(a[1], a[2])] BY <2>3 DEF BlockView
    <3>2. a \in Args /\ BlockOffset(a[1], a[2]) \in DOMAIN blocks' BY <1>5, <2>3
    <3>3. CASE a = <<t, s>> BY <1>2, <2>2, <3>1, <3>2, <3>3 DEF off
    <3>4. CASE a # <<t, s>>
      <4>1. BlockOffset(a[1], a[2]) # off BY <1>4, <3>2, <3>4
      <4>2. a \in DOMAIN BlockView BY <2>2, <2>3, <3>4
      <4>3. BlockView[a] = blocks[BlockOffset(a[1], a[2])] BY <4>2 DEF BlockView
      <4> QED BY <1>2, <2>2, <2>3, <3>1, <3>2, <3>4, <4>1, <4>3
    <3> QED BY <3>3, <3>4
  <2> QED BY <1>7, <1>8, <2>2, <2>3 DEF off
<1>9. CASE ~Fits(off, size)
  <2>1. ASSUME NEW a \in Args, fits(a) PROVE BlockOffset(a[1], a[2]) # off
    BY <1>9, <2>1
  <2> HIDE DEF fits, off, Args
  <2>2. DOMAIN BlockView' = DOMAIN BlockView BY <1>1, <1>5, <1>6, <2>1
  <2>3. ASSUME NEW a \in DOMAIN BlockView
        PROVE  BlockView'[a] = BlockView[a]
    <3>1. BlockView'[a] = blocks'[BlockOffset(a[1], a[2])] BY <2>2, <2>3 DEF BlockView
    <3>2. BlockView[a] = blocks[BlockOffset(a[1], a[2])] BY <2>3 DEF BlockView
    <3>3. /\ BlockOffset(a[1], a[2]) \in DOMAIN blocks'
          /\ BlockOffset(a[1], a[2]) # off
      BY <1>1, <1>6, <2>1, <2>3
    <3> QED BY <1>2, <3>1, <3>2, <3>3
  <2>4. BlockView = [a \in DOMAIN BlockView |-> BlockView[a]] BY DEF BlockView
  <2> QED BY <1>7, <1>9, <2>2, <2>3, <2>4 DEF off
<1> QED BY <1>8, <1>9

LEMMA DeviceInit == Init => Device!Init
<1> SUFFICES ASSUME Init PROVE Device!Init
  OBVIOUS
<1>1. BlockView = [a \in {} |-> Zero] BY DEF Init, BlockView, OnImage, Empty
<1> QED BY <1>1 DEF Init, Device!Init, Device!Done, Device!Reply, TrackView, RoomView,
           Mounted, ReplyView

LEMMA DeviceNext == Inv /\ Inv' /\ [Next]_vars => [Device!Next]_(Device!vars)
<1> SUFFICES ASSUME Inv, Inv', [Next]_vars PROVE [Device!Next]_(Device!vars)
  OBVIOUS
<1>1. ASSUME ret'.op \in {"init", "alloc", "read", "free"} PROVE Device!Insert
  <2>1. Formatted' BY ViewFormatted, PTL
  <2>2. ReplyView' = [op |-> "insert", track |-> 0, sector |-> 0, ok |-> FALSE, buf |-> Zero]
    BY <1>1 DEF ReplyView
  <2> QED BY <2>1, <2>2 DEF Formatted, Device!Insert, Device!Done, Device!Reply
<1>2. ASSUME ret'.op \in {"write", "block_offset", "track_max_sector", "block_is_valid"},
             UNCHANGED <<data, blocks, size, type, phase>>
      PROVE  Device!Query
  <2>1. ReplyView' = [op |-> "none", track |-> 0, sector |-> 0, ok |-> FALSE, buf |-> Zero]
    BY <1>2 DEF ReplyView
  <2>2. BlockView' = BlockView /\ TrackView' = TrackView /\ RoomView' = RoomView
    BY <1>2 DEF BlockView, OnImage, TrackView, RoomView, Mounted
  <2> QED BY <2>1, <2>2 DEF Device!Query, Device!Done, Device!Reply
<1>3. CASE HandleInit BY <1>1, <1>3 DEF HandleInit, Returns, Gives, Device!Next
<1>4. ASSUME NEW t \in Types, Alloc(t) PROVE Device!Next
  BY <1>1, <1>4 DEF Alloc, Returns, Gives, Device!Next
<1>5. CASE Free BY <1>1, <1>5 DEF Free, Returns, Gives, Device!Next
<1>6. ASSUME NEW p \in Paths, NEW t \in Types, NEW f \in HostFiles, Read(p, t, f)
      PROVE  Device!Next
  BY <1>1, <1>6 DEF Read, Returns, Gives, Device!Next
<1>7. ASSUME NEW p \in Paths \cup {NoPath}, Write(p) PROVE Device!Next
  <2>1. ret'.op = "write" /\ UNCHANGED <<data, blocks, size, type, phase>>
    BY <1>7 DEF Write, Returns, Gives
  <2> QED BY <1>2, <2>1 DEF Device!Next
<1>8. ASSUME NEW t \in TrackArgs, AskMaxSector(t) PROVE Device!Next
  BY <1>2, <1>8 DEF AskMaxSector, Ask, Returns, Gives, Device!Next
<1>9. ASSUME NEW t \in TrackArgs, NEW s \in SectorArgs, AskOffset(t, s) \/ AskIsValid(t, s)
      PROVE  Device!Next
  BY <1>2, <1>9 DEF AskOffset, AskIsValid, Ask, Returns, Gives, Device!Next
<1>10. ASSUME NEW t \in TrackArgs, NEW s \in SectorArgs, BlockRead(t, s)
       PROVE  Device!Get(t, s)
  <2>1. Mounted /\ t \in Int /\ s \in Int
    BY <1>10, ArgsAssumption DEF BlockRead, Mounted
  <2>2. Device!OnMedium(t, s) <=> CanAccess(type, t, s)
    BY <2>1, MediumIsAccess DEF Inv
  <2>3. BlockView' = BlockView /\ TrackView' = TrackView /\ RoomView' = RoomView
    BY <1>10 DEF BlockRead, BlockView, OnImage, TrackView, RoomView, Mounted
  <2>4. ret' = [op |-> "block_read", track |-> t, sector |-> s,
                result |-> Bool(CanAccess(type, t, s))]
    BY <1>10 DEF BlockRead, Returns, Gives
  <2>5. CASE CanAccess(type, t, s)
    <3>1. ReplyView' = [op |-> "get", track |-> t, sector |-> s, ok |-> TRUE, buf |-> buf']
      BY <2>4, <2>5 DEF ReplyView, Bool
    <3>2. Device!HasRoom(t) <=> Fits(BlockOffset(t, s), size)
      BY <2>1, <2>5, RoomIsFit DEF Inv, Device!HasRoom
    <3>3. buf' \in Found(BlockOffset(t, s)) BY <1>10, <2>5 DEF BlockRead
    <3>4. buf' \in Device!MayRead(t, s)
      <4>1. CASE Fits(BlockOffset(t, s), size)
        <5>1. buf' = Device!Contents(t, s)
          BY <2>1, <2>5, <3>3, <4>1, ViewFetch DEF Found
        <5> QED BY <2>2, <2>5, <3>2, <4>1, <5>1 DEF Device!MayRead
      <4>2. CASE ~Fits(BlockOffset(t, s), size)
        BY <2>2, <2>5, <3>2, <3>3, <4>2 DEF Device!MayRead, Found
      <4> QED BY <4>1, <4>2
    <3>5. Device!OnMedium(t, s) = TRUE BY <2>2, <2>5
    <3> QED BY <2>3, <3>1, <3>4, <3>5 DEF Device!Get, Device!Reply
  <2>6. CASE ~CanAccess(type, t, s)
    <3>0. ret'.result = 0 /\ (ret'.result = 1) = FALSE BY <2>4, <2>6 DEF Bool
    <3>1. ReplyView' = [op |-> "get", track |-> t, sector |-> s, ok |-> FALSE, buf |-> Zero]
      BY <2>4, <3>0 DEF ReplyView, Bool
    <3>2. Device!OnMedium(t, s) = FALSE BY <2>2, <2>6
    <3>3. Zero \in Device!MayRead(t, s) BY <2>2, <2>6 DEF Device!MayRead
    <3> QED BY <2>3, <3>1, <3>2, <3>3 DEF Device!Get, Device!Reply
  <2> QED BY <2>5, <2>6
<1>11. ASSUME NEW t \in TrackArgs, NEW s \in SectorArgs, NEW c \in Content,
              BlockWrite(t, s, c)
       PROVE  Device!Put(t, s, c)
  <2>1. Mounted /\ t \in Int /\ s \in Int
    BY <1>11, ArgsAssumption DEF BlockWrite, Mounted
  <2>2. Device!OnMedium(t, s) <=> CanAccess(type, t, s)
    BY <2>1, MediumIsAccess DEF Inv
  <2>3. TrackView' = TrackView /\ RoomView' = RoomView /\ type' = type /\ size' = size
    BY <1>11 DEF BlockWrite, TrackView, RoomView, Mounted
  <2>4. /\ ret' = [op |-> "block_write", track |-> t, sector |-> s,
                   result |-> Bool(CanAccess(type, t, s))]
        /\ buf' = c
    BY <1>11 DEF BlockWrite, Returns, Gives
  <2>5. CASE CanAccess(type, t, s)
    <3>1. blocks' = Store(BlockOffset(t, s), c) BY <1>11, <2>5 DEF BlockWrite
    <3>2. BlockView' = IF Fits(BlockOffset(t, s), size)
                       THEN [a \in DOMAIN BlockView \cup {<<t, s>>} |->
                               IF a = <<t, s>> THEN c ELSE BlockView[a]]
                       ELSE BlockView
      BY <2>3, <2>5, <3>1, ViewStore
    <3>3. Device!HasRoom(t) <=> Fits(BlockOffset(t, s), size)
      BY <2>1, <2>5, RoomIsFit DEF Inv, Device!HasRoom
    <3>4. ReplyView' = [op |-> "put", track |-> t, sector |-> s, ok |-> TRUE, buf |-> c]
      BY <2>4, <2>5 DEF ReplyView, Bool
    <3>5. Device!OnMedium(t, s) = TRUE BY <2>2, <2>5
    <3> QED BY <2>3, <3>2, <3>3, <3>4, <3>5 DEF Device!Put, Device!Reply
  <2>6. CASE ~CanAccess(type, t, s)
    <3>0. ret'.result = 0 /\ (ret'.result = 1) = FALSE BY <2>4, <2>6 DEF Bool
    <3>1. BlockView' = BlockView
      BY <1>11, <2>6 DEF BlockWrite, BlockView, OnImage
    <3>2. ReplyView' = [op |-> "put", track |-> t, sector |-> s, ok |-> FALSE, buf |-> c]
      BY <2>4, <3>0 DEF ReplyView, Bool
    <3>3. Device!OnMedium(t, s) = FALSE BY <2>2, <2>6
    <3> QED BY <2>3, <3>1, <3>2, <3>3 DEF Device!Put, Device!Reply
  <2> QED BY <2>5, <2>6
<1>12. CASE UNCHANGED vars
  BY <1>12 DEF vars, Device!vars, BlockView, OnImage, TrackView, RoomView, Mounted, ReplyView
<1> QED BY <1>3, <1>4, <1>5, <1>6, <1>7, <1>8, <1>9, <1>10, <1>11, <1>12
    DEF Next, Device!Next

\* A handle of d64.c, in any sequence of calls D64 allows, behaves as the disk
\* drive of BlockDevice: also when its type promises more tracks than its
\* buffer has, or fewer.
THEOREM Implements == Spec => ImplementsDevice
BY InvInit, InvNext, DeviceInit, DeviceNext, PTL DEF Spec, ImplementsDevice, Device!Spec

===============================================================================
