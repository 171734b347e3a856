----------------------------- MODULE D64DirProofs -----------------------------
(***************************************************************************)
(* Proofs about D64Dir and Listing: for every image, however its links     *)
(* run, the listing stays in its array of entries and in the image, takes  *)
(* the entries in their order and with their sizes, and prints the names.  *)
(***************************************************************************)
EXTENDS Listing, D64Proofs, SetInduction, FiniteSetTheorems

\* The iterator has passed as many entries as the directory object holds, one
\* more when the present one has not been copied yet; and the handle is as
\* D64Proofs has it, with the type the command asks for.
Counted ==
  /\ index \in 0..(DirentMax - 1)
  /\ Len(entries) <= DirentMax
  /\ dpc \in {"size", "chain", "entry"} => Len(entries) = index
  /\ dpc = "next" => Len(entries) = index + 1

HandleInv == Inv /\ type = "CBMDOS"

DirInv == HandleInv /\ DirTypeOK /\ Counted

LEMMA Fetched ==
  ASSUME TypeOK, NEW t, NEW s
  PROVE  /\ Block(t, s) \in Content
         /\ Block(t, s).link \in (0..255) \X (0..255)
         /\ \A n \in Slots : Block(t, s).entries[n] \in Entries
<1>1. Block(t, s) \in Content
  BY ContentAssumption DEF Block, Fetch, TypeOK
<1>2. /\ Block(t, s).link \in (0..255) \X (0..255)
      /\ Block(t, s).entries \in [Slots -> Entries]
  BY <1>1, BlocksAssumption
<1> QED BY <1>1, <1>2

LEMMA BlocksOfEntry ==
  ASSUME NEW e \in Entries
  PROVE  e.blocks % 256 \in 0..255
<1>1. e.blocks \in BlockCounts BY DEF Entries
<1>2. ASSUME NEW n \in BlockCounts PROVE n % 256 \in 0..255 BY DEF BlockCounts
<1> QED BY <1>1, <1>2

LEMMA LinkParts ==
  ASSUME NEW l \in (0..255) \X (0..255)
  PROVE  l[1] \in 0..255 /\ l[2] \in 0..255
OBVIOUS

LEMMA DirentReadTyped ==
  ASSUME DirTypeOK, NEW e \in Entries, DirentRead(e)
  PROVE  dirent' \in Dirents
<1>1. e.blocks % 256 \in 0..255 BY BlocksOfEntry
<1>2. dirent.size \in Nat \cup {Uninit} BY DEF DirTypeOK, Dirents, Names
<1>3. /\ e.name \in Names /\ e.filetype \in 0..255 /\ e.track \in 0..255 /\ e.sector \in 0..255
  BY DEF Entries, Names
<1> QED BY <1>1, <1>2, <1>3 DEF DirentRead, BlockCount, Dirents, Names

LEMMA EntryRead ==
  ASSUME Inv, DirTypeOK, NEW s, NEW n \in Slots, ReadEntry(s, n)
  PROVE  dirent' \in Dirents /\ zcc_errno' \in ErrorCodes
<1>1. zcc_errno' \in ErrorCodes
  BY ErrnoIsCode DEF ReadEntry, Inv, TypeOK
<1>2. PICK e \in IF CanAccess(type, DirTrack, s) THEN {Block(DirTrack, s).entries[n]}
                                                 ELSE Garbage : DirentRead(e)
  BY DEF ReadEntry
<1>3. e \in Entries
  BY <1>2, Fetched, GarbageAssumption DEF Inv
<1> QED BY <1>1, <1>2, <1>3, DirentReadTyped

LEMMA WithSize ==
  ASSUME NEW d \in Dirents, NEW n \in Nat
  PROVE  [d EXCEPT !.size = n] \in Dirents
BY DEF Dirents

\* The listing changes the handle through its own functions, and zcc_errno.
LEMMA HandleKept ==
  ASSUME HandleInv, UNCHANGED handleVars, zcc_errno' \in ErrorCodes
  PROVE  HandleInv'
BY DEF HandleInv, Inv, TypeOK, Coherent, Mounted, AccessInBounds, Overlabelled, handleVars

LEMMA DirInvInit == DirInit => DirInv
<1> SUFFICES ASSUME DirInit PROVE DirInv
  OBVIOUS
<1>1. HandleInv BY InvInit DEF DirInit, Init, HandleInv
<1>2. DirTypeOK
  BY SlotsAssumption DEF DirInit, DirTypeOK, DirSector, Slots, NoDirent, Dirents, Names
<1>3. Counted BY DirentMaxAssumption DEF DirInit, Counted
<1> QED BY <1>1, <1>2, <1>3 DEF DirInv

LEMMA DirInvNext == DirInv /\ [DirNext]_<<vars, dirVars>> => DirInv'
<1> SUFFICES ASSUME DirInv, [DirNext]_<<vars, dirVars>> PROVE DirInv'
  OBVIOUS
<1>0. HandleInv /\ Inv /\ DirTypeOK /\ Counted /\ TypeOK /\ zcc_errno \in ErrorCodes
  BY DEF DirInv, HandleInv, Inv, TypeOK
<1>1. CASE Open
  <2>1. HandleInv' BY <1>0, <1>1, InvNext DEF Open, Next, HandleInit, HandleInv
  <2>2. UNCHANGED <<iterVars, chainVars, entries, shown>> /\ dpc' = "load"
    BY <1>1 DEF Open, Go
  <2> QED BY <1>0, <2>1, <2>2 DEF DirInv, DirTypeOK, Counted, iterVars, chainVars
<1>2. ASSUME NEW p \in Paths, NEW f \in HostFiles, Load(p, f) PROVE DirInv'
  <2>1. HandleInv'
    <3>1. Inv' BY <1>0, <1>2, InvNext, CbmdosAssumption DEF Load, Next
    <3>2. type' = "CBMDOS" BY <1>0, <1>2 DEF HandleInv, Load, Read, LoadedType
    <3> QED BY <3>1, <3>2 DEF HandleInv
  <2>2. UNCHANGED <<iterVars, chainVars, entries, shown>> /\ dpc' \in {"dir", "done"}
    BY <1>2 DEF Load
  <2> QED BY <1>0, <2>1, <2>2 DEF DirInv, DirTypeOK, Counted, iterVars, chainVars
<1>3. CASE IterInit
  <2>1. 0 \in Slots BY SlotsAssumption DEF Slots
  <2>2. dirent' \in Dirents /\ zcc_errno' \in ErrorCodes
    BY <1>0, <1>3, <2>1, EntryRead DEF IterInit
  <2>3. HandleInv' BY <1>0, <1>3, <2>2, HandleKept DEF IterInit
  <2>4. DirTypeOK'
    BY <1>0, <1>3, <2>1, <2>2 DEF IterInit, Go, DirTypeOK, DirSector, chainVars
  <2>5. Counted' BY <1>3, DirentMaxAssumption DEF IterInit, Go, Counted
  <2> QED BY <2>3, <2>4, <2>5 DEF DirInv
<1>4. CASE IterEnds
  <2>1. zcc_errno' \in ErrorCodes
    BY <1>0, <1>4, ErrnoIsCode DEF IterEnds
  <2>2. HandleInv' BY <1>0, <1>4, <2>1, HandleKept DEF IterEnds
  <2> QED BY <1>0, <1>4, <2>2
          DEF IterEnds, Go, DirInv, DirTypeOK, Counted, iterVars, chainVars
<1>5. CASE IterNext
  <2>1. slot' \in Slots
    BY <1>0, <1>5, SlotsAssumption DEF IterNext, DirTypeOK, Slots, FirstSlot
  <2>2. sector' \in 0..255
    <3>1. sector' \in {sector, Block(DirTrack, sector).link[2]} BY <1>5 DEF IterNext
    <3>2. Block(DirTrack, sector).link[2] \in 0..255 BY <1>0, Fetched, LinkParts
    <3> QED BY <1>0, <3>1, <3>2 DEF DirTypeOK
  <2>3. dirent' \in Dirents /\ zcc_errno' \in ErrorCodes
    BY <1>0, <1>5, <2>1, EntryRead DEF IterNext
  <2>4. HandleInv' BY <1>0, <1>5, <2>3, HandleKept DEF IterNext
  <2>5. index \in Nat /\ index' = index + 1 /\ index # DirentMax - 1
    BY <1>0, <1>5 DEF IterNext, AtEnd, LastIndex, DirTypeOK
  <2>6. DirTypeOK'
    BY <1>0, <1>5, <2>1, <2>2, <2>3, <2>5 DEF IterNext, Go, DirTypeOK, chainVars
  <2>7. Counted'
    BY <1>0, <1>5, <2>5, DirentMaxAssumption DEF IterNext, Go, Counted
  <2> QED BY <2>4, <2>6, <2>7 DEF DirInv
<1>6. CASE SizeInit
  <2>1. zcc_errno' \in ErrorCodes
    BY <1>0, <1>6, ErrnoIsCode DEF SizeInit
  <2>2. HandleInv' BY <1>0, <1>6, <2>1, HandleKept DEF SizeInit
  <2>3. link' \in (0..255) \X (0..255) /\ total' \in Nat /\ dpc' \in {"chain", "entry"}
    <3>1. CASE HasBlock(dirent.track, dirent.sector)
      BY <1>0, <1>6, <3>1, Fetched DEF SizeInit
    <3>2. CASE ~HasBlock(dirent.track, dirent.sector)
      <4>1. UNCHANGED chainVars /\ dpc' = "entry" BY <1>6, <3>2 DEF SizeInit
      <4> QED BY <1>0, <4>1 DEF chainVars, DirTypeOK
    <3> QED BY <3>1, <3>2
  <2> QED BY <1>0, <1>6, <2>2, <2>3 DEF SizeInit, DirInv, DirTypeOK, Counted, iterVars
<1>7. CASE ChainNext
  <2>1. HandleInv' BY <1>0, <1>7, HandleKept DEF ChainNext
  <2>2. link' \in (0..255) \X (0..255)
    BY <1>0, <1>7, Fetched DEF ChainNext, LinkOf
  <2>3. total' \in Nat
    BY <1>0, <1>7, SizeCapAssumption DEF ChainNext, Capped, AddBlock, DataSize, DirTypeOK
  <2> QED BY <1>0, <1>7, <2>1, <2>2, <2>3 DEF ChainNext, DirInv, DirTypeOK, Counted, iterVars
<1>8. CASE ChainEnds
  <2>1. zcc_errno' \in ErrorCodes
    BY <1>0, <1>8, ErrnoIsCode DEF ChainEnds
  <2>2. HandleInv' BY <1>0, <1>8, <2>1, HandleKept DEF ChainEnds
  <2>3. dirent' \in Dirents
    <3> DEFINE n == total + link[2] - 1
    <3>1. n \in Int
      <4>1. link[2] \in 0..255 /\ total \in Nat BY <1>0, LinkParts DEF DirTypeOK
      <4> QED BY <4>1
    <3>2. dirent' = IF n >= 0 THEN [dirent EXCEPT !.size = n] ELSE dirent
      BY <1>8 DEF ChainEnds
    <3>3. dirent \in Dirents BY <1>0 DEF DirTypeOK
    <3> HIDE DEF n
    <3>4. CASE n >= 0
      <4>1. n \in Nat BY <3>1, <3>4
      <4> QED BY <3>2, <3>3, <3>4, <4>1, WithSize
    <3>5. CASE ~(n >= 0) BY <3>2, <3>3, <3>5
    <3> QED BY <3>4, <3>5
  <2> QED BY <1>0, <1>8, <2>2, <2>3
          DEF ChainEnds, Go, DirInv, DirTypeOK, Counted, chainVars
<1>9. CASE AddEntry
  <2>1. HandleInv' BY <1>0, <1>9, HandleKept DEF AddEntry
  <2>2. entries' \in Seq(Dirents) /\ Len(entries') = Len(entries) + 1
    BY <1>0, <1>9 DEF AddEntry, DirTypeOK
  <2> QED BY <1>0, <1>9, <2>1, <2>2, DirentMaxAssumption
          DEF AddEntry, Go, DirInv, DirTypeOK, Counted, iterVars, chainVars
<1>10. CASE EndOfDir
  <2>1. HandleInv' BY <1>0, <1>10, HandleKept DEF EndOfDir
  <2> QED BY <1>0, <1>10, <2>1
          DEF EndOfDir, Go, DirInv, DirTypeOK, Counted, iterVars, chainVars
<1>11. CASE Dump
  <2>1. HandleInv' BY <1>0, <1>11, HandleKept DEF Dump
  <2> QED BY <1>0, <1>11, <2>1
          DEF Dump, Go, DirInv, DirTypeOK, Counted, iterVars, chainVars
<1>12. CASE Close
  <2>1. HandleInv' BY <1>0, <1>12, InvNext DEF Close, Next, Free, HandleInv
  <2> QED BY <1>0, <1>12, <2>1
          DEF Close, Go, DirInv, DirTypeOK, Counted, iterVars, chainVars
<1>13. CASE UNCHANGED <<vars, dirVars>>
  <2>1. HandleInv' BY <1>0, <1>13, InvNext DEF HandleInv, vars
  <2> QED BY <1>0, <1>13, <2>1
          DEF DirInv, DirTypeOK, Counted, dirVars, iterVars, chainVars
<1> QED BY <1>1, <1>2, <1>3, <1>4, <1>5, <1>6, <1>7, <1>8, <1>9, <1>10, <1>11,
           <1>12, <1>13 DEF DirNext

\* The variables of the listing stay in their types, on any image.
THEOREM DirTypeCorrect == DirSpec => []DirTypeOK
<1>1. DirInv => DirTypeOK BY DEF DirInv
<1> QED BY DirInvInit, DirInvNext, <1>1, PTL DEF DirSpec

\* zcc_d64_dir_read never stores an entry past its array of 144, whatever the
\* links of the directory blocks are: it relies on the iterator's index, and
\* the two never drift apart.
THEOREM StaysInDirectory == DirSpec => []EntriesInBounds
<1>1. DirInv => EntriesInBounds BY DEF DirInv, Counted, EntriesInBounds
<1> QED BY DirInvInit, DirInvNext, <1>1, PTL DEF DirSpec

\* Every block that the checks of d64.c let through lies in the buffer, on
\* every track and sector that can be asked for.
AllowedFits ==
  Mounted => \A t, s \in Int : CanAccess(type, t, s) => Fits(BlockOffset(t, s), size)

\* While its directory is listed a handle is never overlabelled: whatever the
\* links of the image say, what is read of it lies in its buffer.
THEOREM ListingKeepsHandle == DirSpec => [](AccessInBounds /\ AllowedFits)
<1>1. ASSUME DirInv PROVE AccessInBounds /\ AllowedFits
  <2>1. TypeOK /\ Coherent /\ AccessInBounds BY <1>1 DEF DirInv, HandleInv, Inv
  <2>2. Limit = size BY <1>1 DEF DirInv, HandleInv, Limit, Overlabelled
  <2>3. ASSUME Mounted, NEW t \in Int, NEW s \in Int, CanAccess(type, t, s)
        PROVE  Fits(BlockOffset(t, s), size)
    BY <2>1, <2>2, <2>3, AccessFits DEF Mounted
  <2> QED BY <2>1, <2>3 DEF AllowedFits
<1> QED BY DirInvInit, DirInvNext, <1>1, PTL DEF DirSpec

-------------------------------------------------------------------------------
(* The entries of the directory.                                           *)

\* The sector that follows a block of the directory.
Follows(s) == IF BlockOffset(DirTrack, s) >= 0 THEN Block(DirTrack, s).link[2] ELSE 255

LEMMA SectorsAre ==
  ASSUME TypeOK
  PROVE  \A b \in 0..DirentMax :
           DirSectors[b] = IF b = 0 THEN DirSector ELSE Follows(DirSectors[b - 1])
<1> DEFINE S == 0..255
           F == [x \in S |-> Follows(x)]
           P(f) == f = [b \in 0..DirentMax |->
                          IF b = 0 THEN DirSector
                          ELSE IF BlockOffset(DirTrack, f[b - 1]) >= 0
                               THEN Block(DirTrack, f[b - 1]).link[2] ELSE 255]
<1>1. F \in [S -> S]
  <2>1. ASSUME NEW x \in S PROVE Follows(x) \in S
    <3>1. Block(DirTrack, x).link[2] \in 0..255 BY Fetched, LinkParts
    <3> QED BY <3>1 DEF Follows
  <2> HIDE DEF S
  <2> QED BY <2>1
<1>2. DirentMax \in Nat /\ DirSector \in S BY DirentMaxAssumption DEF DirSector
<1>3. PICK f \in [0..DirentMax -> S] :
        \A b \in 0..DirentMax : f[b] = IF b = 0 THEN DirSector ELSE F[f[b - 1]]
  <2>1. S = 0..255 /\ F \in [S -> S] /\ DirSector \in S BY <1>1, <1>2
  <2> HIDE DEF S, F
  <2>2. F \in [S -> S] /\ DirSector \in S BY <2>1
  <2>3. \E f \in [0..DirentMax -> S] : Iterates(f, DirSector, F, DirentMax)
    BY <1>2, <2>2, IteratesExist
  <2> QED BY <2>3 DEF Iterates
<1>4. P(f)
  <2>1. ASSUME NEW b \in 0..DirentMax, b # 0 PROVE F[f[b - 1]] = Follows(f[b - 1])
    <3>1. b - 1 \in 0..DirentMax BY <1>2, <2>1
    <3>2. f[b - 1] \in S BY <3>1
    <3> HIDE DEF S
    <3> QED BY <3>2
  <2>2. \A b \in 0..DirentMax : f[b] = IF b = 0 THEN DirSector ELSE Follows(f[b - 1])
    <3> HIDE DEF F
    <3> QED BY <1>3, <2>1
  <2>3. f = [b \in 0..DirentMax |-> IF b = 0 THEN DirSector ELSE Follows(f[b - 1])]
    BY <2>2
  <2> QED BY <2>3 DEF Follows
<1>5. DirSectors = CHOOSE g : P(g) BY DEF DirSectors
<1>6. P(DirSectors)
  <2>1. \E g : P(g) BY <1>4
  <2> HIDE DEF P
  <2> QED BY <1>5, <2>1
<1> QED
  <2>1. PICK g : g = DirSectors OBVIOUS
  <2> DEFINE h == [b \in 0..DirentMax |-> IF b = 0 THEN DirSector ELSE Follows(g[b - 1])]
  <2>2. g = h BY <1>6, <2>1 DEF Follows
  <2>3. \A b \in 0..DirentMax : h[b] = IF b = 0 THEN DirSector ELSE Follows(g[b - 1])
    OBVIOUS
  <2> HIDE DEF h
  <2> QED BY <2>1, <2>2, <2>3

\* What ListsInOrder says of the entry at k of the directory.
SectorOf(k) == DirSectors[k \div SlotsPerBlock]
Exists(k) == BlockOffset(DirTrack, SectorOf(k)) >= 0
EntryAt(k) == Block(DirTrack, SectorOf(k)).entries[k % SlotsPerBlock]

\* d has been read as the entry at k.
Shows(d, k) ==
  /\ SectorOf(k) # 255
  /\ Exists(k) => /\ d.name = EntryAt(k).name
                  /\ d.track = EntryAt(k).track
                  /\ d.sector = EntryAt(k).sector

Named(d) == d.name # 0

\* The iterator is at the entry whose index it has, and every entry before
\* was copied; the listing stops before an entry without a name, at the last
\* the object has room for, or behind the last block.
Copied(s) == \A k \in 0..(Len(s) - 1) : Shows(s[k + 1], k) /\ Named(s[k + 1])

AtPlace(n) == slot = n % SlotsPerBlock /\ sector = SectorOf(n) /\ Shows(dirent, n)

InOrder ==
  /\ dpc \in {"size", "chain", "entry", "next", "dump"} => Copied(entries)
  /\ dpc \in {"size", "chain", "entry", "next"} => AtPlace(index)
  /\ dpc = "next" => Named(dirent)
  /\ dpc = "dump" /\ Len(entries) < DirentMax /\ Exists(Len(entries)) =>
       EntryAt(Len(entries)).name = 0

\* A directory is read in the same way as long as the blocks stay.
LEMMA SameDirectory ==
  ASSUME UNCHANGED blocks, NEW k, NEW d
  PROVE  /\ SectorOf(k)' = SectorOf(k)
         /\ Exists(k)' <=> Exists(k)
         /\ EntryAt(k)' = EntryAt(k)
         /\ Shows(d, k)' <=> Shows(d, k)
<1>1. DirSectors' = DirSectors BY DEF DirSectors, Block, Fetch
<1> QED BY <1>1 DEF SectorOf, Exists, EntryAt, Shows, Block, Fetch

LEMMA CopiedKept ==
  ASSUME UNCHANGED blocks, UNCHANGED entries, Copied(entries)
  PROVE  Copied(entries)'
<1>1. ASSUME NEW k, NEW d PROVE Shows(d, k)' <=> Shows(d, k) BY SameDirectory
<1>2. ASSUME NEW k \in 0..(Len(entries) - 1)
      PROVE  Shows(entries[k + 1], k)' /\ Named(entries[k + 1])
  <2>1. PICK d : d = entries[k + 1] /\ d = entries'[k + 1] OBVIOUS
  <2>2. Shows(d, k) /\ Named(d) BY <2>1 DEF Copied
  <2> QED BY <1>1, <2>1, <2>2 DEF Shows
<1> QED BY <1>2 DEF Copied, Named

LEMMA PlaceKept ==
  ASSUME UNCHANGED <<blocks, slot, sector, index>>, AtPlace(index),
         dirent'.name = dirent.name, dirent'.track = dirent.track,
         dirent'.sector = dirent.sector
  PROVE  AtPlace(index)'
<1>1. /\ SectorOf(index)' = SectorOf(index) /\ Exists(index)' = Exists(index)
      /\ EntryAt(index)' = EntryAt(index)
  <2>1. DirSectors' = DirSectors BY DEF DirSectors, Block, Fetch
  <2> QED BY <2>1 DEF SectorOf, Exists, EntryAt, Block, Fetch
<1> QED BY <1>1 DEF AtPlace, Shows

LEMMA NextSector ==
  ASSUME TypeOK, NEW k \in Nat, k + 1 <= DirentMax
  PROVE  /\ (k % SlotsPerBlock) < SlotsPerBlock - 1 => SectorOf(k + 1) = SectorOf(k)
         /\ (k % SlotsPerBlock) = SlotsPerBlock - 1 => SectorOf(k + 1) = Follows(SectorOf(k))
<1>1. k \div SlotsPerBlock \in Nat /\ k \div SlotsPerBlock <= k
  BY SlotsAssumption, RowFacts
<1>2. /\ (k % SlotsPerBlock) < SlotsPerBlock - 1
            => (k + 1) \div SlotsPerBlock = k \div SlotsPerBlock
      /\ (k % SlotsPerBlock) = SlotsPerBlock - 1
            => (k + 1) \div SlotsPerBlock = k \div SlotsPerBlock + 1
  BY SlotsAssumption, NextInRow
<1>3. PICK q \in Nat : q = k \div SlotsPerBlock BY <1>1
<1>4. q + 1 \in 0..DirentMax /\ q + 1 # 0 /\ (q + 1) - 1 = q
  BY <1>1, <1>3, DirentMaxAssumption
<1>5. DirSectors[q + 1] = Follows(DirSectors[q])
  BY <1>4, SectorsAre
<1> QED BY <1>2, <1>3, <1>5 DEF SectorOf

LEMMA FirstSector ==
  ASSUME TypeOK
  PROVE  SectorOf(0) = DirSector /\ 0 % SlotsPerBlock = 0
<1>1. 0 \div SlotsPerBlock = 0 /\ 0 % SlotsPerBlock = 0 BY SlotsAssumption, RowFacts
<1>2. 0 \in 0..DirentMax BY DirentMaxAssumption
<1> QED BY <1>1, <1>2, SectorsAre DEF SectorOf

\* An entry read from the iterator's place.
LEMMA ReadShows ==
  ASSUME DirInv, NEW s \in 0..255, s # 255, NEW n \in Slots, NEW k \in Nat, ReadEntry(s, n),
         SectorOf(k) = s, k % SlotsPerBlock = n
  PROVE  Shows(dirent', k)
<1>1. CanAccess(type, DirTrack, s) <=> BlockOffset(DirTrack, s) >= 0
  BY DEF CanAccess, TrackIsValid, DirTrack, TrackMin, TrackMax, TrackMaxExt
<1>2. PICK e \in IF CanAccess(type, DirTrack, s) THEN {Block(DirTrack, s).entries[n]}
                                                 ELSE Garbage : DirentRead(e)
  BY DEF ReadEntry
<1>3. /\ dirent'.name = e.name /\ dirent'.track = e.track /\ dirent'.sector = e.sector
  BY <1>2 DEF DirentRead
<1>4. Exists(k) => e = EntryAt(k) BY <1>1, <1>2 DEF Exists, EntryAt
<1> QED BY <1>3, <1>4 DEF Shows

LEMMA InOrderInit == DirInit => InOrder
BY DEF DirInit, InOrder

LEMMA InOrderNext ==
  DirInv /\ DirInv' /\ InOrder /\ [DirNext]_<<vars, dirVars>> => InOrder'
<1> SUFFICES ASSUME DirInv, DirInv', InOrder, [DirNext]_<<vars, dirVars>> PROVE InOrder'
  OBVIOUS
<1>0. /\ TypeOK /\ Counted /\ Counted' /\ DirTypeOK /\ DirTypeOK' /\ index \in Nat
      /\ Len(entries) \in Nat
  <2>1. entries \in Seq(Dirents) /\ index \in Nat BY DEF DirInv, DirTypeOK
  <2> QED BY <2>1 DEF DirInv, HandleInv, Inv
<1>1. CASE dpc' \in {"open", "load", "dir", "close", "done"}
  BY <1>1 DEF InOrder
<1>2. CASE IterInit
  <2>1. /\ UNCHANGED blocks /\ entries' = <<>> /\ dpc' = "size"
        /\ sector' = 1 /\ slot' = 0 /\ index' = 0 /\ ReadEntry(1, 0)
    BY <1>2 DEF IterInit, Go, handleVars, DirSector
  <2>2. 0 \in Slots BY SlotsAssumption DEF Slots
  <2>3. SectorOf(0) = 1 /\ 0 % SlotsPerBlock = 0 BY <1>0, FirstSector DEF DirSector
  <2>4. Shows(dirent', 0) BY <2>1, <2>2, <2>3, ReadShows
  <2>5. PICK d : d = dirent' OBVIOUS
  <2>6. Shows(d, 0)' /\ SectorOf(0)' = SectorOf(0) BY <2>1, <2>4, <2>5, SameDirectory
  <2>7. AtPlace(index)' BY <2>1, <2>3, <2>5, <2>6 DEF AtPlace, Shows, SectorOf, Exists, EntryAt
  <2>8. Copied(entries)' BY <2>1 DEF Copied
  <2> QED BY <2>1, <2>7, <2>8 DEF InOrder
<1>3. CASE IterEnds
  <2>1. /\ UNCHANGED <<blocks, entries>> /\ dpc = "next" /\ dpc' = "dump"
        /\ Copied(entries) /\ AtPlace(index) /\ Named(dirent) /\ Len(entries) = index + 1
    BY <1>0, <1>3 DEF IterEnds, Go, handleVars, InOrder, Counted
  <2>2. Copied(entries)' BY <2>1, CopiedKept
  <2>3. ASSUME Len(entries) < DirentMax PROVE ~Exists(Len(entries))
    <3>1. ~AtEnd BY <1>0, <2>1, <2>3, DirentMaxAssumption DEF AtEnd, LastIndex, Named
    <3>2. slot = SlotsPerBlock - 1 /\ Follows(sector) = 255
      <4>1. sector \in Int /\ DirTrack \in Int BY <1>0 DEF DirTypeOK, DirTrack
      <4>2. BlockOffset(DirTrack, sector) \in Int BY <4>1, ResultsAreNumbers
      <4> QED BY <1>3, <3>1, <4>2 DEF IterEnds, Follows
    <3>3. SectorOf(index + 1) = 255
      <4>1. index + 1 <= DirentMax BY <1>0, <2>1, <2>3, DirentMaxAssumption
      <4>2. SectorOf(index + 1) = Follows(SectorOf(index))
        BY <1>0, <2>1, <3>2, <4>1, NextSector DEF AtPlace
      <4> QED BY <2>1, <3>2, <4>2 DEF AtPlace
    <3>4. ~(BlockOffset(DirTrack, 255) >= 0)
      BY DEF BlockOffset, SectorInTable, SectorMin, SectorMax
    <3> QED BY <2>1, <3>3, <3>4 DEF Exists
  <2>4. PICK n : n = Len(entries) /\ n = Len(entries)' BY <2>1
  <2>5. (Exists(n)' <=> Exists(n)) BY <2>1, SameDirectory
  <2> QED BY <2>1, <2>2, <2>3, <2>4, <2>5 DEF InOrder, Exists, SectorOf
<1>4. CASE IterNext
  <2>1. /\ UNCHANGED <<blocks, entries>> /\ dpc = "next" /\ dpc' = "size"
        /\ Copied(entries) /\ AtPlace(index) /\ index' = index + 1
        /\ ReadEntry(sector', slot')
    BY <1>4 DEF IterNext, Go, handleVars, InOrder
  <2>2. index + 1 \in Nat /\ index + 1 <= DirentMax
    BY <1>0, <2>1, DirentMaxAssumption DEF Counted
  <2>3. sector # 255
    BY <2>1 DEF AtPlace, Shows
  <2>4. slot' = (index + 1) % SlotsPerBlock /\ sector' = SectorOf(index + 1) /\ sector' # 255
    <3>1. CASE slot < SlotsPerBlock - 1
      <4>1. slot' = slot + 1 /\ sector' = sector
        BY <1>0, <1>4, <3>1, SlotsAssumption DEF IterNext, DirTypeOK, Slots
      <4>2. (index + 1) % SlotsPerBlock = slot + 1
        BY <1>0, <2>1, <3>1, SlotsAssumption, NextInRow DEF AtPlace
      <4>3. SectorOf(index + 1) = sector
        BY <1>0, <2>1, <2>2, <3>1, NextSector DEF AtPlace
      <4> QED BY <2>3, <4>1, <4>2, <4>3
    <3>2. CASE ~(slot < SlotsPerBlock - 1)
      <4>1. /\ slot = SlotsPerBlock - 1 /\ slot' = 0 /\ sector' = Follows(sector)
            /\ Follows(sector) # 255
        BY <1>4, <3>2 DEF IterNext, Follows, FirstSlot
      <4>2. (index + 1) % SlotsPerBlock = 0
        BY <1>0, <2>1, <4>1, SlotsAssumption, NextInRow DEF AtPlace
      <4>3. SectorOf(index + 1) = Follows(sector)
        BY <1>0, <2>1, <2>2, <4>1, NextSector DEF AtPlace
      <4> QED BY <4>1, <4>2, <4>3
    <3> QED BY <3>1, <3>2
  <2>5. slot' \in Slots /\ sector' \in 0..255 BY <1>0 DEF DirTypeOK
  <2>6. PICK k \in Nat, n \in Slots, s \in 0..255 : k = index + 1 /\ n = slot' /\ s = sector'
    BY <2>2, <2>5
  <2>7. Shows(dirent', k) BY <2>1, <2>4, <2>6, ReadShows
  <2>8. PICK d : d = dirent' OBVIOUS
  <2>9. Shows(d, k)' /\ SectorOf(k)' = SectorOf(k) BY <2>1, <2>7, <2>8, SameDirectory
  <2>10. AtPlace(index)'
    BY <2>1, <2>4, <2>6, <2>8, <2>9 DEF AtPlace, Shows, SectorOf, Exists, EntryAt
  <2>11. Copied(entries)' BY <2>1, CopiedKept
  <2> QED BY <2>1, <2>10, <2>11 DEF InOrder
<1>5. CASE SizeInit \/ ChainNext \/ ChainEnds
  <2>1. /\ UNCHANGED <<blocks, entries, slot, sector, index>> /\ dpc \in {"size", "chain"}
        /\ dpc' \in {"chain", "entry"}
        /\ dirent'.name = dirent.name /\ dirent'.track = dirent.track
        /\ dirent'.sector = dirent.sector
    <3>1. CASE SizeInit BY <3>1 DEF SizeInit, handleVars, iterVars
    <3>2. CASE ChainNext BY <3>2 DEF ChainNext, handleVars, iterVars
    <3>3. CASE ChainEnds
      <4>1. \/ dirent' = dirent
            \/ dirent' = [dirent EXCEPT !.size = total + link[2] - 1]
        BY <3>3 DEF ChainEnds
      <4>2. dirent \in Dirents BY <1>0 DEF DirTypeOK
      <4>3. /\ dirent'.name = dirent.name /\ dirent'.track = dirent.track
            /\ dirent'.sector = dirent.sector
        BY <4>1, <4>2 DEF Dirents
      <4> QED BY <3>3, <4>3 DEF ChainEnds, Go, handleVars
    <3> QED BY <1>5, <3>1, <3>2, <3>3
  <2>2. Copied(entries) /\ AtPlace(index) BY <2>1 DEF InOrder
  <2>3. Copied(entries)' /\ AtPlace(index)' BY <2>1, <2>2, CopiedKept, PlaceKept
  <2> QED BY <2>1, <2>3 DEF InOrder
<1>6. CASE AddEntry
  <2>1. /\ UNCHANGED <<blocks, slot, sector, index, dirent>> /\ dpc = "entry" /\ dpc' = "next"
        /\ entries' = Append(entries, dirent) /\ Named(dirent) /\ Len(entries) = index
        /\ Copied(entries) /\ AtPlace(index)
    BY <1>0, <1>6 DEF AddEntry, Go, handleVars, iterVars, InOrder, Named, Counted
  <2>2. AtPlace(index)' BY <2>1, PlaceKept
  <2>3. ASSUME NEW k \in 0..(Len(entries') - 1)
        PROVE  Shows(entries[k + 1], k)' /\ Named(entries[k + 1])'
    <3>1. PICK d : d = entries'[k + 1] OBVIOUS
    <3>2. entries \in Seq(Dirents) /\ Len(entries') = Len(entries) + 1
      BY <1>0, <2>1 DEF DirTypeOK
    <3>3. Shows(d, k) /\ Named(d)
      <4>1. CASE k = Len(entries)
        BY <2>1, <3>1, <3>2, <4>1 DEF AtPlace
      <4>2. CASE k # Len(entries)
        <5>1. k \in 0..(Len(entries) - 1) /\ d = entries[k + 1]
          BY <2>1, <3>1, <3>2, <4>2
        <5> QED BY <2>1, <5>1 DEF Copied
      <4> QED BY <4>1, <4>2
    <3>4. Shows(d, k)' BY <2>1, <3>3, SameDirectory
    <3> QED BY <3>1, <3>3, <3>4 DEF Shows, Named
  <2>4. Copied(entries)' BY <2>3 DEF Copied
  <2> QED BY <2>1, <2>2, <2>4 DEF InOrder, Named
<1>7. CASE EndOfDir
  <2>1. /\ UNCHANGED <<blocks, entries>> /\ dpc = "entry" /\ dpc' = "dump"
        /\ dirent.name = 0 /\ Len(entries) = index /\ Copied(entries) /\ AtPlace(index)
    BY <1>0, <1>7 DEF EndOfDir, Go, handleVars, InOrder, Counted
  <2>2. Copied(entries)' BY <2>1, CopiedKept
  <2>3. Exists(index) => EntryAt(index).name = 0 BY <2>1 DEF AtPlace, Shows
  <2>4. PICK n : n = Len(entries) /\ n = Len(entries)' /\ n = index BY <2>1
  <2>5. (Exists(n)' <=> Exists(n)) /\ EntryAt(n)' = EntryAt(n) BY <2>1, SameDirectory
  <2> QED BY <2>1, <2>2, <2>3, <2>4, <2>5 DEF InOrder, Exists, SectorOf, EntryAt
<1>8. CASE UNCHANGED <<vars, dirVars>>
  <2>1. UNCHANGED <<blocks, entries, slot, sector, index, dirent, dpc>>
    BY <1>8 DEF vars, dirVars, iterVars
  <2>2. Copied(entries) => Copied(entries)' BY <2>1, CopiedKept
  <2>3. AtPlace(index) => AtPlace(index)' BY <2>1, PlaceKept
  <2>4. PICK n : n = Len(entries) /\ n = Len(entries)' BY <2>1
  <2>5. (Exists(n)' <=> Exists(n)) /\ EntryAt(n)' = EntryAt(n) BY <2>1, SameDirectory
  <2> QED BY <2>1, <2>2, <2>3, <2>4, <2>5 DEF InOrder, Exists, SectorOf, EntryAt
<1> QED
  <2>1. ASSUME NEW p \in Paths, NEW f \in HostFiles, Load(p, f) PROVE InOrder'
    BY <1>1, <2>1 DEF Load
  <2>2. CASE Open \/ Dump \/ Close BY <1>1, <2>2 DEF Open, Dump, Close, Go
  <2> QED BY <1>2, <1>3, <1>4, <1>5, <1>6, <1>7, <1>8, <2>1, <2>2 DEF DirNext

\* The directory object holds the entries of the image one after the other
\* along the links of its blocks, and it stops where the directory stops, for
\* every image: zcc_d64_dirent_iter_next and zcc_d64_dir_read together.
THEOREM ReadsInOrder == DirSpec => []ListsInOrder
<1>1. DirInv /\ InOrder => ListsInOrder
  <2> SUFFICES ASSUME DirInv, InOrder, dpc = "dump" PROVE ListsInOrder
    BY DEF ListsInOrder
  <2>1. Copied(entries) BY DEF InOrder
  <2>2. /\ Len(entries) < DirentMax /\ Exists(Len(entries)) =>
             EntryAt(Len(entries)).name = 0
    BY DEF InOrder
  <2> QED BY <2>1, <2>2 DEF ListsInOrder, Copied, Shows, Named, Exists, EntryAt, SectorOf
<1> QED BY DirInvInit, DirInvNext, InOrderInit, InOrderNext, <1>1, PTL DEF DirSpec

-------------------------------------------------------------------------------
(* The sizes of the files.                                                 *)

Places == (0..255) \X (0..255)
Extent == Cardinality(DOMAIN blocks)

\* No image has more blocks than a size can count.
Countable == Extent \in Nat /\ DataSize * Extent <= SizeCap

LEMMA FewBlocks ==
  ASSUME NEW f \in HostFiles
  PROVE  /\ Cardinality(DOMAIN f.blocks) \in Nat
         /\ DataSize * Cardinality(DOMAIN f.blocks) <= SizeCap
<1>1. f.size \in Int /\ \A o \in DOMAIN f.blocks : o \in Offsets /\ Fits(o, f.size)
  BY HostFilesAssumption
<1>2. ASSUME NEW o \in DOMAIN f.blocks PROVE o \in 0..f.size
  <2>1. PICK t \in TrackMin..TrackMaxExt, s \in SectorMin..SectorMax : o = BlockOffset(t, s)
    BY <1>1 DEF Offsets
  <2>2. t \in Int /\ s \in Int BY DEF TrackMin, TrackMaxExt, SectorMin, SectorMax
  <2>3. o \in Int BY <2>1, <2>2, ResultsAreNumbers
  <2> QED BY <1>1, <2>3 DEF Fits, BlockSizeRaw
<1>3. IsFiniteSet(0..f.size) BY <1>1, FS_Interval
<1>4. IsFiniteSet(DOMAIN f.blocks) BY <1>2, <1>3, FS_Subset
<1>5. Cardinality(DOMAIN f.blocks) \in Nat BY <1>4, FS_CardinalityType
<1> QED BY <1>5, SizeCapAssumption

LEMMA CountableKept ==
  Countable /\ [DirNext]_<<vars, dirVars>> => Countable'
<1> SUFFICES ASSUME Countable, [DirNext]_<<vars, dirVars>> PROVE Countable'
  OBVIOUS
<1>1. CASE blocks' = blocks BY <1>1 DEF Countable, Extent
<1>2. CASE blocks' = Empty
  <2>1. DOMAIN blocks' = {} BY <1>2 DEF Empty
  <2>2. Cardinality(DOMAIN blocks') = 0 BY <2>1, FS_EmptySet
  <2> QED BY <2>2, SizeCapAssumption DEF Countable, Extent, DataSize
<1>3. CASE \E f \in HostFiles : blocks' = f.blocks
  BY <1>3, FewBlocks DEF Countable, Extent
<1> QED
  <2>1. ASSUME NEW p \in Paths, NEW f \in HostFiles, Load(p, f) PROVE Countable'
    BY <1>2, <1>3, <2>1 DEF Load, Read
  <2>2. CASE Open \/ Close BY <1>2, <2>2 DEF Open, HandleInit, Close, Free
  <2>3. CASE ~(Open \/ Close \/ \E p \in Paths, f \in HostFiles : Load(p, f))
    <3>1. blocks' = blocks
      BY <2>3 DEF DirNext, IterInit, IterEnds, IterNext, SizeInit, ChainNext, ChainEnds,
                  AddEntry, EndOfDir, Dump, handleVars, vars
    <3> QED BY <1>1, <3>1
  <2> QED BY <2>1, <2>2, <2>3

LEMMA WalkIs ==
  ASSUME TypeOK, Extent \in Nat, NEW a \in Places
  PROVE  /\ DOMAIN Walk(a) = 0..Extent
         /\ \A n \in 0..Extent :
              /\ Walk(a)[n] \in Places
              /\ Walk(a)[n] =
                   IF n = 0 THEN a
                   ELSE IF OnDisk(Walk(a)[n - 1])
                        THEN Block(Walk(a)[n - 1][1], Walk(a)[n - 1][2]).link
                        ELSE Walk(a)[n - 1]
<1> DEFINE F == [x \in Places |-> IF OnDisk(x) THEN Block(x[1], x[2]).link ELSE x]
           G(f) == [n \in 0..Extent |->
                      IF n = 0 THEN a
                      ELSE IF OnDisk(f[n - 1]) THEN Block(f[n - 1][1], f[n - 1][2]).link
                           ELSE f[n - 1]]
           P(f) == f = G(f)
<1>1. F \in [Places -> Places] BY Fetched DEF Places
<1>2. \E f \in [0..Extent -> Places] : Iterates(f, a, F, Extent)
  <2> HIDE DEF F
  <2> QED BY <1>1, IteratesExist
<1>3. PICK f \in [0..Extent -> Places] : Iterates(f, a, F, Extent) BY <1>2
<1>4. P(f)
  <2>1. ASSUME NEW n \in 0..Extent, n # 0
        PROVE  f[n] = IF OnDisk(f[n - 1]) THEN Block(f[n - 1][1], f[n - 1][2]).link
                      ELSE f[n - 1]
    <3>1. n - 1 \in 0..Extent BY <2>1
    <3>2. f[n - 1] \in Places BY <3>1
    <3>3. F[f[n - 1]] = IF OnDisk(f[n - 1]) THEN Block(f[n - 1][1], f[n - 1][2]).link
                        ELSE f[n - 1]
      BY <3>2
    <3>4. f[n] = F[f[n - 1]]
      <4> HIDE DEF F
      <4> QED BY <1>3, <2>1 DEF Iterates
    <3> QED BY <3>3, <3>4
  <2>2. f[0] = a
    <3> HIDE DEF F
    <3> QED BY <1>3 DEF Iterates
  <2> QED BY <2>1, <2>2
<1>5. Walk(a) = CHOOSE g : P(g) BY DEF Walk, Extent
<1>6. P(Walk(a))
  <2>1. \E g : P(g) BY <1>4
  <2> HIDE DEF P
  <2> QED BY <1>5, <2>1
<1>7. PICK g : g = Walk(a) OBVIOUS
<1>8. PICK h : h = G(g) OBVIOUS
<1>9. g = h BY <1>6, <1>7, <1>8
<1>10. /\ DOMAIN h = 0..Extent
       /\ \A n \in 0..Extent : h[n] = IF n = 0 THEN a
                               ELSE IF OnDisk(g[n - 1])
                                    THEN Block(g[n - 1][1], g[n - 1][2]).link
                                    ELSE g[n - 1]
  BY <1>8
<1>11. \A n \in 0..Extent : g[n] \in Places
  <2> DEFINE T == {n \in Nat : n <= Extent => g[n] \in Places}
  <2>1. 0 \in T BY <1>9, <1>10
  <2>2. ASSUME NEW n \in T PROVE n + 1 \in T
    <3>1. SUFFICES ASSUME n + 1 <= Extent PROVE g[n + 1] \in Places OBVIOUS
    <3>2. n + 1 \in 0..Extent /\ n + 1 # 0 /\ (n + 1) - 1 = n /\ g[n] \in Places BY <3>1
    <3>3. Block(g[n][1], g[n][2]).link \in Places BY Fetched DEF Places
    <3> QED BY <1>9, <1>10, <3>2, <3>3
  <2>3. T = Nat
    <3> HIDE DEF T
    <3>1. T \subseteq Nat BY DEF T
    <3> QED BY <2>1, <2>2, <3>1, SetInduction
  <2> QED BY <2>3
<1> QED BY <1>7, <1>9, <1>10, <1>11

BlockAt(x) == Block(x[1], x[2])

\* z is right for the file at a, if it has an end.
RightSize(a, z) ==
  \A n \in DOMAIN Walk(a) :
    EndsAfter(a, n) /\ BlockAt(Walk(a)[n]).link[2] > 0
      => z = n * DataSize + BlockAt(Walk(a)[n]).link[2] - 1

\* The count of the file at a, if it has an end, has come with l to its block j.
RightCount(a, l, m) ==
  \A n \in DOMAIN Walk(a) :
    EndsAfter(a, n) => \E j \in 0..n : l = BlockAt(Walk(a)[j]).link /\ m = j * DataSize

FileOf(d) == <<d.track, d.sector>>

Measured(d) == RightSize(FileOf(d), d.size)

Measuring ==
  /\ dpc \in {"size", "chain", "entry", "next", "dump"} =>
       \A k \in DOMAIN entries : Measured(entries[k])
  /\ dpc = "chain" => RightCount(FileOf(dirent), link, total)
  /\ dpc \in {"entry", "next"} => Measured(dirent)

LEMMA SameFiles ==
  ASSUME UNCHANGED <<blocks, type>>, NEW a, NEW l, NEW m
  PROVE  /\ RightSize(a, m)' <=> RightSize(a, m)
         /\ RightCount(a, l, m)' <=> RightCount(a, l, m)
<1>1. Walk(a)' = Walk(a) BY DEF Walk, OnDisk, Block, Fetch
<1> QED BY <1>1 DEF RightSize, RightCount, EndsAfter, BlockAt, Block, Fetch, OnDisk

LEMMA DirentMeasured ==
  ASSUME UNCHANGED <<blocks, type>>, NEW d, Measured(d)
  PROVE  Measured(d)'
<1>1. PICK a, z : a = FileOf(d) /\ z = d.size OBVIOUS
<1>2. RightSize(a, z)' BY <1>1, SameFiles DEF Measured
<1> QED BY <1>1, <1>2 DEF Measured, RightSize, EndsAfter, BlockAt, FileOf

LEMMA EntriesMeasured ==
  ASSUME UNCHANGED <<blocks, type, entries>>, \A k \in DOMAIN entries : Measured(entries[k])
  PROVE  (\A k \in DOMAIN entries : Measured(entries[k]))'
<1>1. ASSUME NEW k \in DOMAIN entries PROVE Measured(entries[k])'
  <2>1. PICK d : d = entries[k] /\ d = entries'[k] OBVIOUS
  <2>2. Measured(d)' BY <2>1, DirentMeasured
  <2> QED BY <2>1, <2>2 DEF Measured, RightSize, EndsAfter, BlockAt, FileOf
<1> QED BY <1>1

LEMMA DirentPlace ==
  ASSUME NEW d \in Dirents
  PROVE  FileOf(d) \in Places
BY DEF Dirents, FileOf, Places

\* An access needs no other check.
LEMMA AccessIsValid ==
  ASSUME NEW t \in Int, NEW s \in Int, CanAccess(type, t, s)
  PROVE  BlockIsValid(type, t, s)
<1>1. t \in 1..40 /\ s \in 0..20 /\ BlockOffset(t, s) >= 0
  BY OffsetForm DEF CanAccess, BlockOffset, TrackIsValid, TrackMin, TrackMax, TrackMaxExt
<1>2. /\ TrackInTable(t) /\ SectorInTable(s)
      /\ s < speedzones[ZoneOf(t)].sectors
  BY <1>1 DEF BlockOffset, TrackInTable, SectorInTable, TrackMin, TrackMaxExt, SectorMin,
              SectorMax
<1>3. speedzones[ZoneOf(t)].sectors \in Int
  <2>1. t \in TrackMin..TrackMaxExt BY <1>1 DEF TrackMin, TrackMaxExt
  <2>2. ZoneOf(t) \in Zones BY <2>1, ZoneOfTrack
  <2> QED BY <2>2 DEF Zones, speedzones
<1> QED BY <1>1, <1>2, <1>3 DEF BlockIsValid, CanAccess, TrackMaxSector, SectorMin

\* What the block iterator knows of a file that ends.
LEMMA FileStep ==
  ASSUME TypeOK, Extent \in Nat, NEW a \in Places, NEW n \in DOMAIN Walk(a),
         EndsAfter(a, n), NEW j \in 0..n, NEW l, l = BlockAt(Walk(a)[j]).link
  PROVE  /\ j = n => l[1] = 0
         /\ j # n => /\ j + 1 \in 0..n
                     /\ Walk(a)[j + 1] = l
                     /\ CanAccess(type, l[1], l[2])
                     /\ l[1] # 0
<1>1. n \in 0..Extent BY WalkIs
<1>2. j = n => l[1] = 0 BY DEF EndsAfter, BlockAt
<1>3. ASSUME j # n
      PROVE  /\ j + 1 \in 0..n /\ Walk(a)[j + 1] = l
             /\ CanAccess(type, l[1], l[2]) /\ l[1] # 0
  <2>1. j \in 0..n /\ j + 1 \in 0..n /\ j + 1 \in 0..Extent /\ j + 1 # 0 /\ (j + 1) - 1 = j
    BY <1>1, <1>3
  <2>2. OnDisk(Walk(a)[j]) /\ OnDisk(Walk(a)[j + 1]) BY <2>1 DEF EndsAfter
  <2>3. PICK w : w = Walk(a) OBVIOUS
  <2>4. w[j + 1] = IF j + 1 = 0 THEN a
                   ELSE IF OnDisk(w[(j + 1) - 1])
                        THEN Block(w[(j + 1) - 1][1], w[(j + 1) - 1][2]).link
                        ELSE w[(j + 1) - 1]
    BY <2>1, <2>3, WalkIs
  <2>5. w[j + 1] = l BY <2>1, <2>2, <2>3, <2>4 DEF BlockAt
  <2>6. CanAccess(type, l[1], l[2]) BY <2>2, <2>3, <2>5 DEF OnDisk
  <2>7. l[1] # 0 BY <2>6 DEF CanAccess, TrackIsValid, TrackMin
  <2> QED BY <2>1, <2>3, <2>5, <2>6, <2>7
<1> QED BY <1>2, <1>3

LEMMA MeasuringInit == DirInit => Measuring
BY DEF DirInit, Measuring

LEMMA MeasuringNext ==
  DirInv /\ Countable /\ Measuring /\ [DirNext]_<<vars, dirVars>> => Measuring'
<1> SUFFICES ASSUME DirInv, Countable, Measuring, [DirNext]_<<vars, dirVars>>
             PROVE  Measuring'
  OBVIOUS
<1>0. /\ TypeOK /\ DirTypeOK /\ Extent \in Nat /\ DataSize * Extent <= SizeCap
      /\ dirent \in Dirents /\ FileOf(dirent) \in Places /\ DirentMax \in Nat
  <2>1. TypeOK /\ DirTypeOK BY DEF DirInv, HandleInv, Inv
  <2>2. dirent \in Dirents BY <2>1 DEF DirTypeOK
  <2> QED BY <2>1, <2>2, DirentPlace, DirentMaxAssumption DEF Countable
<1>1. CASE dpc' \in {"open", "load", "dir", "close", "done"}
  BY <1>1 DEF Measuring
<1>2. CASE IterInit
  <2>1. dpc' = "size" /\ entries' = <<>> BY <1>2 DEF IterInit, Go
  <2> QED BY <2>1 DEF Measuring
<1>3. CASE IterEnds \/ IterNext \/ EndOfDir
  <2>1. /\ UNCHANGED <<blocks, type, entries>> /\ dpc \in {"next", "entry"}
        /\ dpc' \in {"size", "dump"}
    BY <1>3 DEF IterEnds, IterNext, EndOfDir, Go, handleVars
  <2>2. (\A k \in DOMAIN entries : Measured(entries[k]))'
    BY <2>1, EntriesMeasured DEF Measuring
  <2> QED BY <2>1, <2>2 DEF Measuring
<1>4. CASE SizeInit
  <2>1. UNCHANGED <<blocks, type, entries, dirent>> /\ dpc = "size"
    BY <1>4 DEF SizeInit, handleVars, iterVars
  <2>2. (\A k \in DOMAIN entries : Measured(entries[k]))'
    BY <2>1, EntriesMeasured DEF Measuring
  <2>3. PICK a \in Places : a = FileOf(dirent) /\ a = FileOf(dirent') BY <1>0, <2>1
  <2>4. a[1] = dirent.track /\ a[2] = dirent.sector BY <2>3 DEF FileOf
  <2>5. DOMAIN Walk(a) = 0..Extent /\ Walk(a)[0] = a /\ 0 \in 0..Extent
    BY <1>0, WalkIs
  <2>6. CASE HasBlock(a[1], a[2])
    <3>1. link' = BlockAt(a).link /\ total' = 0 /\ dpc' = "chain"
      BY <1>4, <2>4, <2>6 DEF SizeInit, BlockAt
    <3>2. PICK l, m : l = link' /\ m = total' OBVIOUS
    <3>3. RightCount(a, l, m)
      <4>1. ASSUME NEW n \in DOMAIN Walk(a)
            PROVE  \E j \in 0..n : l = BlockAt(Walk(a)[j]).link /\ m = j * DataSize
        <5>1. 0 \in 0..n /\ l = BlockAt(Walk(a)[0]).link /\ m = 0 * DataSize
          BY <2>5, <3>1, <3>2 DEF DataSize
        <5> QED BY <5>1
      <4> QED BY <4>1 DEF RightCount
    <3>4. RightCount(a, l, m)' BY <2>1, <3>3, SameFiles
    <3>5. RightCount(FileOf(dirent), link, total)'
      BY <2>3, <3>2, <3>4 DEF RightCount, EndsAfter, BlockAt, FileOf
    <3> QED BY <2>2, <3>1, <3>5 DEF Measuring
  <2>7. CASE ~HasBlock(a[1], a[2])
    <3>1. dpc' = "entry" BY <1>4, <2>4, <2>7 DEF SizeInit
    <3>2. ~OnDisk(a)
      <4>1. a[1] \in Int /\ a[2] \in Int BY DEF Places
      <4> QED BY <2>7, <4>1, AccessIsValid DEF HasBlock, OnDisk
    <3>3. ASSUME NEW n \in DOMAIN Walk(a) PROVE ~EndsAfter(a, n)
      <4>1. 0 \in 0..n BY <2>5
      <4> QED BY <2>5, <3>2, <4>1 DEF EndsAfter
    <3>4. Measured(dirent) BY <2>3, <3>3 DEF Measured, RightSize
    <3>5. PICK d : d = dirent /\ d = dirent' BY <2>1
    <3>6. Measured(d)' BY <2>1, <3>4, <3>5, DirentMeasured
    <3>7. Measured(dirent)' BY <3>5, <3>6 DEF Measured, RightSize, EndsAfter, BlockAt, FileOf
    <3> QED BY <2>2, <3>1, <3>7 DEF Measuring
  <2> QED BY <2>6, <2>7
<1>5. CASE ChainNext
  <2>1. /\ UNCHANGED <<blocks, type, entries, dirent, dpc>> /\ dpc = "chain"
        /\ link[1] # 0 /\ link' = BlockAt(link).link
        /\ total' = IF total + DataSize > SizeCap THEN 0 ELSE total + DataSize
    BY <1>5 DEF ChainNext, handleVars, iterVars, LinkOf, BlockAt, Capped, AddBlock
  <2>2. (\A k \in DOMAIN entries : Measured(entries[k]))'
    BY <2>1, EntriesMeasured DEF Measuring
  <2>3. PICK a \in Places : a = FileOf(dirent) /\ a = FileOf(dirent') BY <1>0, <2>1
  <2>4. PICK l, m : l = link' /\ m = total' OBVIOUS
  <2>5. RightCount(a, link, total) BY <2>1, <2>3 DEF Measuring
  <2>6. DOMAIN Walk(a) = 0..Extent BY <1>0, WalkIs
  <2>7. ASSUME NEW n \in DOMAIN Walk(a), EndsAfter(a, n)
        PROVE  \E j \in 0..n : l = BlockAt(Walk(a)[j]).link /\ m = j * DataSize
    <3>1. PICK j \in 0..n : link = BlockAt(Walk(a)[j]).link /\ total = j * DataSize
      BY <2>5, <2>7 DEF RightCount
    <3>2. j # n /\ j + 1 \in 0..n /\ Walk(a)[j + 1] = link
      BY <1>0, <2>1, <2>7, <3>1, FileStep
    <3>3. l = BlockAt(Walk(a)[j + 1]).link BY <2>1, <2>4, <3>2
    <3>4. m = (j + 1) * DataSize
      <4>1. n \in 0..Extent /\ j \in Nat /\ j + 1 <= Extent BY <1>0, <2>6, <3>2
      <4>2. SizeCap \in Nat BY SizeCapAssumption
      <4> QED BY <1>0, <2>1, <2>4, <3>1, <4>1, <4>2 DEF DataSize
    <3> QED BY <3>2, <3>3, <3>4
  <2>8. RightCount(a, l, m) BY <2>7 DEF RightCount
  <2>9. RightCount(a, l, m)' BY <2>1, <2>8, SameFiles
  <2>10. RightCount(FileOf(dirent), link, total)'
    BY <2>3, <2>4, <2>9 DEF RightCount, EndsAfter, BlockAt, FileOf
  <2> QED BY <2>1, <2>2, <2>10 DEF Measuring
<1>6. CASE ChainEnds
  <2>1. /\ UNCHANGED <<blocks, type, entries>> /\ dpc = "chain" /\ dpc' = "entry"
        /\ link[1] = 0 \/ ~CanAccess(type, link[1], link[2])
        /\ dirent' = IF total + link[2] - 1 >= 0
                     THEN [dirent EXCEPT !.size = total + link[2] - 1] ELSE dirent
    BY <1>6 DEF ChainEnds, Go, handleVars
  <2>2. (\A k \in DOMAIN entries : Measured(entries[k]))'
    BY <2>1, EntriesMeasured DEF Measuring
  <2>3. PICK z : z = total + link[2] - 1 OBVIOUS
  <2>4. z \in Int
    <3>1. link[2] \in 0..255 /\ total \in Nat BY <1>0, LinkParts DEF DirTypeOK
    <3> QED BY <2>3, <3>1
  <2>5. dirent' = IF z >= 0 THEN [dirent EXCEPT !.size = z] ELSE dirent BY <2>1, <2>3
  <2>6. /\ dirent'.track = dirent.track /\ dirent'.sector = dirent.sector
        /\ z >= 0 => dirent'.size = z
    <3>1. CASE z >= 0 BY <1>0, <2>5, <3>1 DEF Dirents
    <3>2. CASE ~(z >= 0) BY <2>5, <3>2
    <3> QED BY <3>1, <3>2
  <2>7. PICK a \in Places : a = FileOf(dirent) /\ a = FileOf(dirent')
    BY <1>0, <2>6 DEF FileOf
  <2>8. RightCount(a, link, total) BY <2>1, <2>7 DEF Measuring
  <2>9. ASSUME NEW n \in DOMAIN Walk(a), EndsAfter(a, n),
               BlockAt(Walk(a)[n]).link[2] > 0
        PROVE  dirent'.size = n * DataSize + BlockAt(Walk(a)[n]).link[2] - 1
    <3>1. PICK j \in 0..n : link = BlockAt(Walk(a)[j]).link /\ total = j * DataSize
      BY <2>8, <2>9 DEF RightCount
    <3>2. j = n BY <1>0, <2>1, <2>9, <3>1, FileStep
    <3>3. z = n * DataSize + link[2] - 1 /\ link[2] > 0 BY <2>3, <2>9, <3>1, <3>2
    <3>4. n \in Nat
      <4>1. DOMAIN Walk(a) = 0..Extent BY <1>0, WalkIs
      <4> QED BY <1>0, <4>1
    <3>5. link[2] \in 0..255 BY <1>0, LinkParts DEF DirTypeOK
    <3>6. z >= 0 BY <3>3, <3>4, <3>5 DEF DataSize
    <3> QED BY <2>6, <3>1, <3>2, <3>3, <3>6
  <2>10. PICK s : s = dirent'.size OBVIOUS
  <2>11. RightSize(a, s) BY <2>9, <2>10 DEF RightSize
  <2>12. RightSize(a, s)' BY <2>1, <2>11, SameFiles
  <2>13. Measured(dirent)'
    BY <2>7, <2>10, <2>12 DEF Measured, RightSize, EndsAfter, BlockAt, FileOf
  <2> QED BY <2>1, <2>2, <2>13 DEF Measuring
<1>7. CASE AddEntry
  <2>1. /\ UNCHANGED <<blocks, type, dirent>> /\ dpc = "entry" /\ dpc' = "next"
        /\ entries' = Append(entries, dirent)
        /\ \A k \in DOMAIN entries : Measured(entries[k])
        /\ Measured(dirent)
    BY <1>7 DEF AddEntry, Go, handleVars, iterVars, Measuring
  <2>2. ASSUME NEW k \in DOMAIN entries' PROVE Measured(entries[k])'
    <3>1. PICK d : d = entries'[k] OBVIOUS
    <3>2. entries \in Seq(Dirents) BY <1>0 DEF DirTypeOK
    <3>3. Measured(d)
      <4>1. CASE k \in DOMAIN entries BY <2>1, <3>1, <3>2, <4>1
      <4>2. CASE k \notin DOMAIN entries
        <5>1. k = Len(entries) + 1 BY <2>1, <3>2, <4>2
        <5> QED BY <2>1, <3>1, <3>2, <5>1
      <4> QED BY <4>1, <4>2
    <3>4. Measured(d)' BY <2>1, <3>3, DirentMeasured
    <3> QED BY <3>1, <3>4 DEF Measured, RightSize, EndsAfter, BlockAt, FileOf
  <2>3. PICK d : d = dirent /\ d = dirent' BY <2>1
  <2>4. Measured(d)' BY <2>1, <2>3, DirentMeasured
  <2>5. Measured(dirent)' BY <2>3, <2>4 DEF Measured, RightSize, EndsAfter, BlockAt, FileOf
  <2> QED BY <2>1, <2>2, <2>5 DEF Measuring
<1>8. CASE UNCHANGED <<vars, dirVars>>
  <2>1. UNCHANGED <<blocks, type, entries, dirent, dpc, link, total>>
    BY <1>8 DEF vars, dirVars, iterVars, chainVars
  <2>2. (\A k \in DOMAIN entries : Measured(entries[k]))
           => (\A k \in DOMAIN entries : Measured(entries[k]))'
    BY <2>1, EntriesMeasured
  <2>3. PICK d : d = dirent /\ d = dirent' BY <2>1
  <2>4. Measured(d) => Measured(d)' BY <2>1, DirentMeasured
  <2>5. Measured(dirent) => Measured(dirent)'
    BY <2>3, <2>4 DEF Measured, RightSize, EndsAfter, BlockAt, FileOf
  <2>6. PICK a, l, m : /\ a = FileOf(dirent) /\ a = FileOf(dirent')
                       /\ l = link /\ l = link' /\ m = total /\ m = total'
    BY <2>1
  <2>7. RightCount(a, l, m) => RightCount(a, l, m)' BY <2>1, SameFiles
  <2>8. RightCount(FileOf(dirent), link, total) => RightCount(FileOf(dirent), link, total)'
    BY <2>6, <2>7 DEF RightCount, EndsAfter, BlockAt, FileOf
  <2> QED BY <2>1, <2>2, <2>5, <2>8 DEF Measuring
<1> QED
  <2>1. ASSUME NEW p \in Paths, NEW f \in HostFiles, Load(p, f) PROVE Measuring'
    BY <1>1, <2>1 DEF Load
  <2>2. CASE Open \/ Dump \/ Close BY <1>1, <2>2 DEF Open, Dump, Close, Go
  <2> QED BY <1>2, <1>3, <1>4, <1>5, <1>6, <1>7, <1>8, <2>1, <2>2 DEF DirNext

\* Every file that ends has its exact size in the directory object, in
\* whatever order the entries were measured and whatever the iterator still
\* held of the entry before: zcc_d64_file_size and zcc_d64_dirent_read.
THEOREM SizesAreExact == DirSpec => []SizesExact
<1>1. Countable /\ DirInv /\ Measuring => SizesExact
  <2> SUFFICES ASSUME Measuring, dpc = "dump", NEW k \in DOMAIN entries PROVE
        LET a == <<entries[k].track, entries[k].sector>>
        IN  \A n \in DOMAIN Walk(a) :
              LET last == Block(Walk(a)[n][1], Walk(a)[n][2]).link[2]
              IN  EndsAfter(a, n) /\ last > 0 => entries[k].size = n * 254 + last - 1
    BY DEF SizesExact
  <2>1. Measured(entries[k]) BY DEF Measuring
  <2> QED BY <2>1 DEF Measured, RightSize, FileOf, BlockAt, DataSize
<1>2. DirInit => Countable
  <2>1. Cardinality({}) = 0 BY FS_EmptySet
  <2> QED BY <2>1, SizeCapAssumption DEF DirInit, Init, Empty, Countable, Extent, DataSize
<1> QED BY DirInvInit, DirInvNext, CountableKept, MeasuringInit, MeasuringNext,
           <1>1, <1>2, PTL DEF DirSpec

-------------------------------------------------------------------------------
(* The names printed.                                                      *)

PetToAsc(p) == IF zcc_pet_to_asc(p) < 128 THEN zcc_pet_to_asc(p) ELSE Underscore

LEMMA CodeAppears ==
  ASSUME NEW p \in 1..254
  PROVE  Appears(p, PetToAsc(p)) /\ PetToAsc(p) # 0 /\ PetToAsc(p) \in Int
<1> USE DEF zcc_pet_to_asc, RowsFromC0, PetToAsc, Appears, Underscore
<1>1. CASE p < 32 OBVIOUS
<1>2. CASE p \in 32..95 BY <1>2
<1>3. CASE p \in 96..191 BY <1>3
<1>4. CASE p \in 192..218 BY <1>4
<1>5. CASE p \in 219..254 BY <1>5
<1> QED BY <1>1, <1>2, <1>3, <1>4, <1>5

\* What is left of a name: everything up to its first zero.
Plain(pet, n) == \A k \in 1..n : pet[k] \in 0..254

Reads(pet, n, z, text) ==
  /\ text = [k \in 1..(z - 1) |-> PetToAsc(pet[k])]
  /\ z - 1 \in Nat
  /\ \A k \in 1..(z - 1) : pet[k] \in 1..254
  /\ z = IF {k \in 1..n : pet[k] = 0} = {} THEN n + 1 ELSE Min({k \in 1..n : pet[k] = 0})

LEMMA TextIs ==
  ASSUME NEW n \in Nat, NEW pet, Plain(pet, n)
  PROVE  Reads(pet, n, ZeroAt(pet, n), Text(pet, n))
<1> DEFINE zeros == {k \in 1..n : pet[k] = 0}
<1>1. PICK z : z = ZeroAt(pet, n) OBVIOUS
<1>2. z \in zeros \cup {n + 1} /\ \A y \in zeros \cup {n + 1} : z <= y
  <2>1. zeros \cup {n + 1} \in SUBSET Nat /\ zeros \cup {n + 1} # {} OBVIOUS
  <2> HIDE DEF zeros
  <2>2. /\ Min(zeros \cup {n + 1}) \in zeros \cup {n + 1}
        /\ \A y \in zeros \cup {n + 1} : Min(zeros \cup {n + 1}) <= y
    BY <2>1, MinIsLeast
  <2> QED BY <1>1, <2>2 DEF ZeroAt, zeros
<1>3. z \in 1..(n + 1) /\ z - 1 \in Nat /\ n + 1 \in Nat BY <1>2
<1>4. ASSUME NEW k \in 1..(z - 1) PROVE pet[k] \in 1..254
  <2>1. k \in 1..n /\ k \notin zeros BY <1>2, <1>3
  <2> QED BY <2>1 DEF Plain
<1>5. z = IF zeros = {} THEN n + 1 ELSE Min(zeros)
  <2>1. CASE zeros = {} BY <1>2, <2>1
  <2>2. CASE zeros # {}
    <3>1. PICK y \in zeros : TRUE BY <2>2
    <3>2. zeros \in SUBSET Nat /\ y <= n BY <3>1
    <3>3. z \in zeros /\ \A x \in zeros : z <= x BY <1>2, <1>3, <3>1, <3>2
    <3> HIDE DEF zeros
    <3>4. Min(zeros) = z BY <3>2, <3>3, MinIs
    <3> QED BY <2>2, <3>4
  <2> QED BY <2>1, <2>2
<1> DEFINE asc == [k \in 1..(z - 1) |-> PetToAsc(pet[k])]
<1>6. zcc_pet_to_asc_str(pet, n) = asc BY <1>1 DEF zcc_pet_to_asc_str, PetToAsc
<1>7. \A k \in 1..(z - 1) : asc[k] # 0 /\ asc[k] \in Int BY <1>4, CodeAppears
<1>8. asc \in Seq(Int) /\ Len(asc) = z - 1 /\ DOMAIN asc = 1..(z - 1)
  <2>1. asc \in [1..(z - 1) -> Int] BY <1>7
  <2> HIDE DEF asc
  <2> QED BY <1>3, <2>1
<1>9. CString(asc) = asc
  <2> HIDE DEF asc
  <2>1. {k \in DOMAIN asc : asc[k] = 0} = {} BY <1>7, <1>8
  <2>2. PICK l \in Nat : l = Len(asc) + 1 /\ l - 1 = Len(asc) BY <1>3, <1>8
  <2>3. Min({l}) = l BY MinIs
  <2>4. CString(asc) = SubSeq(asc, 1, Len(asc))
    <3>1. {k \in DOMAIN asc : asc[k] = 0} \cup {Len(asc) + 1} = {l} BY <2>1, <2>2
    <3> QED BY <2>2, <2>3, <3>1 DEF CString
  <2>5. SubSeq(asc, 1, Len(asc)) = asc BY <1>8
  <2> QED BY <2>4, <2>5
<1> QED BY <1>1, <1>3, <1>4, <1>5, <1>6, <1>9 DEF Text, Reads

\* A name is printed as the comment of Appears has it, whatever its bytes are.
LEMMA NamePrinted ==
  ASSUME NEW n \in Nat, NEW pet, \A k \in 1..n : pet[k] \in 0..255
  PROVE  PrintedAs(pet, Text(pet, n), n)
<1> SUFFICES ASSUME \A k \in 1..n : pet[k] # 255 PROVE PrintedAs(pet, Text(pet, n), n)
  BY DEF PrintedAs
<1>1. Plain(pet, n) BY DEF Plain
<1>2. PICK z, t : z = ZeroAt(pet, n) /\ t = Text(pet, n) OBVIOUS
<1>3. Reads(pet, n, z, t) BY <1>1, <1>2, TextIs
<1>4. Len(t) = z - 1 /\ DOMAIN t = 1..(z - 1) BY <1>3 DEF Reads
<1>5. ASSUME NEW k \in DOMAIN t PROVE Appears(pet[k], t[k])
  <2>1. pet[k] \in 1..254
    <3>1. k \in 1..(z - 1) BY <1>4
    <3>2. \A i \in 1..(z - 1) : pet[i] \in 1..254 BY <1>3 DEF Reads
    <3> QED BY <3>1, <3>2
  <2>2. t[k] = PetToAsc(pet[k]) BY <1>3, <1>4 DEF Reads
  <2> QED BY <2>1, <2>2, CodeAppears
<1>6. n + 1 - 1 = n OBVIOUS
<1>7. Len(t) = IF {k \in 1..n : pet[k] = 0} = {} THEN n
               ELSE Min({k \in 1..n : pet[k] = 0}) - 1
  BY <1>3, <1>4, <1>6 DEF Reads
<1> QED BY <1>2, <1>5, <1>7 DEF PrintedAs

KnownNames == DOMAIN NameBytes

\* Every name in the listing stands for bytes of the image, and the lines are
\* those of the entries.
Printing ==
  /\ dpc \in {"size", "chain", "entry", "next"} => dirent.name \in KnownNames
  /\ \A k \in DOMAIN entries : entries[k].name \in KnownNames
  /\ dpc = "close" => /\ header.name = Text(DiskName, ZCC_CBMDOS_FILENAME_MAX)
                      /\ lines = Lines(entries)

LEMMA NameRead ==
  ASSUME Inv, NEW s, NEW n \in Slots, ReadEntry(s, n)
  PROVE  dirent'.name \in KnownNames
<1>1. PICK e \in IF CanAccess(type, DirTrack, s) THEN {Block(DirTrack, s).entries[n]}
                                                 ELSE Garbage : DirentRead(e)
  BY DEF ReadEntry
<1>2. Block(DirTrack, s) \in Content BY Fetched DEF Inv
<1>3. e \in Garbage \cup {c.entries[m] : c \in Content, m \in Slots} BY <1>1, <1>2
<1>4. e.name \in KnownNames BY <1>3, NameBytesAssumption DEF KnownNames
<1>5. dirent'.name = e.name BY <1>1 DEF DirentRead
<1> QED BY <1>4, <1>5

LEMMA PrintingNext ==
  DirInv /\ Printing /\ [ListNext]_<<vars, dirVars, printVars>> => Printing'
<1> SUFFICES ASSUME DirInv, Printing, [ListNext]_<<vars, dirVars, printVars>>
             PROVE  Printing'
  OBVIOUS
<1>0. Inv /\ DirTypeOK /\ entries \in Seq(Dirents) /\ dirent \in Dirents
  BY DEF DirInv, HandleInv, DirTypeOK
<1>1. CASE UNCHANGED <<vars, dirVars, printVars>>
  <2>1. UNCHANGED <<blocks, dpc, dirent, entries, header, lines>>
    BY <1>1 DEF vars, dirVars, iterVars, printVars
  <2> QED BY <2>1 DEF Printing, DiskName, Block, Fetch
<1> SUFFICES ASSUME DirNext, DumpLines PROVE Printing'
  BY <1>1 DEF ListNext
<1>2. (dpc \in {"size", "chain", "entry", "next"} => dirent.name \in KnownNames)'
  <2>1. CASE IterInit
    <3>1. 0 \in Slots BY SlotsAssumption DEF Slots
    <3> QED BY <1>0, <2>1, <3>1, NameRead DEF IterInit
  <2>2. CASE IterNext
    <3>1. slot' \in Slots
      BY <1>0, <2>2, SlotsAssumption DEF IterNext, DirTypeOK, Slots, FirstSlot
    <3> QED BY <1>0, <2>2, <3>1, NameRead DEF IterNext
  <2>3. CASE ChainEnds
    <3>1. dirent.name \in KnownNames /\ dirent'.name = dirent.name
      BY <1>0, <2>3 DEF ChainEnds, Go, Printing, Dirents
    <3> QED BY <3>1
  <2>4. CASE SizeInit \/ ChainNext \/ AddEntry
    BY <2>4 DEF SizeInit, ChainNext, AddEntry, Go, Printing, iterVars
  <2>5. CASE dpc' \in {"open", "load", "dir", "dump", "close", "done"} BY <2>5
  <2> QED BY <2>1, <2>2, <2>3, <2>4, <2>5
          DEF DirNext, Open, Load, IterEnds, EndOfDir, Dump, Close, Go
<1>3. (\A k \in DOMAIN entries : entries[k].name \in KnownNames)'
  <2>1. CASE AddEntry
    <3>1. entries' = Append(entries, dirent) /\ dirent.name \in KnownNames
      BY <2>1 DEF AddEntry, Go, Printing
    <3> QED BY <1>0, <3>1 DEF Printing
  <2>2. CASE entries' \in {entries, <<>>} BY <2>2 DEF Printing
  <2> QED BY <2>1, <2>2 DEF DirNext, Open, Load, IterInit, IterEnds, IterNext, SizeInit,
             ChainNext, ChainEnds, EndOfDir, Dump, Close
<1>4. ASSUME dpc' = "close"
      PROVE  /\ header'.name = Text(DiskName, ZCC_CBMDOS_FILENAME_MAX)'
             /\ lines' = Lines(entries)'
  <2>1. Dump
    BY <1>4 DEF DirNext, Open, Load, IterInit, IterEnds, IterNext, SizeInit, ChainNext,
                ChainEnds, AddEntry, EndOfDir, Close, Go
  <2>2. dpc = "dump" /\ UNCHANGED <<blocks, entries>> BY <2>1 DEF Dump, Go, handleVars
  <2>3. /\ header' = [name |-> Text(DiskName, ZCC_CBMDOS_FILENAME_MAX),
                      id |-> Text(DiskName, ZCC_D64_DISKID_MAXLEN)]
        /\ lines' = Lines(entries)
    BY <2>2 DEF DumpLines
  <2>4. DiskName' = DiskName BY <2>2 DEF DiskName, Block, Fetch
  <2> QED BY <2>2, <2>3, <2>4
<1> QED BY <1>2, <1>3, <1>4 DEF Printing

\* What is printed is what is on the image, character by character, for every
\* directory: zcc_d64_dir_dump with zcc_pet_to_asc_str.
THEOREM NamesArePrinted == ListSpec => []NamesShown
<1>1. DirInv /\ Printing => NamesShown
  <2> SUFFICES ASSUME DirInv, Printing, dpc = "close" PROVE NamesShown
    BY DEF NamesShown, Printed
  <2>1. /\ header.name = Text(DiskName, ZCC_CBMDOS_FILENAME_MAX)
        /\ lines = Lines(entries)
        /\ \A k \in DOMAIN entries : entries[k].name \in KnownNames
    BY DEF Printing
  <2>2. entries \in Seq(Dirents) /\ TypeOK BY DEF DirInv, HandleInv, DirTypeOK, Inv
  <2>3. ZCC_CBMDOS_FILENAME_MAX \in Nat BY NameLengthsAssumption
  <2>4. ASSUME NEW pet \in Petscii
        PROVE  PrintedAs(pet, Text(pet, ZCC_CBMDOS_FILENAME_MAX), ZCC_CBMDOS_FILENAME_MAX)
    <3>1. \A k \in 1..ZCC_CBMDOS_FILENAME_MAX : pet[k] \in 0..255 BY DEF Petscii
    <3> QED BY <2>3, <3>1, NamePrinted
  <2>5. DiskName \in Petscii
    BY <2>2, Fetched, DiskNamesAssumption DEF DiskName
  <2>6. Len(lines) = Len(entries) /\ \A k \in DOMAIN entries : lines[k] = Line(entries[k])
    BY <2>1, <2>2 DEF Lines
  <2>7. ASSUME NEW k \in DOMAIN entries
        PROVE  PrintedAs(NameBytes[entries[k].name], lines[k].name, ZCC_CBMDOS_FILENAME_MAX)
    <3>1. NameBytes[entries[k].name] \in Petscii
      BY <2>1, NameBytesAssumption DEF KnownNames
    <3>2. lines[k].name = Text(NameBytes[entries[k].name], ZCC_CBMDOS_FILENAME_MAX)
      <4>1. PICK d, l : d = entries[k] /\ l = lines[k] OBVIOUS
      <4>2. l = Line(d) BY <2>6, <4>1
      <4> QED BY <4>1, <4>2 DEF Line
    <3> QED BY <2>4, <3>1, <3>2
  <2> QED BY <2>1, <2>4, <2>5, <2>6, <2>7 DEF NamesShown
<1>2. ListInit => DirInv /\ Printing
  <2>1. DirInit => DirInv BY DirInvInit
  <2> QED BY <2>1 DEF ListInit, DirInit, Printing
<1>3. DirInv /\ [ListNext]_<<vars, dirVars, printVars>> => DirInv'
  <2>1. [ListNext]_<<vars, dirVars, printVars>> => [DirNext]_<<vars, dirVars>>
    BY DEF ListNext
  <2> QED BY <2>1, DirInvNext
<1> QED BY <1>1, <1>2, <1>3, PrintingNext, PTL DEF ListSpec

\* What is proved of the directory holds while it is printed.
THEOREM PrintingListsDirectory == ListSpec => DirSpec
<1>1. ListInit => DirInit BY DEF ListInit
<1>2. [ListNext]_<<vars, dirVars, printVars>> => [DirNext]_<<vars, dirVars>>
  BY DEF ListNext
<1> QED BY <1>1, <1>2, PTL DEF ListSpec, DirSpec
===============================================================================
