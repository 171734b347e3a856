----------------------------- MODULE BlockDevice -----------------------------
(***************************************************************************)
(* What a D64 handle promises its callers: a disk drive.  The medium in    *)
(* the drive has a number of tracks and holds blocks by (track, sector);   *)
(* reading a block gives what was last written to it, a block that was     *)
(* never written is blank, and an access fails exactly when the block is   *)
(* not on the medium.  The label of a medium may promise another number of *)
(* tracks than there is room for, and it is the label that counts: tracks  *)
(* it does not promise cannot be used, and a block on a track there is no  *)
(* room for is lost when it is written, and reads as anything.  How blocks *)
(* are laid out in memory is left out.                                     *)
(***************************************************************************)
EXTENDS Integers

CONSTANTS
  Content,     \* what a block can hold
  Zero,        \* the content of a block that was never written
  TrackArgs,   \* the track numbers callers pass, good and bad
  SectorArgs   \* the sector numbers callers pass, good and bad

VARIABLES
  blocks,  \* the written blocks: a function from <<track, sector>> to Content
  tracks,  \* tracks the medium promises, 0 when the drive is empty
  room,    \* tracks there is room for
  reply    \* the last access and what it gave

vars == <<blocks, tracks, room, reply>>

\* Sectors per track of a 1541 disk.
SectorsOn(t) == IF t \in 1..17 THEN 21
                ELSE IF t \in 18..24 THEN 19
                ELSE IF t \in 25..30 THEN 18 ELSE 17

OnMedium(t, s) == t \in 1..tracks /\ s \in 0..(SectorsOn(t) - 1)

HasRoom(t) == t <= room

Contents(t, s) == IF <<t, s>> \in DOMAIN blocks THEN blocks[<<t, s>>] ELSE Zero

Reply(op, t, s, ok, buf) ==
  [op |-> op, track |-> t, sector |-> s, ok |-> ok, buf |-> buf]

Done(op) == Reply(op, 0, 0, FALSE, Zero)

Init == /\ blocks = [a \in {} |-> Zero]
        /\ tracks = 0
        /\ room = 0
        /\ reply = Done("none")

\* Another medium: the drive is emptied, or a formatted or recorded disk is
\* inserted.
Insert == /\ reply' = Done("insert")
          /\ tracks' \in {0, 35, 40}
          /\ room' \in {0, 35, 40}
          /\ \A a \in DOMAIN blocks' :
                /\ blocks'[a] \in Content
                /\ OnMedium(a[1], a[2])'
                /\ HasRoom(a[1])'

\* What a block may read as.
MayRead(t, s) == IF ~OnMedium(t, s) THEN {Zero}
                 ELSE IF HasRoom(t) THEN {Contents(t, s)} ELSE Content

Get(t, s) ==
  /\ \E c \in MayRead(t, s) : reply' = Reply("get", t, s, OnMedium(t, s), c)
  /\ UNCHANGED <<blocks, tracks, room>>

Put(t, s, c) ==
  /\ reply' = Reply("put", t, s, OnMedium(t, s), c)
  /\ blocks' = IF OnMedium(t, s) /\ HasRoom(t)
               THEN [a \in DOMAIN blocks \cup {<<t, s>>} |->
                       IF a = <<t, s>> THEN c ELSE blocks[a]]
               ELSE blocks
  /\ UNCHANGED <<tracks, room>>

\* A question about the medium, or a copy of it made elsewhere.
Query == reply' = Done("none") /\ UNCHANGED <<blocks, tracks, room>>

Next == \/ Insert
        \/ Query
        \/ \E t \in TrackArgs, s \in SectorArgs :
             Get(t, s) \/ \E c \in Content : Put(t, s, c)

Spec == Init /\ [][Next]_vars
===============================================================================
