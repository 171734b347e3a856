------------------------------ MODULE Conversion ------------------------------
(***************************************************************************)
(* What converting a zipdisk archive promises: every block of the archive, *)
(* unpacked, is put at its track and sector of one disk, in the order of   *)
(* the archive, and the disk is written to a D64 file; a block that cannot *)
(* be unpacked ends the conversion, and no file is written.                *)
(***************************************************************************)
EXTENDS Integers, Sequences

CONSTANTS
  NoContent,  \* the content of a block that cannot be unpacked
  Tracks,     \* tracks the disk has
  NoD64       \* no file

VARIABLES
  items,      \* the blocks of the archive: [track, sector, content]
  ends,       \* after how many of them the archive may be taken to end
  n,          \* how many have been put on the disk
  disk,       \* content by <<track, sector>>, of the blocks put there
  d64,        \* the file: the blocks in it, or NoD64
  status      \* "converting", "ok", "failed"

vars == <<items, ends, n, disk, d64, status>>

Blank == [a \in {} |-> NoContent]

\* Sectors of a track of a 1541 disk.
Sectors(track) == IF track <= 17 THEN 21 ELSE IF track <= 24 THEN 19
                  ELSE IF track <= 30 THEN 18 ELSE 17

OnDisk(a) == a[1] \in 1..Tracks /\ a[2] \in 0..(Sectors(a[1]) - 1)

Init ==
  /\ ends \subseteq 0..Len(items)
  /\ n = 0
  /\ disk = Blank
  /\ d64 = NoD64
  /\ status = "converting"

\* A block that does not exist on the disk is left out.
Put ==
  /\ status = "converting"
  /\ n < Len(items)
  /\ LET item == items[n + 1]
         a == <<item.track, item.sector>>
     IN  /\ item.content # NoContent
         /\ disk' = [x \in DOMAIN disk \cup {y \in {a} : OnDisk(y)} |->
                       IF x = a THEN item.content ELSE disk[x]]
  /\ n' = n + 1
  /\ UNCHANGED <<items, ends, d64, status>>

\* The file is written as a whole, or the host fails: there is none, or it is
\* empty.
Finish ==
  /\ status = "converting"
  /\ n \in ends
  /\ n > 0
  /\ d64' \in {disk, Blank, NoD64}
  /\ status' = "ok"
  /\ disk' = Blank
  /\ UNCHANGED <<items, ends, n>>

\* The archive cannot be read, has no blocks, or its next block cannot be
\* unpacked.
Fail ==
  /\ status = "converting"
  /\ n > 0 => n < Len(items) /\ items[n + 1].content = NoContent
  /\ status' = "failed"
  /\ disk' = Blank
  /\ UNCHANGED <<items, ends, n, d64>>

Next == Put \/ Finish \/ Fail

Spec == Init /\ [][Next]_vars
===============================================================================
