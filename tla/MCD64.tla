-------------------------------- MODULE MCD64 --------------------------------
(***************************************************************************)
(* Instances of D64 for TLC.                                               *)
(***************************************************************************)
EXTENDS D64, TLC

CONSTANTS a, p

\* A file that is missing or cannot be read, an image of 35 tracks, and one of
\* 40 with a block on a track the other has not.
MCHostFiles ==
  { [size |-> -1, blocks |-> Empty],
    [size |-> SizeCbmdos, blocks |-> Empty],
    [size |-> SizeExtended, blocks |-> (BlockOffset(36, 0) :> a)] }

===============================================================================
