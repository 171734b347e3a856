\* The tracks of the fifth slice.
CONSTANTS
  BlockSize = 4
  Archives <- MCArchives
  Out = out
  NoPath = NoPath
  NoD64 = NoD64
  NoContent <- MCNoContent
SPECIFICATION UnzipSpec
INVARIANT FortyTracks
\* The program ends.
CHECK_DEADLOCK FALSE
