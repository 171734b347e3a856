\* The conversion of an archive to a D64 file.
CONSTANTS
  BlockSize = 4
  Archives <- MCArchives
  Out = out
  NoPath = NoPath
  NoD64 = NoD64
  NoContent <- MCNoContent
SPECIFICATION FairUnzipSpec
PROPERTIES
  
  Converts
\* The program ends.
CHECK_DEADLOCK FALSE
