\* The listing of directories and files of every shape.
CONSTANTS
  p = p
  Zero <- MCBlank
  Content <- MCContent
  NoPath = NoPath
  Paths = {p}
  HostFiles <- MCHostFiles
  Types = {"CBMDOS"}
  TrackArgs = {}
  SectorArgs = {}
  SlotsPerBlock = 2
  DirentMax = 5
  Garbage <- MCGarbage
  SizeCap = 1524
  Uninit = Uninit
  ZCC_CBMDOS_FILENAME_MAX = 4
  ZCC_D64_DISKID_MAXLEN = 2
  NameBytes <- MCNameBytes
SPECIFICATION FairListSpec
INVARIANTS
  EntriesInBounds
  ListsInOrder
  SizesExact
  NamesShown
PROPERTY Lists
\* The command ends.
CHECK_DEADLOCK FALSE
