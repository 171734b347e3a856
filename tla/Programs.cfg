\* Every command line of up to four words, for the tables of options of both
\* programs.
CONSTANTS
  null = null
  nan = nan
  nul = nul
  NULL = null
  NotANumber = nan
  NoShort = nul
  EmptyString <- MCEmpty
  Words <- MCWords
  Tables <- MCTables
  ArgvMax = 4
  STRLIST_INITIAL_SIZE = 1
  OPT_LIST_INITIAL_SIZE = 1
  IntHalf = 4
  BaseLength <- MCBaseLength
SPECIFICATION FairMainSpec
\* The program ends.
CHECK_DEADLOCK FALSE
INVARIANTS
  ListsHaveRoom
  MemoryExact
  ResultExact
  ArgsExact
  TargetsExact
  CommandAsAsked
  FilesAsNamed
  StatusExact
  MainMemory
PROPERTY MainEnds
