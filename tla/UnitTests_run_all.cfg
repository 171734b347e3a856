\* A run of all modules that goes well.
CONSTANTS
  null = null
  nan = nan
  nul = nul
  NULL = null
  NotANumber = nan
  NoShort = nul
  EmptyString <- MCEmpty
  Words <- MCWords
  Tables <- MCTables
  ArgvMax = 2
  STRLIST_INITIAL_SIZE = 1
  OPT_LIST_INITIAL_SIZE = 4
  IntHalf = 4
  UNIT_MODULE_MAX = 2
  Suites <- MCSuites
  Counts <- MCCounts
SPECIFICATION FairUnitSpec
\* The program ends.
CHECK_DEADLOCK FALSE
INVARIANT RunAllReturns
