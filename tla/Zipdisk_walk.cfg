\* The test of the iterator and the dump of the blocks, over archives of every
\* shape.
CONSTANTS
  BlockSize = 4
  Archives <- MCArchives
SPECIFICATION FairInfoSpec
INVARIANTS
  SliceIndexInBounds
  BlockPointerLive
  ReachesLast
  InfoShowsAll
PROPERTIES
  VisitsInOrder
  NoDoubleFree
  InfoEnds
\* The program ends.
CHECK_DEADLOCK FALSE
