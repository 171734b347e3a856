\* Files from none to three blocks, and every failure of the host.
CONSTANTS
  BlockSize = 3
  MaxFile = 10
SPECIFICATION Spec
INVARIANTS
  RoomForBlock
  ResultExact
  NothingLeaks
\* The function returns.
CHECK_DEADLOCK FALSE
