\* Every packing of a block, and arbitrary bytes.
CONSTANTS
  BlockSize = 4
  Rep = 2
  Plain = {0, 3}
  Junk = {0, 2, 6}
  MaxLen = 4
  NoBlock = NoBlock
  Inputs <- MCInputs
SPECIFICATION FairSpec
INVARIANTS
  InBuffer
  ReadsNear
  AllOrNothing
  RoundTrip
  ComputesDecoded
PROPERTY Terminates
\* The function returns.
CHECK_DEADLOCK FALSE
