SPECIFICATION Spec
CHECK_DEADLOCK FALSE
CONSTANTS
  nodeA = nodeA
  nodeB = nodeB
  Nodes <- TwoNodes
  Stake = 2
  EpochSize = 2
  MaxBlocks = 3
  MaxSlot = 1
  MaxWeight = 1
  MaxRestarts = 1
SYMMETRY Swaps
INVARIANTS LatestIsLast HeadHeaviest
PROPERTY SlashedFrozen
