SPECIFICATION Spec
CHECK_DEADLOCK FALSE
CONSTANTS
  nodeA = nodeA
  nodeB = nodeB
  Nodes <- TwoNodes
  Stake = 2
  EpochSize = 1
  MaxBlocks = 3
  MaxSlot = 2
  MaxWeight = 2
  MaxRestarts = 0
PROPERTY BlocksGoOn
