SPECIFICATION Spec
CHECK_DEADLOCK FALSE
CONSTANTS
  Nodes = {"a", "b"}
  Txs = {"t1", "t2"}
  BatchSize = 1
  MaxPool = 1
  Dropped = 1
  NearBy = 0
  Fee <- MCFee
  MaxWire = 1
  Budgets <- MCBudgets
INVARIANTS
  ChainsLinked
  PoolBounded
PROPERTIES
  TasksComeBack
  CatchesUp
