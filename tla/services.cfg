SPECIFICATION RestSpec
CHECK_DEADLOCK FALSE
CONSTANTS
  Users = {"node", "ann"}
  Handlers = {"h1", "h2"}
  Funds <- MCFunds
  Amounts = {1, 2}
  MaxItem = 1
  MaxRounds = 2
  NodeAddr = "node"
  MinChannel = 1
  MaxChannel = 2
  ChannelFee = 1
  Monitor = "willMonitor"
  ExitMonitor = "exitMonitor"
  KeptPending = 3
  Tokens = {"t0", "t1"}
  MintFee = 1
  Royalty <- MCRoyalty
  GenesisToken = "t0"
  GenesisOwner = "genesis"
  GenesisPrice = 2
  Relayer = "relayer"
  BridgeMode = "simulator"
  BridgeFee = 1
  BridgeBurn = 1
  BurnAddress = "burn"
  L1Txs = {"x1"}
  L1To <- MCL1To
  L1Amount <- MCL1Amount
  ChainNames = {"ethereum"}
  Owner = "node"
  Weights = {1}
  MaxUses = 1
  Required = 2
  MaxRequests = 2
  Miner = "miner"
  Voters = {"node", "ann"}
  ReleaseEpochs = 3
  PerEpoch = 1
  PoolTotal = 2
  ShardOf <- MCShardOf
  CreateFee = 1
  InitialSupply = 2
  MaxCalls = 2
  MiniAddrs = {"m1"}
  Programs <- MCPrograms
  CallArgs <- MCCallArgs
  VmGas = 50
  MaxRuns = 1
  Modes = {"serial", "threads"}
  Chosen = {"channels", "wills", "plasma", "market", "bridge", "accounts", "keys", "wallet", "pools", "shards", "wasm", "agents", "minivm"}
INVARIANTS
  
  PaidIsOwner
  QuorumsMeet
  ReleasedBySchedule
  OpenedByMajority
  
PROPERTIES
  KeepsCustody
