SPECIFICATION Spec
CONSTANTS
    alice = alice
    founder = alice
    miner = miner
    peer = peer
    burner = burner
    genesis = genesis
    Accounts <- MCAccounts
    GenesisAcct = genesis
    BurnAcct = burner
    Founder <- MCFounder
    Alloc <- MCAlloc
    Fee = 2
    Burn = 1
    BlockReward = 2
    MaxSupply = 8
    Pools = {}
    EpochLen = 2
    Self = miner
    Peers = {peer}
    Validators = {miner}
    Txs <- MCNone
    MaxTxs = 1
    MaxHash = 4
    ForeignGenesis = TRUE
    LegacyRoot = LegacyRoot
INVARIANTS ChainLinked
