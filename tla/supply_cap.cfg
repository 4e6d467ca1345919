SPECIFICATION Spec
CONSTANTS
    alice = alice
    founder = founder
    miner = miner
    peer = peer
    burner = burner
    genesis = genesis
    Accounts <- MCAccounts
    GenesisAcct = genesis
    BurnAcct = burner
    Founder <- MCFounder
    Alloc <- MCAlloc
    Fee = 2
    Burn = 1
    BlockReward = 2
    MaxSupply = 16
    Pools = {}
    EpochLen = 2
    Self = miner
    Peers = {peer}
    Validators = {miner}
    Txs <- MCOneTx
    MaxTxs = 1
    MaxHash = 5
    ForeignGenesis = FALSE
    LegacyRoot = LegacyRoot
INVARIANT SupplyCapped
