CHECK_DEADLOCK FALSE
SPECIFICATION NodeSpec
CONSTANTS
    Exercised = {"evm", "storage", "startup", "gateway", "casper", "beacon", "slots", "peers"}
    People = {"ann"}
    CodeAddrs = {"c1", "c2"}
    FirstContract = "c1"
    EvmFunds = 1
    GasLimit = 4
    OpGas = 1
    CallGas = 1
    CreateGas = 2
    DestroyGas = 1
    Stipend = 2
    Cells = {0}
    Sends = {0, 1}
    MaxDepth = 2
    MaxSent = 1
    Txs <- MCTxs
    Senders = {"a", "b", "c"}
    Submitters = {"h1"}
    TxFunds = 3
    MaxTxPerBlock = 2
    PoolSize = 3
    EvictOneIn = 3
    MaxMishaps = 1
    TxIds = {"t1", "t2"}
    SpendIds = {"s1"}
    MaxHeight = 2
    MaxHashes = 5
    MaxCrashes = 1
    ManifestValidators <- MCManifest
    OwnValidator <- MCOwnValidator
    MaxStarts = 3
    Clients = {"ip1"}
    Conns = {"k1", "k2"}
    Limit = 1
    Window = 2
    TokenLife = 2
    MaxClock = 2
    MaxPosts = 3
    MaxOutages = 1
    Profiles <- MCProfiles
    Attesters = {"v1", "v2"}
    Checkpoints = {"b1", "b2", "b3"}
    NumberOf <- MCNumberOf
    GadgetEpoch = 1
    MaxSlot = 2
    MaxVotes = 4
    PeerNodes <- MCPeerNodes
    ChainIds <- MCChainIds
    Bootstrap <- MCBootstrap
    MaxPeers = 1
    TargetPeers = 1
    MaxLinks = 3
    MaxSilences = 2
INVARIANTS
    ForwardedGasFits
    MadeOnlyByValue
    TablesAgree
    
    RefusedAfterLimit
    TwoStep
    OpenIsInTable
