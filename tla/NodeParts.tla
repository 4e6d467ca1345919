----------------------------- MODULE NodeParts -----------------------------
(***************************************************************************)
(* The parts of one node that work on state of their own: the EVM, the pool  *)
(* with the miner, the database file, the start, the gateway of the API, the *)
(* engines of consensus the node does not follow and the connections with    *)
(* its peers.  A behaviour exercises one of them, chosen at the start, so    *)
(* that their state spaces add up.                                           *)
(***************************************************************************)
EXTENDS Evm, TxFlow, Storage, Startup, Gateway, Gadgets, Peers

CONSTANT Exercised      \* the parts a run looks at

VARIABLE part           \* the one of this behaviour

nodeVars == <<part, evmVars, flowVars, storageVars, startVars, gateVars, gadgetVars, peerVars>>

NodeInit ==
    /\ part \in Exercised
    /\ EvmInit /\ FlowInit /\ StorageInit /\ StartupInit /\ GateInit /\ GadgetsInit /\ PeersInit
    /\ part # "storage" => file = (CHOOSE f \in DatabaseFiles : TRUE) /\ renames
    /\ part # "startup" => conf = CHOOSE c \in Configurations : TRUE
    /\ part # "peers" => chainIdOf = CHOOSE c \in ChainIds : TRUE
    /\ part # "gateway" => profile = CHOOSE p \in Profiles : TRUE

NodeNext ==
    /\ IF part = "evm" THEN EvmNext ELSE UNCHANGED evmVars
    /\ IF part = "flow" THEN FlowNext ELSE UNCHANGED flowVars
    /\ IF part = "storage" THEN StorageNext ELSE UNCHANGED storageVars
    /\ IF part = "startup" THEN StartupNext ELSE UNCHANGED startVars
    /\ IF part = "gateway" THEN GateNext ELSE UNCHANGED gateVars
    /\ IF part = "peers" THEN PeersNext ELSE UNCHANGED peerVars
    /\ CASE part = "casper" -> CasperNext [] part = "beacon" -> BeaconNext [] part = "slots" -> SlotsNext
       [] OTHER -> UNCHANGED gadgetVars
    /\ UNCHANGED part

NodeSpec == NodeInit /\ [][NodeNext]_nodeVars /\ FlowFairness
=============================================================================
