----------------------------- MODULE RestServer -----------------------------
(***************************************************************************)
(* The services behind one REST server, on the same accounts.  A behaviour   *)
(* exercises one of them, chosen at the start, so that their state spaces    *)
(* add up.  The bridge and the shards are exercised one request after another *)
(* only: with overlapping requests they promise nothing.                     *)
(***************************************************************************)
EXTENDS Channels, Wills, Plasma, Market, Bridge, SmartAccounts, PoolLocks, Shards, Contracts, MiniVm

CONSTANTS
    Chosen,     \* the services that are exercised
    Modes       \* and how: "serial", "threads"

ASSUME RestAssumption ==
    Chosen \subseteq {"channels", "wills", "plasma", "market", "bridge", "accounts", "keys", "wallet", "pools", "shards",
                      "wasm", "agents", "minivm"}

VARIABLE service    \* the one of this behaviour

restVars == <<mode, service, bal, req, items, ln, lnDb, wills, willDb, monitorUp, plasmaDb, plasmaMem, l2blocks,
              market, marketDb, locks, credits, l1, queue, relay, account, keys, wallet, locksMeta, chainEpoch, paidOut,
              shardTxs, crossTxs, pendingCross, wasm, wasmDb, agents, agentDb, vm, minivm, minivmDb>>

RestInit ==
    /\ service \in Chosen /\ mode \in Modes
    /\ ServicesInit(Handlers \cup {Monitor, ExitMonitor, Relayer, Miner})
    /\ ChannelsInit /\ WillsInit /\ PlasmaInit /\ MarketInit /\ BridgeInit
    /\ AccountsInit /\ PoolsInit /\ ShardsInit /\ ContractsInit /\ MiniInit
    /\ service # "channels" => ln = Nothing
    /\ service \in {"bridge", "shards"} => mode = "serial"

ServiceStep ==
    /\ IF service = "channels" THEN ChannelsNext ELSE UNCHANGED <<ln, lnDb>>
    /\ IF service = "wills" THEN WillsNext ELSE UNCHANGED <<wills, willDb, monitorUp>>
    /\ IF service = "plasma" THEN PlasmaNext ELSE UNCHANGED <<plasmaDb, plasmaMem, l2blocks>>
    /\ IF service = "market" THEN MarketNext ELSE UNCHANGED <<market, marketDb>>
    /\ IF service = "bridge" THEN BridgeNext ELSE UNCHANGED <<locks, credits, l1, queue, relay>>
    /\ IF service = "accounts" THEN AccountsNext ELSE UNCHANGED account
    /\ IF service = "keys" THEN KeysNext ELSE UNCHANGED keys
    /\ IF service = "wallet" THEN WalletNext ELSE UNCHANGED wallet
    /\ IF service = "pools" THEN PoolsNext ELSE UNCHANGED <<locksMeta, chainEpoch, paidOut>>
    /\ IF service = "shards" THEN ShardsNext ELSE UNCHANGED <<shardTxs, crossTxs, pendingCross>>
    /\ IF service = "wasm" THEN WasmNext ELSE UNCHANGED <<wasm, wasmDb>>
    /\ IF service = "agents" THEN AgentsNext ELSE UNCHANGED <<agents, agentDb>>
    /\ IF service = "minivm" THEN MiniNext ELSE UNCHANGED <<vm, minivm, minivmDb>>
    /\ UNCHANGED <<mode, service>>

\* The process dies and starts again; every service reads its tables.
Restart ==
    /\ ServicesCrash
    /\ ChannelsRestart /\ WillsRestart /\ PlasmaRestart /\ MarketRestart /\ BridgeRestart
    /\ AccountsRestart /\ PoolsRestart /\ ShardsRestart /\ ContractsRestart /\ MiniRestart
    /\ UNCHANGED service

RestNext == ServiceStep \/ Restart

\* Monitor threads loop for ever, a request that has begun goes on, time passes.
RestFairness ==
    /\ WF_willVars(MonitorExecutes) /\ WF_willVars(\E w \in DOMAIN wills : FallDue(w))
    /\ WF_plasmaVars(MonitorFinalizes) /\ WF_plasmaVars(\E e \in DOMAIN exits : PeriodOver(e))
    /\ \A h \in Handlers : WF_willVars(CreateDebit(h) \/ CreateSave(h) \/ CancelMark(h) \/ ExecuteMark(h))
    /\ \A h \in Handlers : WF_plasmaVars(DepositDebit(h) \/ DepositSave(h) \/ FinalizeMark(h))
    /\ WF_willVars(ExecuteMark(Monitor)) /\ WF_plasmaVars(FinalizeMark(ExitMonitor))

RestSpec == RestInit /\ [][RestNext]_restVars /\ RestFairness

-----------------------------------------------------------------------------
(* Properties *)

Quiet == \A h \in DOMAIN req : req[h] = NoRequest

\* What every item of the chosen service holds.  Item 0 stands for what running sales
\* and transfers between shards have taken, and for the coins of the other chain.
Holds(i) ==
    CASE service = "channels" -> ChannelHolds(i)
    []   service = "wills" -> WillHolds(i)
    []   service = "plasma" -> DepositHolds(i)
    []   service = "bridge" /\ i > 0 -> LockHolds(i)
    []   service = "bridge" /\ i = 0 -> SumFunction([tx \in L1Txs |-> L1Holds(tx)])
    []   service = "market" /\ i = 0 -> SumFunction([h \in Handlers |-> SaleHolds(h)])
    []   service = "shards" /\ i = 0 -> SumFunction([h \in Handlers |-> CrossHolds(h)])
    []   OTHER -> 0

InCustody == mode = "serial" /\ service # "pools"

\* Behaviours with overlap, and the pools, map to a Custody where nothing moves.
MappedBal == IF InCustody THEN bal ELSE Funds
MappedHeld == [i \in 0..MaxItem |-> IF InCustody THEN Holds(i) ELSE 0]

Cust == INSTANCE Custody WITH
    Users <- DOMAIN Funds,
    Items <- 0..MaxItem,
    Outside <- {0},
    bal <- MappedBal,
    held <- MappedHeld

\* One request after another, the services implement Custody: a channel, a will, a
\* deposit, a sale, a lock or a transfer between shards gives out what was put into
\* it, once, whatever order the requests come in.
KeepsCustody == Cust!Spec

\* What a request answered is stored: when none runs, a restart would give back the
\* memory as it is, also after requests that overlapped and after crashes.  The MiniVM's
\* contracts, which are handed over before the database lock, only without overlap.
AnsweredIsStored ==
    Quiet =>
        /\ ln = lnDb /\ market = marketDb /\ wasm = wasmDb /\ agents = agentDb
        /\ deposits = depositDb /\ exits = exitDb /\ (Len(l2txs) <= KeptPending => l2txs = l2txDb)
        /\ \A w \in DOMAIN willDb : willDb[w].status = "pending" <=> Pending(w)
        /\ mode = "serial" => minivmDb = [a \in DOMAIN minivm |-> ToRow(minivm[a])]

\* Every will is settled in the end: the monitor executes what nobody cancels.
WillsSettled ==
    \A w \in 1..MaxItem :
        (mode = "serial" /\ w \in DOMAIN willDb /\ willDb[w].status = "pending")
            ~> (w \in DOMAIN willDb /\ willDb[w].status # "pending")

\* An exit that was asked for is paid in the end.
ExitsPaid ==
    \A e \in 1..MaxItem :
        (mode = "serial" /\ e \in DOMAIN exits /\ exits[e].status = "pending") ~> (e \in DOMAIN exits /\ exits[e].status = "finalized")
=============================================================================
