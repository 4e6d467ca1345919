------------------------------ MODULE Startup ------------------------------
(***************************************************************************)
(* NodeOrchestrator of main.py: who this node is.  __init__ works out the    *)
(* founder, the address that mines and the key that signs from the wallet    *)
(* file, the environment, the flags and the manifest, and on the way writes  *)
(* files, balances and validators, each with a commit of its own.  The       *)
(* process can die between any two of them and start again.                  *)
(***************************************************************************)
EXTENDS Integers, FiniteSets

CONSTANTS
    ManifestValidators, \* addresses of the devnet manifest, but for the founder
    OwnValidator,       \* the one whose index this node has
    MaxStarts           \* bound: starts of the process

\* The address of the template, of the key in the environment, of dev_signer.json, of the
\* --miner flag, the built-in founder; wallets made on the spot are all different.
Template == <<"template", 0>>
EnvKey == <<"env", 0>>
DevSigner == <<"signer", 0>>
MinerFlag == <<"flag", 0>>
DefaultFounder == <<"default", 0>>
NewWallet(n) == <<"made", n>>
NoAddress == <<"", 0>>

\* The key of dev_signer.json is made at random on this node.
ASSUME StartupAssumption ==
    OwnValidator \in ManifestValidators /\ DevSigner \notin ManifestValidators /\ MaxStarts \in Nat

VARIABLES
    conf,       \* the operator's choices
    store,      \* files and tables
    self,       \* attributes of the orchestrator and its config
    phase, starts

startVars == <<conf, store, self, phase, starts>>

Or(a, b) == IF a = NoAddress THEN b ELSE a
FreshSelf == [founder |-> NoAddress, miner |-> IF conf.flag THEN MinerFlag ELSE NoAddress, signing |-> NoAddress,
              wallet |-> NoAddress, devOnly |-> FALSE, attests |-> NoAddress, parts |-> {}]

Step(next, s, me) == phase' = next /\ store' = s /\ self' = me /\ UNCHANGED <<conf, starts>>

-----------------------------------------------------------------------------
(* __init__, step by step *)

Launch ==
    /\ phase = "down" /\ starts < MaxStarts
    /\ phase' = "files" /\ starts' = starts + 1 /\ self' = FreshSelf
    /\ UNCHANGED <<conf, store>>

\* Mutant: the template is not there yet when the genesis is made.
InstallTemplateLate ==
    /\ phase = "files"
    /\ Step("chain", [store EXCEPT !.file = IF conf.template THEN Or(@, Template) ELSE @], self)

\* A wallet file gives the founder and, without a flag, the miner.
InstallTemplate ==
    /\ phase = "files"
    /\ LET f == IF conf.template THEN Or(store.file, Template) ELSE store.file
       IN Step("chain", [store EXCEPT !.file = f], [self EXCEPT !.founder = f, !.miner = Or(@, f)])

\* Blockchain._ensure_genesis: the block, then the balances.
EnsureGenesis ==
    /\ phase = "chain"
    /\ IF store.genesis THEN Step("wallet", store, self)
       ELSE Step("mint", [store EXCEPT !.genesis = TRUE], self)

MintGenesis ==
    /\ phase = "mint"
    /\ Step("wallet", [store EXCEPT !.paid = @ \cup {Or(self.founder, Or(self.miner, DefaultFounder))}], self)

HasKey(f) == f[1] = "made"
Signs(me, a) == [me EXCEPT !.wallet = a, !.signing = a]

\* The key in the file, or the one in the environment; a key beside the founder who mines
\* signs only.  A follower leaves the key of the file alone.
Loaded(me) ==
    LET f == store.file
        withFile == [me EXCEPT !.founder = Or(@, f), !.miner = Or(@, f)]
    IN CASE f = NoAddress /\ conf.env -> [Signs(me, EnvKey) EXCEPT !.miner = EnvKey]
       []   f # NoAddress /\ HasKey(f) -> IF ~conf.mining /\ store.height > 1 THEN withFile ELSE Signs(withFile, f)
       []   f # NoAddress /\ ~HasKey(f) /\ conf.env ->
                IF withFile.miner = f THEN [Signs(withFile, EnvKey) EXCEPT !.devOnly = TRUE]
                ELSE [Signs(withFile, EnvKey) EXCEPT !.miner = EnvKey]
       []   OTHER -> IF f = NoAddress THEN me ELSE withFile

\* In production mode a node without a key refuses to start.
LoadWallet ==
    /\ phase = "wallet"
    /\ LET me == Loaded(self)
       IN Step(IF conf.prod /\ me.wallet = NoAddress THEN "down" ELSE "signer", store, me)

SignerReady == [Signs(self, DevSigner) EXCEPT !.devOnly = TRUE]

\* dev_signer.json is made on a chain that has nothing yet, and used whenever it is there.
DevSigning ==
    /\ phase = "signer"
    /\ ~conf.prod /\ self.wallet = NoAddress /\ self.miner # NoAddress /\ store.file # NoAddress
    /\ IF ~conf.mining \/ (~store.signer /\ (store.height >= 1 \/ store.applied))
       THEN Step("genesis", store, self)
       ELSE Step("fund", [store EXCEPT !.signer = TRUE], SignerReady)

\* 10 000 when it is made, and again while the chain is new and it has nothing.
FundSigner ==
    /\ phase = "fund"
    /\ Step("genesis", [store EXCEPT !.grants = IF store.height <= 1 /\ @ = 0 THEN @ + 1 ELSE @], self)

\* Nothing to go by: a new wallet, saved if the disk lets it.
CreateWallet(saved) ==
    /\ phase = "signer"
    /\ ~conf.prod /\ self.wallet = NoAddress /\ (self.miner = NoAddress \/ store.file = NoAddress)
    /\ LET w == NewWallet(starts)
       IN Step("genesis", [store EXCEPT !.file = IF saved THEN w ELSE @],
               [self EXCEPT !.wallet = w, !.miner = Or(@, w), !.founder = Or(@, w)])

HaveWallet ==
    /\ phase = "signer" /\ self.wallet # NoAddress
    /\ Step("genesis", store, self)

\* _apply_genesis_allocation: a founder that has less gets the amount, at every start.
ApplyGenesisAllocation ==
    /\ phase = "genesis"
    /\ Step("applied", [store EXCEPT !.paid = @ \cup {Or(self.founder, Or(self.miner, DefaultFounder))}], self)

SetApplied ==
    /\ phase = "applied"
    /\ Step("validators", [store EXCEPT !.applied = TRUE], self)

\* install_validator_wallet
DevnetSelf ==
    IF conf.devnet /\ conf.mining /\ ~conf.prod
    THEN [Signs(self, OwnValidator) EXCEPT !.miner = OwnValidator, !.devOnly = TRUE] ELSE self

\* apply_manifest, then this node if there is nobody, then the key that mines and signs.
Registered(vals, me) ==
    LET manifest == IF conf.devnet THEN vals \cup ManifestValidators \cup {Or(me.founder, me.miner)} ELSE vals
        someone == IF manifest = {} THEN {me.miner} ELSE manifest
    IN IF me.wallet # NoAddress /\ me.signing # NoAddress /\ ~me.devOnly /\ ~conf.devnet THEN someone \cup {me.signing} ELSE someone

MinesAs(me) == IF me.wallet # NoAddress /\ me.signing # NoAddress /\ ~me.devOnly /\ ~conf.devnet THEN me.signing ELSE me.miner

RegisterValidators ==
    /\ phase = "validators"
    /\ LET me == [DevnetSelf EXCEPT !.miner = Or(@, <<"port", 0>>)]
       IN Step("core", [store EXCEPT !.validators = Registered(@, me)], [me EXCEPT !.miner = MinesAs(me)])

\* The rest of __init__: what cannot come up is left out, and the node goes on without it.
Build(from, to, optional) ==
    /\ phase = from
    /\ \E ps \in SUBSET optional : Step(to, store, [self EXCEPT !.parts = @ \cup ps])

\* Pool locks, light client, EVM, peers, bridge: without the locks pools spend freely.
BuildCore == Build("core", "features", {"pool_locks"})

\* Market, proofs, shards, oracles, wallets, selection, storage, validators, builders.
BuildFeatures == Build("features", "keys", {"validator_keys"})

\* The key that signs attestations is registered too.
RegisterAttester ==
    /\ phase = "keys"
    /\ IF "validator_keys" \in self.parts /\ self.wallet # NoAddress
       THEN Step("services", [store EXCEPT !.validators = IF conf.devnet THEN @ ELSE @ \cup {self.wallet}],
                 [self EXCEPT !.attests = self.wallet])
       ELSE Step("services", store, self)

\* Channels, wills, plasma, contracts, agents; then the engines beside the consensus.
BuildServices == Build("services", "engines", {"services"})
BuildEngines == Build("engines", "start", {"engines"})

-----------------------------------------------------------------------------
(* start, stop *)

\* Servers and tasks; gather ends with the first task that raises.
Start == phase = "start" /\ Step("up", store, self)

NodeMines ==
    /\ phase = "up" /\ conf.mining /\ store.height < 2
    /\ Step("up", [store EXCEPT !.height = @ + 1], self)

\* stop on a signal or after a task that raised; or the process just dies.
StopOrDie ==
    /\ phase # "down"
    /\ Step("down", store, self)

Configurations ==
    [template : BOOLEAN, env : BOOLEAN, flag : BOOLEAN, mining : BOOLEAN, prod : BOOLEAN, devnet : BOOLEAN]

StartupInit ==
    /\ conf \in Configurations
    /\ store = [file |-> NoAddress, signer |-> FALSE, genesis |-> FALSE, applied |-> FALSE, paid |-> {}, grants |-> 0,
                validators |-> {}, height |-> 0]
    /\ self = FreshSelf /\ phase = "down" /\ starts = 0

StartupNext ==
    \/ Launch \/ InstallTemplate \/ EnsureGenesis \/ MintGenesis \/ LoadWallet
    \/ DevSigning \/ FundSigner \/ HaveWallet \/ \E saved \in BOOLEAN : CreateWallet(saved)
    \/ ApplyGenesisAllocation \/ SetApplied \/ RegisterValidators
    \/ BuildCore \/ BuildFeatures \/ RegisterAttester \/ BuildServices \/ BuildEngines
    \/ Start \/ NodeMines \/ StopOrDie

-----------------------------------------------------------------------------
(* Properties *)

\* main.py: where the founder's wallet file is installed, the founder's share is paid to
\* one address, and the signer of a new devnet once, however often the node dies on the
\* way.  Without the file the genesis pays one address and the wallet made after it another.
FounderPaidOnce ==
    /\ conf.template => store.paid \subseteq {Template}
    /\ phase = "up" => store.paid # {} /\ (self.wallet = DevSigner => store.grants = 1)
=============================================================================
