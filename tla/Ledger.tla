------------------------------- MODULE Ledger -------------------------------
(***************************************************************************)
(* One node's chain and balances: core/blockchain.py on top of the blocks   *)
(* and accounts tables of storage/database.py, with what add_block calls in *)
(* the slashing engine and, over the event bus, in the finality engine.     *)
(*                                                                          *)
(* Blockchain.lock is held for a whole operation, so one operation runs at  *)
(* a time (op), but its steps are separate actions: the process can die     *)
(* between them, and some of them commit the SQLite transaction early.      *)
(* accts and chain are what is on disk; work is the accounts table as the   *)
(* open transaction sees it.                                                *)
(*                                                                          *)
(* Peers are the environment: known is every block some node has sealed,    *)
(* and a peer seals a block as this code does, on the table that a node     *)
(* with the parent as its tip can have.                                     *)
(***************************************************************************)
EXTENDS AccountTable, FinalityGadget

CONSTANTS
    Self,           \* config.miner_address of this node
    Peers,          \* miners of the other nodes
    Validators,     \* rows of the validators table
    Txs,            \* the transactions clients have signed
    MaxTxs,         \* bound on the transactions of a block of this node
    MaxHash,        \* bound: above this hash no new block is started
    ForeignGenesis, \* whether some peer started from a genesis of its own
    LegacyRoot      \* the short StateEngine root a fresh genesis carries

\* A legacy root is shorter than the 64 digits of a computed one, so no table has it.
ASSUME LedgerAssumption ==
    /\ Self \in Accounts /\ Peers \subseteq Accounts /\ Validators \subseteq Accounts
    /\ IsFiniteSet(Validators) /\ GenesisAcct \notin Peers \cup {Self}
    /\ Txs \subseteq Transactions
    /\ MaxTxs \in Nat /\ MaxHash \in Nat /\ MaxHash > 2 /\ ForeignGenesis \in BOOLEAN
    /\ LegacyRoot \notin Tables

VARIABLES
    accts,      \* accounts, on disk
    chain,      \* blocks, on disk: chain[h + 1] is the block of height h
    dbSlashed,  \* validators with slashed = 1, on disk
    work,       \* accounts inside the open SQLite transaction
    op,         \* the operation that holds Blockchain.lock
    blk,        \* the block that own / peer execute, or that a replay makes room for
    pos,        \* transactions of the current block already applied
    rh,         \* height being replayed
    cut,        \* height the replay stops at
    draft,      \* create_block's result on its way to add_block
    asked,      \* height from which a peer's blocks were asked for; -1: no sync runs
    wanted,     \* a peer's head that was asked for, because ours differs from it
    proposals,  \* SlashingEngine.proposals: pairs of a height and a miner
    slashed,    \* SlashingEngine.slashed
    fin,        \* FinalityEngine
    baseline,   \* _state_root_baseline
    known,      \* blocks that exist in the network
    nextHash    \* the hash of the next sealed block: hashes never collide

disk   == <<accts, chain, dbSlashed>>
job    == <<work, op, blk, pos, rh, cut>>
memory == <<proposals, slashed, fin, baseline>>
net    == <<known, nextHash>>
loop   == <<draft, asked, wanted>>
vars   == <<disk, job, loop, memory, net>>

-----------------------------------------------------------------------------
(* Blocks *)

GenesisBlock(hash) ==
    [hash |-> hash, parent |-> 0, height |-> 0, miner |-> GenesisAcct,
     txs |-> <<>>, root |-> LegacyRoot]

Blocks ==
    [hash: Nat, parent: Nat, height: Nat, miner: Accounts,
     txs: Seq(Txs), root: Tables \cup {LegacyRoot}]

NoBlock == GenesisBlock(0)

Tip == chain[Len(chain)]
Height == Len(chain) - 1

\* The values a draft, or the block of an operation, has when there is none.
Idle == /\ op' = "idle" /\ blk' = NoBlock
        /\ pos' = 0 /\ rh' = 0 /\ cut' = 0

\* conn.rollback(): back to what the last commit made durable.
Rollback == work' = accts /\ Idle /\ UNCHANGED disk

-----------------------------------------------------------------------------
(* Mining: create_block, then add_block; the lock is free in between.       *)

\* _validate_tx_for_block: every transaction passes on its own, and a sender
\* has one, since validate_transaction compares with the nonce on disk.
BlockTxs(t, s) ==
    /\ \A i \in DOMAIN s : Executable(t, s[i])
    /\ \A i, j \in DOMAIN s : s[i].from = s[j].from => i = j

CreateBlock(s) ==
    /\ op = "idle" /\ draft = NoBlock
    /\ nextHash <= MaxHash
    /\ BlockTxs(accts, s)
    /\ draft' = [hash |-> 0, parent |-> Tip.hash, height |-> Len(chain), miner |-> Self,
                 txs |-> s, root |-> LegacyRoot]
    /\ UNCHANGED <<disk, job, asked, wanted, memory, net>>

\* _verify_block_proposer
ProposerAllowed(m) ==
    \/ m = GenesisAcct
    \/ /\ m \notin slashed
       /\ LET active == Validators \ dbSlashed
          IN Cardinality(active) <= 1 \/ m \in active \cup {Self}

\* Mutant: the parent hash is not compared.
ExtendsByHeight(b) == b.height = Len(chain)

\* _validate_block_structure, and no block at that height yet.
Extends(b) ==
    IF chain = <<>> THEN b.height \in {0, 1}
    ELSE b.height = Len(chain) /\ b.parent = Tip.hash

Acceptable(b) == Extends(b) /\ ProposerAllowed(b.miner)

\* db.atomic(): BEGIN IMMEDIATE
Begin(kind, b) ==
    /\ op' = kind /\ blk' = b /\ work' = accts
    /\ pos' = 0 /\ rh' = 0 /\ cut' = 0

AddDraft ==
    /\ op = "idle" /\ draft # NoBlock
    /\ draft' = NoBlock /\ UNCHANGED <<asked, wanted>>
    /\ IF Acceptable(draft) THEN Begin("own", draft) ELSE UNCHANGED job
    /\ UNCHANGED <<disk, memory, net>>

-----------------------------------------------------------------------------
(* import_block *)

ImportBlock(b) ==
    /\ op = "idle"
    /\ b.height > 0 /\ Acceptable(b)
    /\ Begin("peer", b)
    /\ UNCHANGED <<disk, loop, memory, net>>

Foreign(b) == b.height = 0 /\ b.hash # chain[1].hash

\* _sync_with_peer asks a higher peer for the blocks above its own (at height 0
\* for all of them) and waits, while the node goes on working.
AskBlocks ==
    /\ op = "idle" /\ asked = -1
    /\ \E c \in known : c.height > Height
    /\ asked' = IF Height = 0 THEN 0 ELSE Height + 1
    /\ UNCHANGED <<disk, job, draft, wanted, memory, net>>

\* A genesis of another hash in the answer replaces the whole chain, whatever
\* its height is by now.  truncate_all_blocks commits before the block runs.
ImportGenesis(b) ==
    /\ op = "idle" /\ asked = 0
    /\ Foreign(b) /\ nextHash <= MaxHash
    /\ chain' = <<>> /\ asked' = 1
    /\ Begin("peer", b)
    /\ UNCHANGED <<accts, dbSlashed, draft, wanted, memory, net>>

\* The end of _sync_with_peer: up to the new tip a wrong root only warns.
SyncDone ==
    /\ op = "idle" /\ asked # -1
    /\ asked' = -1 /\ baseline' = Height
    /\ UNCHANGED <<disk, job, draft, wanted, proposals, slashed, fin, net>>

-----------------------------------------------------------------------------
(* add_block: the transactions, then the reward, the checks and the save    *)

Executing == op \in {"own", "peer"}

ApplyTx ==
    /\ Executing /\ pos < Len(blk.txs)
    /\ LET tx == blk.txs[pos + 1]
       IN \/ /\ Executable(work, tx)
             /\ work' = Applied(work, tx, blk.miner)
             /\ pos' = pos + 1
             /\ accts' = IF CommitsInside(tx) THEN InnerCommit(work, tx, blk.miner) ELSE accts
             /\ UNCHANGED <<chain, dbSlashed, op, blk, rh, cut>>
          \/ ~Executable(work, tx) /\ Rollback
    /\ UNCHANGED <<loop, memory, net>>

Executed == Rewarded(work, blk.miner)

\* _state_root_check_mode is "strict", and the peer's root is another one.
RootRefused ==
    /\ op = "peer"
    /\ blk.root # LegacyRoot /\ blk.height > baseline
    /\ blk.root # Executed

\* record_proposal, which looks at the miner and the height only.
DoubleProposal ==
    blk.miner # GenesisAcct /\ <<blk.height, blk.miner>> \in proposals

RefuseBlock ==
    /\ Executing /\ pos = Len(blk.txs)
    /\ RootRefused
    /\ Rollback
    /\ UNCHANGED <<loop, memory, net>>

\* The slash callback writes the validators table and commits; the exception
\* that rejects the block finds nothing left to roll back.
SlashProposer ==
    /\ Executing /\ pos = Len(blk.txs)
    /\ ~RootRefused /\ DoubleProposal
    /\ slashed' = slashed \cup {blk.miner}
    /\ dbSlashed' = dbSlashed \cup ({blk.miner} \cap Validators)
    /\ accts' = Executed /\ work' = accts'
    /\ Idle
    /\ UNCHANGED <<chain, loop, proposals, fin, baseline, net>>

\* The block as it is stored: its root is this node's, its hash the peer's.
Sealed == [blk EXCEPT !.root = Executed, !.hash = IF op = "own" THEN nextHash ELSE @]

PersistBlock ==
    /\ Executing /\ pos = Len(blk.txs)
    /\ ~RootRefused /\ ~DoubleProposal
    /\ chain' = Append(chain, Sealed)
    /\ accts' = BurnRecorded(Executed, blk.txs) /\ work' = accts'
    /\ proposals' = IF blk.miner = GenesisAcct THEN proposals
                    ELSE proposals \cup {<<blk.height, blk.miner>>}
    /\ fin' = ProcessBlock(fin, blk.height, Sealed.hash, blk.miner)
    /\ known' = IF op = "own" THEN known \cup {Sealed} ELSE known
    /\ nextHash' = IF op = "own" THEN nextHash + 1 ELSE nextHash
    /\ Idle
    /\ UNCHANGED <<dbSlashed, loop, slashed, baseline>>

-----------------------------------------------------------------------------
(* reorg_to_ancestor and ensure_state_at_tip: replay from the allocation    *)

\* Mutant: the guard protects one block too few.
BelowFloorOffByOne(h) == \E c \in Finalized(fin) : c.number > 0 /\ c.number > h + 1

\* The finality guard: some finalized checkpoint lies above the height.
BelowFloor(h) == \E c \in Finalized(fin) : c.number > 0 /\ c.number > h

BeginReplay(h, b) ==
    /\ op' = "replay" /\ cut' = h /\ rh' = 1 /\ pos' = 0
    /\ work' = GenesisTable /\ blk' = b

\* A peer announces, or has as its head, a block of a height where the chain has
\* another one.  _reconcile_fork_at_peer asks the peer for it and waits.
NoticeFork(b) ==
    /\ op = "idle" /\ wanted = NoBlock
    /\ b.height <= Height /\ chain[b.height + 1].hash # b.hash
    /\ wanted' = b
    /\ UNCHANGED <<disk, job, draft, asked, memory, net>>

\* No answer in time, or no common ancestor any more.
ForkLeft ==
    /\ op = "idle" /\ wanted # NoBlock
    /\ wanted' = NoBlock
    /\ UNCHANGED <<disk, job, draft, asked, memory, net>>

\* The answer.  The rollback goes to the parent of the block (of a genesis: below
\* it, so that every block goes), whatever the chain has above it by now.  If it
\* succeeds, the block is imported in the same step of the event loop.
Reorg ==
    /\ op = "idle" /\ wanted # NoBlock
    /\ \/ wanted.height = 0 /\ nextHash <= MaxHash
       \/ /\ wanted.height \in 1..(Height + 1)
          /\ chain[wanted.height].hash = wanted.parent
    /\ ~BelowFloor(wanted.height - 1)
    /\ BeginReplay(wanted.height - 1, wanted)
    /\ wanted' = NoBlock
    /\ UNCHANGED <<disk, draft, asked, memory, net>>

\* find_ancestor_height(b.parent_hash): the parent of a genesis counts as height 0.
Ancestor(b) == IF b.height = 0 THEN 0 ELSE b.height - 1

\* A block of the answer that the node has a block for by now, the same one or
\* another, is not imported; the sync rolls back to its parent to ask again.
SyncReorg(b) ==
    /\ op = "idle"
    /\ \/ asked = 0 /\ b.height = 0 /\ ~Foreign(b) /\ Height > 0
       \/ asked > 0 /\ b.height \in asked..Height /\ chain[b.height].hash = b.parent
    /\ ~BelowFloor(Ancestor(b))
    /\ BeginReplay(Ancestor(b), NoBlock)
    /\ UNCHANGED <<disk, loop, memory, net>>

\* The repair endpoint, and (op = "boot") the last step of a start.
EnsureStateAtTip ==
    /\ op \in {"idle", "boot"}
    /\ IF Height > 0 /\ accts # Tip.root /\ ~BelowFloor(Height)
       THEN BeginReplay(Height, NoBlock)
       ELSE op = "boot" /\ work' = accts /\ Idle
    /\ UNCHANGED <<disk, loop, memory, net>>

\* Mutant: one block above the ancestor survives.
ShortenedByOneLess == SubSeq(chain, 1, IF cut + 2 <= Len(chain) THEN cut + 2 ELSE cut + 1)

\* DELETE FROM blocks WHERE height > cut
Shortened == SubSeq(chain, 1, cut + 1)

ReplayTx ==
    /\ op = "replay" /\ rh <= cut /\ pos < Len(chain[rh + 1].txs)
    /\ LET b == chain[rh + 1]
           tx == b.txs[pos + 1]
       IN \/ /\ Executable(work, tx)
             /\ work' = Applied(work, tx, b.miner)
             /\ pos' = pos + 1
             /\ IF CommitsInside(tx)
                THEN accts' = InnerCommit(work, tx, b.miner) /\ chain' = Shortened
                ELSE UNCHANGED <<accts, chain>>
             /\ UNCHANGED <<dbSlashed, op, blk, rh, cut>>
          \/ ~Executable(work, tx) /\ Rollback
    /\ UNCHANGED <<loop, memory, net>>

ReplayReward ==
    /\ op = "replay" /\ rh <= cut /\ pos = Len(chain[rh + 1].txs)
    /\ work' = Rewarded(work, chain[rh + 1].miner)
    /\ rh' = rh + 1 /\ pos' = 0
    /\ UNCHANGED <<disk, op, blk, cut, loop, memory, net>>

\* The root of the ancestor, if that block exists, is compared last.
RootReproduced == cut >= 0 => chain[cut + 1].root = work

FinishReplay ==
    /\ op = "replay" /\ rh > cut
    /\ \/ /\ RootReproduced
          /\ chain' = Shortened /\ accts' = work
          /\ IF blk # NoBlock /\ ProposerAllowed(blk.miner)
             THEN op' = "peer" /\ pos' = 0 /\ rh' = 0 /\ cut' = 0 /\ UNCHANGED blk
             ELSE Idle
          /\ UNCHANGED <<work, dbSlashed>>
       \/ ~RootReproduced /\ Rollback
    /\ UNCHANGED <<loop, memory, net>>

-----------------------------------------------------------------------------
(* The process dies; everything that is not on disk is gone                 *)

ActiveCount == LET n == Cardinality(Validators \ dbSlashed) IN IF n = 0 THEN 1 ELSE n

Crash ==
    /\ op # "down"
    /\ op' = "down" /\ work' = accts /\ blk' = NoBlock
    /\ pos' = 0 /\ rh' = 0 /\ cut' = 0
    /\ draft' = NoBlock /\ asked' = -1 /\ wanted' = NoBlock
    /\ proposals' = {} /\ slashed' = {} /\ fin' = NoFinality(ActiveCount) /\ baseline' = 0
    /\ UNCHANGED <<disk, net>>

\* NodeOrchestrator.__init__ up to ensure_state_at_tip.  An empty chain gets
\* a genesis block of its own.
Restart ==
    /\ op = "down"
    /\ \/ chain # <<>> /\ UNCHANGED <<chain, net>> /\ accts' = FounderSynced(accts)
       \/ /\ chain = <<>>
          /\ chain' = <<GenesisBlock(nextHash)>>
          /\ known' = known \cup {GenesisBlock(nextHash)} /\ nextHash' = nextHash + 1
          /\ accts' = FounderSynced(GenesisAllocated(accts))
    /\ work' = accts'
    /\ baseline' = Len(chain') - 1
    /\ op' = "boot"
    /\ UNCHANGED <<dbSlashed, blk, pos, rh, cut, loop, proposals, slashed, fin>>

-----------------------------------------------------------------------------
(* The environment: another node seals a block of at most one transaction.  *)
(* It touches nothing of this node, so only the order of its steps among    *)
(* the node's idle moments matters.                                         *)

\* The tables of a node whose tip is p: it executed p (and has the second
\* burn credit), or replayed up to p.  On a genesis block: it created it, or
\* imported it (and has credited the reward of that import).
PeerTables(p) ==
    IF p.height = 0 THEN {GenesisTable, Rewarded(GenesisTable, GenesisAcct)}
    ELSE {p.root, BurnRecorded(p.root, p.txs)}

PeerSeals(p, m, s) ==
    /\ op = "idle" /\ nextHash <= MaxHash
    /\ \E t \in PeerTables(p) :
          /\ BlockTxs(t, s)
          /\ LET u == IF s = <<>> THEN t ELSE Applied(t, s[1], m)
             IN known' = known \cup
                    {[hash |-> nextHash, parent |-> p.hash, height |-> p.height + 1,
                      miner |-> m, txs |-> s, root |-> Rewarded(u, m)]}
    /\ nextHash' = nextHash + 1
    /\ UNCHANGED <<disk, job, loop, memory>>

-----------------------------------------------------------------------------
Init ==
    /\ accts = GenesisTable /\ chain = <<GenesisBlock(1)>> /\ dbSlashed = {}
    /\ work = accts /\ op = "idle" /\ blk = NoBlock /\ pos = 0 /\ rh = 0 /\ cut = 0
    /\ draft = NoBlock /\ asked = -1 /\ wanted = NoBlock
    /\ proposals = {} /\ slashed = {} /\ fin = NoFinality(ActiveCount) /\ baseline = 0
    /\ known = {GenesisBlock(1)} \cup (IF ForeignGenesis THEN {GenesisBlock(2)} ELSE {})
    /\ nextHash = 3

TxSeqs == UNION {[1..n -> Txs] : n \in 0..MaxTxs}

Next ==
    \/ \E s \in TxSeqs : CreateBlock(s)
    \/ AddDraft \/ AskBlocks \/ ForkLeft \/ Reorg
    \/ \E b \in known : ImportBlock(b) \/ ImportGenesis(b) \/ NoticeFork(b) \/ SyncReorg(b)
    \/ ApplyTx \/ RefuseBlock \/ SlashProposer \/ PersistBlock
    \/ EnsureStateAtTip \/ ReplayTx \/ ReplayReward \/ FinishReplay
    \/ SyncDone \/ Crash \/ Restart
    \/ \E p \in known, m \in Peers : PeerSeals(p, m, <<>>) \/ \E tx \in Txs : PeerSeals(p, m, <<tx>>)

Spec == Init /\ [][Next]_vars

-----------------------------------------------------------------------------
(* Properties *)

Ops == {"idle", "own", "peer", "replay", "down", "boot"}

FinTypeOK(f) ==
    /\ f = [cps |-> f.cps, votes |-> f.votes, just |-> f.just, final |-> f.final,
            cur |-> f.cur, n |-> f.n]
    /\ f.cps \subseteq [epoch: Nat, hash: Nat, number: Nat]
    /\ f.votes \subseteq Nat \X Accounts
    /\ f.just \subseteq Nat /\ f.final \subseteq Nat
    /\ f.cur \in Nat /\ f.n \in Nat

\* The types of the tables and of the node's memory: balances stay natural
\* numbers, so the MAX(0, ...) of Database._apply_balance_delta hides nothing.
TypeOK ==
    /\ accts \in Tables /\ work \in Tables
    /\ chain \in Seq(Blocks) /\ known \subseteq Blocks
    /\ blk \in Blocks /\ draft \in Blocks /\ wanted \in Blocks
    /\ op \in Ops /\ pos \in Nat /\ rh \in Nat /\ cut \in Int /\ asked \in Int
    /\ dbSlashed \subseteq Validators /\ slashed \subseteq Accounts
    /\ proposals \subseteq Nat \X Accounts
    /\ baseline \in Nat /\ nextHash \in Nat
    /\ FinTypeOK(fin)

\* Whatever order blocks are mined, imported, reorganised away and re-joined
\* in, and wherever the process dies, the blocks on disk are one chain: heights
\* without a gap, each block naming the hash of the one below it.
ChainLinked ==
    \A i \in DOMAIN chain :
        /\ chain[i].height = i - 1
        /\ i > 1 => chain[i].parent = chain[i - 1].hash

\* A transaction of the chain on disk can never execute again: its nonce is
\* below its sender's nonce on disk, also after a crash in the middle of a
\* block or of a replay (nonce check of _apply_transaction, replay of
\* reorg_to_ancestor).
SpentStaysSpent ==
    \A i \in DOMAIN chain : \A k \in DOMAIN chain[i].txs :
        chain[i].txs[k].nonce < accts.nonce[chain[i].txs[k].from]

\* No two transactions of the chain share a sender and a nonce: nothing a
\* client signed once is paid twice on one chain.
NoReplay ==
    \A i, j \in DOMAIN chain : \A k \in DOMAIN chain[i].txs : \A l \in DOMAIN chain[j].txs :
        /\ chain[i].txs[k].from = chain[j].txs[l].from
        /\ chain[i].txs[k].nonce = chain[j].txs[l].nonce
        => i = j /\ k = l

\* While the node runs, no block at or below a finalized checkpoint leaves the
\* chain (the floor of reorg_to_ancestor, and import_block's way to drop all
\* blocks).
FinalizedKept ==
    [][\A c \in Finalized(fin) : \A i \in 1..(c.number + 1) :
          i <= Len(chain) => i <= Len(chain') /\ chain'[i] = chain[i]]_vars

\* Executing, rejecting or replaying blocks never adds more to the balances on
\* disk than one block reward and what the block burned; only the founder's
\* top-up of a start may.
MintBound ==
    [][op # "down" =>
          Supply(accts'.bal) <= Supply(accts.bal) + BlockReward + Burned(blk.txs)]_vars

\* The hard limit of the supply: config.max_supply, "221M".
SupplyCapped == Supply(accts.bal) <= MaxSupply
=============================================================================
