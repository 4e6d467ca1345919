---------------------------- MODULE LedgerProofs ----------------------------
(***************************************************************************)
(* Theorems about Ledger, for every set of accounts, every set of           *)
(* transactions and every bound: its types, and that the stored blocks form *)
(* one chain, a finalized block is never reorganised away, no transaction   *)
(* is spent twice, no step mints more than a block may.                     *)
(***************************************************************************)
EXTENDS Ledger, SumTheorems

-----------------------------------------------------------------------------
(* What each operation may rely on while it holds the lock *)

\* The chain is empty only while a foreign genesis is on its way in, or after
\* a crash at that moment.
NonEmpty == chain = <<>> => op \in {"peer", "down"}

\* The block in execution extends the chain on disk.
ExecutingExtends ==
    Executing =>
        /\ pos <= Len(blk.txs)
        /\ blk.height = Len(chain)
        /\ chain # <<>> => blk.parent = Tip.hash

\* A replay stays inside the chain, and the block it makes room for fits on top
\* of what it leaves.
ReplayInside ==
    op = "replay" =>
        /\ -1 <= cut /\ cut <= Height /\ 1 <= rh
        /\ rh <= cut => pos <= Len(chain[rh + 1].txs)
        /\ cut < 0 => blk # NoBlock
        /\ blk # NoBlock =>
              /\ blk.height = cut + 1
              /\ cut >= 0 => blk.parent = chain[cut + 1].hash

Shape == NonEmpty /\ ExecutingExtends /\ ReplayInside

\* A block of height 0 is a bare genesis: no transactions (a replay starts at
\* height 1), no root that could be refused, no miner that could be slashed.  The
\* head asked of a peer is a block somebody sealed.
KnownBlocks ==
    /\ nextHash > 0
    /\ \A b \in known : b.height = 0 => b = GenesisBlock(b.hash) /\ b.hash > 0
    /\ \A b \in known : b.height > 0 => b.root \in Tables
    /\ blk.height = 0 => blk = GenesisBlock(blk.hash)
    /\ draft.height = 0 => draft = GenesisBlock(draft.hash)
    /\ \A i \in 1..Len(chain) : chain[i].height = 0 => chain[i].txs = <<>>
    /\ wanted # NoBlock => wanted \in known

-----------------------------------------------------------------------------
(* Types of the account table *)

LEMMA CreditType ==
    ASSUME NEW b \in [Accounts -> Nat], NEW a \in Accounts, NEW x \in Nat
    PROVE  Credit(b, a, x) \in [Accounts -> Nat]
BY DEF Credit

LEMMA DebitType ==
    ASSUME NEW b \in [Accounts -> Nat], NEW a \in Accounts, NEW x \in Nat
    PROVE  Debit(b, a, x) \in [Accounts -> Nat]
BY DEF Debit

LEMMA GenesisTableType == GenesisTable \in Tables
BY AccountAssumption DEF GenesisTable, Tables

LEMMA ValueMovedType ==
    ASSUME NEW t \in Tables, NEW tx \in Transactions
    PROVE  /\ ValueMoved(t, tx) \in Tables
           /\ tx.kind # "deploy" => ValueMoved(t, tx).nonce = t.nonce
<1> DEFINE paid == Debit(t.bal, tx.from, tx.value)
<1>1. paid \in [Accounts -> Nat] /\ tx.to \in Accounts /\ tx.value \in Nat
  BY DebitType DEF Tables, Transactions
<1>2. Credit(paid, tx.to, tx.value) \in [Accounts -> Nat]
  <2> HIDE DEF paid
  <2> QED BY <1>1, CreditType
<1>3. CASE tx.kind = "deploy"
  <2>1. [paid EXCEPT ![tx.to] = 2 * tx.value] \in [Accounts -> Nat]
    <3> HIDE DEF paid
    <3> QED BY <1>1
  <2>2. [t.nonce EXCEPT ![tx.to] = 0] \in [Accounts -> Nat]
    BY <1>1 DEF Tables
  <2> QED BY <1>3, <2>1, <2>2 DEF ValueMoved, Tables
<1>4. CASE tx.kind # "deploy"
  BY <1>2, <1>4 DEF ValueMoved, Tables
<1> QED BY <1>3, <1>4

LEMMA FeePaidType ==
    ASSUME NEW t \in Tables, NEW tx \in Transactions, NEW m \in Accounts
    PROVE  FeePaid(t, tx, m) \in Tables
<1>1. Fee \in Nat /\ Fee - Burn \in Nat /\ Burn \in Nat
  BY AmountAssumption
<1> DEFINE b1 == Debit(t.bal, tx.from, Fee)
           b2 == Credit(b1, m, Fee - Burn)
<1>2. b1 \in [Accounts -> Nat]
  BY <1>1, DebitType DEF Tables, Transactions
<1>3. b2 \in [Accounts -> Nat]
  <2> HIDE DEF b1
  <2> QED BY <1>1, <1>2, CreditType
<1>4. Credit(b2, BurnAcct, Burn) \in [Accounts -> Nat]
  <2> HIDE DEF b2
  <2> QED BY <1>1, <1>3, CreditType, AccountAssumption
<1>5. [t.nonce EXCEPT ![tx.from] = @ + 1] \in [Accounts -> Nat]
  BY DEF Tables, Transactions
<1> QED BY <1>4, <1>5 DEF FeePaid, Tables

LEMMA AppliedType ==
    ASSUME NEW t \in Tables, NEW tx \in Transactions, NEW m \in Accounts
    PROVE  Applied(t, tx, m) \in Tables
BY ValueMovedType, FeePaidType DEF Applied

LEMMA AppliedNonce ==
    ASSUME NEW t \in Tables, NEW tx \in Transactions, NEW m \in Accounts, tx.kind # "deploy"
    PROVE  Applied(t, tx, m).nonce = [t.nonce EXCEPT ![tx.from] = @ + 1]
BY ValueMovedType DEF Applied, FeePaid

LEMMA InnerCommitType ==
    ASSUME NEW t \in Tables, NEW tx \in Transactions, NEW m \in Accounts
    PROVE  InnerCommit(t, tx, m) \in Tables
BY ValueMovedType, AppliedType DEF InnerCommit

LEMMA MintedType == ASSUME NEW t PROVE Minted(t) \in Nat
<1> DEFINE S == {r \in 1..BlockReward : Supply(t.bal) + r <= MaxSupply}
<1>1. IsFiniteSet(1..BlockReward)
  BY AmountAssumption, FS_Interval
<1>2. IsFiniteSet(S)
  BY <1>1, FS_Subset
<1> QED BY <1>2, FS_CardinalityType DEF Minted

LEMMA RewardedType ==
    ASSUME NEW t \in Tables, NEW m \in Accounts
    PROVE  Rewarded(t, m) \in Tables /\ Rewarded(t, m).nonce = t.nonce
<1>1. Credit(t.bal, m, Minted(t)) \in [Accounts -> Nat]
  BY MintedType, CreditType DEF Tables
<1> QED BY <1>1 DEF Rewarded, Tables

LEMMA BurnRecordedType ==
    ASSUME NEW t \in Tables, NEW s \in Seq(Txs)
    PROVE  BurnRecorded(t, s) \in Tables /\ BurnRecorded(t, s).nonce = t.nonce
<1>1. Burned(s) \in Nat
  BY AmountAssumption DEF Burned
<1>2. Credit(t.bal, BurnAcct, Burned(s)) \in [Accounts -> Nat]
  BY <1>1, CreditType, AccountAssumption DEF Tables
<1> QED BY <1>2 DEF BurnRecorded, Tables

LEMMA FounderSyncedType ==
    ASSUME NEW t \in Tables
    PROVE  FounderSynced(t) \in Tables /\ FounderSynced(t).nonce = t.nonce
BY AccountAssumption DEF FounderSynced, Tables

LEMMA GenesisAllocatedType ==
    ASSUME NEW t \in Tables
    PROVE  GenesisAllocated(t) \in Tables /\ GenesisAllocated(t).nonce = t.nonce
BY AccountAssumption DEF GenesisAllocated, Tables

-----------------------------------------------------------------------------
(* Types of blocks, transactions and finality *)

LEMMA TxTyped == ASSUME NEW s \in Seq(Txs), NEW i \in 1..Len(s)
                 PROVE  s[i] \in Transactions /\ s[i].from \in Accounts
BY LedgerAssumption DEF Transactions

LEMMA NoBlockType ==
    /\ NoBlock \in Blocks /\ NoBlock.txs = <<>> /\ NoBlock.height = 0
    /\ NoBlock = GenesisBlock(NoBlock.hash)
BY AccountAssumption DEF NoBlock, GenesisBlock, Blocks

LEMMA GenesisBlockType ==
    ASSUME NEW h \in Nat
    PROVE  /\ GenesisBlock(h) \in Blocks /\ GenesisBlock(h).height = 0
           /\ GenesisBlock(h).txs = <<>> /\ GenesisBlock(h).hash = h
           /\ GenesisBlock(h).miner = GenesisAcct /\ GenesisBlock(h).root = LegacyRoot
BY AccountAssumption DEF GenesisBlock, Blocks

LEMMA BlockFields ==
    ASSUME NEW b \in Blocks
    PROVE  /\ b.hash \in Nat /\ b.parent \in Nat /\ b.height \in Nat
           /\ b.miner \in Accounts /\ b.txs \in Seq(Txs)
BY DEF Blocks

LEMMA TipType ==
    ASSUME chain \in Seq(Blocks), chain # <<>>
    PROVE  Tip \in Blocks /\ Len(chain) \in Nat /\ Len(chain) >= 1
<1>1. Len(chain) \in Nat /\ Len(chain) >= 1
  OBVIOUS
<1> QED BY <1>1 DEF Tip

LEMMA EpochType == ASSUME NEW n \in Nat PROVE Epoch(n) \in Nat
BY EpochAssumption DEF Epoch

LEMMA ProcessBlockType ==
    ASSUME NEW f, FinTypeOK(f), NEW n \in Nat, NEW h \in Nat, NEW v \in Accounts
    PROVE  FinTypeOK(ProcessBlock(f, n, h, v))
<1> DEFINE e == Epoch(n)
           g == CreateCheckpoint(f, n, h)
           a == AddAttestation(g, v, e, h)
<1>1. e \in Nat
  BY EpochType
<1>2. FinTypeOK(g)
  <2>1. [epoch |-> e, hash |-> h, number |-> n] \in [epoch: Nat, hash: Nat, number: Nat]
    BY <1>1
  <2> QED BY <2>1 DEF CreateCheckpoint, FinTypeOK
<1>3. FinTypeOK(a)
  <2> HIDE DEF g, e
  <2>1. <<e, v>> \in Nat \X Accounts
    BY <1>1
  <2> QED BY <2>1, <1>1, <1>2 DEF AddAttestation, FinTypeOK
<1>4. FinTypeOK(FinalizeUpTo(a, e))
  <2> HIDE DEF a, e
  <2> DEFINE K == {k \in a.just : k \in a.cur..e /\ k - 1 \in a.just}
  <2>1. K \subseteq Nat
    BY <1>3 DEF FinTypeOK
  <2>2. FinalizeUpTo(a, e) = [a EXCEPT !.final = @ \cup K, !.cur = e]
    BY DEF FinalizeUpTo
  <2> HIDE DEF K
  <2> QED BY <1>1, <1>3, <2>1, <2>2 DEF FinTypeOK
<1> QED BY <1>4 DEF ProcessBlock

LEMMA ActiveCountType == ActiveCount \in Nat
<1>1. IsFiniteSet(Validators \ dbSlashed)
  BY LedgerAssumption, FS_Subset
<1> QED BY <1>1, FS_CardinalityType DEF ActiveCount

LEMMA NoFinalityType == ASSUME NEW n \in Nat PROVE FinTypeOK(NoFinality(n))
BY DEF NoFinality, FinTypeOK

-----------------------------------------------------------------------------
(* Type correctness, and the shape of the operation that holds the lock *)

IInv == TypeOK /\ Shape /\ KnownBlocks

LEMMA InitIInv == Init => IInv
<1> SUFFICES ASSUME Init PROVE IInv
  OBVIOUS
<1>1. TypeOK
  <2>1. accts \in Tables /\ work \in Tables
    BY GenesisTableType DEF Init
  <2>2. GenesisBlock(1) \in Blocks /\ GenesisBlock(2) \in Blocks
    BY GenesisBlockType
  <2>3. chain \in Seq(Blocks) /\ known \subseteq Blocks
    BY <2>2 DEF Init
  <2>4. FinTypeOK(fin)
    BY ActiveCountType, NoFinalityType DEF Init
  <2>5. asked \in Int
    BY DEF Init
  <2>6. proposals \subseteq Nat \X Accounts /\ dbSlashed \subseteq Validators /\ slashed \subseteq Accounts
    BY DEF Init
  <2>7. op \in Ops /\ pos \in Nat /\ rh \in Nat /\ cut \in Int /\ baseline \in Nat /\ nextHash \in Nat
    BY DEF Init, Ops
  <2> QED BY <2>1, <2>3, <2>4, <2>5, <2>6, <2>7, NoBlockType DEF Init, TypeOK
<1>2. Shape
  BY DEF Init, Shape, NonEmpty, ExecutingExtends, Executing, ReplayInside
<1>3. KnownBlocks
  BY NoBlockType, GenesisBlockType DEF Init, KnownBlocks
<1> QED BY <1>1, <1>2, <1>3 DEF IInv

\* Rolling back leaves the tables as the last commit left them.
LEMMA RollbackIInv ==
    ASSUME IInv, Rollback, UNCHANGED <<loop, memory, net>>, chain # <<>>
    PROVE  IInv'
<1>1. TypeOK'
  BY NoBlockType DEF IInv, Rollback, Idle, disk, loop, memory, net, TypeOK, Ops
<1>2. Shape'
  BY DEF IInv, Rollback, Idle, disk, Shape, NonEmpty, ExecutingExtends, Executing, ReplayInside
<1>3. KnownBlocks'
  BY NoBlockType DEF IInv, KnownBlocks, Rollback, Idle, disk, loop, net
<1> QED BY <1>1, <1>2, <1>3 DEF IInv

LEMMA CreateBlockIInv ==
    ASSUME IInv, NEW s \in TxSeqs, CreateBlock(s)
    PROVE  IInv'
<1> USE DEF disk, job, memory, net
<1>1. s \in Seq(Txs)
  BY LedgerAssumption DEF TxSeqs
<1>2. chain # <<>> /\ Tip.hash \in Nat
  <2>1. chain # <<>>
    BY DEF IInv, CreateBlock, Shape, NonEmpty
  <2> QED BY <2>1, TipType, BlockFields DEF IInv, TypeOK
<1>3. draft' \in Blocks
  BY <1>1, <1>2, LedgerAssumption DEF CreateBlock, Blocks, IInv, TypeOK
<1>4. TypeOK'
  BY <1>3 DEF CreateBlock, IInv, TypeOK
<1>5. Shape'
  BY DEF CreateBlock, IInv, Shape, NonEmpty, ExecutingExtends, Executing, Tip, ReplayInside, Height
<1>6. KnownBlocks'
  BY <1>2, TipType DEF CreateBlock, IInv, TypeOK, KnownBlocks
<1> QED BY <1>4, <1>5, <1>6 DEF IInv

LEMMA AddDraftIInv == ASSUME IInv, AddDraft PROVE IInv'
<1> USE DEF disk, job, memory, net
<1>1. chain # <<>> 
  BY DEF IInv, AddDraft, Shape, NonEmpty
<1>2. TypeOK'
  BY NoBlockType DEF AddDraft, Begin, IInv, TypeOK, Ops
<1>3. Shape'
  BY <1>1, BlockFields DEF AddDraft, Begin, Acceptable, Extends, IInv, TypeOK,
     Shape, NonEmpty, ExecutingExtends, Executing, Tip, ReplayInside, Height
<1>4. KnownBlocks'
  BY NoBlockType DEF AddDraft, Begin, IInv, KnownBlocks
<1> QED BY <1>2, <1>3, <1>4 DEF IInv

LEMMA ImportBlockIInv == ASSUME IInv, NEW b \in known, ImportBlock(b) PROVE IInv'
<1> USE DEF disk, loop, memory, net
<1>1. chain # <<>> /\ b \in Blocks
  BY DEF IInv, ImportBlock, Shape, NonEmpty, TypeOK
<1>2. TypeOK'
  BY <1>1 DEF ImportBlock, Begin, IInv, TypeOK, Ops
<1>3. Shape'
  BY <1>1, BlockFields DEF ImportBlock, Begin, Acceptable, Extends, IInv, TypeOK,
     Shape, NonEmpty, ExecutingExtends, Executing, Tip, ReplayInside, Height
<1>4. KnownBlocks'
  BY DEF ImportBlock, Begin, IInv, KnownBlocks
<1> QED BY <1>2, <1>3, <1>4 DEF IInv

LEMMA AskBlocksIInv == ASSUME IInv, AskBlocks PROVE IInv'
<1> USE DEF disk, job, memory, net
<1>1. TypeOK'
  BY DEF AskBlocks, IInv, TypeOK
<1>2. Shape'
  BY DEF AskBlocks, IInv, Shape, NonEmpty, ExecutingExtends, Executing, ReplayInside
<1>3. KnownBlocks'
  BY DEF AskBlocks, IInv, KnownBlocks
<1> QED BY <1>1, <1>2, <1>3 DEF IInv

LEMMA ImportGenesisIInv == ASSUME IInv, NEW b \in known, ImportGenesis(b) PROVE IInv'
<1> USE DEF memory, net
<1>1. b \in Blocks
  BY DEF IInv, TypeOK
<1>2. TypeOK'
  <2>1. chain' \in Seq(Blocks)
    BY DEF ImportGenesis
  <2>2. asked' \in Int
    BY DEF ImportGenesis
  <2> QED BY <1>1, <2>1, <2>2 DEF ImportGenesis, Begin, IInv, TypeOK, Ops
<1>3. Shape'
  BY <1>1, BlockFields DEF ImportGenesis, Begin, Foreign,
     Shape, NonEmpty, ExecutingExtends, Executing, ReplayInside
<1>4. KnownBlocks'
  BY DEF ImportGenesis, Begin, IInv, KnownBlocks
<1> QED BY <1>2, <1>3, <1>4 DEF IInv

\* A block that has transactions, a root or a miner that can be punished is not
\* a genesis, so there is a chain below it.
LEMMA ExecutingNotGenesis ==
    ASSUME IInv, Executing,
           blk.txs # <<>> \/ blk.root # LegacyRoot \/ blk.miner # GenesisAcct \/ op = "own"
    PROVE  chain # <<>> /\ blk.height > 0
<1>1. CASE op = "own"
  BY <1>1, TipType DEF IInv, Executing, Shape, NonEmpty, ExecutingExtends, TypeOK
<1>2. CASE op # "own"
  <2>1. blk \in Blocks /\ blk.height \in Nat
    BY BlockFields DEF IInv, TypeOK
  <2>2. blk.height # 0
    BY <1>2, <2>1, GenesisBlockType, BlockFields DEF IInv, KnownBlocks
  <2>3. blk.height = Len(chain)
    BY DEF IInv, Shape, ExecutingExtends
  <2> QED BY <2>1, <2>2, <2>3
<1> QED BY <1>1, <1>2

LEMMA ApplyTxIInv == ASSUME IInv, ApplyTx PROVE IInv'
<1> DEFINE tx == blk.txs[pos + 1]
<1>1. /\ blk.txs \in Seq(Txs) /\ blk.miner \in Accounts /\ pos \in Nat /\ pos < Len(blk.txs)
      /\ pos + 1 \in 1..Len(blk.txs) /\ work \in Tables
  BY BlockFields DEF IInv, TypeOK, ApplyTx
<1>2. tx \in Transactions
  BY <1>1, TxTyped
<1>3. chain # <<>>
  BY <1>1, ExecutingNotGenesis DEF ApplyTx
<1>4. CASE ~Executable(work, tx) /\ Rollback
  BY <1>3, <1>4, RollbackIInv DEF ApplyTx
<1>5. CASE /\ work' = Applied(work, tx, blk.miner) /\ pos' = pos + 1
           /\ accts' = IF CommitsInside(tx) THEN InnerCommit(work, tx, blk.miner) ELSE accts
           /\ UNCHANGED <<chain, dbSlashed, op, blk, rh, cut>>
  <2> USE DEF loop, memory, net
  <2>1. work' \in Tables /\ accts' \in Tables
    BY <1>1, <1>2, <1>5, AppliedType, InnerCommitType DEF IInv, TypeOK
  <2>2. TypeOK'
    BY <1>1, <1>5, <2>1 DEF ApplyTx, IInv, TypeOK
  <2>3. Shape'
    BY <1>1, <1>5 DEF ApplyTx, IInv, Shape, NonEmpty, ExecutingExtends, Executing, Tip, ReplayInside
  <2>4. KnownBlocks'
    BY <1>5 DEF ApplyTx, IInv, KnownBlocks
  <2> QED BY <2>2, <2>3, <2>4 DEF IInv
<1> QED BY <1>4, <1>5 DEF ApplyTx

LEMMA RefuseBlockIInv == ASSUME IInv, RefuseBlock PROVE IInv'
BY ExecutingNotGenesis, RollbackIInv DEF RefuseBlock, RootRefused

LEMMA ExecutedType == ASSUME IInv PROVE Executed \in Tables /\ Executed.nonce = work.nonce
BY RewardedType, BlockFields DEF IInv, TypeOK, Executed

LEMMA SlashProposerIInv == ASSUME IInv, SlashProposer PROVE IInv'
<1> USE DEF loop, net
<1>1. accts' \in Tables /\ work' \in Tables
  BY ExecutedType DEF SlashProposer
<1>2. chain # <<>>
  BY ExecutingNotGenesis DEF SlashProposer, DoubleProposal
<1>3. TypeOK'
  BY <1>1, NoBlockType, BlockFields DEF SlashProposer, Idle, IInv, TypeOK, Ops
<1>4. Shape'
  BY <1>2 DEF SlashProposer, Idle, Shape, NonEmpty, ExecutingExtends, Executing, ReplayInside
<1>5. KnownBlocks'
  BY NoBlockType DEF SlashProposer, Idle, IInv, KnownBlocks
<1> QED BY <1>3, <1>4, <1>5 DEF IInv

LEMMA SealedType ==
    ASSUME IInv, Executing
    PROVE  /\ Sealed \in Blocks
           /\ Sealed.txs = blk.txs /\ Sealed.height = blk.height /\ Sealed.parent = blk.parent
           /\ Sealed.root \in Tables
BY ExecutedType DEF IInv, TypeOK, Sealed, Blocks

LEMMA PersistBlockIInv == ASSUME IInv, PersistBlock PROVE IInv'
<1> USE DEF loop, net
<1>1. /\ blk.txs \in Seq(Txs) /\ blk.miner \in Accounts /\ blk.height \in Nat
      /\ Sealed \in Blocks /\ Sealed.hash \in Nat
      /\ Sealed.txs = blk.txs /\ Sealed.height = blk.height
  BY BlockFields, SealedType DEF IInv, TypeOK, PersistBlock
<1>2. accts' \in Tables /\ work' \in Tables
  BY <1>1, ExecutedType, BurnRecordedType DEF PersistBlock
<1>3. chain' \in Seq(Blocks) /\ chain' # <<>> /\ Len(chain') = Len(chain) + 1
  BY <1>1 DEF PersistBlock, IInv, TypeOK
<1>4. FinTypeOK(fin')
  BY <1>1, ProcessBlockType DEF PersistBlock, IInv, TypeOK
<1>5. known' \subseteq Blocks /\ nextHash' \in Nat /\ proposals' \subseteq Nat \X Accounts
  BY <1>1 DEF PersistBlock, IInv, TypeOK
<1>6. TypeOK'
  BY <1>2, <1>3, <1>4, <1>5, NoBlockType DEF PersistBlock, Idle, IInv, TypeOK, Ops
<1>7. Shape'
  BY <1>3 DEF PersistBlock, Idle, Shape, NonEmpty, ExecutingExtends, Executing, ReplayInside
<1>8. KnownBlocks'
  <2>1. op = "own" => Sealed.height > 0
    BY <1>1, ExecutingNotGenesis DEF PersistBlock
  <2>2. \A b \in known' : b.height = 0 => b = GenesisBlock(b.hash) /\ b.hash > 0
    BY <1>1, <2>1 DEF PersistBlock, IInv, KnownBlocks
  <2>3. blk.height = 0 => blk.txs = <<>>
    BY GenesisBlockType, BlockFields DEF IInv, TypeOK, KnownBlocks
  <2>4. \A i \in 1..Len(chain') : chain'[i].height = 0 => chain'[i].txs = <<>>
    BY <1>1, <1>3, <2>3 DEF PersistBlock, IInv, TypeOK, KnownBlocks
  <2>5. nextHash' > 0
    BY DEF PersistBlock, IInv, TypeOK, KnownBlocks
  <2>6. \A b \in known' : b.height > 0 => b.root \in Tables
    BY <1>1, SealedType DEF PersistBlock, IInv, KnownBlocks
  <2> QED BY <2>2, <2>4, <2>5, <2>6, NoBlockType DEF PersistBlock, Idle, IInv, KnownBlocks
<1> QED BY <1>6, <1>7, <1>8 DEF IInv

LEMMA WantedIInv == ASSUME IInv, ForkLeft \/ \E b \in known : NoticeFork(b) PROVE IInv'
<1> USE DEF disk, job, memory, net
<1>1. TypeOK'
  BY NoBlockType DEF ForkLeft, NoticeFork, IInv, TypeOK
<1>2. Shape'
  BY DEF ForkLeft, NoticeFork, IInv, Shape, NonEmpty, ExecutingExtends, ReplayInside, Executing, Tip, Height
<1>3. KnownBlocks'
  BY DEF ForkLeft, NoticeFork, IInv, KnownBlocks
<1> QED BY <1>1, <1>2, <1>3 DEF IInv

LEMMA ReorgIInv == ASSUME IInv, Reorg PROVE IInv'
<1> USE DEF disk, memory, net
<1> DEFINE b == wanted
<1>1. b \in known /\ b \in Blocks /\ b.height \in Nat
  BY BlockFields DEF IInv, TypeOK, KnownBlocks, Reorg
<1>2. chain # <<>> /\ Len(chain) \in Nat /\ Len(chain) >= 1
  BY TipType DEF IInv, TypeOK, Shape, NonEmpty, Reorg
<1>3. TypeOK'
  BY <1>1, GenesisTableType, NoBlockType DEF Reorg, BeginReplay, IInv, TypeOK, Ops
<1>4. Shape'
  <2>1. b # NoBlock
    BY DEF Reorg
  <2>2. NonEmpty' /\ ExecutingExtends'
    BY <1>2 DEF Reorg, BeginReplay, NonEmpty, ExecutingExtends, Executing
  <2>3. /\ op' = "replay" /\ cut' = b.height - 1 /\ rh' = 1 /\ pos' = 0 /\ blk' = b
        /\ chain' = chain /\ b.height <= Len(chain)
        /\ b.height > 0 => b.parent = chain[b.height].hash
    BY <1>1, <1>2 DEF Reorg, BeginReplay, Height
  <2>4. rh' <= cut' => 0 <= Len(chain'[rh' + 1].txs)
    BY <1>1, <1>2, <2>3, BlockFields DEF IInv, TypeOK
  <2>5. ReplayInside'
    BY <1>1, <1>2, <2>1, <2>3, <2>4 DEF ReplayInside, Height
  <2> QED BY <2>2, <2>5 DEF Shape
<1>5. KnownBlocks'
  BY <1>1 DEF Reorg, BeginReplay, IInv, KnownBlocks
<1> QED BY <1>3, <1>4, <1>5 DEF IInv

LEMMA SyncReorgIInv == ASSUME IInv, NEW b \in known, SyncReorg(b) PROVE IInv'
<1> USE DEF disk, loop, memory, net
<1>1. b.height \in Nat
  BY BlockFields DEF IInv, TypeOK
<1>2. chain # <<>> /\ Len(chain) \in Nat /\ Len(chain) >= 1
  BY TipType DEF IInv, TypeOK, Shape, NonEmpty, SyncReorg
<1>3. /\ op' = "replay" /\ rh' = 1 /\ pos' = 0 /\ blk' = NoBlock /\ chain' = chain
      /\ cut' \in Int /\ cut' >= 0 /\ cut' <= Height
  BY <1>1, <1>2 DEF SyncReorg, BeginReplay, Ancestor, Height, IInv, TypeOK
<1>4. TypeOK'
  BY <1>3, GenesisTableType, NoBlockType DEF SyncReorg, BeginReplay, IInv, TypeOK, Ops
<1>5. rh' <= cut' => 0 <= Len(chain'[rh' + 1].txs)
  BY <1>2, <1>3, BlockFields DEF IInv, TypeOK, Height
<1>6. Shape'
  BY <1>2, <1>3, <1>5 DEF Shape, NonEmpty, ExecutingExtends, Executing, ReplayInside, Height
<1>7. KnownBlocks'
  BY NoBlockType DEF SyncReorg, BeginReplay, IInv, KnownBlocks
<1> QED BY <1>4, <1>6, <1>7 DEF IInv

LEMMA EnsureStateAtTipIInv == ASSUME IInv, EnsureStateAtTip PROVE IInv'
<1> USE DEF disk, loop, memory, net
<1>1. chain # <<>> /\ Len(chain) \in Nat /\ Len(chain) >= 1
  BY TipType DEF IInv, TypeOK, Shape, NonEmpty, EnsureStateAtTip
<1>2. TypeOK'
  BY <1>1, GenesisTableType, NoBlockType DEF EnsureStateAtTip, BeginReplay, Idle, Height, IInv, TypeOK, Ops
<1>3. Shape'
  BY <1>1 DEF EnsureStateAtTip, BeginReplay, Idle, Height, IInv, Shape, NonEmpty, ExecutingExtends,
     Executing, ReplayInside
<1>4. KnownBlocks'
  BY NoBlockType DEF EnsureStateAtTip, BeginReplay, Idle, IInv, KnownBlocks
<1> QED BY <1>2, <1>3, <1>4 DEF IInv

\* Deleting the blocks above the ancestor leaves the others as they are.
LEMMA ShortenedType ==
    ASSUME IInv, op = "replay"
    PROVE  /\ Shortened \in Seq(Blocks) /\ Len(Shortened) = cut + 1
           /\ cut + 1 \in Nat /\ cut + 1 <= Len(chain)
           /\ \A i \in 1..(cut + 1) : Shortened[i] = chain[i]
<1>1. /\ chain \in Seq(Blocks) /\ cut \in Int /\ -1 <= cut /\ cut <= Len(chain) - 1
      /\ Len(chain) \in Nat
  BY DEF IInv, TypeOK, Shape, ReplayInside, Height
<1>2. cut + 1 \in Nat /\ cut + 1 <= Len(chain)
  BY <1>1
<1>3. \A i \in 1..(cut + 1) : chain[i] \in Blocks
  BY <1>1, <1>2
<1> QED BY <1>1, <1>2, <1>3 DEF Shortened

\* The block a replay is at is one of the chain.
LEMMA ReplayBlock ==
    ASSUME IInv, op = "replay", rh <= cut
    PROVE  /\ rh + 1 \in 1..Len(chain) /\ chain[rh + 1] \in Blocks
           /\ chain[rh + 1].txs \in Seq(Txs) /\ chain[rh + 1].miner \in Accounts
           /\ pos \in Nat /\ pos <= Len(chain[rh + 1].txs) /\ rh \in Nat /\ rh >= 1
           /\ cut \in Nat
<1>1. rh + 1 \in 1..Len(chain) /\ rh \in Nat /\ rh >= 1 /\ pos \in Nat /\ cut \in Nat
  BY DEF IInv, TypeOK, Shape, ReplayInside, Height
<1>2. chain[rh + 1] \in Blocks
  BY <1>1 DEF IInv, TypeOK
<1> QED BY <1>1, <1>2, BlockFields DEF IInv, Shape, ReplayInside

LEMMA ReplayTxIInv == ASSUME IInv, ReplayTx PROVE IInv'
<1> DEFINE b == chain[rh + 1]
           tx == b.txs[pos + 1]
<1>0. op = "replay" /\ rh <= cut /\ pos < Len(b.txs)
  BY DEF ReplayTx
<1>1. /\ rh + 1 \in 1..Len(chain) /\ b \in Blocks
      /\ b.txs \in Seq(Txs) /\ b.miner \in Accounts
      /\ pos \in Nat /\ rh \in Nat /\ rh >= 1 /\ cut \in Nat
      /\ pos + 1 \in 1..Len(b.txs) /\ work \in Tables
  BY <1>0, ReplayBlock DEF IInv, TypeOK
<1>2. tx \in Transactions
  BY <1>1, TxTyped
<1>3. chain # <<>>
  BY <1>1
<1>4. CASE ~Executable(work, tx) /\ Rollback
  BY <1>3, <1>4, RollbackIInv DEF ReplayTx
<1>5. CASE /\ work' = Applied(work, tx, b.miner) /\ pos' = pos + 1
           /\ IF CommitsInside(tx)
              THEN accts' = InnerCommit(work, tx, b.miner) /\ chain' = Shortened
              ELSE UNCHANGED <<accts, chain>>
           /\ UNCHANGED <<dbSlashed, op, blk, rh, cut>>
  <2> USE DEF loop, memory, net
  <2>1. work' \in Tables /\ accts' \in Tables
    BY <1>1, <1>2, <1>5, AppliedType, InnerCommitType DEF IInv, TypeOK
  <2>2. /\ chain' \in Seq(Blocks) /\ Len(chain') >= cut + 1 /\ Len(chain') \in Nat
        /\ Len(chain') <= Len(chain)
        /\ \A i \in 1..(cut + 1) : chain'[i] = chain[i]
        /\ \A i \in 1..Len(chain') : chain'[i] = chain[i]
    BY <1>0, <1>5, ShortenedType DEF IInv, TypeOK
  <2>3. TypeOK'
    BY <1>1, <1>5, <2>1, <2>2 DEF ReplayTx, IInv, TypeOK
  <2>4. chain'[rh + 1] = b /\ chain'[cut + 1] = chain[cut + 1] /\ chain' # <<>>
    BY <1>0, <1>1, <2>2
  <2>5. NonEmpty' /\ ExecutingExtends'
    BY <1>0, <1>5, <2>4 DEF NonEmpty, ExecutingExtends, Executing
  <2>6. ReplayInside'
    <3>1. -1 <= cut /\ cut <= Len(chain') - 1 /\ 1 <= rh
      BY <1>1, <2>2
    <3>2. pos' <= Len(chain'[rh + 1].txs)
      BY <1>1, <1>5, <2>4
    <3> HIDE DEF b, tx
    <3> QED BY <1>0, <1>1, <1>5, <2>4, <3>1, <3>2 DEF ReplayInside, Height, IInv, Shape
  <2>7. KnownBlocks'
    BY <1>1, <1>5, <2>2 DEF ReplayTx, IInv, KnownBlocks
  <2> QED BY <2>3, <2>5, <2>6, <2>7 DEF IInv, Shape
<1> QED BY <1>4, <1>5 DEF ReplayTx

LEMMA ReplayRewardIInv == ASSUME IInv, ReplayReward PROVE IInv'
<1> USE DEF disk, loop, memory, net
<1>1. /\ rh + 1 \in 1..Len(chain) /\ chain[rh + 1].miner \in Accounts
      /\ rh \in Nat /\ rh >= 1 /\ cut \in Nat /\ cut <= Height
      /\ op = "replay"
  BY ReplayBlock DEF ReplayReward, IInv, Shape, ReplayInside
<1>2. work' \in Tables
  BY <1>1, RewardedType DEF ReplayReward, IInv, TypeOK
<1>3. TypeOK'
  BY <1>1, <1>2 DEF ReplayReward, IInv, TypeOK
<1>4. Shape'
  <2>1. rh' <= cut => chain[rh' + 1] \in Blocks /\ Len(chain[rh' + 1].txs) \in Nat
    BY <1>1, BlockFields DEF ReplayReward, IInv, TypeOK, Height
  <2> QED BY <1>1, <2>1 DEF ReplayReward, IInv, Shape, NonEmpty, ExecutingExtends, Executing,
     ReplayInside, Height
<1>5. KnownBlocks'
  BY DEF ReplayReward, IInv, KnownBlocks
<1> QED BY <1>3, <1>4, <1>5 DEF IInv

LEMMA FinishReplayIInv == ASSUME IInv, FinishReplay PROVE IInv'
<1> USE DEF loop, memory, net
<1>0. op = "replay"
  BY DEF FinishReplay
<1>1. CASE ~RootReproduced /\ Rollback
  BY <1>0, <1>1, RollbackIInv DEF FinishReplay, IInv, Shape, NonEmpty
<1>2. CASE /\ chain' = Shortened /\ accts' = work
           /\ IF blk # NoBlock /\ ProposerAllowed(blk.miner)
              THEN op' = "peer" /\ pos' = 0 /\ rh' = 0 /\ cut' = 0 /\ UNCHANGED blk
              ELSE Idle
           /\ UNCHANGED <<work, dbSlashed>>
  <2>1. /\ chain' \in Seq(Blocks) /\ Len(chain') = cut + 1 /\ cut + 1 \in Nat /\ cut \in Int
        /\ \A i \in 1..(cut + 1) : chain'[i] = chain[i]
    BY <1>0, <1>2, ShortenedType DEF IInv, TypeOK
  <2>2. TypeOK'
    BY <1>2, <2>1, NoBlockType DEF FinishReplay, Idle, IInv, TypeOK, Ops
  <2>3. cut < 0 => blk # NoBlock /\ ProposerAllowed(blk.miner)
    <3>1. cut < 0 => blk # NoBlock /\ blk.height = 0
      BY <1>0, <2>1 DEF IInv, Shape, ReplayInside
    <3>2. blk.height = 0 => blk.miner = GenesisAcct
      BY GenesisBlockType, BlockFields DEF IInv, TypeOK, KnownBlocks
    <3> QED BY <3>1, <3>2 DEF ProposerAllowed
  <2>4. ASSUME blk # NoBlock, ProposerAllowed(blk.miner) PROVE Shape'
    <3>1. /\ op' = "peer" /\ pos' = 0 /\ blk' = blk /\ blk.height = cut + 1
          /\ cut >= 0 => blk.parent = chain[cut + 1].hash
      BY <1>0, <1>2, <2>4 DEF IInv, Shape, ReplayInside
    <3>2. Len(blk.txs) \in Nat
      BY BlockFields DEF IInv, TypeOK
    <3>3. chain' # <<>> => cut >= 0 /\ cut + 1 \in 1..(cut + 1)
      BY <2>1
    <3> QED BY <2>1, <3>1, <3>2, <3>3 DEF Shape, NonEmpty, ExecutingExtends, Executing, ReplayInside, Tip
  <2>5. ASSUME ~(blk # NoBlock /\ ProposerAllowed(blk.miner)) PROVE Shape'
    <3>1. Len(chain') > 0 /\ op' = "idle"
      BY <1>2, <2>1, <2>3, <2>5 DEF Idle
    <3> QED BY <2>1, <3>1 DEF Shape, NonEmpty, ExecutingExtends, Executing, ReplayInside
  <2>6. KnownBlocks'
    <3>1. \A i \in 1..Len(chain') : i \in 1..Len(chain) /\ chain'[i] = chain[i]
      BY <1>0, <1>2, <2>1, ShortenedType DEF IInv, TypeOK
    <3> QED BY <1>2, <3>1, NoBlockType DEF FinishReplay, Idle, IInv, KnownBlocks
  <2>7. Shape'
    BY <2>4, <2>5
  <2> QED BY <2>2, <2>6, <2>7 DEF IInv
<1> QED BY <1>1, <1>2 DEF FinishReplay

LEMMA SyncDoneIInv == ASSUME IInv, SyncDone PROVE IInv'
<1> USE DEF disk, job, loop, net
<1>1. baseline' \in Nat
  BY TipType DEF SyncDone, IInv, TypeOK, Shape, NonEmpty, Height
<1>2. TypeOK'
  BY <1>1 DEF SyncDone, IInv, TypeOK
<1>3. Shape'
  BY DEF SyncDone, IInv, Shape, NonEmpty, ExecutingExtends, Executing, ReplayInside
<1>4. KnownBlocks'
  BY DEF SyncDone, IInv, KnownBlocks
<1> QED BY <1>2, <1>3, <1>4 DEF IInv

LEMMA CrashIInv == ASSUME IInv, Crash PROVE IInv'
<1> USE DEF disk, net
<1>1. FinTypeOK(fin')
  BY ActiveCountType, NoFinalityType DEF Crash
<1>2. asked' \in Int
  BY DEF Crash
<1>3. TypeOK'
  BY <1>1, <1>2, NoBlockType DEF Crash, IInv, TypeOK, Ops
<1>4. Shape'
  BY DEF Crash, Shape, NonEmpty, ExecutingExtends, Executing, ReplayInside
<1>5. KnownBlocks'
  BY NoBlockType DEF Crash, IInv, KnownBlocks
<1> QED BY <1>3, <1>4, <1>5 DEF IInv

LEMMA RestartIInv == ASSUME IInv, Restart PROVE IInv'
<1> USE DEF net, loop
<1>1. accts' \in Tables
  BY FounderSyncedType, GenesisAllocatedType DEF Restart, IInv, TypeOK
<1>2. GenesisBlock(nextHash) \in Blocks /\ nextHash \in Nat /\ nextHash > 0
  BY GenesisBlockType DEF IInv, TypeOK, KnownBlocks
<1>3. chain' \in Seq(Blocks) /\ chain' # <<>> /\ Len(chain') - 1 \in Nat
  <2>1. (chain' = chain /\ chain # <<>>) \/ chain' = <<GenesisBlock(nextHash)>>
    BY DEF Restart
  <2>2. CASE chain' = chain /\ chain # <<>>
    BY <2>2, TipType DEF IInv, TypeOK
  <2>3. CASE chain' = <<GenesisBlock(nextHash)>>
    BY <1>2, <2>3
  <2> QED BY <2>1, <2>2, <2>3
<1>4. known' \subseteq Blocks /\ nextHash' \in Nat /\ nextHash' > 0
  BY <1>2 DEF Restart, IInv, TypeOK
<1>5. TypeOK'
  BY <1>1, <1>3, <1>4 DEF Restart, IInv, TypeOK, Ops
<1>6. Shape'
  BY <1>3 DEF Restart, Shape, NonEmpty, ExecutingExtends, Executing, ReplayInside
<1>7. KnownBlocks'
  BY <1>2, <1>4, GenesisBlockType DEF Restart, IInv, KnownBlocks
<1> QED BY <1>5, <1>6, <1>7 DEF IInv

\* What a peer can have as its table, and so the root of what it seals, is a table.
LEMMA PeerTablesType ==
    ASSUME IInv, NEW p \in known
    PROVE  PeerTables(p) \subseteq Tables
<1>1. p \in Blocks /\ p.height \in Nat /\ p.txs \in Seq(Txs)
  BY BlockFields DEF IInv, TypeOK
<1>2. CASE p.height = 0
  BY <1>2, GenesisTableType, RewardedType, AccountAssumption DEF PeerTables
<1>3. CASE p.height # 0
  <2>1. p.root \in Tables
    BY <1>1, <1>3 DEF IInv, KnownBlocks
  <2> QED BY <1>1, <1>3, <2>1, BurnRecordedType DEF PeerTables
<1> QED BY <1>2, <1>3

LEMMA PeerSealsIInv ==
    ASSUME IInv, NEW p \in known, NEW m \in Peers, NEW s \in Seq(Txs), PeerSeals(p, m, s)
    PROVE  IInv'
<1> USE DEF disk, job, loop, memory
<1>1. p \in Blocks /\ p.hash \in Nat /\ p.height \in Nat /\ m \in Accounts /\ nextHash \in Nat
  BY BlockFields, LedgerAssumption DEF IInv, TypeOK
<1> DEFINE u(t) == IF s = <<>> THEN t ELSE Applied(t, s[1], m)
           b(t) == [hash |-> nextHash, parent |-> p.hash, height |-> p.height + 1,
                    miner |-> m, txs |-> s, root |-> Rewarded(u(t), m)]
<1>2. PICK t \in PeerTables(p) : known' = known \cup {b(t)}
  BY DEF PeerSeals
<1>3. t \in Tables
  BY <1>2, PeerTablesType
<1>4. u(t) \in Tables
  <2>1. s # <<>> => s[1] \in Transactions
    BY TxTyped
  <2> QED BY <1>1, <1>3, <2>1, AppliedType
<1>5. Rewarded(u(t), m) \in Tables
  <2> HIDE DEF u
  <2> QED BY <1>1, <1>4, RewardedType
<1>6. b(t) \in Blocks /\ b(t).height > 0 /\ b(t).root \in Tables
  <2> HIDE DEF u
  <2> QED BY <1>1, <1>5 DEF Blocks
<1> HIDE DEF b, u
<1>7. TypeOK'
  BY <1>1, <1>2, <1>6 DEF PeerSeals, IInv, TypeOK
<1>8. Shape'
  BY DEF PeerSeals, IInv, Shape, NonEmpty, ExecutingExtends, Executing, ReplayInside
<1>9. KnownBlocks'
  BY <1>1, <1>2, <1>6 DEF PeerSeals, IInv, KnownBlocks
<1> QED BY <1>7, <1>8, <1>9 DEF IInv

LEMMA StutterIInv == ASSUME IInv, UNCHANGED vars PROVE IInv'
<1> USE DEF vars, disk, job, loop, memory, net
<1>1. TypeOK'
  BY DEF IInv, TypeOK
<1>2. Shape'
  BY DEF IInv, Shape, NonEmpty, ExecutingExtends, Executing, ReplayInside, Tip, Height
<1>3. KnownBlocks'
  BY DEF IInv, KnownBlocks
<1> QED BY <1>1, <1>2, <1>3 DEF IInv

LEMMA NextIInv == IInv /\ [Next]_vars => IInv'
<1> SUFFICES ASSUME IInv, [Next]_vars PROVE IInv'
  OBVIOUS
<1>1. ASSUME NEW s \in TxSeqs, CreateBlock(s) PROVE IInv'
  BY <1>1, CreateBlockIInv
<1>2. CASE AddDraft \/ AskBlocks \/ ForkLeft \/ Reorg
  BY <1>2, AddDraftIInv, AskBlocksIInv, WantedIInv, ReorgIInv
<1>3. ASSUME NEW b \in known, ImportBlock(b) \/ ImportGenesis(b) \/ NoticeFork(b) \/ SyncReorg(b) PROVE IInv'
  BY <1>3, ImportBlockIInv, ImportGenesisIInv, WantedIInv, SyncReorgIInv
<1>4. CASE ApplyTx \/ RefuseBlock \/ SlashProposer \/ PersistBlock
  BY <1>4, ApplyTxIInv, RefuseBlockIInv, SlashProposerIInv, PersistBlockIInv
<1>5. CASE EnsureStateAtTip \/ ReplayTx \/ ReplayReward \/ FinishReplay
  BY <1>5, EnsureStateAtTipIInv, ReplayTxIInv, ReplayRewardIInv, FinishReplayIInv
<1>6. CASE SyncDone \/ Crash \/ Restart
  BY <1>6, SyncDoneIInv, CrashIInv, RestartIInv
<1>7. ASSUME NEW p \in known, NEW m \in Peers,
             PeerSeals(p, m, <<>>) \/ \E tx \in Txs : PeerSeals(p, m, <<tx>>)
      PROVE  IInv'
  <2>1. <<>> \in Seq(Txs) /\ \A tx \in Txs : <<tx>> \in Seq(Txs)
    OBVIOUS
  <2> QED BY <1>7, <2>1, PeerSealsIInv
<1>8. CASE UNCHANGED vars
  BY <1>8, StutterIInv
<1> QED BY <1>1, <1>2, <1>3, <1>4, <1>5, <1>6, <1>7, <1>8 DEF Next

\* The invariant every other theorem rests on: while an operation of Blockchain
\* holds the lock, the block it executes still extends the chain on disk, and a
\* replay stays inside it.
THEOREM Invariance == Spec => []IInv
BY InitIInv, NextIInv, PTL DEF Spec

\* For every set of accounts, transactions and validators, and for runs of any
\* length: whatever is mined, imported, replayed, refused or interrupted, the
\* tables, the blocks and the finality records keep their types; in particular
\* no balance goes below zero, and the rollback of a replay never cuts at a
\* height that is not in the chain.
THEOREM TypeCorrect == Spec => []TypeOK
<1>1. IInv => TypeOK
  BY DEF IInv
<1> QED BY <1>1, Invariance, PTL

-----------------------------------------------------------------------------
(* The only ways the stored chain changes *)

ChainChange ==
    \/ UNCHANGED chain
    \/ PersistBlock
    \/ op = "replay" /\ chain' = Shortened
    \/ op = "idle" /\ chain' = <<>> /\ \E b \in known : Foreign(b)
    \/ chain = <<>> /\ chain' = <<GenesisBlock(nextHash)>>

LEMMA ChainChanges == ASSUME [Next]_vars PROVE ChainChange
<1> USE DEF disk, job, loop, memory, net, ChainChange
<1>1. ASSUME NEW s \in TxSeqs, CreateBlock(s) PROVE ChainChange
  BY <1>1 DEF CreateBlock
<1>2. CASE AddDraft \/ AskBlocks \/ ForkLeft \/ Reorg
  BY <1>2 DEF AddDraft, AskBlocks, ForkLeft, Reorg
<1>3. ASSUME NEW b \in known, ImportBlock(b) \/ ImportGenesis(b) \/ NoticeFork(b) \/ SyncReorg(b) PROVE ChainChange
  BY <1>3 DEF ImportBlock, ImportGenesis, NoticeFork, SyncReorg
<1>4. CASE ApplyTx \/ RefuseBlock \/ SlashProposer \/ PersistBlock
  BY <1>4 DEF ApplyTx, RefuseBlock, SlashProposer, Rollback
<1>5. CASE EnsureStateAtTip \/ ReplayTx \/ ReplayReward \/ FinishReplay
  BY <1>5 DEF EnsureStateAtTip, ReplayTx, ReplayReward, FinishReplay, Rollback
<1>6. CASE SyncDone \/ Crash \/ Restart
  BY <1>6 DEF SyncDone, Crash, Restart
<1>7. ASSUME NEW p \in known, NEW m \in Peers,
             PeerSeals(p, m, <<>>) \/ \E tx \in Txs : PeerSeals(p, m, <<tx>>)
      PROVE  ChainChange
  BY <1>7 DEF PeerSeals
<1>8. CASE UNCHANGED vars
  BY <1>8 DEF vars
<1> QED BY <1>1, <1>2, <1>3, <1>4, <1>5, <1>6, <1>7, <1>8 DEF Next

\* A stored block goes on top; everything below stays.
LEMMA AppendedChain ==
    ASSUME IInv, PersistBlock
    PROVE  /\ chain' \in Seq(Blocks) /\ Len(chain') = Len(chain) + 1 /\ Len(chain) \in Nat
           /\ \A i \in 1..Len(chain) : chain'[i] = chain[i]
           /\ chain'[Len(chain) + 1].txs = blk.txs
           /\ chain'[Len(chain) + 1].height = Len(chain)
           /\ Len(chain) > 0 => chain'[Len(chain) + 1].parent = chain[Len(chain)].hash
<1>1. /\ Sealed \in Blocks /\ Sealed.txs = blk.txs
      /\ Sealed.height = blk.height /\ Sealed.parent = blk.parent
  BY SealedType DEF PersistBlock
<1>2. chain \in Seq(Blocks) /\ chain' = Append(chain, Sealed)
  BY DEF PersistBlock, IInv, TypeOK
<1>3. /\ chain' \in Seq(Blocks) /\ Len(chain') = Len(chain) + 1 /\ Len(chain) \in Nat
      /\ \A i \in 1..Len(chain) : chain'[i] = chain[i]
      /\ chain'[Len(chain) + 1] = Sealed
  BY <1>1, <1>2
<1>4. blk.height = Len(chain) /\ (chain # <<>> => blk.parent = Tip.hash)
  BY DEF PersistBlock, IInv, Shape, ExecutingExtends
<1> QED BY <1>1, <1>3, <1>4 DEF Tip

-----------------------------------------------------------------------------
(* The stored blocks are one chain *)

LEMMA ChainLinkedStep == ASSUME IInv, ChainLinked, [Next]_vars PROVE ChainLinked'
<1>0. chain \in Seq(Blocks) /\ Len(chain) \in Nat /\ DOMAIN chain = 1..Len(chain)
  BY DEF IInv, TypeOK
<1>1. CASE UNCHANGED chain
  BY <1>1 DEF ChainLinked
<1>2. CASE PersistBlock
  <2>1. DOMAIN chain' = 1..(Len(chain) + 1)
    BY <1>2, AppendedChain
  <2>2. ASSUME NEW i \in 1..(Len(chain) + 1)
        PROVE  chain'[i].height = i - 1 /\ (i > 1 => chain'[i].parent = chain'[i - 1].hash)
    <3>1. CASE i <= Len(chain)
      BY <1>0, <1>2, <3>1, AppendedChain DEF ChainLinked
    <3>2. CASE i = Len(chain) + 1
      BY <1>0, <1>2, <3>2, AppendedChain
    <3> QED BY <1>0, <3>1, <3>2
  <2> QED BY <2>1, <2>2 DEF ChainLinked
<1>3. CASE op = "replay" /\ chain' = Shortened
  <2>1. DOMAIN chain' = 1..(cut + 1)
    BY <1>3, ShortenedType
  <2>2. \A i \in 1..(cut + 1) : i \in DOMAIN chain /\ chain'[i] = chain[i]
    BY <1>0, <1>3, ShortenedType DEF IInv, TypeOK
  <2>3. \A i \in 1..(cut + 1) : i > 1 => i - 1 \in 1..(cut + 1)
    BY <1>3, ShortenedType
  <2> QED BY <2>1, <2>2, <2>3 DEF ChainLinked
<1>4. CASE chain' = <<>>
  BY <1>4 DEF ChainLinked
<1>5. CASE chain = <<>> /\ chain' = <<GenesisBlock(nextHash)>>
  <2>1. DOMAIN chain' = {1} /\ chain'[1].height = 0
    BY <1>5, GenesisBlockType DEF IInv, TypeOK
  <2> QED BY <2>1 DEF ChainLinked
<1> QED BY <1>1, <1>2, <1>3, <1>4, <1>5, ChainChanges DEF ChainChange

\* For every instance: mining, imports from any peers, reorganisations, joins of
\* a foreign network and crashes leave on disk one chain of blocks, each naming
\* the one below it (the parent checks of _validate_block_structure, and the
\* height at which reorg_to_ancestor cuts, suffice).
THEOREM OneChain == Spec => []ChainLinked
<1>1. Init => ChainLinked
  <2> SUFFICES ASSUME Init PROVE ChainLinked
    OBVIOUS
  <2>1. DOMAIN chain = {1} /\ chain[1].height = 0
    BY GenesisBlockType DEF Init
  <2> QED BY <2>1 DEF ChainLinked
<1>2. IInv /\ ChainLinked /\ [Next]_vars => ChainLinked'
  BY ChainLinkedStep
<1> QED BY <1>1, <1>2, Invariance, PTL DEF Spec

-----------------------------------------------------------------------------
(* Finalized blocks stay *)

\* With one genesis in the network the chain always starts with it.
OneGenesis ==
    /\ chain # <<>> /\ chain[1].hash = 1
    /\ \A b \in known : b.height = 0 => b.hash = 1
    /\ wanted # NoBlock => wanted.height > 0

\* A replay never stops below a finalized checkpoint.
FloorRespected == op = "replay" => cut >= 0 /\ ~BelowFloor(cut)

\* New blocks of the network are no genesis blocks, unless this node found its
\* chain empty at a start.
LEMMA KnownGrows ==
    ASSUME IInv, [Next]_vars, chain # <<>>
    PROVE  \A b \in known' : b \in known \/ b.height > 0
<1> USE DEF disk, job, loop, memory, net
<1>1. ASSUME NEW s \in TxSeqs, CreateBlock(s) PROVE known' = known
  BY <1>1 DEF CreateBlock
<1>2. CASE AddDraft \/ AskBlocks \/ ForkLeft \/ Reorg
  BY <1>2 DEF AddDraft, AskBlocks, ForkLeft, Reorg
<1>3. ASSUME NEW b \in known, ImportBlock(b) \/ ImportGenesis(b) \/ NoticeFork(b) \/ SyncReorg(b) PROVE known' = known
  BY <1>3 DEF ImportBlock, ImportGenesis, NoticeFork, SyncReorg
<1>4. CASE ApplyTx \/ RefuseBlock \/ SlashProposer
  BY <1>4 DEF ApplyTx, RefuseBlock, SlashProposer
<1>5. CASE PersistBlock
  <2>1. op = "own" => Sealed.height > 0
    BY <1>5, SealedType, ExecutingNotGenesis DEF PersistBlock
  <2> QED BY <1>5, <2>1 DEF PersistBlock
<1>6. CASE EnsureStateAtTip \/ ReplayTx \/ ReplayReward \/ FinishReplay
  BY <1>6 DEF EnsureStateAtTip, ReplayTx, ReplayReward, FinishReplay
<1>7. CASE SyncDone \/ Crash \/ Restart
  BY <1>7 DEF SyncDone, Crash, Restart
<1>8. ASSUME NEW p \in known, NEW m \in Peers, NEW s, PeerSeals(p, m, s)
      PROVE  \A b \in known' : b \in known \/ b.height > 0
  <2>1. p.height \in Nat
    BY BlockFields DEF IInv, TypeOK
  <2> QED BY <1>8, <2>1 DEF PeerSeals
<1>9. CASE UNCHANGED vars
  BY <1>9 DEF vars
<1> QED BY <1>1, <1>2, <1>3, <1>4, <1>5, <1>6, <1>7, <1>8, <1>9 DEF Next

\* The head asked of a peer is never a second genesis.
LEMMA WantedChanges ==
    ASSUME IInv, OneGenesis, [Next]_vars
    PROVE  wanted' # NoBlock => wanted'.height > 0
<1> USE DEF disk, job, loop, memory, net
<1>1. ASSUME NEW s \in TxSeqs, CreateBlock(s) PROVE wanted' = wanted
  BY <1>1 DEF CreateBlock
<1>2. CASE AddDraft \/ AskBlocks \/ ForkLeft \/ Reorg
  BY <1>2 DEF AddDraft, AskBlocks, ForkLeft, Reorg, OneGenesis
<1>3. ASSUME NEW b \in known, ImportBlock(b) \/ ImportGenesis(b) \/ SyncReorg(b) PROVE wanted' = wanted
  BY <1>3 DEF ImportBlock, ImportGenesis, SyncReorg
<1>4. ASSUME NEW b \in known, NoticeFork(b) PROVE wanted'.height > 0
  <2>1. b.height \in Nat
    BY BlockFields DEF IInv, TypeOK
  <2> QED BY <1>4, <2>1 DEF NoticeFork, OneGenesis
<1>5. CASE ApplyTx \/ RefuseBlock \/ SlashProposer \/ PersistBlock
  BY <1>5 DEF ApplyTx, RefuseBlock, SlashProposer, PersistBlock, OneGenesis
<1>6. CASE EnsureStateAtTip \/ ReplayTx \/ ReplayReward \/ FinishReplay
  BY <1>6 DEF EnsureStateAtTip, ReplayTx, ReplayReward, FinishReplay, OneGenesis
<1>7. CASE SyncDone \/ Crash \/ Restart
  BY <1>7 DEF SyncDone, Crash, Restart, OneGenesis
<1>8. ASSUME NEW p \in known, NEW m \in Peers, NEW s, PeerSeals(p, m, s) PROVE wanted' = wanted
  BY <1>8 DEF PeerSeals
<1>9. CASE UNCHANGED vars
  BY <1>9 DEF vars, OneGenesis
<1> QED BY <1>1, <1>2, <1>3, <1>4, <1>5, <1>6, <1>7, <1>8, <1>9 DEF Next, OneGenesis

LEMMA OneGenesisStep ==
    ASSUME IInv, OneGenesis, FloorRespected, [Next]_vars
    PROVE  OneGenesis'
<1>0. chain \in Seq(Blocks) /\ Len(chain) \in Nat /\ Len(chain) >= 1
  BY TipType DEF IInv, TypeOK, OneGenesis
<1>1. /\ \A b \in known' : b.height = 0 => b.hash = 1
      /\ wanted' # NoBlock => wanted'.height > 0
  BY KnownGrows, WantedChanges, BlockFields DEF OneGenesis
<1>2. CASE UNCHANGED chain
  BY <1>1, <1>2 DEF OneGenesis
<1>3. CASE PersistBlock
  <2>1. chain' # <<>> /\ chain'[1] = chain[1]
    BY <1>0, <1>3, AppendedChain
  <2> QED BY <1>1, <2>1 DEF OneGenesis
<1>4. CASE op = "replay" /\ chain' = Shortened
  <2>1. Len(chain') = cut + 1 /\ cut >= 0 /\ cut \in Int /\ chain' \in Seq(Blocks)
    BY <1>4, ShortenedType DEF FloorRespected, IInv, TypeOK
  <2>2. 1 \in 1..(cut + 1)
    BY <2>1
  <2>3. chain'[1] = chain[1] /\ chain' # <<>>
    BY <1>4, <2>1, <2>2, ShortenedType
  <2> QED BY <1>1, <2>3 DEF OneGenesis
<1>5. CASE \E b \in known : Foreign(b)
  BY <1>5 DEF OneGenesis, Foreign
<1>6. CASE chain = <<>>
  BY <1>6 DEF OneGenesis
<1> QED BY <1>2, <1>3, <1>4, <1>5, <1>6, ChainChanges DEF ChainChange

\* A replay starts at or above the floor, and finality stands still until it ends.
LEMMA FloorStep ==
    ASSUME IInv, OneGenesis, FloorRespected, [Next]_vars
    PROVE  FloorRespected'
<1> USE DEF disk, job, loop, memory, net
<1>1. ASSUME NEW s \in TxSeqs, CreateBlock(s) PROVE FloorRespected'
  BY <1>1 DEF CreateBlock, FloorRespected, BelowFloor
<1>2. CASE AddDraft \/ AskBlocks \/ ForkLeft
  BY <1>2 DEF AddDraft, Begin, AskBlocks, ForkLeft, FloorRespected, BelowFloor
<1>3. ASSUME NEW b \in known, ImportBlock(b) \/ ImportGenesis(b) \/ NoticeFork(b) PROVE FloorRespected'
  BY <1>3 DEF ImportBlock, ImportGenesis, NoticeFork, Begin, FloorRespected, BelowFloor
<1>4. CASE Reorg
  <2>1. wanted.height \in Nat
    BY BlockFields DEF IInv, TypeOK
  <2>2. wanted.height > 0 /\ ~BelowFloor(wanted.height - 1)
    BY <1>4, <2>1 DEF Reorg, OneGenesis
  <2>3. cut' = wanted.height - 1 /\ fin' = fin
    BY <1>4 DEF Reorg, BeginReplay
  <2> QED BY <2>1, <2>2, <2>3 DEF FloorRespected, BelowFloor
<1>5. CASE ApplyTx \/ RefuseBlock \/ SlashProposer \/ PersistBlock
  BY <1>5 DEF ApplyTx, RefuseBlock, SlashProposer, PersistBlock, Executing, Rollback, Idle, FloorRespected
<1>6. CASE EnsureStateAtTip
  BY <1>6, TipType DEF EnsureStateAtTip, BeginReplay, Idle, FloorRespected, BelowFloor, IInv, TypeOK, Height
<1>7. CASE ReplayTx \/ ReplayReward \/ FinishReplay
  BY <1>7 DEF ReplayTx, ReplayReward, FinishReplay, Rollback, Idle, FloorRespected, BelowFloor
<1>8. CASE SyncDone \/ Crash \/ Restart
  BY <1>8 DEF SyncDone, Crash, Restart, FloorRespected, BelowFloor
<1>9. ASSUME NEW p \in known, NEW m \in Peers, NEW s, PeerSeals(p, m, s)
      PROVE  FloorRespected'
  BY <1>9 DEF PeerSeals, FloorRespected, BelowFloor
<1>10. CASE UNCHANGED vars
  BY <1>10 DEF vars, FloorRespected, BelowFloor
<1>11. ASSUME NEW b \in known, SyncReorg(b) PROVE FloorRespected'
  <2>1. b.height \in Nat
    BY BlockFields DEF IInv, TypeOK
  <2>2. cut' = Ancestor(b) /\ fin' = fin /\ ~BelowFloor(Ancestor(b)) /\ Ancestor(b) >= 0
    BY <1>11, <2>1 DEF SyncReorg, BeginReplay, Ancestor
  <2> QED BY <2>2 DEF FloorRespected, BelowFloor
<1> QED BY <1>1, <1>2, <1>3, <1>4, <1>5, <1>6, <1>7, <1>8, <1>9, <1>10, <1>11 DEF Next

\* What FinalizedKept says of one step.
KeptInStep ==
    \A c \in Finalized(fin) : \A i \in 1..(c.number + 1) :
        i <= Len(chain) => i <= Len(chain') /\ chain'[i] = chain[i]

LEMMA KeptStep ==
    ASSUME IInv, OneGenesis, FloorRespected, [Next]_vars
    PROVE  KeptInStep
<1>1. CASE UNCHANGED chain
  BY <1>1 DEF KeptInStep
<1>2. CASE PersistBlock
  BY <1>2, AppendedChain DEF KeptInStep
<1>3. CASE op = "replay" /\ chain' = Shortened
  <2> SUFFICES ASSUME NEW c \in Finalized(fin), NEW i \in 1..(c.number + 1), i <= Len(chain)
               PROVE  i <= Len(chain') /\ chain'[i] = chain[i]
    BY DEF KeptInStep
  <2>1. c.number \in Nat
    BY DEF IInv, TypeOK, FinTypeOK, Finalized
  <2>2. c.number <= cut /\ cut \in Int
    BY <1>3, <2>1 DEF FloorRespected, BelowFloor, IInv, TypeOK
  <2> QED BY <1>3, <2>1, <2>2, ShortenedType
<1>4. CASE \E b \in known : Foreign(b)
  BY <1>4 DEF OneGenesis, Foreign
<1>5. CASE chain = <<>>
  BY <1>5 DEF OneGenesis
<1> QED BY <1>1, <1>2, <1>3, <1>4, <1>5, ChainChanges DEF ChainChange

\* As long as every node started from one genesis block, no step of the node
\* drops or changes a block at or below a finalized checkpoint: the guard of
\* reorg_to_ancestor is enough, for any number of validators and any epoch
\* length, also for the replays that commit half way.
THEOREM FinalityKept ==
    ASSUME ForeignGenesis = FALSE
    PROVE  Spec => FinalizedKept
<1>1. Init => OneGenesis /\ FloorRespected
  <2> SUFFICES ASSUME Init PROVE OneGenesis /\ FloorRespected
    OBVIOUS
  <2>1. known = {GenesisBlock(1)} /\ chain = <<GenesisBlock(1)>> /\ op = "idle" /\ wanted = NoBlock
    BY DEF Init
  <2> QED BY <2>1, GenesisBlockType DEF OneGenesis, FloorRespected
<1>2. IInv /\ OneGenesis /\ FloorRespected /\ [Next]_vars => OneGenesis' /\ FloorRespected'
  BY OneGenesisStep, FloorStep
<1>3. IInv /\ OneGenesis /\ FloorRespected /\ [Next]_vars => [KeptInStep]_vars
  BY KeptStep
<1> QED BY <1>1, <1>2, <1>3, Invariance, PTL DEF Spec, FinalizedKept, KeptInStep

-----------------------------------------------------------------------------
(* Nothing is spent twice, as long as no transaction commits half a block *)

\* Nonces only grow while a block executes, and each applied transaction used
\* a nonce of its own that was free on disk.
ExecutingNonces ==
    Executing =>
        /\ \A a \in Accounts : accts.nonce[a] <= work.nonce[a]
        /\ \A i \in 1..pos :
              /\ accts.nonce[blk.txs[i].from] <= blk.txs[i].nonce
              /\ blk.txs[i].nonce < work.nonce[blk.txs[i].from]
        /\ \A i, j \in 1..pos :
              i < j /\ blk.txs[i].from = blk.txs[j].from => blk.txs[i].nonce < blk.txs[j].nonce

\* What a replay has gone through is spent in its table.
ReplayNonces ==
    op = "replay" =>
        \A i \in DOMAIN chain : \A k \in DOMAIN chain[i].txs :
            i <= rh \/ (i = rh + 1 /\ k <= pos)
            => chain[i].txs[k].nonce < work.nonce[chain[i].txs[k].from]

NonceInv == SpentStaysSpent /\ NoReplay /\ ExecutingNonces /\ ReplayNonces

\* The part of the assumption on Txs that the theorem needs.
NoInnerCommits == \A tx \in Txs : ~CommitsInside(tx)

LEMMA ChainTx ==
    ASSUME IInv
    PROVE  /\ DOMAIN chain = 1..Len(chain) /\ Len(chain) \in Nat
           /\ accts.nonce \in [Accounts -> Nat] /\ work.nonce \in [Accounts -> Nat]
           /\ \A i \in DOMAIN chain :
                 /\ DOMAIN chain[i].txs = 1..Len(chain[i].txs) /\ Len(chain[i].txs) \in Nat
                 /\ \A k \in DOMAIN chain[i].txs :
                       chain[i].txs[k].from \in Accounts /\ chain[i].txs[k].nonce \in Nat
           /\ DOMAIN blk.txs = 1..Len(blk.txs) /\ Len(blk.txs) \in Nat
           /\ \A k \in DOMAIN blk.txs :
                 blk.txs[k].from \in Accounts /\ blk.txs[k].nonce \in Nat
<1>1. /\ DOMAIN chain = 1..Len(chain) /\ Len(chain) \in Nat
      /\ \A i \in DOMAIN chain : chain[i].txs \in Seq(Txs)
      /\ blk.txs \in Seq(Txs)
  BY BlockFields DEF IInv, TypeOK
<1>2. \A s \in Seq(Txs) : \A k \in 1..Len(s) : s[k].from \in Accounts /\ s[k].nonce \in Nat
  BY TxTyped DEF Transactions
<1>3. accts.nonce \in [Accounts -> Nat] /\ work.nonce \in [Accounts -> Nat]
  BY DEF IInv, TypeOK, Tables
<1> QED BY <1>1, <1>2, <1>3

\* Steps that leave the tables and the operation alone.
LEMMA QuietNonces == ASSUME NonceInv, UNCHANGED <<accts, chain, job>> PROVE NonceInv'
BY DEF NonceInv, SpentStaysSpent, NoReplay, ExecutingNonces, ReplayNonces, Executing, job

\* An operation ends or the process dies, and nothing new is on disk.
LEMMA RestNonces ==
    ASSUME NonceInv, UNCHANGED <<accts, chain>>, op' \notin {"own", "peer", "replay"}
    PROVE  NonceInv'
BY DEF NonceInv, SpentStaysSpent, NoReplay, ExecutingNonces, ReplayNonces, Executing

\* The execution of a block begins, perhaps on a chain that was just emptied.
LEMMA BeginNonces ==
    ASSUME IInv, NonceInv, chain' = chain \/ chain' = <<>>, accts' = accts, work' = accts,
           pos' = 0, op' # "replay"
    PROVE  NonceInv'
<1>1. SpentStaysSpent' /\ NoReplay'
  BY DEF NonceInv, SpentStaysSpent, NoReplay
<1>2. \A a \in Accounts : accts'.nonce[a] <= work'.nonce[a]
  BY DEF IInv, TypeOK, Tables
<1>3. ExecutingNonces' /\ ReplayNonces'
  BY <1>2 DEF ExecutingNonces, ReplayNonces
<1> QED BY <1>1, <1>3 DEF NonceInv

LEMMA ApplyTxNonces ==
    ASSUME IInv, NonceInv, NoInnerCommits, ApplyTx
    PROVE  NonceInv'
<1> DEFINE tx == blk.txs[pos + 1]
<1>1. CASE ~Executable(work, tx) /\ Rollback
  BY <1>1, RestNonces DEF Rollback, Idle, disk
<1>2. CASE /\ Executable(work, tx) /\ work' = Applied(work, tx, blk.miner) /\ pos' = pos + 1
           /\ accts' = IF CommitsInside(tx) THEN InnerCommit(work, tx, blk.miner) ELSE accts
           /\ UNCHANGED <<chain, dbSlashed, op, blk, rh, cut>>
  <2>1. pos \in Nat /\ pos + 1 \in 1..Len(blk.txs) /\ blk.txs \in Seq(Txs) /\ tx \in Txs /\ op # "replay"
    BY BlockFields DEF ApplyTx, Executing, IInv, TypeOK
  <2>2. accts' = accts
    BY <1>2, <2>1 DEF NoInnerCommits
  <2>3. work'.nonce = [work.nonce EXCEPT ![tx.from] = @ + 1] /\ tx.nonce = work.nonce[tx.from]
    <3>1. tx \in Transactions /\ tx.kind # "deploy"
      BY <2>1, LedgerAssumption DEF NoInnerCommits, CommitsInside
    <3>2. work \in Tables /\ blk.miner \in Accounts
      BY <2>1, BlockFields DEF IInv, TypeOK
    <3> HIDE DEF tx
    <3> QED BY <1>2, <3>1, <3>2, AppliedNonce DEF Executable
  <2>4. tx.from \in Accounts /\ tx.nonce \in Nat
    BY <2>1, ChainTx
  <2>5. \A a \in Accounts : work'.nonce[a] >= work.nonce[a] /\ work'.nonce[a] \in Nat
    <3>1. work.nonce \in [Accounts -> Nat]
      BY ChainTx
    <3> HIDE DEF tx
    <3> QED BY <2>3, <2>4, <3>1
  <2>6. SpentStaysSpent' /\ NoReplay' /\ ReplayNonces'
    BY <1>2, <2>1, <2>2 DEF NonceInv, SpentStaysSpent, NoReplay, ReplayNonces
  <2>7. ExecutingNonces'
    <3> HIDE DEF tx
    <3>0. /\ \A a \in Accounts : accts.nonce[a] <= work.nonce[a]
          /\ \A i \in 1..pos : /\ accts.nonce[blk.txs[i].from] <= blk.txs[i].nonce
                               /\ blk.txs[i].nonce < work.nonce[blk.txs[i].from]
          /\ \A i, j \in 1..pos : i < j /\ blk.txs[i].from = blk.txs[j].from
                                    => blk.txs[i].nonce < blk.txs[j].nonce
      BY DEF NonceInv, ExecutingNonces, ApplyTx
    <3>1. \A a \in Accounts : accts.nonce[a] <= work'.nonce[a]
      BY <2>5, <3>0, ChainTx
    <3>2. \A i \in 1..(pos + 1) : i \in 1..pos \/ i = pos + 1
      BY <2>1
    <3>3. \A i \in 1..pos : i \in DOMAIN blk.txs
      BY <2>1
    <3>4. work'.nonce[tx.from] = tx.nonce + 1 /\ accts.nonce[tx.from] <= tx.nonce
      BY <2>3, <2>4, <3>0, ChainTx
    <3>5. \A i \in 1..(pos + 1) : /\ accts.nonce[blk.txs[i].from] <= blk.txs[i].nonce
                                  /\ blk.txs[i].nonce < work'.nonce[blk.txs[i].from]
      <4>1. tx = blk.txs[pos + 1] /\ tx.nonce < tx.nonce + 1
        BY <2>4 DEF tx
      <4>2. \A i \in 1..pos : blk.txs[i].from \in Accounts /\ blk.txs[i].nonce \in Nat
        BY <3>3, ChainTx
      <4>3. \A i \in 1..pos : blk.txs[i].nonce < work'.nonce[blk.txs[i].from]
        <5>1. work.nonce \in [Accounts -> Nat]
          BY ChainTx
        <5> QED BY <2>5, <3>0, <4>2, <5>1
      <4> QED BY <3>0, <3>2, <3>4, <4>1, <4>3
    <3>6. \A i \in 1..pos : blk.txs[i].from = tx.from => blk.txs[i].nonce < tx.nonce
      BY <2>3, <2>4, <3>0
    <3>7. \A i, j \in 1..(pos + 1) : i < j /\ blk.txs[i].from = blk.txs[j].from
                                    => blk.txs[i].nonce < blk.txs[j].nonce
      BY <2>1, <3>0, <3>2, <3>6 DEF tx
    <3> QED BY <1>2, <2>2, <3>1, <3>5, <3>7 DEF ExecutingNonces
  <2> QED BY <2>6, <2>7 DEF NonceInv
<1> QED BY <1>1, <1>2 DEF ApplyTx

LEMMA SlashProposerNonces == ASSUME IInv, NonceInv, SlashProposer PROVE NonceInv'
<1>1. accts'.nonce = work.nonce /\ chain' = chain /\ op' = "idle" /\ Executing
  BY ExecutedType DEF SlashProposer, Idle
<1>2. SpentStaysSpent'
  BY <1>1, ChainTx DEF NonceInv, SpentStaysSpent, ExecutingNonces
<1> QED BY <1>1, <1>2 DEF NonceInv, NoReplay, ExecutingNonces, Executing, ReplayNonces

\* The transactions of the stored block used nonces that no block below used.
LEMMA PersistBlockNonces == ASSUME IInv, NonceInv, PersistBlock PROVE NonceInv'
<1> DEFINE n == Len(chain) + 1
<1>1. accts'.nonce = work.nonce /\ op' = "idle" /\ Executing /\ pos = Len(blk.txs)
  BY ExecutedType, BurnRecordedType, BlockFields DEF PersistBlock, Idle, IInv, TypeOK
<1>2. /\ DOMAIN chain' = 1..n /\ n \in Nat /\ DOMAIN chain = 1..(n - 1)
      /\ \A i \in DOMAIN chain : chain'[i] = chain[i] /\ i < n
      /\ chain'[n].txs = blk.txs
      /\ \A i \in 1..n : i \in DOMAIN chain \/ i = n
  BY AppendedChain, ChainTx
<1>3. /\ \A k \in DOMAIN blk.txs : /\ accts.nonce[blk.txs[k].from] <= blk.txs[k].nonce
                                   /\ blk.txs[k].nonce < work.nonce[blk.txs[k].from]
      /\ \A k, l \in DOMAIN blk.txs : k < l /\ blk.txs[k].from = blk.txs[l].from
                                        => blk.txs[k].nonce < blk.txs[l].nonce
      /\ \A a \in Accounts : accts.nonce[a] <= work.nonce[a]
  BY <1>1, ChainTx DEF NonceInv, ExecutingNonces
<1>4. \A i \in DOMAIN chain : \A k \in DOMAIN chain[i].txs :
         chain[i].txs[k].nonce < accts.nonce[chain[i].txs[k].from]
  BY DEF NonceInv, SpentStaysSpent
<1> HIDE DEF n
<1>5. SpentStaysSpent'
  <2> SUFFICES ASSUME NEW i \in 1..n, NEW k \in DOMAIN chain'[i].txs
               PROVE  chain'[i].txs[k].nonce < work.nonce[chain'[i].txs[k].from]
    BY <1>1, <1>2 DEF SpentStaysSpent
  <2>1. CASE i \in DOMAIN chain
    <3>1. chain'[i] = chain[i]
      BY <1>2, <2>1
    <3>2. /\ chain[i].txs[k].nonce < accts.nonce[chain[i].txs[k].from]
          /\ accts.nonce[chain[i].txs[k].from] <= work.nonce[chain[i].txs[k].from]
          /\ chain[i].txs[k].nonce \in Nat /\ chain[i].txs[k].from \in Accounts
      BY <1>3, <1>4, <2>1, <3>1, ChainTx
    <3>3. accts.nonce[chain[i].txs[k].from] \in Nat /\ work.nonce[chain[i].txs[k].from] \in Nat
      BY <3>2, ChainTx
    <3> QED BY <3>1, <3>2, <3>3
  <2>2. CASE i = n
    BY <1>2, <1>3, <2>2
  <2> QED BY <1>2, <2>1, <2>2
<1>6. NoReplay'
  <2> SUFFICES ASSUME NEW i \in 1..n, NEW j \in 1..n,
                      NEW k \in DOMAIN chain'[i].txs, NEW l \in DOMAIN chain'[j].txs,
                      chain'[i].txs[k].from = chain'[j].txs[l].from,
                      chain'[i].txs[k].nonce = chain'[j].txs[l].nonce
               PROVE  i = j /\ k = l
    BY <1>2 DEF NoReplay
  <2>1. CASE i \in DOMAIN chain /\ j \in DOMAIN chain
    BY <1>2, <2>1 DEF NonceInv, NoReplay
  <2>2. ASSUME NEW x \in DOMAIN chain, NEW y \in DOMAIN chain[x].txs, NEW z \in DOMAIN blk.txs,
               chain[x].txs[y].from = blk.txs[z].from, chain[x].txs[y].nonce = blk.txs[z].nonce
        PROVE  FALSE
    <3>1. blk.txs[z].nonce < accts.nonce[blk.txs[z].from] /\ accts.nonce[blk.txs[z].from] <= blk.txs[z].nonce
      BY <1>3, <1>4, <2>2
    <3>2. accts.nonce[blk.txs[z].from] \in Nat /\ blk.txs[z].nonce \in Nat
      BY ChainTx
    <3> QED BY <3>1, <3>2
  <2>3. CASE i \in DOMAIN chain /\ j = n
    <3>1. chain'[i] = chain[i] /\ chain'[j].txs = blk.txs
      BY <1>2, <2>3
    <3> QED BY <2>2, <2>3, <3>1
  <2>4. CASE i = n /\ j \in DOMAIN chain
    <3>1. chain'[j] = chain[j] /\ chain'[i].txs = blk.txs
      BY <1>2, <2>4
    <3> QED BY <2>2, <2>4, <3>1
  <2>5. CASE i = n /\ j = n
    <3>1. k \in DOMAIN blk.txs /\ l \in DOMAIN blk.txs /\ blk.txs[k].from = blk.txs[l].from
          /\ blk.txs[k].nonce = blk.txs[l].nonce
      BY <1>2, <2>5
    <3>2. k \in Nat /\ l \in Nat /\ blk.txs[k].nonce \in Nat
      BY <3>1, ChainTx
    <3>3. ~(k < l) /\ ~(l < k)
      BY <1>3, <3>1, <3>2
    <3> QED BY <2>5, <3>2, <3>3
  <2> QED BY <1>2, <2>1, <2>3, <2>4, <2>5
<1>7. ExecutingNonces' /\ ReplayNonces'
  BY <1>1 DEF ExecutingNonces, Executing, ReplayNonces
<1> QED BY <1>5, <1>6, <1>7 DEF NonceInv

LEMMA BeginReplayNonces ==
    ASSUME IInv, ChainLinked, NonceInv, UNCHANGED <<accts, chain>>,
           op' = "replay", rh' = 1, pos' = 0
    PROVE  NonceInv'
<1>1. SpentStaysSpent' /\ NoReplay' /\ ExecutingNonces'
  BY DEF NonceInv, SpentStaysSpent, NoReplay, ExecutingNonces, Executing
<1>2. ReplayNonces'
  <2>1. \A i \in DOMAIN chain : i <= 1 => chain[i].txs = <<>>
    BY ChainTx DEF ChainLinked, IInv, KnownBlocks
  <2>2. \A i \in DOMAIN chain : \A k \in DOMAIN chain[i].txs : ~(i <= 1 \/ (i = 2 /\ k <= 0))
    BY <2>1, ChainTx
  <2> QED BY <2>2 DEF ReplayNonces
<1> QED BY <1>1, <1>2 DEF NonceInv

LEMMA ReplayTxNonces ==
    ASSUME IInv, NonceInv, NoInnerCommits, ReplayTx
    PROVE  NonceInv'
<1> DEFINE b == chain[rh + 1]
           tx == b.txs[pos + 1]
<1>1. CASE ~Executable(work, tx) /\ Rollback
  BY <1>1, RestNonces DEF Rollback, Idle, disk
<1>2. CASE /\ Executable(work, tx) /\ work' = Applied(work, tx, b.miner) /\ pos' = pos + 1
           /\ IF CommitsInside(tx)
              THEN accts' = InnerCommit(work, tx, b.miner) /\ chain' = Shortened
              ELSE UNCHANGED <<accts, chain>>
           /\ UNCHANGED <<dbSlashed, op, blk, rh, cut>>
  <2>1. /\ rh + 1 \in DOMAIN chain /\ pos + 1 \in DOMAIN b.txs /\ tx \in Txs
        /\ rh \in Nat /\ pos \in Nat /\ op = "replay"
    BY ReplayBlock, ChainTx DEF ReplayTx
  <2>2. accts' = accts /\ chain' = chain
    BY <1>2, <2>1 DEF NoInnerCommits
  <2>3. work'.nonce = [work.nonce EXCEPT ![tx.from] = @ + 1] /\ tx.nonce = work.nonce[tx.from]
    <3>1. tx \in Transactions /\ tx.kind # "deploy"
      BY <2>1, LedgerAssumption DEF NoInnerCommits, CommitsInside
    <3>2. work \in Tables /\ b.miner \in Accounts
      BY <2>1, BlockFields DEF IInv, TypeOK
    <3> HIDE DEF tx
    <3> QED BY <1>2, <3>1, <3>2, AppliedNonce DEF Executable
  <2>4. tx.from \in Accounts /\ tx.nonce \in Nat
    BY <2>1, ChainTx
  <2>5. /\ \A a \in Accounts : work.nonce[a] <= work'.nonce[a] /\ work.nonce[a] \in Nat
        /\ \A a \in Accounts : work'.nonce[a] \in Nat
        /\ tx.nonce < work'.nonce[tx.from]
    <3>1. work.nonce \in [Accounts -> Nat]
      BY ChainTx
    <3> HIDE DEF tx
    <3> QED BY <2>3, <2>4, <3>1
  <2>6. SpentStaysSpent' /\ NoReplay' /\ ExecutingNonces'
    BY <1>2, <2>1, <2>2 DEF NonceInv, SpentStaysSpent, NoReplay, ExecutingNonces, Executing
  <2>7. ReplayNonces'
    <3> SUFFICES ASSUME NEW i \in DOMAIN chain, NEW k \in DOMAIN chain[i].txs,
                        i <= rh \/ (i = rh + 1 /\ k <= pos + 1)
                 PROVE  chain[i].txs[k].nonce < work'.nonce[chain[i].txs[k].from]
      BY <1>2, <2>2 DEF ReplayNonces
    <3>0. chain[i].txs[k].from \in Accounts /\ chain[i].txs[k].nonce \in Nat /\ k \in Nat /\ i \in Nat
      BY ChainTx
    <3>1. CASE i = rh + 1 /\ k = pos + 1
      BY <2>5, <3>1
    <3>2. CASE i <= rh \/ (i = rh + 1 /\ k <= pos)
      <4>1. chain[i].txs[k].nonce < work.nonce[chain[i].txs[k].from]
        BY <2>1, <3>2 DEF NonceInv, ReplayNonces
      <4> QED BY <2>5, <3>0, <4>1
    <3> QED BY <2>1, <3>0, <3>1, <3>2
  <2> QED BY <2>6, <2>7 DEF NonceInv
<1> QED BY <1>1, <1>2 DEF ReplayTx

LEMMA ReplayRewardNonces == ASSUME IInv, NonceInv, ReplayReward PROVE NonceInv'
<1>1. /\ accts' = accts /\ chain' = chain /\ op = "replay" /\ op' = op
      /\ rh' = rh + 1 /\ pos' = 0 /\ rh \in Nat /\ rh + 1 \in DOMAIN chain
      /\ pos = Len(chain[rh + 1].txs)
  BY ReplayBlock, ChainTx DEF ReplayReward, disk
<1>2. work'.nonce = work.nonce
  BY ReplayBlock, RewardedType DEF ReplayReward, IInv, TypeOK
<1>3. SpentStaysSpent' /\ NoReplay' /\ ExecutingNonces'
  BY <1>1 DEF NonceInv, SpentStaysSpent, NoReplay, ExecutingNonces, Executing
<1>4. ASSUME NEW i \in DOMAIN chain, NEW k \in DOMAIN chain[i].txs,
             i <= rh + 1 \/ (i = rh + 2 /\ k <= 0)
      PROVE  i <= rh \/ (i = rh + 1 /\ k <= pos)
  BY <1>1, <1>4, ChainTx
<1>5. ReplayNonces'
  BY <1>1, <1>2, <1>4 DEF NonceInv, ReplayNonces
<1> QED BY <1>3, <1>5 DEF NonceInv

\* The table of a finished replay has spent everything the shortened chain holds.
LEMMA FinishReplayNonces == ASSUME IInv, NonceInv, FinishReplay PROVE NonceInv'
<1>1. CASE ~RootReproduced /\ Rollback
  BY <1>1, RestNonces DEF Rollback, Idle, disk
<1>2. CASE /\ chain' = Shortened /\ accts' = work /\ UNCHANGED <<work, dbSlashed>>
           /\ IF blk # NoBlock /\ ProposerAllowed(blk.miner)
              THEN op' = "peer" /\ pos' = 0 /\ rh' = 0 /\ cut' = 0 /\ UNCHANGED blk
              ELSE Idle
  <2>1. op = "replay" /\ rh > cut /\ rh \in Nat /\ cut \in Int
    BY DEF FinishReplay, IInv, TypeOK
  <2>2. /\ DOMAIN chain' = 1..(cut + 1)
        /\ \A i \in 1..(cut + 1) : i \in DOMAIN chain /\ chain'[i] = chain[i] /\ i <= rh
    BY <1>2, <2>1, ShortenedType, ChainTx
  <2>3. SpentStaysSpent'
    BY <1>2, <2>1, <2>2 DEF NonceInv, ReplayNonces, SpentStaysSpent
  <2>4. NoReplay'
    BY <2>2 DEF NonceInv, NoReplay
  <2>5. pos' = 0 /\ op' # "replay" /\ work' = accts'
    BY <1>2 DEF Idle
  <2>6. \A a \in Accounts : accts'.nonce[a] <= work'.nonce[a]
    BY <1>2, ChainTx
  <2>7. ExecutingNonces' /\ ReplayNonces'
    BY <2>5, <2>6 DEF ExecutingNonces, ReplayNonces
  <2> QED BY <2>3, <2>4, <2>7 DEF NonceInv
<1> QED BY <1>1, <1>2 DEF FinishReplay

LEMMA RestartNonces == ASSUME IInv, NonceInv, Restart PROVE NonceInv'
<1>1. accts'.nonce = accts.nonce /\ op' = "boot"
  BY FounderSyncedType, GenesisAllocatedType DEF Restart, IInv, TypeOK
<1>2. CASE chain' = chain
  BY <1>1, <1>2 DEF NonceInv, SpentStaysSpent, NoReplay, ExecutingNonces, ReplayNonces, Executing
<1>3. CASE chain' = <<GenesisBlock(nextHash)>>
  <2>1. DOMAIN chain' = {1} /\ DOMAIN chain'[1].txs = {}
    BY <1>3, GenesisBlockType DEF IInv, TypeOK
  <2> QED BY <1>1, <2>1 DEF NonceInv, SpentStaysSpent, NoReplay, ExecutingNonces, ReplayNonces, Executing
<1> QED BY <1>2, <1>3 DEF Restart

LEMMA NonceStep ==
    ASSUME IInv, ChainLinked, NonceInv, NoInnerCommits, [Next]_vars
    PROVE  NonceInv'
<1> USE DEF disk, loop, memory, net
<1>1. ASSUME NEW s \in TxSeqs, CreateBlock(s) PROVE NonceInv'
  BY <1>1, QuietNonces DEF CreateBlock
<1>2. CASE AddDraft
  BY <1>2, QuietNonces, BeginNonces DEF AddDraft, Begin
<1>3. CASE AskBlocks \/ SyncDone \/ ForkLeft \/ \E b \in known : NoticeFork(b)
  BY <1>3, QuietNonces DEF AskBlocks, SyncDone, ForkLeft, NoticeFork
<1>4. ASSUME NEW b \in known, ImportBlock(b) \/ ImportGenesis(b) PROVE NonceInv'
  BY <1>4, BeginNonces DEF ImportBlock, ImportGenesis, Begin
<1>5. CASE Reorg \/ \E b \in known : SyncReorg(b)
  BY <1>5, BeginReplayNonces DEF Reorg, SyncReorg, BeginReplay
<1>6. CASE ApplyTx \/ SlashProposer \/ PersistBlock
  BY <1>6, ApplyTxNonces, SlashProposerNonces, PersistBlockNonces
<1>7. CASE RefuseBlock \/ Crash
  BY <1>7, RestNonces DEF RefuseBlock, Rollback, Idle, Crash
<1>8. CASE EnsureStateAtTip
  BY <1>8, BeginReplayNonces, RestNonces DEF EnsureStateAtTip, BeginReplay, Idle
<1>9. CASE ReplayTx \/ ReplayReward \/ FinishReplay
  BY <1>9, ReplayTxNonces, ReplayRewardNonces, FinishReplayNonces
<1>10. CASE Restart
  BY <1>10, RestartNonces
<1>11. ASSUME NEW p \in known, NEW m \in Peers, NEW s, PeerSeals(p, m, s) PROVE NonceInv'
  BY <1>11, QuietNonces DEF PeerSeals
<1>12. CASE UNCHANGED vars
  BY <1>12, QuietNonces DEF vars
<1> QED BY <1>1, <1>2, <1>3, <1>4, <1>5, <1>6, <1>7, <1>8, <1>9, <1>10, <1>11, <1>12 DEF Next

LEMMA InitNonces == Init => NonceInv
<1> SUFFICES ASSUME Init PROVE NonceInv
  OBVIOUS
<1>1. DOMAIN chain = {1} /\ DOMAIN chain[1].txs = {} /\ op = "idle"
  BY GenesisBlockType DEF Init
<1> QED BY <1>1 DEF NonceInv, SpentStaysSpent, NoReplay, ExecutingNonces, ReplayNonces, Executing

\* The nonce invariant holds in every behaviour in which no transaction is an EVM call
\* or spends a system pool, so that nothing commits before the block is stored.
LEMMA NoncesInvariant ==
    ASSUME NoInnerCommits
    PROVE  Spec => []NonceInv
<1>1. IInv /\ ChainLinked /\ NonceInv /\ [Next]_vars => NonceInv'
  BY NonceStep
<1> QED BY <1>1, InitNonces, Invariance, OneChain, PTL DEF Spec

\* reorg_to_ancestor, add_block: where nothing commits inside a block, no sender's
\* nonce is used twice on one chain, for any peers, forks, replays and crashes.
THEOREM SpentOnce ==
    ASSUME NoInnerCommits
    PROVE  Spec => []NoReplay
<1>1. NonceInv => NoReplay
  BY DEF NonceInv
<1> QED BY <1>1, NoncesInvariant, PTL

\* reorg_to_ancestor, add_block: under the same assumption the accounts on disk are
\* past every transaction of the blocks on disk, so that a stored transaction can
\* never execute again, whatever is rolled back, replayed or lost in a crash.
THEOREM SpentForGood ==
    ASSUME NoInnerCommits
    PROVE  Spec => []SpentStaysSpent
<1>1. NonceInv => SpentStaysSpent
  BY DEF NonceInv
<1> QED BY <1>1, NoncesInvariant, PTL

-----------------------------------------------------------------------------
(* What a block adds to the balances *)

LEMMA SupplyIsTotal ==
    ASSUME NEW b \in [Accounts -> Nat]
    PROVE  Supply(b) = Total(b, Accounts) /\ Supply(b) \in Nat
<1>1. DOMAIN b = Accounts
  OBVIOUS
<1>2. Supply(b) = Total(b, Accounts)
  BY <1>1 DEF Supply, Total, FoldFunction, FoldFunctionOnSet, MapThenSumSet
<1>3. Total(b, Accounts) \in Nat
  BY AccountAssumption, TotalNat
<1> QED BY <1>2, <1>3

LEMMA SupplyUpdate ==
    ASSUME NEW b \in [Accounts -> Nat], NEW c \in [Accounts -> Nat], NEW y \in Accounts,
           \A x \in Accounts \ {y} : c[x] = b[x]
    PROVE  Supply(c) = Supply(b) - b[y] + c[y]
<1>1. Total(c, Accounts) = Total(b, Accounts) - b[y] + c[y]
  <2>1. \A x \in Accounts : b[x] \in Int
    OBVIOUS
  <2>2. c[y] \in Int
    OBVIOUS
  <2> QED BY <2>1, <2>2, AccountAssumption, TotalUpdate
<1> QED BY <1>1, SupplyIsTotal

LEMMA SupplyMonotonic ==
    ASSUME NEW b \in [Accounts -> Nat], NEW c \in [Accounts -> Nat], \A x \in Accounts : b[x] <= c[x]
    PROVE  Supply(b) <= Supply(c)
<1>1. \A x \in Accounts : c[x] \in Int /\ b[x] \in Int /\ b[x] <= c[x]
  OBVIOUS
<1>2. Total(b, Accounts) <= Total(c, Accounts)
  BY <1>1, AccountAssumption, TotalMonotonic
<1> QED BY <1>2, SupplyIsTotal

LEMMA CreditSupply ==
    ASSUME NEW b \in [Accounts -> Nat], NEW a \in Accounts, NEW x \in Nat
    PROVE  Supply(Credit(b, a, x)) = Supply(b) + x
<1> DEFINE c == Credit(b, a, x)
<1>1. c \in [Accounts -> Nat]
  BY CreditType
<1>2. c[a] = b[a] + x /\ \A y \in Accounts \ {a} : c[y] = b[y]
  BY DEF Credit
<1>3. b[a] \in Nat /\ Supply(b) \in Nat
  BY SupplyIsTotal
<1> HIDE DEF c
<1>4. Supply(c) = Supply(b) - b[a] + c[a]
  BY <1>1, <1>2, SupplyUpdate
<1>5. Supply(c) = Supply(b) + x
  BY <1>2, <1>3, <1>4
<1> QED BY <1>5 DEF c

LEMMA DebitSupply ==
    ASSUME NEW b \in [Accounts -> Nat], NEW a \in Accounts, NEW x \in Nat, x <= b[a]
    PROVE  Supply(Debit(b, a, x)) = Supply(b) - x
<1> DEFINE c == Debit(b, a, x)
<1>1. c \in [Accounts -> Nat]
  BY DebitType
<1>2. c[a] = b[a] - x /\ \A y \in Accounts \ {a} : c[y] = b[y]
  BY DEF Debit
<1>3. b[a] \in Nat /\ Supply(b) \in Nat
  BY SupplyIsTotal
<1> HIDE DEF c
<1>4. Supply(c) = Supply(b) - b[a] + c[a]
  BY <1>1, <1>2, SupplyUpdate
<1>5. Supply(c) = Supply(b) - x
  BY <1>2, <1>3, <1>4
<1> QED BY <1>5 DEF c

\* A transfer moves its value and its fee; it makes and loses nothing.
LEMMA AppliedSupply ==
    ASSUME NEW t \in Tables, NEW tx \in Transactions, NEW m \in Accounts,
           tx.kind # "deploy", Executable(t, tx)
    PROVE  Supply(Applied(t, tx, m).bal) = Supply(t.bal)
<1> DEFINE f == tx.from
           v == tx.value
           paid == Debit(t.bal, f, v)
           moved == Credit(paid, tx.to, v)
           less == Debit(moved, f, Fee)
           mined == Credit(less, m, Fee - Burn)
<1>1. /\ f \in Accounts /\ tx.to \in Accounts /\ v \in Nat /\ t.bal \in [Accounts -> Nat]
      /\ Fee \in Nat /\ Burn \in Nat /\ Fee - Burn \in Nat /\ BurnAcct \in Accounts
  BY AmountAssumption, AccountAssumption DEF Transactions, Tables
<1>2. t.bal[f] \in Nat /\ v + Fee <= t.bal[f] /\ v <= t.bal[f]
  BY <1>1 DEF Executable
<1>3. Applied(t, tx, m).bal = Credit(mined, BurnAcct, Burn)
  BY DEF Applied, FeePaid, ValueMoved, Tables
<1>4. paid \in [Accounts -> Nat] /\ Supply(paid) = Supply(t.bal) - v /\ paid[f] = t.bal[f] - v
  <2>1. Supply(paid) = Supply(t.bal) - v /\ paid \in [Accounts -> Nat]
    BY <1>1, <1>2, DebitSupply, DebitType
  <2>2. paid[f] = t.bal[f] - v
    BY <1>1, <1>2 DEF Debit
  <2> QED BY <2>1, <2>2
<1> HIDE DEF paid
<1>5. moved \in [Accounts -> Nat] /\ Supply(moved) = Supply(paid) + v /\ moved[f] >= paid[f]
  <2>1. Supply(moved) = Supply(paid) + v /\ moved \in [Accounts -> Nat]
    BY <1>1, <1>4, CreditSupply, CreditType
  <2>2. paid[f] \in Nat
    BY <1>1, <1>4
  <2>3. moved[f] = IF tx.to = f THEN paid[f] + v ELSE paid[f]
    BY <1>1, <1>4 DEF Credit
  <2>4. moved[f] >= paid[f]
    BY <1>1, <2>2, <2>3
  <2> QED BY <2>1, <2>4
<1> HIDE DEF moved
<1>6. moved[f] \in Nat /\ Fee <= moved[f]
  <2>1. moved[f] \in Nat
    BY <1>1, <1>5
  <2> HIDE DEF f, v
  <2> QED BY <1>1, <1>2, <1>4, <1>5, <2>1
<1>7. less \in [Accounts -> Nat] /\ Supply(less) = Supply(moved) - Fee
  BY <1>1, <1>5, <1>6, DebitSupply, DebitType
<1> HIDE DEF less
<1>8. mined \in [Accounts -> Nat] /\ Supply(mined) = Supply(less) + (Fee - Burn)
  BY <1>1, <1>7, CreditSupply, CreditType
<1> HIDE DEF mined
<1>9. Supply(Credit(mined, BurnAcct, Burn)) = Supply(mined) + Burn
  BY <1>1, <1>8, CreditSupply
<1>10. Supply(t.bal) \in Nat
  BY <1>1, SupplyIsTotal
<1> HIDE DEF f, v
<1> QED BY <1>1, <1>3, <1>4, <1>5, <1>7, <1>8, <1>9, <1>10

LEMMA MintedBound == ASSUME NEW t PROVE Minted(t) \in Nat /\ Minted(t) <= BlockReward
<1> DEFINE S == {r \in 1..BlockReward : Supply(t.bal) + r <= MaxSupply}
<1>1. IsFiniteSet(1..BlockReward) /\ Cardinality(1..BlockReward) = BlockReward
  BY AmountAssumption, FS_Interval
<1>2. S \subseteq 1..BlockReward
  OBVIOUS
<1>3. Cardinality(S) <= Cardinality(1..BlockReward)
  BY <1>1, <1>2, FS_Subset
<1> QED BY <1>1, <1>3, MintedType DEF Minted

LEMMA RewardedSupply ==
    ASSUME NEW t \in Tables, NEW m \in Accounts
    PROVE  /\ Supply(Rewarded(t, m).bal) \in Nat /\ Supply(t.bal) \in Nat
           /\ Supply(t.bal) <= Supply(Rewarded(t, m).bal)
           /\ Supply(Rewarded(t, m).bal) <= Supply(t.bal) + BlockReward
<1>1. t.bal \in [Accounts -> Nat]
  BY DEF Tables
<1>2. Rewarded(t, m).bal = Credit(t.bal, m, Minted(t))
  BY DEF Rewarded, Tables
<1>3. Supply(Rewarded(t, m).bal) = Supply(t.bal) + Minted(t) /\ Supply(t.bal) \in Nat
  BY <1>1, <1>2, MintedBound, CreditSupply, SupplyIsTotal
<1> QED BY <1>3, MintedBound, AmountAssumption

LEMMA BurnRecordedSupply ==
    ASSUME NEW t \in Tables, NEW s \in Seq(Txs)
    PROVE  Supply(BurnRecorded(t, s).bal) = Supply(t.bal) + Burned(s) /\ Burned(s) \in Nat /\ Supply(t.bal) \in Nat
<1>1. t.bal \in [Accounts -> Nat] /\ BurnAcct \in Accounts
  BY AccountAssumption DEF Tables
<1>2. Burned(s) \in Nat
  <2>1. Len(s) \in Nat /\ Burn \in Nat
    BY AmountAssumption
  <2>2. \A i, j \in Nat : i * j \in Nat
    OBVIOUS
  <2> QED BY <2>1, <2>2 DEF Burned
<1>3. BurnRecorded(t, s).bal = Credit(t.bal, BurnAcct, Burned(s))
  BY DEF BurnRecorded, Tables
<1> QED BY <1>1, <1>2, <1>3, CreditSupply, SupplyIsTotal

LEMMA FounderSyncedSupply ==
    ASSUME NEW t \in Tables
    PROVE  Supply(t.bal) <= Supply(FounderSynced(t).bal)
<1>1. t.bal \in [Accounts -> Nat] /\ FounderSynced(t).bal \in [Accounts -> Nat]
  BY FounderSyncedType DEF Tables
<1>2. \A a \in Accounts : t.bal[a] <= FounderSynced(t).bal[a]
  <2>1. t.bal[Founder] \in Nat /\ Alloc[Founder] \in Nat /\ Founder \in Accounts
    BY <1>1, AccountAssumption
  <2>2. CASE 100 * t.bal[Founder] < 99 * Alloc[Founder]
    <3>1. FounderSynced(t).bal = [t.bal EXCEPT ![Founder] = Alloc[Founder]]
      BY <2>2 DEF FounderSynced, Tables
    <3>2. t.bal[Founder] <= Alloc[Founder]
      BY <2>1, <2>2
    <3> QED BY <1>1, <2>1, <3>1, <3>2
  <2>3. CASE ~(100 * t.bal[Founder] < 99 * Alloc[Founder])
    BY <1>1, <2>3 DEF FounderSynced
  <2> QED BY <2>2, <2>3
<1> QED BY <1>1, <1>2, SupplyMonotonic

LEMMA GenesisAllocatedSupply ==
    ASSUME NEW t \in Tables
    PROVE  Supply(Alloc) <= Supply(GenesisAllocated(t).bal)
<1>1. Alloc \in [Accounts -> Nat] /\ t.bal \in [Accounts -> Nat] /\ GenesisAllocated(t).bal \in [Accounts -> Nat]
  BY GenesisAllocatedType, AccountAssumption DEF Tables
<1>2. GenesisAllocated(t).bal = [a \in Accounts |-> IF Alloc[a] > 0 THEN Alloc[a] ELSE t.bal[a]]
  BY DEF GenesisAllocated, Tables
<1>3. \A a \in Accounts : Alloc[a] <= GenesisAllocated(t).bal[a]
  BY <1>1, <1>2
<1> QED BY <1>1, <1>3, SupplyMonotonic

-----------------------------------------------------------------------------
(* No step mints more than a block may *)

\* The state roots of the chain record supplies that only grew, up to the one on disk,
\* and a replay can restore no other table than one of them or the allocation.
RootsBounded ==
    \A i \in DOMAIN chain : chain[i].root \in Tables => Supply(chain[i].root.bal) <= Supply(accts.bal)

RootsGrow ==
    \A i, j \in DOMAIN chain :
        i < j /\ chain[i].root \in Tables /\ chain[j].root \in Tables
        => Supply(chain[i].root.bal) <= Supply(chain[j].root.bal)

\* The allocation is never lost, on disk or in a replay; below a genesis there is
\* nothing to replay on top of it.
AllocKept ==
    /\ Supply(Alloc) <= Supply(accts.bal)
    /\ op = "replay" => Supply(Alloc) <= Supply(work.bal) /\ (cut < 0 => work.bal = Alloc)

\* Before its reward, a block in execution has only moved coins.
ExecutingMoves == Executing => Supply(work.bal) = Supply(accts.bal)

SupplyInv == RootsBounded /\ RootsGrow /\ AllocKept /\ ExecutingMoves

LEMMA Supplies ==
    ASSUME IInv
    PROVE  /\ Supply(Alloc) \in Nat /\ Supply(accts.bal) \in Nat /\ Supply(work.bal) \in Nat
           /\ \A t \in Tables : Supply(t.bal) \in Nat
<1>1. \A t \in Tables : t.bal \in [Accounts -> Nat]
  BY DEF Tables
<1>2. \A t \in Tables : Supply(t.bal) \in Nat
  BY <1>1, SupplyIsTotal
<1>3. Supply(Alloc) \in Nat
  BY AccountAssumption, SupplyIsTotal
<1> QED BY <1>2, <1>3 DEF IInv, TypeOK

LEMMA QuietSupply == ASSUME SupplyInv, UNCHANGED <<accts, chain, job>> PROVE SupplyInv'
BY DEF SupplyInv, RootsBounded, RootsGrow, AllocKept, ExecutingMoves, Executing, job

LEMMA RestSupply ==
    ASSUME SupplyInv, UNCHANGED <<accts, chain>>, op' \notin {"own", "peer", "replay"}
    PROVE  SupplyInv'
BY DEF SupplyInv, RootsBounded, RootsGrow, AllocKept, ExecutingMoves, Executing

LEMMA BeginSupply ==
    ASSUME SupplyInv, chain' = chain \/ chain' = <<>>, accts' = accts, work' = accts, op' # "replay"
    PROVE  SupplyInv'
BY DEF SupplyInv, RootsBounded, RootsGrow, AllocKept, ExecutingMoves

LEMMA BeginReplaySupply ==
    ASSUME IInv, SupplyInv, UNCHANGED <<accts, chain>>, op' = "replay", work' = GenesisTable
    PROVE  SupplyInv'
<1>1. work'.bal = Alloc /\ Supply(Alloc) \in Nat
  BY Supplies DEF GenesisTable
<1> QED BY <1>1 DEF SupplyInv, RootsBounded, RootsGrow, AllocKept, ExecutingMoves, Executing

LEMMA ApplyTxSupply == ASSUME IInv, SupplyInv, NoInnerCommits, ApplyTx PROVE SupplyInv'
<1> DEFINE tx == blk.txs[pos + 1]
<1>1. CASE ~Executable(work, tx) /\ Rollback
  BY <1>1, RestSupply DEF Rollback, Idle, disk
<1>2. CASE /\ Executable(work, tx) /\ work' = Applied(work, tx, blk.miner)
           /\ accts' = IF CommitsInside(tx) THEN InnerCommit(work, tx, blk.miner) ELSE accts
           /\ UNCHANGED <<chain, op>>
  <2>1. tx \in Txs /\ tx \in Transactions /\ blk.miner \in Accounts /\ work \in Tables
    <3>1. blk.txs \in Seq(Txs) /\ pos + 1 \in 1..Len(blk.txs) /\ blk.miner \in Accounts /\ work \in Tables
      BY BlockFields DEF ApplyTx, IInv, TypeOK
    <3> QED BY <3>1, TxTyped
  <2> HIDE DEF tx
  <2>2. tx.kind # "deploy" /\ accts' = accts
    BY <1>2, <2>1 DEF NoInnerCommits, CommitsInside
  <2>3. Supply(work'.bal) = Supply(work.bal)
    BY <1>2, <2>1, <2>2, AppliedSupply
  <2> QED BY <1>2, <2>2, <2>3 DEF ApplyTx, SupplyInv, RootsBounded, RootsGrow, AllocKept, ExecutingMoves, Executing
<1> QED BY <1>1, <1>2 DEF ApplyTx

\* What the accounts on disk gain when a block is stored, or refused as a double proposal.
LEMMA ExecutedSupply ==
    ASSUME IInv, SupplyInv, Executing
    PROVE  /\ Executed \in Tables /\ Supply(Executed.bal) \in Nat
           /\ Supply(accts.bal) <= Supply(Executed.bal)
           /\ Supply(Executed.bal) <= Supply(accts.bal) + BlockReward
<1>1. work \in Tables /\ blk.miner \in Accounts
  BY BlockFields DEF IInv, TypeOK
<1>2. Supply(work.bal) = Supply(accts.bal)
  BY DEF SupplyInv, ExecutingMoves
<1> QED BY <1>1, <1>2, ExecutedType, RewardedSupply DEF Executed

LEMMA SlashProposerSupply == ASSUME IInv, SupplyInv, SlashProposer PROVE SupplyInv'
<1>1. /\ Executing /\ accts' = Executed /\ chain' = chain /\ op' = "idle"
  BY DEF SlashProposer, Idle
<1>2. Supply(accts.bal) <= Supply(accts'.bal) /\ Supply(accts'.bal) \in Nat
  BY <1>1, ExecutedSupply
<1>3. AllocKept'
  BY <1>1, <1>2, Supplies DEF SupplyInv, AllocKept
<1>4. RootsBounded'
  BY <1>1, <1>2, Supplies DEF SupplyInv, RootsBounded
<1> QED BY <1>1, <1>3, <1>4 DEF SupplyInv, RootsGrow, ExecutingMoves, Executing

LEMMA PersistBlockSupply == ASSUME IInv, SupplyInv, PersistBlock PROVE SupplyInv'
<1> DEFINE n == Len(chain) + 1
<1>1. Executing /\ accts' = BurnRecorded(Executed, blk.txs) /\ op' = "idle"
  BY DEF PersistBlock, Idle
<1>2. blk.txs \in Seq(Txs) /\ Executed \in Tables
  BY <1>1, BlockFields, ExecutedSupply DEF IInv, TypeOK
<1>3. /\ Supply(accts.bal) <= Supply(Executed.bal) /\ Supply(Executed.bal) <= Supply(accts'.bal)
      /\ Supply(accts'.bal) \in Nat /\ Supply(Executed.bal) \in Nat
  <2>1. Supply(accts'.bal) = Supply(Executed.bal) + Burned(blk.txs) /\ Burned(blk.txs) \in Nat
    BY <1>1, <1>2, BurnRecordedSupply
  <2> QED BY <1>1, <2>1, ExecutedSupply
<1>4. /\ DOMAIN chain' = 1..n /\ n \in Nat /\ DOMAIN chain = 1..(n - 1)
      /\ \A i \in DOMAIN chain : chain'[i] = chain[i] /\ i < n
      /\ \A i \in 1..n : i \in DOMAIN chain \/ i = n
  BY AppendedChain, ChainTx
<1>5. chain'[n] = Sealed /\ Sealed.root = Executed
  BY <1>1, SealedType DEF PersistBlock, IInv, TypeOK, Sealed, Blocks
<1> HIDE DEF n
<1>6. AllocKept'
  BY <1>1, <1>3, Supplies DEF SupplyInv, AllocKept
<1>7. \A i \in DOMAIN chain : chain[i].root \in Tables => Supply(chain[i].root.bal) <= Supply(Executed.bal)
  BY <1>3, Supplies DEF SupplyInv, RootsBounded
<1>8. RootsBounded'
  <2> SUFFICES ASSUME NEW i \in 1..n, chain'[i].root \in Tables
               PROVE  Supply(chain'[i].root.bal) <= Supply(accts'.bal)
    BY <1>4 DEF RootsBounded
  <2>1. Supply(chain'[i].root.bal) <= Supply(Executed.bal)
    BY <1>3, <1>4, <1>5, <1>7
  <2>2. Supply(chain'[i].root.bal) \in Nat
    BY Supplies
  <2> QED BY <1>3, <2>1, <2>2
<1>9. RootsGrow'
  <2> SUFFICES ASSUME NEW i \in 1..n, NEW j \in 1..n, i < j,
                      chain'[i].root \in Tables, chain'[j].root \in Tables
               PROVE  Supply(chain'[i].root.bal) <= Supply(chain'[j].root.bal)
    BY <1>4 DEF RootsGrow
  <2>1. CASE j \in DOMAIN chain
    <3>1. i \in DOMAIN chain
      BY <1>4, <2>1
    <3> QED BY <1>4, <2>1, <3>1 DEF SupplyInv, RootsGrow
  <2>2. CASE j = n
    <3>1. i \in DOMAIN chain
      BY <1>4, <2>2
    <3> QED BY <1>4, <1>5, <1>7, <2>2, <3>1
  <2> QED BY <1>4, <2>1, <2>2
<1> QED BY <1>1, <1>6, <1>8, <1>9 DEF SupplyInv, ExecutingMoves, Executing

LEMMA ReplayTxSupply == ASSUME IInv, SupplyInv, NoInnerCommits, ReplayTx PROVE SupplyInv'
<1> DEFINE b == chain[rh + 1]
           tx == b.txs[pos + 1]
<1>1. CASE ~Executable(work, tx) /\ Rollback
  BY <1>1, RestSupply DEF Rollback, Idle, disk
<1>2. CASE /\ Executable(work, tx) /\ work' = Applied(work, tx, b.miner)
           /\ IF CommitsInside(tx)
              THEN accts' = InnerCommit(work, tx, b.miner) /\ chain' = Shortened
              ELSE UNCHANGED <<accts, chain>>
           /\ UNCHANGED <<op, cut>>
  <2>1. tx \in Txs /\ tx \in Transactions /\ b.miner \in Accounts /\ work \in Tables /\ op = "replay" /\ ~(cut < 0)
    <3>1. /\ b.txs \in Seq(Txs) /\ pos + 1 \in 1..Len(b.txs) /\ b.miner \in Accounts
          /\ work \in Tables /\ op = "replay" /\ ~(cut < 0)
      BY ReplayBlock DEF ReplayTx, IInv, TypeOK
    <3> QED BY <3>1, TxTyped
  <2> HIDE DEF b, tx
  <2>2. tx.kind # "deploy" /\ accts' = accts /\ chain' = chain
    BY <1>2, <2>1 DEF NoInnerCommits, CommitsInside
  <2>3. Supply(work'.bal) = Supply(work.bal)
    BY <1>2, <2>1, <2>2, AppliedSupply
  <2> QED BY <1>2, <2>1, <2>2, <2>3 DEF SupplyInv, RootsBounded, RootsGrow, AllocKept, ExecutingMoves, Executing
<1> QED BY <1>1, <1>2 DEF ReplayTx

LEMMA ReplayRewardSupply == ASSUME IInv, SupplyInv, ReplayReward PROVE SupplyInv'
<1>1. UNCHANGED <<accts, chain, op, cut>> /\ op = "replay" /\ ~(cut < 0) /\ work' = Rewarded(work, chain[rh + 1].miner)
  BY ReplayBlock DEF ReplayReward, disk
<1>2. Supply(work.bal) <= Supply(work'.bal) /\ Supply(work'.bal) \in Nat
  BY <1>1, ReplayBlock, RewardedSupply DEF ReplayReward, IInv, TypeOK
<1>3. AllocKept'
  BY <1>1, <1>2, Supplies DEF SupplyInv, AllocKept
<1> QED BY <1>1, <1>3 DEF SupplyInv, RootsBounded, RootsGrow, ExecutingMoves, Executing

\* A replay that succeeds restores the table of a state root, or the allocation.
LEMMA FinishReplaySupply ==
    ASSUME IInv, SupplyInv, FinishReplay
    PROVE  SupplyInv' /\ Supply(accts'.bal) <= Supply(accts.bal)
<1>1. CASE ~RootReproduced /\ Rollback
  BY <1>1, RestSupply, Supplies DEF Rollback, Idle, disk
<1>2. CASE /\ RootReproduced /\ chain' = Shortened /\ accts' = work /\ UNCHANGED <<work, dbSlashed>>
           /\ IF blk # NoBlock /\ ProposerAllowed(blk.miner)
              THEN op' = "peer" /\ pos' = 0 /\ rh' = 0 /\ cut' = 0 /\ UNCHANGED blk
              ELSE Idle
  <2>1. op = "replay" /\ rh > cut /\ cut \in Int /\ work \in Tables /\ work' = accts' /\ op' # "replay"
    BY <1>2 DEF FinishReplay, IInv, TypeOK, Idle
  <2>2. /\ DOMAIN chain' = 1..(cut + 1)
        /\ \A i \in 1..(cut + 1) : i \in DOMAIN chain /\ chain'[i] = chain[i]
    BY <1>2, <2>1, ShortenedType, ChainTx
  <2>3. AllocKept' /\ ExecutingMoves'
    BY <1>2, <2>1 DEF SupplyInv, AllocKept, ExecutingMoves
  <2>4. RootsGrow'
    BY <2>2 DEF SupplyInv, RootsGrow
  <2>5. RootsBounded' /\ Supply(work.bal) <= Supply(accts.bal)
    <3>1. CASE cut >= 0
      <4>1. cut + 1 \in DOMAIN chain /\ chain[cut + 1].root = work
        BY <1>2, <2>1, <2>2, <3>1 DEF RootReproduced
      <4>2. Supply(work.bal) <= Supply(accts.bal)
        BY <2>1, <4>1 DEF SupplyInv, RootsBounded
      <4>3. ASSUME NEW i \in 1..(cut + 1), chain[i].root \in Tables
            PROVE  Supply(chain[i].root.bal) <= Supply(work.bal)
        <5>1. CASE i = cut + 1
          BY <4>1, <5>1, Supplies
        <5>2. CASE i < cut + 1
          BY <2>1, <2>2, <4>1, <4>3, <5>2 DEF SupplyInv, RootsGrow
        <5> QED BY <2>1, <5>1, <5>2
      <4>4. RootsBounded'
        BY <1>2, <2>2, <4>3 DEF RootsBounded
      <4> QED BY <4>2, <4>4
    <3>2. CASE cut < 0
      <4>1. chain' = <<>> /\ DOMAIN chain' = {}
        BY <1>2, <2>1, <2>2, <3>2, ShortenedType
      <4>2. RootsBounded'
        BY <4>1 DEF RootsBounded
      <4>3. Supply(work.bal) <= Supply(accts.bal)
        BY <2>1, <3>2 DEF SupplyInv, AllocKept
      <4> QED BY <4>2, <4>3
    <3> QED BY <2>1, <3>1, <3>2
  <2> QED BY <1>2, <2>3, <2>4, <2>5 DEF SupplyInv
<1> QED BY <1>1, <1>2 DEF FinishReplay

LEMMA RestartSupply == ASSUME IInv, SupplyInv, Restart PROVE SupplyInv'
<1>1. op' = "boot"
  BY DEF Restart
<1>2. CASE chain # <<>> /\ UNCHANGED <<chain, net>> /\ accts' = FounderSynced(accts)
  <2>1. Supply(accts.bal) <= Supply(accts'.bal) /\ Supply(accts'.bal) \in Nat
    BY <1>2, FounderSyncedSupply, FounderSyncedType, Supplies DEF IInv, TypeOK
  <2>2. AllocKept'
    BY <1>1, <2>1, Supplies DEF SupplyInv, AllocKept
  <2>3. RootsBounded'
    BY <1>2, <2>1, Supplies DEF SupplyInv, RootsBounded
  <2> QED BY <1>1, <1>2, <2>2, <2>3 DEF SupplyInv, RootsGrow, ExecutingMoves, Executing
<1>3. CASE chain' = <<GenesisBlock(nextHash)>> /\ accts' = FounderSynced(GenesisAllocated(accts))
  <2>1. Supply(Alloc) <= Supply(accts'.bal)
    <3>1. GenesisAllocated(accts) \in Tables /\ accts' \in Tables
      BY <1>3, GenesisAllocatedType, FounderSyncedType DEF IInv, TypeOK
    <3>2. /\ Supply(Alloc) <= Supply(GenesisAllocated(accts).bal)
          /\ Supply(GenesisAllocated(accts).bal) <= Supply(accts'.bal)
      BY <1>3, <3>1, GenesisAllocatedSupply, FounderSyncedSupply DEF IInv, TypeOK
    <3> QED BY <3>1, <3>2, Supplies
  <2>2. DOMAIN chain' = {1} /\ chain'[1].root \notin Tables
    BY <1>3, GenesisBlockType, LedgerAssumption DEF IInv, TypeOK
  <2> QED BY <1>1, <2>1, <2>2 DEF SupplyInv, RootsBounded, RootsGrow, AllocKept, ExecutingMoves, Executing
<1> QED BY <1>2, <1>3 DEF Restart

LEMMA SupplyStep == ASSUME IInv, SupplyInv, NoInnerCommits, [Next]_vars PROVE SupplyInv'
<1> USE DEF disk, loop, memory, net
<1>1. ASSUME NEW s \in TxSeqs, CreateBlock(s) PROVE SupplyInv'
  BY <1>1, QuietSupply DEF CreateBlock
<1>2. CASE AddDraft
  BY <1>2, QuietSupply, BeginSupply DEF AddDraft, Begin
<1>3. CASE AskBlocks \/ SyncDone \/ ForkLeft \/ \E b \in known : NoticeFork(b)
  BY <1>3, QuietSupply DEF AskBlocks, SyncDone, ForkLeft, NoticeFork
<1>4. ASSUME NEW b \in known, ImportBlock(b) \/ ImportGenesis(b) PROVE SupplyInv'
  BY <1>4, BeginSupply DEF ImportBlock, ImportGenesis, Begin
<1>5. CASE Reorg \/ \E b \in known : SyncReorg(b)
  BY <1>5, BeginReplaySupply DEF Reorg, SyncReorg, BeginReplay
<1>6. CASE ApplyTx \/ SlashProposer \/ PersistBlock
  BY <1>6, ApplyTxSupply, SlashProposerSupply, PersistBlockSupply
<1>7. CASE RefuseBlock \/ Crash
  BY <1>7, RestSupply DEF RefuseBlock, Rollback, Idle, Crash
<1>8. CASE EnsureStateAtTip
  BY <1>8, BeginReplaySupply, RestSupply DEF EnsureStateAtTip, BeginReplay, Idle
<1>9. CASE ReplayTx \/ ReplayReward \/ FinishReplay
  BY <1>9, ReplayTxSupply, ReplayRewardSupply, FinishReplaySupply
<1>10. CASE Restart
  BY <1>10, RestartSupply
<1>11. ASSUME NEW p \in known, NEW m \in Peers, NEW s, PeerSeals(p, m, s) PROVE SupplyInv'
  BY <1>11, QuietSupply DEF PeerSeals
<1>12. CASE UNCHANGED vars
  BY <1>12, QuietSupply DEF vars
<1> QED BY <1>1, <1>2, <1>3, <1>4, <1>5, <1>6, <1>7, <1>8, <1>9, <1>10, <1>11, <1>12 DEF Next

LEMMA InitSupply == Init => SupplyInv
<1> SUFFICES ASSUME Init PROVE SupplyInv
  OBVIOUS
<1>1. DOMAIN chain = {1} /\ chain[1].root \notin Tables /\ op = "idle" /\ accts.bal = Alloc
  BY GenesisBlockType, LedgerAssumption DEF Init, GenesisTable
<1>2. Supply(Alloc) \in Nat
  BY AccountAssumption, SupplyIsTotal
<1> QED BY <1>1, <1>2 DEF SupplyInv, RootsBounded, RootsGrow, AllocKept, ExecutingMoves, Executing

\* What MintBound says of one step.
MintsLittle ==
    op # "down" => Supply(accts'.bal) <= Supply(accts.bal) + BlockReward + Burned(blk.txs)

LEMMA MintStep == ASSUME IInv, SupplyInv, NoInnerCommits, [Next]_vars PROVE MintsLittle
<1> USE DEF disk, job, loop, memory, net
<1>0. BlockReward \in Nat /\ Burned(blk.txs) \in Nat /\ Supply(accts.bal) \in Nat
  BY AmountAssumption, Supplies, BurnRecordedSupply, BlockFields DEF IInv, TypeOK
<1>u. CASE UNCHANGED accts
  BY <1>0, <1>u DEF MintsLittle
<1>1. ASSUME NEW s \in TxSeqs, CreateBlock(s) PROVE UNCHANGED accts
  BY <1>1 DEF CreateBlock
<1>2. CASE AddDraft \/ AskBlocks \/ ForkLeft \/ Reorg \/ EnsureStateAtTip \/ ReplayReward \/ SyncDone \/ Crash
  BY <1>2, <1>u DEF AddDraft, AskBlocks, ForkLeft, Reorg, EnsureStateAtTip, ReplayReward, SyncDone, Crash
<1>3. ASSUME NEW b \in known, ImportBlock(b) \/ ImportGenesis(b) \/ NoticeFork(b) \/ SyncReorg(b) PROVE UNCHANGED accts
  BY <1>3 DEF ImportBlock, ImportGenesis, NoticeFork, SyncReorg
<1>4. CASE ApplyTx
  <2>1. blk.txs[pos + 1] \in Txs
    BY <1>4, BlockFields DEF ApplyTx, IInv, TypeOK
  <2> QED BY <1>4, <1>u, <2>1 DEF ApplyTx, NoInnerCommits, Rollback
<1>5. CASE RefuseBlock
  BY <1>5, <1>u DEF RefuseBlock, Rollback
<1>6. CASE SlashProposer
  <2>1. Executing /\ accts' = Executed
    BY <1>6 DEF SlashProposer
  <2> QED BY <1>0, <2>1, ExecutedSupply DEF MintsLittle
<1>7. CASE PersistBlock
  <2>1. Executing /\ accts' = BurnRecorded(Executed, blk.txs)
    BY <1>7 DEF PersistBlock
  <2>2. Executed \in Tables /\ Supply(Executed.bal) \in Nat /\ Supply(Executed.bal) <= Supply(accts.bal) + BlockReward
    BY <2>1, ExecutedSupply
  <2>3. Supply(accts'.bal) = Supply(Executed.bal) + Burned(blk.txs)
    BY <2>1, <2>2, BurnRecordedSupply, BlockFields DEF IInv, TypeOK
  <2> QED BY <1>0, <2>2, <2>3 DEF MintsLittle
<1>8. CASE ReplayTx
  <2>1. chain[rh + 1].txs[pos + 1] \in Txs
    BY <1>8, ReplayBlock DEF ReplayTx
  <2> QED BY <1>8, <1>u, <2>1 DEF ReplayTx, NoInnerCommits, Rollback
<1>9. CASE FinishReplay
  <2>1. Supply(accts'.bal) <= Supply(accts.bal) /\ accts' \in Tables
    BY <1>9, FinishReplaySupply, FinishReplayIInv DEF IInv, TypeOK
  <2>2. Supply(accts'.bal) \in Nat
    BY <2>1, Supplies
  <2> QED BY <1>0, <2>1, <2>2 DEF MintsLittle
<1>10. CASE Restart
  BY <1>10 DEF Restart, MintsLittle
<1>11. ASSUME NEW p \in known, NEW m \in Peers, NEW s, PeerSeals(p, m, s) PROVE UNCHANGED accts
  BY <1>11 DEF PeerSeals
<1>12. CASE UNCHANGED vars
  BY <1>12, <1>u DEF vars
<1> QED BY <1>u, <1>1, <1>2, <1>3, <1>4, <1>5, <1>6, <1>7, <1>8, <1>9, <1>10, <1>11, <1>12 DEF Next

\* add_block, reorg_to_ancestor, ensure_state_at_tip: where nothing commits inside a
\* block, no step of a running node adds more to the balances on disk than one reward
\* and the burned fees of the block at hand, for any peers, forks, replays and crashes:
\* a replay restores no table richer than the one it replaces.
THEOREM MintsAtMostOneReward ==
    ASSUME NoInnerCommits
    PROVE  Spec => MintBound
<1>1. IInv /\ SupplyInv /\ [Next]_vars => SupplyInv'
  BY SupplyStep
<1>2. IInv /\ SupplyInv /\ [Next]_vars => [MintsLittle]_vars
  BY MintStep
<1> QED BY <1>1, <1>2, InitSupply, Invariance, PTL DEF Spec, MintBound, MintsLittle

=============================================================================
