---------------------------- MODULE AccountTable ----------------------------
(***************************************************************************)
(* The accounts table of storage/database.py and what one transaction or   *)
(* one block reward does to it (core/blockchain.py, _apply_transaction and *)
(* _apply_block_reward).  A table value is a record of two total functions, *)
(* bal and nonce; an address without a row is an address with both at 0.    *)
(* Amounts are whole units, and every transaction pays the same fee.        *)
(***************************************************************************)
EXTENDS Integers, Sequences, FiniteSets, Functions

CONSTANTS
    Accounts,     \* the addresses of the model
    GenesisAcct,  \* the pseudo-miner "genesis" of a genesis block
    BurnAcct,     \* config.burn_address
    Founder,      \* config.founder_address
    Alloc,        \* genesis_balances(): the genesis balance of every address
    Fee,          \* tx.gas * gas_price_wei
    Burn,         \* the part of the fee that is burned (fee * burn_rate)
    BlockReward,  \* config.block_reward
    MaxSupply,    \* config.max_supply
    Pools         \* system pools whose spending PoolLockManager records

ASSUME AccountAssumption ==
    /\ GenesisAcct \in Accounts /\ BurnAcct \in Accounts /\ Founder \in Accounts
    /\ IsFiniteSet(Accounts) /\ Pools \subseteq Accounts
    /\ Alloc \in [Accounts -> Nat]

ASSUME AmountAssumption ==
    /\ Fee \in Nat /\ Burn \in Nat /\ Burn <= Fee
    /\ BlockReward \in Nat /\ MaxSupply \in Nat

Kinds == {"transfer", "call", "deploy"}

\* What a transaction carries; signatures and hashes are taken as valid.  The
\* recipient of a deploy is the address that deploy_contract derives.
Transactions == [from: Accounts, to: Accounts, value: Nat, nonce: Nat, kind: Kinds]

Tables == [bal: [Accounts -> Nat], nonce: [Accounts -> Nat]]

\* The table reorg_to_ancestor rebuilds from: the genesis allocation, no nonces.
GenesisTable == [bal |-> Alloc, nonce |-> [a \in Accounts |-> 0]]

-----------------------------------------------------------------------------
(* UPDATE accounts SET balance = MAX(0, balance + delta) *)

Credit(b, a, x) == [b EXCEPT ![a] = @ + x]

Debit(b, a, x) == [b EXCEPT ![a] = IF @ >= x THEN @ - x ELSE 0]

\* SELECT SUM(balance) FROM accounts: the burn address counts too.
Supply(b) == FoldFunction(+, 0, b)

-----------------------------------------------------------------------------
(* One transaction *)

\* Mutant: the nonce check is dropped.
ExecutableAnyNonce(t, tx) == t.bal[tx.from] >= tx.value + Fee

\* The checks validate_transaction and _apply_transaction make on the table.
Executable(t, tx) ==
    /\ tx.nonce = t.nonce[tx.from]
    /\ t.bal[tx.from] >= tx.value + Fee

\* The value alone.  deploy_contract saves the new account with the value as its
\* balance and then moves the value to it as well.
ValueMoved(t, tx) ==
    LET paid == Debit(t.bal, tx.from, tx.value)
    IN IF tx.kind = "deploy"
       THEN [bal |-> [paid EXCEPT ![tx.to] = 2 * tx.value],
             nonce |-> [t.nonce EXCEPT ![tx.to] = 0]]
       ELSE [t EXCEPT !.bal = Credit(paid, tx.to, tx.value)]

\* The fee, the miner's and the burned share of it, the nonce.
FeePaid(t, tx, proposer) ==
    [bal |-> Credit(Credit(Debit(t.bal, tx.from, Fee), proposer, Fee - Burn),
                    BurnAcct, Burn),
     nonce |-> [t.nonce EXCEPT ![tx.from] = @ + 1]]

\* Mutant: a transfer that does not debit the sender.
AppliedNoDebit(t, tx, proposer) ==
    FeePaid([t EXCEPT !.bal = Credit(@, tx.to, tx.value)], tx, proposer)

\* The whole transaction, once it is Executable.
Applied(t, tx, proposer) == FeePaid(ValueMoved(t, tx), tx, proposer)

\* The EVM adapter and PoolLockManager call helpers of Database that commit,
\* and so end the SQLite transaction the block is executed in.
CommitsInside(tx) == tx.kind # "transfer" \/ tx.from \in Pools

\* The table that the last such commit makes durable: record_outgoing comes
\* after the fee, the EVM adapter before it.
InnerCommit(t, tx, proposer) ==
    IF tx.from \in Pools THEN Applied(t, tx, proposer) ELSE ValueMoved(t, tx)

-----------------------------------------------------------------------------
(* The block reward *)

\* Mutant: max(0, ...) is missing.
MintedNoFloor(t) ==
    IF Supply(t.bal) + BlockReward > MaxSupply THEN MaxSupply - Supply(t.bal) ELSE BlockReward

\* How many of the BlockReward units still fit under max_supply.
Minted(t) == Cardinality({r \in 1..BlockReward : Supply(t.bal) + r <= MaxSupply})

Rewarded(t, proposer) == [t EXCEPT !.bal = Credit(@, proposer, Minted(t))]

-----------------------------------------------------------------------------
(* The rest of the block's effect on the table *)

Burned(txs) == Burn * Len(txs)

\* _persist_block_locked credits the burn address a second time, after the
\* state root of the block was taken.
BurnRecorded(t, txs) == [t EXCEPT !.bal = Credit(@, BurnAcct, Burned(txs))]

\* _apply_genesis_allocation at every start: a founder below 99% of the
\* genesis amount is set back to it.
FounderSynced(t) ==
    IF 100 * t.bal[Founder] < 99 * Alloc[Founder]
    THEN [t EXCEPT !.bal[Founder] = Alloc[Founder]]
    ELSE t

\* _ensure_genesis writes the allocation over the rows that exist.
GenesisAllocated(t) ==
    [t EXCEPT !.bal = [a \in Accounts |-> IF Alloc[a] > 0 THEN Alloc[a] ELSE @[a]]]
=============================================================================
