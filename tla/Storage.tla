------------------------------ MODULE Storage ------------------------------
(***************************************************************************)
(* storage/database.py: the SQLite file, from opening an old or an empty one *)
(* to the writes of the chain.  A statement that defines a table or column   *)
(* commits by itself when no transaction is open; the first UPDATE or INSERT *)
(* opens one, which lasts until commit.  A crash leaves what is committed.   *)
(* initialize runs _configure a second time, which finds nothing to do.      *)
(***************************************************************************)
EXTENDS Integers, FiniteSets, Sequences

CONSTANTS
    TxIds,          \* transactions of blocks
    SpendIds,       \* transfers out of a pool, saved without a block
    MaxHeight,      \* bound: blocks of a chain, less one
    MaxHashes,      \* bound: blocks made
    MaxCrashes      \* bound: crashes

ASSUME StorageAssumption == {MaxHeight, MaxHashes, MaxCrashes} \subseteq Nat /\ TxIds \cap SpendIds = {}

VARIABLES
    file,       \* what is committed: tables, columns, rows
    conn,       \* what the connection sees
    opening,    \* step of _configure; "down", "up"
    renames,    \* whether this SQLite can rename a column
    hashes,     \* blocks made so far
    crashes,
    joined      \* a chain with another genesis was taken over

storageVars == <<file, conn, opening, renames, hashes, crashes, joined>>

-----------------------------------------------------------------------------
(* The tables *)

ChainTables == {"blocks", "transactions", "accounts", "validators", "checkpoints", "burn_stats",
                "bridge_locks", "bridge_credits", "minivm_contracts", "slash_events", "evm_logs",
                "oracle_feeds", "lightning_channels", "lightning_payments"}

ServiceTables == {"plasma_deposits", "plasma_blocks", "plasma_exits", "crypto_wills", "wasm_contracts",
                  "wasm_events", "ai_agents", "mev_simulations", "reorg_assessments", "nft_tokens",
                  "nft_offers", "nft_auctions", "nft_sales"}

AuditTables == {"tx_receipts", "block_proposer_audit", "state_root_mismatches", "tx_propagation_events", "meta"}

\* Columns that an old file lacks, in the order in which they are added.
AddedColumns == <<"data", "tx_count", "gas_used", "total_burned", "extra_data", "burned", "fee", "tx gas_used", "code", "storage">>

\* blocks: height -> hash; hashed: the column hash has its values; full: heights whose
\* row holds the block itself; txs: transaction -> height; receipts: transaction -> its
\* block; audit: height -> hash; mismatches: heights.
Empty == [x \in {} |-> 0]
Lost == 0

Rows(tables, cols, bs, ts) ==
    [tables |-> tables, cols |-> cols, blocks |-> bs, hashed |-> TRUE, full |-> {}, txs |-> ts,
     receipts |-> Empty, audit |-> Empty, mismatches |-> {}]

Put(f, ks, v) == [x \in DOMAIN f \cup ks |-> IF x \in ks THEN v ELSE f[x]]
Below(f, h) == [x \in {y \in DOMAIN f : y <= h} |-> f[x]]
Tip(d) == Cardinality(DOMAIN d.blocks) - 1
HashAt(d, h) == IF h \in DOMAIN d.blocks /\ d.hashed THEN d.blocks[h] ELSE Lost
Receipt(d, h) == [height |-> h, hash |-> HashAt(d, h)]

-----------------------------------------------------------------------------
(* _configure *)

Commits(d) == conn' = d /\ file' = d
Writes(d) == conn' = d /\ UNCHANGED file
Defines(d) == IF file = conn THEN Commits(d) ELSE Writes(d)
Then(step) == opening' = step /\ UNCHANGED <<renames, hashes, crashes, joined>>

\* _create_tables: every CREATE TABLE IF NOT EXISTS commits; a new table has all columns.
CreateTables ==
    /\ opening = "create"
    /\ LET missing == {g \in {ChainTables, ServiceTables, AuditTables} : ~(g \subseteq conn.tables)}
       IN \/ /\ missing = {} /\ UNCHANGED <<file, conn>> /\ Then("rename")
          \/ \E g \in missing :
                /\ Commits([conn EXCEPT !.tables = @ \cup g,
                                        !.cols = IF g = ChainTables /\ "blocks" \notin conn.tables
                                                 THEN {"hash"} \cup {AddedColumns[i] : i \in DOMAIN AddedColumns} ELSE @])
                /\ Then("create")

\* block_hash becomes hash; where that is not supported the column is added, then
\* filled: between the two, the new column is committed and the values are not.
RenameColumn ==
    /\ opening = "rename"
    /\ IF "hash" \in conn.cols
       THEN UNCHANGED <<file, conn>> /\ Then("columns")
       ELSE IF renames
       THEN Defines([conn EXCEPT !.cols = (@ \ {"block_hash"}) \cup {"hash"}]) /\ Then("columns")
       ELSE Defines([conn EXCEPT !.cols = @ \cup {"hash"}, !.hashed = FALSE]) /\ Then("copy")

CopyHashes == opening = "copy" /\ Writes([conn EXCEPT !.hashed = TRUE]) /\ Then("columns")

AddColumns ==
    /\ opening = "columns"
    /\ LET missing == {i \in DOMAIN AddedColumns : AddedColumns[i] \notin conn.cols}
       IN IF missing = {} THEN UNCHANGED <<file, conn>> /\ Then("data")
          ELSE /\ Defines([conn EXCEPT !.cols = @ \cup {AddedColumns[CHOOSE i \in missing : \A j \in missing : i <= j]}])
               /\ Then("columns")

\* The block is made up from its row, without transactions.
BackfillData ==
    /\ opening = "data"
    /\ Writes([conn EXCEPT !.full = DOMAIN conn.blocks])
    /\ Then("receipts")

\* _backfill_tx_receipts_v48
BackfilledReceipts(d) ==
    [d EXCEPT !.receipts = [t \in DOMAIN d.txs \cup DOMAIN @ |-> IF t \in DOMAIN @ THEN @[t] ELSE Receipt(d, d.txs[t])]]

BackfillReceipts == opening = "receipts" /\ Writes(BackfilledReceipts(conn)) /\ Then("audit")

\* _backfill_proposer_audit_v49
BackfillAudit ==
    /\ opening = "audit"
    /\ Writes([conn EXCEPT !.audit = [h \in DOMAIN conn.blocks \cup DOMAIN @ |-> IF h \in DOMAIN @ THEN @[h] ELSE HashAt(conn, h)]])
    /\ Then("commit")

Configured == opening = "commit" /\ Commits(conn) /\ Then("up")

-----------------------------------------------------------------------------
(* Writes of the chain, each in one transaction *)

\* _insert_block with _insert_proposer_audit, then _insert_transaction and
\* _insert_tx_receipt for each.
Persisted(d, h, hash, ts) ==
    [d EXCEPT !.blocks = Put(@, {h}, hash), !.full = @ \cup {h}, !.audit = Put(@, {h}, hash),
              !.txs = Put(@, ts, h), !.receipts = Put(@, ts, [height |-> h, hash |-> hash])]

Made == hashes' = hashes + 1 /\ UNCHANGED <<opening, renames, crashes, joined>>

\* _persist_block_locked, in the transaction of add_block; also the genesis block.
PersistBlock(ts) ==
    /\ opening = "up" /\ Tip(conn) < MaxHeight /\ hashes < MaxHashes
    /\ ts \cap DOMAIN conn.txs = {} /\ (Tip(conn) < 0 => ts = {})
    /\ Commits(Persisted(conn, Tip(conn) + 1, hashes + 1, ts))
    /\ Made

\* save_transaction of /devnet/pool-spend: a row at the height of the tip, no receipt.
SaveTransaction(t) ==
    /\ opening = "up" /\ t \notin DOMAIN conn.txs /\ Tip(conn) >= 0
    /\ Commits([conn EXCEPT !.txs = Put(@, {t}, Tip(conn))])
    /\ UNCHANGED <<opening, renames, hashes, crashes, joined>>

\* A block refused for its state root leaves a note of it.
RecordStateRootMismatch ==
    /\ opening = "up" /\ Tip(conn) >= 0
    /\ Commits([conn EXCEPT !.mismatches = @ \cup {Tip(conn) + 1}])
    /\ UNCHANGED <<opening, renames, hashes, crashes, joined>>

\* Mutant: the receipts of the dropped blocks stay.
TruncatedKeepsReceipts(d, h) ==
    [d EXCEPT !.blocks = Below(@, h), !.full = {x \in @ : x <= h}, !.audit = Below(@, h), !.mismatches = {x \in @ : x <= h},
              !.txs = [t \in {u \in DOMAIN @ : @[u] <= h} |-> @[t]]]

\* The deletions of reorg_to_ancestor, truncate_chain_state.
Truncated(d, h) ==
    [d EXCEPT !.blocks = Below(@, h), !.full = {x \in @ : x <= h}, !.audit = Below(@, h), !.mismatches = {x \in @ : x <= h},
              !.txs = [t \in {u \in DOMAIN @ : @[u] <= h} |-> @[t]],
              !.receipts = [t \in {u \in DOMAIN @ : @[u].height <= h} |-> @[t]]]

Reorg(h) ==
    /\ opening = "up" /\ h < Tip(conn)
    /\ Commits(Truncated(conn, h))
    /\ UNCHANGED <<opening, renames, hashes, crashes, joined>>

\* truncate_all_blocks, when a peer's genesis is another one: the blocks and nothing else.
TruncateAllBlocks ==
    /\ opening = "up" /\ Tip(conn) >= 0 /\ ~joined
    /\ Commits([conn EXCEPT !.blocks = Empty, !.full = {}])
    /\ joined' = TRUE /\ UNCHANGED <<opening, renames, hashes, crashes>>

-----------------------------------------------------------------------------

Open ==
    /\ opening = "down"
    /\ Then("create") /\ UNCHANGED <<file, conn>>

Crash ==
    /\ opening # "down" /\ crashes < MaxCrashes
    /\ opening' = "down" /\ conn' = file /\ crashes' = crashes + 1
    /\ UNCHANGED <<file, renames, hashes, joined>>

\* An empty file, or one of a version without hash, data, receipts and audit.
DatabaseFiles ==
    {Rows({}, {}, Empty, Empty),
     Rows({"blocks", "transactions", "accounts"}, {"block_hash"}, [h \in 0..1 |-> h + 1], [t \in {CHOOSE x \in TxIds : TRUE} |-> 1])}

StorageInit ==
    /\ file \in DatabaseFiles
    /\ conn = file /\ opening = "down" /\ renames \in BOOLEAN
    /\ hashes = 2 /\ crashes = 0 /\ joined = FALSE

StorageNext ==
    \/ Open \/ Crash
    \/ CreateTables \/ RenameColumn \/ CopyHashes \/ AddColumns \/ BackfillData \/ BackfillReceipts \/ BackfillAudit \/ Configured
    \/ \E ts \in SUBSET TxIds : PersistBlock(ts)
    \/ \E t \in SpendIds : SaveTransaction(t)
    \/ RecordStateRootMismatch \/ TruncateAllBlocks
    \/ \E h \in 0..MaxHeight : Reorg(h)

-----------------------------------------------------------------------------
(* Properties *)

\* database.py: once the file is open, whatever crashed before, every block has its
\* audit row and every transaction of a block a receipt that names it, a finished
\* migration left no row without, and a reorganisation left none of a dropped block.
\* Where SQLite cannot rename a column, a crash can cost the hashes.
TablesAgree ==
    renames /\ opening \in {"commit", "up"} =>
        /\ DOMAIN conn.blocks \subseteq conn.full
        /\ \A h \in DOMAIN conn.blocks : h \in DOMAIN conn.audit /\ conn.audit[h] = conn.blocks[h]
        /\ \A t \in DOMAIN conn.txs : t \in TxIds \/ opening = "commit" => t \in DOMAIN conn.receipts
        /\ ~joined => /\ DOMAIN conn.audit = DOMAIN conn.blocks
                      /\ \A t \in DOMAIN conn.receipts :
                            conn.receipts[t].height \in DOMAIN conn.blocks /\ conn.receipts[t].hash = conn.blocks[conn.receipts[t].height]
=============================================================================
