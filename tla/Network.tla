------------------------------- MODULE Network -------------------------------
(***************************************************************************)
(* network/p2p_node.py on two nodes joined by a TCP connection: gossip of    *)
(* blocks and transactions, catching up with a higher peer, reconciling a    *)
(* fork, and the mempools, with the mining loop of main.py.                  *)
(*                                                                          *)
(* A node is one asyncio loop, so that what happens between two awaits is    *)
(* one action.  Its tasks wait for answers: "loop" reads the messages of the *)
(* peer and handles them one by one, "sync" is _sync_with_peer_safe, "rest"  *)
(* is reconcile_peers, called from the REST server, and "fast" is            *)
(* SyncEngine.fast_sync, its fallback without a P2P node.  Executing a block *)
(* is the business of Ledger: here a block is imported if it extends the     *)
(* tip.  No block of the model is old enough to be final.                    *)
(***************************************************************************)
EXTENDS Integers, Sequences, FiniteSets, SequencesExt

CONSTANTS
    Nodes,          \* the two nodes
    Txs,            \* the transactions of clients
    BatchSize,      \* config.sync_batch_size
    MaxPool,        \* Mempool.max_size
    Dropped,        \* a tenth of a full pool, the cheapest, makes room for another one
    NearBy,         \* mempools are exchanged up to this difference of heights: 2
    Fee,            \* the fee of every transaction
    MaxWire,        \* bound on the messages on their way when a node sends its status
    Budgets         \* the blocks that both nodes start with, how many of its own
                    \* every node has on top, and bounds on the blocks mined, the calls of
                    \* the REST server and of fast_sync, the broken connections and the transactions

ASSUME NetworkAssumption ==
    /\ (\E a, b \in Nodes : a # b /\ Nodes = {a, b}) /\ BatchSize \in Nat \ {0} /\ NearBy \in Nat
    /\ MaxPool \in Nat \ {0} /\ Dropped \in 1..MaxPool /\ Fee \in [Txs -> Nat]
    /\ MaxWire \in Nat /\ Budgets \subseteq [shared : Nat, own : [Nodes -> Nat], blocks : Nat, rest : Nat, fast : Nat, drops : Nat, txs : Nat]

Tasks == {"loop", "sync", "rest", "fast"}

VARIABLES
    chain,      \* the blocks of every node, the genesis first
    pool,       \* Mempool.transactions
    up,         \* whether the connection stands
    peer,       \* what a node knows of its peer: PeerConnection.height and head
    wire,       \* the messages a node has sent and the peer has not read
    waiter,     \* _sync_waiters: the task that waits, and for which message
    task,       \* where every task is
    fetched,    \* what fast_sync has downloaded, and the height it stops at
    consistent, \* _state_consistent
    mined,      \* the last identifier given to a block
    left        \* what is left of the budget

vars == <<chain, pool, up, peer, wire, waiter, task, fetched, consistent, mined, left>>
bounds == <<mined, left, fetched>>

Peer(n) == CHOOSE m \in Nodes : m # n

Genesis == [id |-> 0, parent |-> -1, height |-> 0, txs |-> {}]
Tip(c) == Last(c)
Height(n) == Len(chain[n]) - 1
NoWaiter == [task |-> "none", type |-> "none"]
NothingFetched == [stop |-> 0, blocks |-> <<>>]
Resting == [at |-> "idle", from |-> 0]
Waits(n, t) == task[n][t].at \notin {"idle", "start", "joined"}

Has(c, id) == \E i \in DOMAIN c : c[i].id = id
WithId(c, id) == c[CHOOSE i \in DOMAIN c : c[i].id = id]
TxsOf(c) == UNION {c[i].txs : i \in DOMAIN c}
Between(c, from, to) == SubSeq(c, from + 1, Min({to + 1, Len(c)}))  \* by their heights

-----------------------------------------------------------------------------
(* Mempool.add, with validate_transaction: a transaction that the chain has  *)
(* already fails on its nonce                                                *)

Cheapest(p) == CHOOSE s \in SUBSET p : Cardinality(s) = Dropped /\ \A a \in s, b \in p \ s : Fee[a] <= Fee[b]

\* Mutant: a full pool is not cleaned up.
AddedAnyway(p, c, t) == IF t \in TxsOf(c) THEN p ELSE p \cup {t}

Added(p, c, t) ==
    IF t \in p \/ t \in TxsOf(c) THEN p
    ELSE IF Cardinality(p) >= MaxPool THEN (p \ Cheapest(p)) \cup {t}
    ELSE p \cup {t}

\* _handle_mempool_batch: the transactions of an answer one by one, dearest first.
CheapestOf(ts) == CHOOSE t \in ts : \A x \in ts : Fee[t] <= Fee[x]
AddedAll(p, c, ts) == MapThenFoldSet(LAMBDA t, q : Added(q, c, t), p, LAMBDA t : t, CheapestOf, ts)

-----------------------------------------------------------------------------
(* Messages *)

Status(c) == [type |-> "status", height |-> Len(c) - 1, head |-> Tip(c).id]
NewBlock(b) == [type |-> "new_block", block |-> b]

\* broadcast_tx, which the bus calls for every transaction of a client.
NewTx(t) == [type |-> "new_tx", txs |-> {t}]

\* _broadcast_block, which the bus calls for every block that add_block stores.
Broadcast(b) == <<NewBlock(b), [type |-> "status", height |-> b.height, head |-> b.id]>>

Broadcasts(bs) == FlattenSeq([i \in DOMAIN bs |-> Broadcast(bs[i])])

\* The wires w after n has sent out; the wires after n has read a message.
Sent(w, n, out) == IF up THEN [w EXCEPT ![n] = @ \o out] ELSE w
Taken(n) == [wire EXCEPT ![Peer(n)] = Tail(@)]

\* _wait_peer_response: whoever waited for this peer before is forgotten.
Asks(n, t, type, from) ==
    /\ waiter' = [waiter EXCEPT ![n] = [task |-> t, type |-> type]]
    /\ task' = [task EXCEPT ![n][t] = [at |-> type, from |-> from]]

\* A task ends its wait: the entry of the peer goes, whosever it is.
Stops(n, t) ==
    /\ waiter' = [waiter EXCEPT ![n] = NoWaiter]
    /\ task' = [task EXCEPT ![n][t] = Resting]

\* _sync_with_peer_safe: nothing when the lock of the peer is held.
Spawned(n) == [task EXCEPT ![n]["sync"] = IF @ = Resting THEN [at |-> "start", from |-> 0] ELSE @]

GetHead(id) == [type |-> "get_block", id |-> id]
GetRoot(n) == [type |-> "root_request", height |-> Len(chain'[n]) - 1]
GetBlocks(from, to) == [type |-> "get_blocks", from |-> from, to |-> to]
GetPool == [type |-> "get_mempool"]

-----------------------------------------------------------------------------
(* What a task does next; w are the wires before it sends *)

\* SyncEngine.sync_state in a thread: it asks for the peer's state root and keeps
\* its own, which stands for the chain, to compare.
AsksRoot(n, t, w, echo) ==
    /\ Asks(n, t, "root_response", Tip(chain'[n]).id)
    /\ wire' = Sent(w, n, <<GetRoot(n)>> \o echo)

Near(n) == LET d == peer'[n].height - (Len(chain'[n]) - 1) IN d <= NearBy /\ -d <= NearBy

\* _sync_mempool_with_peer; without it a sync is over, and reconcile_peers goes on.
AsksPool(n, t, w, echo) ==
    \/ Near(n) /\ Asks(n, t, "mempool", 0) /\ wire' = Sent(w, n, <<GetPool>> \o echo)
    \/ ~Near(n) /\ t = "sync" /\ Stops(n, t) /\ wire' = Sent(w, n, echo)
    \/ ~Near(n) /\ t = "rest" /\ AsksRoot(n, t, w, echo)

\* Mutant: the batch starts at the height the node already has.
FirstHeightAgain(height) == height

\* The first height _sync_with_peer asks for.
FirstHeight(height) == IF height = 0 THEN 0 ELSE height + 1

AsksBlocks(n, current, w, echo) ==
    LET to == IF current + BatchSize - 1 < peer'[n].height THEN current + BatchSize - 1 ELSE peer'[n].height
    IN /\ Asks(n, "sync", "blocks", current)
       /\ wire' = Sent(w, n, <<GetBlocks(current, to)>> \o echo)

\* _reconcile_fork_at_peer up to its question.
AsksHead(n, t, w, echo) ==
    /\ Asks(n, t, "block", 0)
    /\ wire' = Sent(w, n, <<GetHead(peer'[n].head)>> \o echo)

-----------------------------------------------------------------------------
(* The tasks start *)

SyncStarts(n) ==
    /\ task[n]["sync"].at = "start"
    /\ UNCHANGED <<chain, pool, up, peer, consistent, bounds>>
    /\ \/ /\ peer[n].height < Height(n)
          /\ task' = [task EXCEPT ![n]["sync"] = Resting] /\ UNCHANGED <<wire, waiter>>
       \/ /\ peer[n].height = Height(n)
          /\ IF peer[n].head # Tip(chain[n]).id
             THEN AsksHead(n, "sync", wire, <<>>) ELSE AsksRoot(n, "sync", wire, <<>>)
       \/ /\ peer[n].height > Height(n)
          /\ AsksBlocks(n, FirstHeight(Height(n)), wire, <<>>)

\* POST /sync/reconcile
RestStarts(n) ==
    /\ up /\ task[n]["rest"] = Resting /\ left.rest > 0
    /\ left' = [left EXCEPT !.rest = @ - 1]
    /\ UNCHANGED <<chain, pool, up, peer, consistent, mined, fetched>>
    /\ \/ /\ peer[n].height > Height(n)
          /\ task' = [Spawned(n) EXCEPT ![n]["rest"] = [at |-> "joined", from |-> 0]]
          /\ UNCHANGED <<wire, waiter>>
       \/ /\ peer[n].height = Height(n) /\ peer[n].head # Tip(chain[n]).id
          /\ AsksHead(n, "rest", wire, <<>>)
       \/ /\ peer[n].height < Height(n) \/ (peer[n].height = Height(n) /\ peer[n].head = Tip(chain[n]).id)
          /\ AsksPool(n, "rest", wire, <<>>)

\* reconcile_peers awaits the sync it started.
RestGoesOn(n) ==
    /\ task[n]["rest"].at = "joined" /\ task[n]["sync"] = Resting
    /\ UNCHANGED <<chain, pool, up, peer, consistent, bounds>>
    /\ AsksPool(n, "rest", wire, <<>>)

\* POST /sync/fast-sync: catch_up_sync awaits a sync with every higher peer.
CatchUpSync(n) ==
    /\ up /\ left.rest > 0 /\ peer[n].height > Height(n)
    /\ left' = [left EXCEPT !.rest = @ - 1]
    /\ task' = Spawned(n)
    /\ UNCHANGED <<chain, pool, up, peer, wire, waiter, consistent, mined, fetched>>

\* _catch_up_loop: the status goes to the peer, a higher peer starts a sync.  A turn
\* that tells the peer nothing new and starts nothing is left out.
CatchUpTick(n) ==
    /\ up /\ Len(wire[n]) < MaxWire
    /\ \/ peer[Peer(n)] # [height |-> Height(n), head |-> Tip(chain[n]).id]
       \/ peer[n].height > Height(n) /\ task[n]["sync"] = Resting
    /\ wire' = Sent(wire, n, <<Status(chain[n])>>)
    /\ task' = IF peer[n].height > Height(n) THEN Spawned(n) ELSE task
    /\ UNCHANGED <<chain, pool, up, peer, waiter, consistent, bounds>>

-----------------------------------------------------------------------------
(* Answers *)

\* Mutant: the parent of a block is not compared.
ImportableByHeight(c, b) == b.height = Len(c)

\* import_block, structurally.  A chain cut back below the genesis of a peer is empty:
\* there is no last block to compare the parent with.
Importable(c, b) == b.height = Len(c) /\ (c # <<>> => b.parent = Tip(c).id)

\* How many of the blocks can be imported one after another.
ImportRun(c, bs) ==
    CHOOSE k \in 0..Len(bs) :
        /\ \A i \in 1..k : Importable(c \o SubSeq(bs, 1, i - 1), bs[i])
        /\ k < Len(bs) => ~Importable(c \o SubSeq(bs, 1, k), bs[k + 1])

\* find_ancestor_height: -1 for none; the genesis counts as its own parent.
Ancestor(c, b) ==
    IF b.parent = Genesis.parent THEN 0
    ELSE IF Has(c, b.parent) THEN WithId(c, b.parent).height
    ELSE -1

\* reorg_to_ancestor
CutTo(c, h) == SubSeq(c, 1, h + 1)

\* A batch of blocks: those that fit are imported.  At the first one that does not,
\* the chain is cut back to its parent if that lies lower, and the batch is left.
\* Nothing imported ends the loop, and so does the height the peer was known to have.
GotBlocks(n, bs, w) ==
    LET c == chain[n]
        k == ImportRun(c, bs)
        imported == SubSeq(bs, 1, k)
        longer == c \o imported
        a == IF k < Len(bs) THEN Ancestor(longer, bs[k + 1]) ELSE -1
        cuts == a # -1 /\ a < Len(longer) - 1
        result == IF cuts THEN CutTo(longer, a) ELSE longer
        current == IF cuts THEN a + 1
                   ELSE IF k > 0 THEN Last(imported).height + 1
                   ELSE task[n]["sync"].from
        known == IF k > 0 /\ Len(result) - 1 > peer[n].height THEN Len(result) - 1 ELSE peer[n].height
    IN /\ chain' = [chain EXCEPT ![n] = result]
       /\ peer' = [peer EXCEPT ![n].height = known]
       /\ IF k > 0 /\ current <= known
          THEN AsksBlocks(n, current, w, Broadcasts(imported))
          ELSE AsksRoot(n, "sync", w, Broadcasts(imported))
       /\ UNCHANGED <<pool, up, consistent, bounds>>

\* The end of fast_sync: the blocks are imported if they are linked to each other and
\* to the block where the download stopped; one that fails ends it.
FastImports(n, blocks, w) ==
    LET c == chain[n]
        stop == fetched[n].stop
        linked == /\ blocks # <<>>
                  /\ \A i \in DOMAIN blocks :
                        /\ blocks[i].height = stop + i
                        /\ i > 1 => blocks[i].parent = blocks[i - 1].id
                  /\ Len(c) > stop => Head(blocks).parent = c[stop + 1].id
        k == IF linked THEN ImportRun(c, blocks) ELSE 0
        imported == SubSeq(blocks, 1, k)
    IN /\ chain' = [chain EXCEPT ![n] = c \o imported]
       /\ fetched' = [fetched EXCEPT ![n] = NothingFetched]
       /\ IF linked /\ k = Len(blocks)
          THEN AsksRoot(n, "fast", w, Broadcasts(imported))
          ELSE Stops(n, "fast") /\ wire' = Sent(w, n, Broadcasts(imported))

\* download_chain: from a head back to a block that the node has.
FastDownloads(n, id, blocks, w) ==
    \/ /\ Has(chain[n], id)
       /\ FastImports(n, Between(chain[n], fetched[n].stop + 1, WithId(chain[n], id).height) \o blocks, w)
    \/ /\ ~Has(chain[n], id)
       /\ Asks(n, "fast", "block", id) /\ wire' = Sent(w, n, <<GetHead(id)>>)
       /\ fetched' = [fetched EXCEPT ![n].blocks = blocks]
       /\ UNCHANGED chain

FastGot(n, found, b, w) ==
    /\ IF found /\ b.id = task[n]["fast"].from /\ b.height > fetched[n].stop
       THEN FastDownloads(n, b.parent, <<b>> \o fetched[n].blocks, w)
       ELSE FastImports(n, fetched[n].blocks, w)
    /\ UNCHANGED <<pool, up, peer, consistent, mined, left>>

\* request_heads and select_best_head: with one peer its head is the best one.
BestHead(n) == peer[n].head

\* SyncEngine.fast_sync
FastStarts(n) ==
    /\ up /\ task[n]["fast"] = Resting /\ left.fast > 0
    /\ left' = [left EXCEPT !.fast = @ - 1]
    /\ UNCHANGED <<chain, pool, up, peer, consistent, mined>>
    /\ \/ peer[n].height <= Height(n) /\ AsksRoot(n, "fast", wire, <<>>) /\ UNCHANGED fetched
       \/ /\ peer[n].height > Height(n)
          /\ Asks(n, "fast", "block", BestHead(n)) /\ wire' = Sent(wire, n, <<GetHead(BestHead(n))>>)
          /\ fetched' = [fetched EXCEPT ![n] = [stop |-> Height(n), blocks |-> <<>>]]

\* The rest of _reconcile_fork_at_peer, with the peer's head.  found tells whether
\* there was an answer with a block.
GotHead(n, t, found, b, w) ==
    LET c == chain[n]
        a == IF found THEN Ancestor(c, b) ELSE -1
        cutTo == IF a < b.height - 1 THEN a ELSE b.height - 1
        cut == CutTo(c, cutTo)
        after == IF a = -1 THEN c ELSE IF Importable(cut, b) THEN Append(cut, b) ELSE cut
        echo == IF a # -1 /\ Importable(cut, b) THEN Broadcast(b) ELSE <<>>
    IN /\ chain' = [chain EXCEPT ![n] = after]
       /\ peer' = IF a # -1 /\ Importable(cut, b) THEN [peer EXCEPT ![n] = [height |-> b.height, head |-> b.id]] ELSE peer
       /\ IF t = "loop" THEN Stops(n, t) /\ wire' = Sent(w, n, echo) ELSE AsksPool(n, t, w, echo)
       /\ UNCHANGED <<pool, up, consistent, bounds>>

\* sync_state's verdict; a peer that did not answer disagrees with nothing.
GotRoot(n, t, agrees, w) ==
    /\ consistent' = [consistent EXCEPT ![n] = agrees]
    /\ UNCHANGED <<chain, pool, up, peer, bounds>>
    /\ IF t = "sync" THEN AsksPool(n, t, w, <<>>) ELSE Stops(n, t) /\ wire' = Sent(w, n, <<>>)

GotPool(n, t, ts, w) ==
    /\ pool' = [pool EXCEPT ![n] = AddedAll(@, chain[n], ts)]
    /\ UNCHANGED <<chain, up, peer, consistent, bounds>>
    /\ IF t = "rest" THEN AsksRoot(n, t, w, <<>>) ELSE Stops(n, t) /\ wire' = Sent(w, n, <<>>)

Reads(n) == up /\ task[n]["loop"] = Resting /\ wire[Peer(n)] # <<>>
Message(n) == Head(wire[Peer(n)])
Awaited(n) == waiter[n].type = Message(n).type

\* The message loop hands the peer's answer to the one who waits for it.
Answered(n) ==
    /\ Reads(n) /\ Awaited(n)
    /\ LET m == Message(n)
           t == waiter[n].task
       IN CASE m.type = "blocks" -> GotBlocks(n, m.blocks, Taken(n))
          []   m.type = "block" /\ t = "fast" -> FastGot(n, m.found, m.block, Taken(n))
          []   m.type = "block" /\ t # "fast" -> GotHead(n, t, m.found, m.block, Taken(n))
          []   m.type = "root_response" ->
                 GotRoot(n, t, m.root = task[n][t].from, Taken(n))
          []   m.type = "mempool" -> GotPool(n, t, m.txs, Taken(n))

\* An answer takes longer than the time-out only if the question was forgotten or a
\* message loop does not read: messages take milliseconds, waits 12 or 15 seconds.
\* The wait for blocks, 45 seconds, is longer than any of a message loop.
MayTimeOut(n, t) ==
    LET forgotten == ~up \/ waiter[n].task # t
        blocked == \E m \in Nodes : task[m]["loop"] # Resting
    IN IF task[n][t].at = "blocks" THEN forgotten /\ ~blocked ELSE forgotten \/ blocked

\* Mutant: a wait has no time-out.
TimesOutNever(n, t) == FALSE /\ UNCHANGED vars

TimesOut(n, t) ==
    /\ Waits(n, t) /\ MayTimeOut(n, t)
    /\ CASE task[n][t].at = "blocks" -> GotBlocks(n, <<>>, wire)
       []   task[n][t].at = "block" /\ t = "fast" -> FastGot(n, FALSE, Genesis, wire)
       []   task[n][t].at = "block" /\ t # "fast" -> GotHead(n, t, FALSE, Genesis, wire)
       []   task[n][t].at = "root_response" -> GotRoot(n, t, TRUE, wire)
       []   task[n][t].at = "mempool" -> GotPool(n, t, {}, wire)

-----------------------------------------------------------------------------
(* _handle_message, for what nobody waits for *)

\* _handle_new_block.  A fork is reconciled inside the message loop, and so is the
\* comparison of the state roots after an import.
HandleNewBlock(n, b) ==
    LET c == chain[n]
    IN /\ peer' = [peer EXCEPT ![n] = [height |-> IF b.height > @.height THEN b.height ELSE @.height, head |-> b.id]]
       /\ UNCHANGED <<up, consistent, bounds>>
       /\ \/ /\ b.height <= Height(n) /\ c[b.height + 1].id # b.id /\ b.id # Tip(c).id
             /\ AsksHead(n, "loop", Taken(n), <<>>) /\ UNCHANGED <<chain, pool>>
          \/ /\ b.height <= Height(n) /\ c[b.height + 1].id = b.id
             /\ wire' = Taken(n) /\ UNCHANGED <<chain, pool, task, waiter>>
          \/ /\ b.height > Height(n) + 1
             /\ wire' = Taken(n) /\ task' = Spawned(n) /\ UNCHANGED <<chain, pool, waiter>>
          \/ /\ b.height = Height(n) + 1 /\ ~Importable(c, b)
             /\ wire' = Taken(n) /\ UNCHANGED <<chain, pool, task, waiter>>
          \/ /\ Importable(c, b)
             /\ pool' = [pool EXCEPT ![n] = @ \ b.txs]
             /\ chain' = [chain EXCEPT ![n] = Append(@, b)]
             /\ AsksRoot(n, "loop", Taken(n), Broadcast(b))

\* _handle_get_blocks
BlockRange(c, from, to) == Between(c, from, Min({to, from + BatchSize - 1}))

\* The questions of the peer.
Reply(n, m) ==
    CASE m.type = "get_blocks" -> [type |-> "blocks", blocks |-> BlockRange(chain[n], m.from, m.to)]
    []   m.type = "get_block" ->
           [type |-> "block", found |-> Has(chain[n], m.id),
            block |-> IF Has(chain[n], m.id) THEN WithId(chain[n], m.id) ELSE Genesis]
    []   m.type = "get_mempool" -> [type |-> "mempool", txs |-> pool[n]]
    []   m.type = "root_request" -> [type |-> "root_response", height |-> m.height, root |-> Tip(chain[n]).id]

Questions == {"get_blocks", "get_block", "get_mempool", "root_request"}

Handles(n) ==
    LET m == Message(n)
    IN /\ Reads(n) /\ ~Awaited(n)
       /\ \/ m.type = "new_block" /\ HandleNewBlock(n, m.block)
          \/ /\ m.type \in Questions /\ wire' = Sent(Taken(n), n, <<Reply(n, m)>>)
             /\ UNCHANGED <<chain, pool, up, peer, waiter, task, consistent, bounds>>
          \/ /\ m.type = "status" /\ wire' = Taken(n)
             /\ peer' = [peer EXCEPT ![n] = [height |-> m.height, head |-> m.head]]
             /\ UNCHANGED <<chain, pool, up, waiter, task, consistent, bounds>>
          \/ /\ m.type \in {"new_tx", "mempool"} /\ wire' = Taken(n)
             /\ pool' = [pool EXCEPT ![n] = AddedAll(@, chain[n], m.txs)]
             /\ UNCHANGED <<chain, up, peer, waiter, task, consistent, bounds>>
          \* Without a waiter a root is compared with the node's own.
          \/ /\ m.type = "root_response" /\ wire' = Taken(n)
             /\ consistent' = [consistent EXCEPT ![n] =
                    @ /\ ~(waiter[n] = NoWaiter /\ m.height = Height(n) /\ m.root # Tip(chain[n]).id)]
             /\ UNCHANGED <<chain, pool, up, peer, waiter, task, bounds>>
          \* Blocks that nobody waits for are dropped.
          \/ /\ m.type \in {"blocks", "block"} /\ wire' = Taken(n)
             /\ UNCHANGED <<chain, pool, up, peer, waiter, task, consistent, bounds>>

-----------------------------------------------------------------------------
(* The mining loop and the clients *)

\* The transactions of the pool that the chain does not have yet go into the block;
\* the others stay in the pool.
MineBlock(n) ==
    /\ left.blocks > 0 /\ left' = [left EXCEPT !.blocks = @ - 1]
    /\ mined' = mined + 1
    /\ LET b == [id |-> mined + 1, parent |-> Tip(chain[n]).id, height |-> Len(chain[n]),
                 txs |-> pool[n] \ TxsOf(chain[n])]
       IN /\ chain' = [chain EXCEPT ![n] = Append(@, b)]
          /\ pool' = [pool EXCEPT ![n] = @ \ b.txs]
          /\ wire' = Sent(wire, n, Broadcast(b))
    /\ UNCHANGED <<up, peer, waiter, task, fetched, consistent>>

\* A client posts a transaction; tx.new sends it to the peer.
SubmitTx(n, t) ==
    /\ \A m \in Nodes : t \notin pool[m] \cup TxsOf(chain[m])
    /\ left.txs > 0 /\ left' = [left EXCEPT !.txs = @ - 1]
    /\ pool' = [pool EXCEPT ![n] = Added(@, chain[n], t)]
    /\ wire' = Sent(wire, n, <<NewTx(t)>>)
    /\ UNCHANGED <<chain, up, peer, waiter, task, consistent, mined, fetched>>

-----------------------------------------------------------------------------
(* Connections *)

\* connect_peer and _handle_incoming with the handshake: both sides learn the other's
\* tip and start a sync.  A connection is opened anew when the tasks of the one before
\* have ended.
Connect ==
    /\ ~up /\ \A n \in Nodes, t \in Tasks : task[n][t] = Resting
    /\ up' = TRUE
    /\ peer' = [n \in Nodes |-> [height |-> Height(Peer(n)), head |-> Tip(chain[Peer(n)]).id]]
    /\ wire' = [n \in Nodes |-> <<Status(chain[n])>>]
    /\ task' = [n \in Nodes |-> [task[n] EXCEPT !["sync"] = [at |-> "start", from |-> 0]]]
    /\ UNCHANGED <<chain, pool, waiter, consistent, bounds>>

\* The connection breaks; what is on the wire is lost, the tasks notice by and by.
Disconnect ==
    /\ up /\ left.drops > 0 /\ left' = [left EXCEPT !.drops = @ - 1]
    /\ up' = FALSE
    /\ wire' = [n \in Nodes |-> <<>>]
    /\ UNCHANGED <<chain, pool, peer, waiter, task, consistent, mined, fetched>>

-----------------------------------------------------------------------------
\* The blocks a node starts with: common ones and its own, mined while it was alone.
First == CHOOSE n \in Nodes : TRUE
Started(n) ==
    LET id(h) == IF h <= left.shared \/ n = First THEN h ELSE h + left.own[First]
    IN [i \in 1..left.shared + left.own[n] + 1 |->
            [id |-> id(i - 1), parent |-> id(i - 2), height |-> i - 1, txs |-> {}]]

Init ==
    /\ left \in Budgets /\ mined = left.shared + left.own[First] + left.own[Peer(First)]
    /\ chain = [n \in Nodes |-> Started(n)]
    /\ pool = [n \in Nodes |-> {}]
    /\ up = FALSE /\ peer = [n \in Nodes |-> [height |-> 0, head |-> 0]]
    /\ wire = [n \in Nodes |-> <<>>] /\ waiter = [n \in Nodes |-> NoWaiter]
    /\ task = [n \in Nodes |-> [t \in Tasks |-> Resting]]
    /\ consistent = [n \in Nodes |-> TRUE] /\ fetched = [n \in Nodes |-> NothingFetched]

Step(n) ==
    \/ SyncStarts(n) \/ RestGoesOn(n) \/ Answered(n) \/ Handles(n) \/ CatchUpTick(n)
    \/ \E t \in Tasks : TimesOut(n, t)

Next ==
    \/ \E n \in Nodes : Step(n) \/ MineBlock(n) \/ RestStarts(n) \/ CatchUpSync(n) \/ FastStarts(n) \/ \E t \in Txs : SubmitTx(n, t)
    \/ Connect \/ Disconnect

\* The loops of a node run for ever, messages arrive, and a lost peer is called again.
Fairness ==
    /\ WF_vars(Connect)
    /\ \A n \in Nodes :
          /\ WF_vars(SyncStarts(n)) /\ WF_vars(RestGoesOn(n)) /\ WF_vars(Answered(n) \/ Handles(n))
          /\ SF_vars(CatchUpTick(n)) /\ \A t \in Tasks : WF_vars(TimesOut(n, t))

Spec == Init /\ [][Next]_vars /\ Fairness

-----------------------------------------------------------------------------
(* Properties *)

\* Every node's blocks stay a hash-linked chain from the genesis with no transaction
\* twice, although gossip, syncs and reconciliations change it in between each other's steps.
ChainsLinked ==
    \A n \in Nodes :
        LET c == chain[n]
        IN /\ c # <<>> /\ c[1] = Genesis
           /\ \A i \in DOMAIN c : i > 1 => c[i].height = i - 1 /\ c[i].parent = c[i - 1].id
           /\ \A i, j \in DOMAIN c : i # j => c[i].txs \cap c[j].txs = {}

\* The mempool keeps to its size, also when it takes the pool of a peer.
PoolBounded == \A n \in Nodes : Cardinality(pool[n]) <= MaxPool

\* No task waits for ever, although a handler can wait for a message that only its own
\* message loop could read.
TasksComeBack == \A n \in Nodes, t \in Tasks : []<>(task[n][t] = Resting)

Behind(n) == IsStrictPrefix(chain[n], chain[Peer(n)])

\* A node above the genesis that is behind its peer catches up, or mines a block and
\* forks: whatever gossip, time-outs and lost connections do to its requests.
CatchesUp == \A n \in Nodes : (Behind(n) /\ Height(n) >= 1) ~> ~Behind(n)

\* Mined blocks end up in both chains: forks are resolved.
HeadsAgree == <>[](\A n, m \in Nodes : chain[n] = chain[m])
=============================================================================
