------------------------------- MODULE Bridge -------------------------------
(***************************************************************************)
(* bridge/abs_bridge.py and scripts/bridge_relayer.py: coins locked here to  *)
(* go to another chain, coins that came from one, and the relayer, a process *)
(* of its own that shares a queue file with the node.  The bridge takes no   *)
(* lock; the dev adapter's own records are never read back and left out.     *)
(***************************************************************************)
EXTENDS Services

CONSTANTS
    Relayer,        \* the relayer's one request at a time
    BridgeMode,     \* "simulator", "rust" or "prod": rust in production
    BridgeFee, BridgeBurn, BurnAddress,
    L1Txs,          \* transfers to us on the other chain
    L1To, L1Amount, \* whom and how much a transfer is for
    ChainNames      \* the names a request may give the other chain

ASSUME BridgeAssumption ==
    /\ BridgeFee \in Nat /\ BridgeBurn \in 0..BridgeFee /\ BurnAddress \in DOMAIN Funds
    /\ IsFiniteSet(L1Txs) /\ L1To \in [L1Txs -> DOMAIN Funds] /\ L1Amount \in [L1Txs -> Nat]

VARIABLES
    locks,          \* bridge_locks
    credits,        \* bridge_credits: the keys of what was credited
    l1,             \* the transfers of the other chain: "none", "mined", "confirmed"
    queue,          \* the queue file
    relay           \* where the relayer's pass is

bridgeVars == <<bal, req, items, locks, credits, l1, queue, relay>>

BridgeThreads == Handlers \cup {Relayer}

\* _normalize_chain
Normalize(chain) == IF chain = "eth" THEN "ethereum" ELSE chain

PendingLock(k) == k \in DOMAIN locks /\ locks[k].status = "pending"

-----------------------------------------------------------------------------
(* lock_and_bridge *)

\* proof is the transfer on the other chain that the request names, if any.
LockAndBridge(h, user, amount, proof) ==
    /\ amount > BridgeFee /\ bal[user] >= amount
    /\ NewItem /\ Begins(h, Request("lock", "debit", items + 1, <<user, proof>>, amount))
    /\ UNCHANGED <<bal, locks, credits, l1, queue, relay>>

LockDebit(h) ==
    /\ At(h, "lock", "debit")
    /\ UpdateBalance(req[h].user[1], -req[h].amt)
    /\ Goes(h, "burn")
    /\ UNCHANGED <<items, locks, credits, l1, queue, relay>>

LockBurn(h) ==
    /\ At(h, "lock", "burn")
    /\ UpdateBalance(BurnAddress, BridgeBurn)
    /\ Goes(h, "save")
    /\ UNCHANGED <<items, locks, credits, l1, queue, relay>>

\* The lock, and with a proof the entry for the relayer.
LockSave(h) ==
    /\ At(h, "lock", "save")
    /\ LET k == req[h].id
           proof == req[h].user[2]
       IN /\ locks' = With(locks, k, [from |-> req[h].user[1], amt |-> req[h].amt - BridgeFee, status |-> "pending"])
          /\ queue' = IF proof = "none" THEN queue
                      ELSE [queue EXCEPT !.outgoing = @ \cup {[lock |-> k, tx |-> proof]}]
    /\ Ends(h)
    /\ UNCHANGED <<bal, items, credits, l1, relay>>

-----------------------------------------------------------------------------
(* confirm_lock, refund: the status is read, then acted on, then written *)

ConfirmLock(h, k) ==
    /\ PendingLock(k)
    /\ Begins(h, Request("confirm", "mark", k, "none", 0))
    /\ UNCHANGED <<bal, items, locks, credits, l1, queue>>

ConfirmMark(h) ==
    /\ At(h, "confirm", "mark")
    /\ locks' = [locks EXCEPT ![req[h].id].status = "confirmed"]
    /\ Ends(h)
    /\ UNCHANGED <<bal, items, credits, l1, queue, relay>>

Refund(h, k) ==
    /\ PendingLock(k)
    /\ Begins(h, Request("refund", "credit", k, locks[k].from, locks[k].amt))
    /\ UNCHANGED <<bal, items, locks, credits, l1, queue, relay>>

RefundCredit(h) ==
    /\ At(h, "refund", "credit")
    /\ UpdateBalance(req[h].user, req[h].amt)
    /\ Goes(h, "mark")
    /\ UNCHANGED <<items, locks, credits, l1, queue, relay>>

RefundMark(h) ==
    /\ At(h, "refund", "mark")
    /\ locks' = [locks EXCEPT ![req[h].id].status = "refunded"]
    /\ Ends(h)
    /\ UNCHANGED <<bal, items, credits, l1, queue, relay>>

-----------------------------------------------------------------------------
(* confirm_incoming: a transfer of the other chain is credited here *)

\* bridge_credit_key: the chain as the request spells it.
CreditKey(tx, chain) == <<tx, L1To[tx], L1Amount[tx], chain>>

\* proof says whether the request has an l1_tx_hash.
ConfirmIncoming(h, tx, chain, proof) ==
    /\ CreditKey(tx, chain) \notin credits
    /\ Begins(h, Request("incoming", IF proof THEN "queue" ELSE "check", 0, <<tx, chain>>, 0))
    /\ UNCHANGED <<bal, items, locks, credits, l1, queue>>

\* enqueue_l1_incoming: the entry replaces one of the same transfer.
Enqueued(tx, chain) ==
    [queue EXCEPT !.incoming = {e \in @ : e.tx # tx} \cup {[tx |-> tx, chain |-> Normalize(chain)]}]

IncomingQueue(h) ==
    /\ At(h, "incoming", "queue")
    /\ queue' = Enqueued(req[h].user[1], req[h].user[2])
    /\ req' = [req EXCEPT ![h].step = "check", ![h].amt = 1]
    /\ UNCHANGED <<bal, items, locks, credits, l1, relay>>

\* In production a request without proof is refused; the rust program may refuse
\* any request.
IncomingCheck(h) ==
    /\ At(h, "incoming", "check")
    /\ \/ (BridgeMode = "prod" => req[h].amt = 1) /\ Goes(h, "credit")
       \/ BridgeMode # "simulator" /\ Ends(h)
    /\ UNCHANGED <<bal, items, locks, credits, l1, queue, relay>>

IncomingCredit(h) ==
    /\ At(h, "incoming", "credit")
    /\ UpdateBalance(L1To[req[h].user[1]], L1Amount[req[h].user[1]])
    /\ Goes(h, "save")
    /\ UNCHANGED <<items, locks, credits, l1, queue, relay>>

\* save_bridge_credit; no lock has the transfer's hash, so confirm_bridge_lock
\* changes nothing.
IncomingSave(h) ==
    /\ At(h, "incoming", "save")
    /\ credits' = credits \cup {CreditKey(req[h].user[1], req[h].user[2])}
    /\ Ends(h)
    /\ UNCHANGED <<bal, items, locks, l1, queue, relay>>

-----------------------------------------------------------------------------
(* The relayer *)

NoPass == [step |-> "idle"]
RelayerFree == req[Relayer] = NoRequest

\* process_pending: the pending locks, confirmed one by one whatever their proof.
RelayerTick ==
    /\ relay = NoPass
    /\ relay' = [step |-> "locks", todo |-> {k \in DOMAIN locks : PendingLock(k)}]
    /\ UNCHANGED <<bal, req, items, locks, credits, l1, queue>>

RelayerConfirms(k) ==
    /\ relay.step = "locks" /\ RelayerFree /\ k \in relay.todo
    /\ relay' = [relay EXCEPT !.todo = @ \ {k}]
    /\ \/ ConfirmLock(Relayer, k)
       \/ ~PendingLock(k) /\ UNCHANGED <<bal, req, items, locks, credits, l1, queue>>

\* process_l1_queue reads the file and at the end writes what remains of it.
RelayerLoads ==
    /\ relay.step = "locks" /\ RelayerFree /\ relay.todo = {}
    /\ relay' = [step |-> "watch", outgoing |-> queue.outgoing, incoming |-> queue.incoming, kept |-> queue]
    /\ UNCHANGED <<bal, req, items, locks, credits, l1, queue>>

\* An outgoing entry: kept until its transfer is confirmed over there and its lock
\* is pending here.
RelayerOutgoing(e) ==
    /\ relay.step = "watch" /\ RelayerFree /\ e \in relay.outgoing
    /\ LET seen == [relay EXCEPT !.outgoing = @ \ {e}]
       IN \/ /\ l1[e.tx] = "confirmed" /\ ConfirmLock(Relayer, e.lock)
             /\ relay' = [seen EXCEPT !.kept.outgoing = @ \ {e}]
          \/ /\ l1[e.tx] # "confirmed" \/ ~PendingLock(e.lock)
             /\ relay' = seen /\ UNCHANGED <<bal, req, items, locks, credits, l1, queue>>

\* An incoming entry is posted without the transfer's hash, so production refuses it.
RelayerIncoming(e) ==
    /\ relay.step = "watch" /\ RelayerFree /\ e \in relay.incoming
    /\ LET seen == [relay EXCEPT !.incoming = @ \ {e}]
           done == [seen EXCEPT !.kept.incoming = @ \ {e}]
           Unchanged == UNCHANGED <<bal, req, items, locks, credits, l1, queue>>
       IN \/ l1[e.tx] # "confirmed" /\ relay' = seen /\ Unchanged
          \/ l1[e.tx] = "confirmed" /\ CreditKey(e.tx, e.chain) \in credits /\ relay' = done /\ Unchanged
          \/ l1[e.tx] = "confirmed" /\ BridgeMode # "prod" /\ relay' = done /\ ConfirmIncoming(Relayer, e.tx, e.chain, FALSE)
          \/ l1[e.tx] = "confirmed" /\ BridgeMode # "simulator" /\ relay' = seen /\ Unchanged

RelayerSaves ==
    /\ relay.step = "watch" /\ RelayerFree /\ relay.outgoing = {} /\ relay.incoming = {}
    /\ queue' = relay.kept
    /\ relay' = NoPass
    /\ UNCHANGED <<bal, req, items, locks, credits, l1>>

-----------------------------------------------------------------------------
(* The other chain, the REST endpoints, a restart *)

L1Moves(tx) ==
    /\ l1[tx] # "confirmed"
    /\ l1' = [l1 EXCEPT ![tx] = IF @ = "none" THEN "mined" ELSE "confirmed"]
    /\ UNCHANGED <<bal, req, items, locks, credits, queue, relay>>

OnL1 == {tx \in L1Txs : l1[tx] # "none"}

PostBridgeLock(h) ==
    \E u \in Users, x \in Amounts, p \in OnL1 \cup {"none"} : LockAndBridge(h, u, x, p)
PostBridgeConfirmLock(h) == \E k \in DOMAIN locks : ConfirmLock(h, k) /\ UNCHANGED relay
PostBridgeRefund(h) == \E k \in DOMAIN locks : Refund(h, k)
PostBridgeConfirm(h) ==
    \E tx \in OnL1, c \in ChainNames, p \in BOOLEAN : ConfirmIncoming(h, tx, c, p) /\ UNCHANGED relay

\* /bridge/oracle/l1-register: the transfer is put into the queue for the relayer.
PostBridgeL1Register ==
    \E tx \in OnL1, c \in ChainNames :
        /\ queue' = Enqueued(tx, c)
        /\ UNCHANGED <<bal, req, items, locks, credits, l1, relay>>

\* The node starts again; the relayer's request fails and its pass ends unsaved.
BridgeRestart == relay' = NoPass /\ UNCHANGED <<locks, credits, l1, queue>>

BridgeInit ==
    /\ locks = Nothing /\ credits = {}
    /\ l1 = [tx \in L1Txs |-> "none"]
    /\ queue = [outgoing |-> {}, incoming |-> {}] /\ relay = NoPass

BridgeNext ==
    \/ \E h \in Handlers :
          \/ PostBridgeLock(h) \/ LockDebit(h) \/ LockBurn(h) \/ LockSave(h)
          \/ PostBridgeConfirmLock(h) \/ PostBridgeConfirm(h)
          \/ PostBridgeRefund(h) \/ RefundCredit(h) \/ RefundMark(h)
    \/ \E h \in BridgeThreads :
          ConfirmMark(h) \/ IncomingQueue(h) \/ IncomingCheck(h) \/ IncomingCredit(h) \/ IncomingSave(h)
    \/ RelayerTick \/ RelayerLoads \/ RelayerSaves
    \/ \E k \in DOMAIN locks : RelayerConfirms(k)
    \/ \E e \in queue.outgoing \cup (IF relay.step = "watch" THEN relay.outgoing ELSE {}) : RelayerOutgoing(e)
    \/ \E e \in queue.incoming \cup (IF relay.step = "watch" THEN relay.incoming ELSE {}) : RelayerIncoming(e)
    \/ PostBridgeL1Register \/ \E tx \in L1Txs : L1Moves(tx)

-----------------------------------------------------------------------------
(* Properties *)

Locking(k, step) == {h \in Handlers : At(h, "lock", step) /\ req[h].id = k}
Refunded(k) == \E h \in Handlers : At(h, "refund", "mark") /\ req[h].id = k

\* What a lock holds, from the debit that comes before its row.
LockHolds(k) ==
    IF Locking(k, "burn") # {} THEN req[CHOOSE h \in Locking(k, "burn") : TRUE].amt
    ELSE IF Locking(k, "save") # {} THEN req[CHOOSE h \in Locking(k, "save") : TRUE].amt - BridgeBurn
    ELSE IF PendingLock(k) /\ ~Refunded(k) THEN locks[k].amt
    ELSE 0

\* What a transfer of the other chain still has to bring.
L1Holds(tx) ==
    IF \/ l1[tx] = "none" \/ \E c \in ChainNames : CreditKey(tx, c) \in credits
       \/ \E h \in BridgeThreads : At(h, "incoming", "save") /\ req[h].user[1] = tx
    THEN 0 ELSE L1Amount[tx]
=============================================================================
