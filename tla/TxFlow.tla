------------------------------- MODULE TxFlow -------------------------------
(***************************************************************************)
(* A transaction from the API to a block on one node: the handlers of        *)
(* api/http.py check it against the accounts, Mempool.add checks it again    *)
(* and keeps it, _mining_loop of main.py takes the dearest, forges a block   *)
(* and removes what the block holds.  Handlers are threads; the miner and    *)
(* the peers' blocks share one event loop and never interrupt each other.    *)
(***************************************************************************)
EXTENDS Integers, FiniteSets, FiniteSetsExt

CONSTANTS
    Txs,            \* signed transactions: sender, nonce, fee, value, whether the byte
                    \* code reverts, whether it carries byte code
    Senders,
    Submitters,     \* handler threads
    TxFunds,        \* balance of every sender at the start
    MaxTxPerBlock,  \* config.max_tx_per_block
    PoolSize,       \* Mempool.max_size
    EvictOneIn,     \* a full pool loses one in so many: 10
    MaxMishaps      \* bound: debits by other services, restarts, peers' blocks not imported

ASSUME TxFlowAssumption ==
    /\ \A t \in Txs : t.from \in Senders /\ {t.nonce, t.fee, t.value} \subseteq Nat /\ {t.reverts, t.code} \subseteq BOOLEAN
    /\ MaxTxPerBlock \in Nat \ {0} /\ EvictOneIn \in Nat \ {0}

VARIABLES
    nonces, funds,  \* table accounts
    txPool,         \* Mempool.transactions
    sub,            \* handler -> its step and transaction
    picked,         \* what the miner took from the pool, while it forges
    included,       \* what the block it made holds, until that is out of the pool
    onChain,        \* transactions of the blocks
    answered,       \* hashes given back as "pending"
    dropped,        \* left the pool unexecuted: evicted, lost by a restart or with a
                    \* peer's block that was not imported
    mishaps

flowVars == <<nonces, funds, txPool, sub, picked, included, onChain, answered, dropped, mishaps>>
chainSide == <<nonces, funds, onChain>>

Idle == [step |-> "idle"]
Resting == picked = {} /\ included = {}
PoolFree == \A h \in Submitters : sub[h].step # "insert"

Cost(t) == t.fee + t.value
Current(t) == t.nonce = nonces[t.from]

\* validate_transaction: nonce and balance as they are now.
ValidateTransaction(t) == Current(t) /\ funds[t.from] >= Cost(t)

\* TransactionValidator.validate: also for byte code, the amount must be positive.
Validate(t) == t.value > 0 /\ ValidateTransaction(t) /\ t \notin txPool

-----------------------------------------------------------------------------
(* Submission *)

\* _handle_send_tx_obj up to mempool.add; an error ends the request.
HandleSendTxObj(h, t) ==
    /\ sub[h] = Idle
    /\ Validate(t)
    /\ sub' = [sub EXCEPT ![h] = [step |-> "add", tx |-> t]]
    /\ UNCHANGED <<chainSide, txPool, picked, included, answered, dropped, mishaps>>

\* POST /transactions, POST /tx/send; auto_sign reads the nonce of the wallet.
PostTxSend(h) == \E t \in Txs : HandleSendTxObj(h, t)

\* POST /tx/deploy, and POST /contract/deploy via_mempool.
PostTxDeploy(h) == \E t \in Txs : t.code /\ HandleSendTxObj(h, t)

\* POST /tx/call.
PostTxCall(h) == \E t \in Txs : t.code /\ HandleSendTxObj(h, t)

\* eth_sendRawTransaction, eth_sendTransaction.
EthSendTransaction(h) == \E t \in Txs : HandleSendTxObj(h, t)

\* Mempool.add takes the pool's lock and checks again, not the chain's lock.
MempoolAdd(h) ==
    /\ sub[h].step = "add" /\ PoolFree
    /\ LET t == sub[h].tx
       IN sub' = [sub EXCEPT ![h] = IF t \in txPool \/ ~ValidateTransaction(t) THEN Idle ELSE [@ EXCEPT !.step = "insert"]]
    /\ UNCHANGED <<chainSide, txPool, picked, included, answered, dropped, mishaps>>

\* _cleanup: the cheapest go, those that came last among equals stay.
Evicted(p) ==
    {q \in SUBSET p : /\ Cardinality(q) = IF Cardinality(p) >= PoolSize THEN Cardinality(p) \div EvictOneIn ELSE 0
                      /\ \A t \in q, u \in p \ q : t.fee <= u.fee}

MempoolInsert(h) ==
    /\ sub[h].step = "insert"
    /\ \E out \in Evicted(txPool) :
          /\ txPool' = (txPool \ out) \cup {sub[h].tx}
          /\ dropped' = (dropped \cup out) \ {sub[h].tx}
    /\ sub' = [sub EXCEPT ![h].step = "answer"]
    /\ UNCHANGED <<chainSide, picked, included, answered, mishaps>>

\* The answer; the event for the peers is Network's, the transfer that /tx/send also
\* hands to the shards is AddTransaction of Shards.
Answer(h) ==
    /\ sub[h].step = "answer"
    /\ answered' = answered \cup {sub[h].tx}
    /\ sub' = [sub EXCEPT ![h] = Idle]
    /\ UNCHANGED <<chainSide, txPool, picked, included, dropped, mishaps>>

-----------------------------------------------------------------------------
(* _mining_loop *)

\* mempool.get: the dearest.  The auction's builder keeps the order and the set.
MempoolGet(p) ==
    {s \in SUBSET p : /\ Cardinality(s) = Min({MaxTxPerBlock, Cardinality(p)})
                      /\ \A t \in s, u \in p \ s : t.fee >= u.fee}

Pick ==
    /\ Resting /\ PoolFree
    /\ \E s \in MempoolGet(txPool) : s # {} /\ picked' = s
    /\ UNCHANGED <<chainSide, txPool, sub, included, answered, dropped, mishaps>>

\* Mutant: one transaction that does not pass leaves the block empty.
FitAllOrNothing(s) ==
    IF \E t \in s : ~ValidateTransaction(t) THEN {{}}
    ELSE {b \in SUBSET s : \A t \in s : Cardinality({u \in b : u.from = t.from}) = 1}

\* create_block: what passes _validate_tx_for_block, so one of a sender.
Fit(s) ==
    {b \in SUBSET {t \in s : ValidateTransaction(t)} :
        \A t \in {u \in s : ValidateTransaction(u)} : Cardinality({u \in b : u.from = t.from}) = 1}

Applied(b) ==
    /\ nonces' = [s \in Senders |-> nonces[s] + Cardinality({t \in b : t.from = s})]
    /\ funds' = [s \in Senders |-> funds[s] - MapThenSumSet(Cost, {t \in b : t.from = s})]
    /\ onChain' = onChain \cup b

\* create_block and add_block: one transaction that fails undoes the block.
Forge ==
    /\ picked # {}
    /\ \E b \in Fit(picked) :
          IF \E t \in b : t.reverts
          THEN included' = {} /\ UNCHANGED chainSide
          ELSE included' = b /\ Applied(b)
    /\ picked' = {}
    /\ UNCHANGED <<txPool, sub, answered, dropped, mishaps>>

\* mempool.remove, one by one; nothing else happens to these transactions meanwhile.
Removed(p, b) == p \ b

RemoveMined ==
    /\ included # {} /\ PoolFree
    /\ txPool' = Removed(txPool, included)
    /\ included' = {}
    /\ UNCHANGED <<chainSide, sub, picked, answered, dropped, mishaps>>

-----------------------------------------------------------------------------
(* What else changes the accounts and the pool *)

\* Mutant: every transaction of a sender in the block leaves, also when it is not taken.
AnnouncedSenders(p, b) == {t \in p : \E u \in b : u.from = t.from}

\* _handle_new_block: the transactions of an announced block leave the pool first.
Announced(p, b) == p \cap b

PeerBlock(b, imports) ==
    /\ Resting /\ PoolFree
    /\ b # {} /\ \A t \in b : ~t.reverts /\ ValidateTransaction(t)
    /\ \A t, u \in b : t.from = u.from => t = u
    /\ txPool' = txPool \ Announced(txPool, b)
    /\ IF imports THEN Applied(b) /\ UNCHANGED <<dropped, mishaps>>
       ELSE /\ mishaps < MaxMishaps /\ mishaps' = mishaps + 1
            /\ dropped' = dropped \cup (txPool \cap b) /\ UNCHANGED chainSide
    /\ UNCHANGED <<sub, picked, included, answered>>

\* A service of the REST server takes from the sender.
ServicePays(s) ==
    /\ mishaps < MaxMishaps /\ funds[s] > 0
    /\ funds' = [funds EXCEPT ![s] = @ - 1]
    /\ mishaps' = mishaps + 1
    /\ UNCHANGED <<nonces, txPool, sub, picked, included, onChain, answered, dropped>>

\* The pool is in memory only.
FlowRestart ==
    /\ mishaps < MaxMishaps /\ mishaps' = mishaps + 1
    /\ txPool' = {} /\ picked' = {} /\ included' = {}
    /\ dropped' = dropped \cup txPool
    /\ sub' = [h \in Submitters |-> Idle]
    /\ UNCHANGED <<chainSide, answered>>

FlowInit ==
    /\ nonces = [s \in Senders |-> 0] /\ funds = [s \in Senders |-> TxFunds]
    /\ txPool = {} /\ picked = {} /\ included = {} /\ onChain = {}
    /\ answered = {} /\ dropped = {} /\ mishaps = 0
    /\ sub = [h \in Submitters |-> Idle]

FlowNext ==
    \/ \E h \in Submitters :
          \/ PostTxSend(h) \/ PostTxDeploy(h) \/ PostTxCall(h) \/ EthSendTransaction(h)
          \/ MempoolAdd(h) \/ MempoolInsert(h) \/ Answer(h)
    \/ Pick \/ Forge \/ RemoveMined
    \/ \E b \in SUBSET Txs, i \in BOOLEAN : PeerBlock(b, i)
    \/ \E s \in Senders : ServicePays(s)
    \/ FlowRestart

\* The loop of the miner goes round every second, requests go on, and whoever waits for
\* the pool's lock gets it in the end.
FlowFairness ==
    /\ SF_flowVars(Pick) /\ WF_flowVars(Forge) /\ SF_flowVars(RemoveMined)
    /\ \A h \in Submitters : WF_flowVars(MempoolInsert(h) \/ Answer(h)) /\ SF_flowVars(MempoolAdd(h))

-----------------------------------------------------------------------------
(* Properties *)

\* The nonce went to another transaction.
Superseded(t) == t.nonce < nonces[t.from] /\ t \notin onChain

\* A hash that was answered as pending stands for a transaction that waits, or whose
\* nonce is used, or that one of the known losses took: no other step loses one.
AnsweredIsPending ==
    \A t \in answered : t \in txPool \/ t.nonce < nonces[t.from] \/ t \in dropped

Stuck == {t \in txPool : Superseded(t) \/ t.reverts \/ funds[t.from] < Cost(t)}

\* The mining loop takes up every transaction that waits, unless a block's worth of
\* transactions that can never be executed is in the pool, or one that reverts.
PendingSettles ==
    \A t \in Txs :
        (t \in txPool /\ Current(t))
            ~> (t \notin txPool \/ ~Current(t) \/ Cardinality(Stuck) >= MaxTxPerBlock \/ \E u \in Stuck : Current(u))
=============================================================================
