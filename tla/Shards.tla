------------------------------- MODULE Shards -------------------------------
(***************************************************************************)
(* dynamic_sharding.py: transfers between addresses of different shards wait *)
(* in a list until a request processes it.  The balances are the chain's;    *)
(* nothing but the list of a shard's own transfers is locked, and a block of *)
(* a shard is never made: /sharding/mine passes one argument too many.       *)
(***************************************************************************)
EXTENDS Services

CONSTANT ShardOf    \* the shard of every address

VARIABLES
    shardTxs,       \* transfers inside a shard
    crossTxs,       \* transfers between shards
    pendingCross    \* identifiers of those that wait

shardVars == <<bal, req, items, shardTxs, crossTxs, pendingCross>>

Transfers == [from : Users, to : Users, amount : Amounts]

\* add_transaction: the identifier is the hash of the transfer.
AddTransaction(t) ==
    /\ Len(shardTxs \o pendingCross) < MaxRounds
    /\ IF ShardOf[t.from] = ShardOf[t.to]
       THEN shardTxs' = Append(shardTxs, t) /\ UNCHANGED <<crossTxs, pendingCross>>
       ELSE /\ crossTxs' = With(crossTxs, t, "pending")
            /\ pendingCross' = Append(pendingCross, t)
            /\ UNCHANGED shardTxs
    /\ UNCHANGED <<bal, req, items>>

-----------------------------------------------------------------------------
(* process_cross_shard_transactions works on a copy of the list *)

ProcessCross(h) ==
    /\ Begins(h, Request("cross", "next", pendingCross, "none", 0))
    /\ UNCHANGED <<bal, items, shardTxs, crossTxs, pendingCross>>

ValidCross(t) == t.amount > 0 /\ bal[t.from] >= t.amount

CrossNext(h) ==
    /\ At(h, "cross", "next")
    /\ req' = IF req[h].id = <<>> THEN [req EXCEPT ![h] = NoRequest]
              ELSE [req EXCEPT ![h].step = IF ValidCross(Head(req[h].id)) THEN "debit" ELSE "failed"]
    /\ UNCHANGED <<bal, items, shardTxs, crossTxs, pendingCross>>

CrossDebit(h) ==
    /\ At(h, "cross", "debit")
    /\ UpdateBalance(Head(req[h].id).from, -Head(req[h].id).amount)
    /\ Goes(h, "credit")
    /\ UNCHANGED <<items, shardTxs, crossTxs, pendingCross>>

CrossCredit(h) ==
    /\ At(h, "cross", "credit")
    /\ UpdateBalance(Head(req[h].id).to, Head(req[h].id).amount)
    /\ Goes(h, "confirmed")
    /\ UNCHANGED <<items, shardTxs, crossTxs, pendingCross>>

\* remove drops the first entry of the transfer; if another request took it out
\* meanwhile, it raises and the rest of the copy is not processed.
CrossRemove(h) ==
    LET t == Head(req[h].id)
        at == {i \in DOMAIN pendingCross : pendingCross[i] = t}
        first == CHOOSE i \in at : \A j \in at : i <= j
    IN /\ req[h].op = "cross" /\ req[h].step \in {"confirmed", "failed"}
       /\ crossTxs' = [crossTxs EXCEPT ![t] = req[h].step]
       /\ pendingCross' = IF at = {} THEN pendingCross
                          ELSE [i \in 1..Len(pendingCross) - 1 |-> pendingCross[IF i < first THEN i ELSE i + 1]]
       /\ req' = IF at = {} THEN [req EXCEPT ![h] = NoRequest]
                 ELSE [req EXCEPT ![h].step = "next", ![h].id = Tail(@)]
       /\ UNCHANGED <<bal, items, shardTxs>>

-----------------------------------------------------------------------------
(* The REST endpoints; everything but the balances is gone after a restart *)

PostShardingAddTx == \E t \in Transfers : AddTransaction(t)

PostShardingProcessCross(h) == ProcessCross(h)

ShardsRestart == shardTxs' = <<>> /\ crossTxs' = Nothing /\ pendingCross' = <<>>

ShardsInit == shardTxs = <<>> /\ crossTxs = Nothing /\ pendingCross = <<>>

ShardsNext ==
    \/ PostShardingAddTx
    \/ \E h \in Handlers :
          PostShardingProcessCross(h) \/ CrossNext(h) \/ CrossDebit(h) \/ CrossCredit(h) \/ CrossRemove(h)

-----------------------------------------------------------------------------
(* Properties *)

\* What a request has taken for the transfer it processes.
CrossHolds(h) == IF At(h, "cross", "credit") THEN Head(req[h].id).amount ELSE 0
=============================================================================
