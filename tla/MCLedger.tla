------------------------------ MODULE MCLedger ------------------------------
(***************************************************************************)
(* Ledger on small instances: a client, this node's miner, one peer.  The   *)
(* founder is the client (founder = alice in the cfg) or another account    *)
(* that never spends.                                                       *)
(***************************************************************************)
EXTENDS Ledger

CONSTANTS alice, founder, miner, peer, burner, genesis

MCAccounts == {alice, founder, miner, peer, burner, genesis}
MCFounder == founder
MCAlloc == [a \in MCAccounts |-> IF a \in {alice, founder} THEN 6 ELSE 0]

Pay(to, value, n) == [from |-> alice, to |-> to, value |-> value, nonce |-> n, kind |-> "transfer"]

MCNone == {}
MCOneTx == {Pay(miner, 1, 0)}
=============================================================================
