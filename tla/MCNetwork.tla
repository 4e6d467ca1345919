------------------------------ MODULE MCNetwork ------------------------------
EXTENDS Network

Budget(shared, a, b, blocks, rest, fast, drops, txs) ==
    [shared |-> shared, own |-> [n \in Nodes |-> IF n = "a" THEN a ELSE b], blocks |-> blocks, rest |-> rest, fast |-> fast, drops |-> drops, txs |-> txs]

MCFee == [t \in Txs |-> IF t = "t1" THEN 2 ELSE 1]
MCBudgets ==
    {Budget(1, 1, 0, 1, 0, 0, 0, 0), Budget(1, 1, 1, 1, 0, 0, 0, 0), Budget(0, 1, 1, 0, 1, 0, 0, 0),
     Budget(1, 1, 0, 0, 1, 0, 0, 0), Budget(0, 0, 0, 1, 0, 0, 1, 0), Budget(1, 1, 0, 0, 0, 0, 1, 1), Budget(0, 0, 0, 0, 0, 0, 0, 2),
     Budget(0, 2, 0, 0, 0, 1, 0, 0), Budget(1, 2, 0, 0, 0, 0, 0, 0), Budget(1, 1, 1, 0, 0, 1, 0, 0)}
MCSplit == {Budget(1, 1, 1, 0, 0, 0, 0, 0)}
=============================================================================
