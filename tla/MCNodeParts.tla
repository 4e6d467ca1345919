---------------------------- MODULE MCNodeParts ----------------------------
EXTENDS NodeParts

Tx(from, fee, reverts) == [from |-> from, nonce |-> 0, fee |-> fee, value |-> 1, reverts |-> reverts, code |-> reverts]
MCTxs == {Tx("a", 1, FALSE), Tx("b", 1, FALSE), Tx("c", 0, FALSE), Tx("c", 0, TRUE)}

MCManifest == {<<"v", 2>>, <<"v", 3>>}
MCOwnValidator == <<"v", 2>>

\* A development node that asks for tokens but no keys, and a production node.
MCProfiles == {[prod |-> FALSE, jwt |-> TRUE, key |-> FALSE, secrets |-> FALSE, redis |-> FALSE],
               [prod |-> TRUE, jwt |-> TRUE, key |-> TRUE, secrets |-> TRUE, redis |-> TRUE]}

\* Two blocks of one number and their successor.
MCNumberOf == [b \in {"b1", "b2", "b3"} |-> IF b = "b3" THEN 2 ELSE 1]

\* Two nodes that start with the address of a third, which may be of another chain.
MCPeerNodes == {"a", "b", "c"}
MCBootstrap == [n \in MCPeerNodes |-> IF n = "a" THEN {} ELSE {"a"}]
MCChainIds == {[n \in MCPeerNodes |-> IF n = "c" THEN c ELSE 1] : c \in {1, 2}}
=============================================================================
