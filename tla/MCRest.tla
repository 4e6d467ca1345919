------------------------------- MODULE MCRest -------------------------------
EXTENDS RestServer

MCFunds == [u \in {"node", "ann", "genesis", "burn", "ecosystem", "staking"} |->
              CASE u \in {"node", "ecosystem"} -> 2 [] u = "ann" -> 1 [] OTHER -> 0]
MCRoyalty(x) == IF x > 1 THEN 1 ELSE 0
MCShardOf == [u \in {"node", "ann"} |-> IF u = "node" THEN 0 ELSE 1]
MCL1To == [tx \in {"x1"} |-> "ann"]
MCL1Amount == [tx \in {"x1"} |-> 2]

\* A counter at key 1; a write at key 2 that then runs out of stack; a loop that an
\* argument in front of it sends to another instruction, with an unknown opcode behind it.
MCPrograms ==
    {<<I("PUSH", 1), I("PUSH", 1), I("LOAD", 0), I("INC", 0), I("STORE", 0)>>,
     <<I("PUSH", 2), I("PUSH", 3), I("STORE", 0), I("ADD", 0)>>,
     <<I("PUSH", 1), I("PUSH", 0), I("JUMPI", 0), I("NONE", 0)>>}
MCCallArgs == {<<>>, <<0>>}

\* The instance is one of those that the theorem OwnStorage is about.
ASSUME MCRestAssumption == KeysArePushed
=============================================================================
