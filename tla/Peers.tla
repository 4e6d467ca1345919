------------------------------- MODULE Peers -------------------------------
(***************************************************************************)
(* The connections of network/p2p_node.py: dialling, the handshake, the      *)
(* table of peers by node_id, and the loops that drop silent peers and dial  *)
(* known addresses.  Every node is one asyncio loop, so that what happens    *)
(* between two awaits is one action; a dial, an incoming connection and each *)
(* loop are tasks of their own.                                              *)
(***************************************************************************)
EXTENDS Integers, Sequences, FiniteSets, Functions

CONSTANTS
    PeerNodes,      \* the nodes; a node's address is its name
    ChainIds,       \* what config.chain_id can be for every node
    Bootstrap,      \* config.bootstrap_peers of every node
    MaxPeers,       \* config.max_peers, for incoming connections
    TargetPeers,    \* config.testnet_expected_peers
    MaxLinks,       \* bound on the connections that are ever opened
    MaxSilences     \* bound on the time-outs that go by in silence and the nodes that stop

ASSUME PeersAssumption == Bootstrap \in [PeerNodes -> SUBSET PeerNodes]

VARIABLES
    links,      \* the connections: who dialled, whom, the answer that was sent, and both
                \* sides: how far each is, and how long it has heard nothing
    table,      \* P2PNode.peers of every node: from node_id to a connection
    known,      \* _known_addrs
    dying,      \* the list `dead` of a turn of _ping_loop
    runs,       \* _running
    chainIdOf,  \* config.chain_id of every node
    silences    \* counts for its bound

peerVars == <<links, table, known, dying, runs, chainIdOf, silences>>

Ends(l) == {links[l].from, links[l].to}
Far(l, n) == IF n = links[l].from THEN links[l].to ELSE links[l].from
Links(n) == {l \in DOMAIN links : n \in Ends(l)}
OpenLinks(n) == {l \in Links(n) : links[l].at[n] = "open"}

\* PeerConnection.close by n.
Closed(ls, n, ids) ==
    [l \in DOMAIN ls |-> IF l \in ids THEN [ls[l] EXCEPT !.at[n] = "closed", !.age[n] = 0] ELSE ls[l]]

Drop(f, keys) == [k \in DOMAIN f \ keys |-> f[k]]

\* _remember_addr
Remembered(n, addrs) == [known EXCEPT ![n] = @ \cup addrs]

-----------------------------------------------------------------------------
(* The table *)

\* _remove_peer: the connection that the table holds now is closed.
RemovePeers(n, ids) ==
    /\ table' = [table EXCEPT ![n] = Drop(@, ids)]
    /\ links' = Closed(links, n, {table[n][m] : m \in ids \cap DOMAIN table[n]})

\* What heard nothing for two time-outs, and what heard nothing for one.
Dead(n) == {m \in DOMAIN table[n] : links[table[n][m]].age[n] = 2}
Stale(n, m) == links[table[n][m]].age[n] > 0

\* A connection that is new in the table.
Entered(ls, n, l) == [ls EXCEPT ![l].at[n] = "open", ![l].age[n] = 0]

\* Mutant: the silent connection that is replaced is not closed.
ReplacedKeepsOld(n, l) == Entered(links, n, l)

\* _handle_incoming: the connection of a peer that went silent makes room.
Replaced(n, l) ==
    LET m == Far(l, n)
        old == IF m \in DOMAIN table[n] THEN {table[n][m]} ELSE {}
    IN Entered(Closed(links, n, old), n, l)

-----------------------------------------------------------------------------
(* connect_peer *)

\* _prune_stale_peers, then a connection unless the table has the address.
Dial(n, m) ==
    /\ Len(links) < MaxLinks
    /\ table' = [table EXCEPT ![n] = Drop(@, Dead(n))]
    /\ LET pruned == Closed(links, n, {table[n][d] : d \in Dead(n)})
           link == [from |-> n, to |-> m, ack |-> "none", age |-> [x \in {n, m} |-> 0],
                    at |-> [x \in {n, m} |-> IF x = n THEN "dials" ELSE "called"]]
       IN links' = IF m \in DOMAIN table'[n] \/ m = n \/ ~runs[m] THEN pruned ELSE Append(pruned, link)
    /\ UNCHANGED <<dying, runs, silences>>

Compatible(l) == chainIdOf[links[l].from] = chainIdOf[links[l].to]

\* The dialling side has the answer, and the table may have the peer by now.
Finish(l) ==
    LET n == links[l].from
        m == links[l].to
        ok == links[l].ack = "info" /\ Compatible(l)
    IN /\ links[l].at[n] = "dials" /\ links[l].ack # "none"
       /\ known' = IF ok THEN Remembered(n, {m}) ELSE known
       /\ IF ok /\ m \notin DOMAIN table[n]
          THEN /\ table' = [table EXCEPT ![n] = [k \in DOMAIN @ \cup {m} |-> IF k = m THEN l ELSE @[k]]]
               /\ links' = Entered(links, n, l)
          ELSE links' = Closed(links, n, {l}) /\ UNCHANGED table
       /\ UNCHANGED <<dying, runs, silences>>

\* No answer within 30 seconds.
GivesUp(l) ==
    /\ links[l].at[links[l].from] = "dials" /\ links[l].ack = "none"
    /\ links' = Closed(links, links[l].from, {l})
    /\ UNCHANGED <<table, known, dying, runs, silences>>

-----------------------------------------------------------------------------
(* _handle_incoming *)

\* The limit is looked at before the handshake is awaited.
Accept(l) ==
    LET n == links[l].to
        full == Cardinality(DOMAIN table[n]) >= MaxPeers
    IN /\ links[l].at[n] = "called"
       /\ links' = [links EXCEPT ![l].at[n] = IF full \/ ~runs[n] THEN "closed" ELSE "accepts",
                                 ![l].ack = IF full \/ ~runs[n] THEN "refused" ELSE @]
       /\ UNCHANGED <<table, known, dying, runs, silences>>

\* The side that was called answers before it looks at the chain id, and then at
\* the table: the connection of a peer that was heard of lately stays.
AnswerCall(l) ==
    LET n == links[l].to
        m == links[l].from
        enters == Compatible(l) /\ (m \in DOMAIN table[n] => Stale(n, m))
    IN /\ links[l].at[n] = "accepts"
       /\ known' = IF Compatible(l) THEN Remembered(n, {m}) ELSE known
       /\ links' = [(IF enters THEN Replaced(n, l) ELSE Closed(links, n, {l})) EXCEPT ![l].ack = "info"]
       /\ table' = IF enters THEN [table EXCEPT ![n] = [k \in DOMAIN @ \cup {m} |-> IF k = m THEN l ELSE @[k]]] ELSE table
       /\ UNCHANGED <<dying, runs, silences>>

-----------------------------------------------------------------------------
(* _message_loop *)

\* The other side closed, or this node stops: _remove_peer, if it is still this one.
LoopEnds(n, l) ==
    /\ links[l].at[n] = "open" /\ (links[l].at[Far(l, n)] = "closed" \/ ~runs[n])
    /\ Far(l, n) \in DOMAIN table[n] /\ table[n][Far(l, n)] = l
    /\ RemovePeers(n, {Far(l, n)})
    /\ UNCHANGED <<known, dying, runs, silences>>

\* touch, for every message.
Hears(n, l) ==
    /\ links[l].at[n] = "open" /\ links[l].at[Far(l, n)] = "open" /\ links[l].age[n] > 0
    /\ links' = [links EXCEPT ![l].age[n] = 0]
    /\ UNCHANGED <<table, known, dying, runs, silences>>

\* Another time-out goes by in which nothing comes.
Silence(n, l) ==
    /\ links[l].at[n] = "open" /\ links[l].age[n] < 2
    /\ silences < MaxSilences /\ silences' = silences + 1
    /\ links' = [links EXCEPT ![l].age[n] = @ + 1]
    /\ UNCHANGED <<table, known, dying, runs>>

\* The answer to get_peers: every address in it is remembered and dialled.
HearsPeers(n, l) ==
    LET addrs == DOMAIN table[Far(l, n)] \ {n}
    IN /\ links[l].at[n] = "open" /\ links[l].at[Far(l, n)] = "open"
       /\ known' = Remembered(n, addrs)
       /\ \E m \in addrs : Dial(n, m)

-----------------------------------------------------------------------------
(* The loops.  Each creates a connect_peer task for every address it goes      *)
(* through; a turn of the model runs one of them.                              *)

BelowTarget(n) == Cardinality(DOMAIN table[n]) < TargetPeers

\* _ping_loop notes the silent peers by node_id, awaits its pings to the others, ...
PingCollects(n) ==
    /\ runs[n] /\ dying[n] = {} /\ Dead(n) # {}
    /\ dying' = [dying EXCEPT ![n] = Dead(n)]
    /\ UNCHANGED <<links, table, known, runs, silences>>

\* ... and removes whatever connection the table then has for them; below the target
\* the known addresses are dialled, as in _catch_up_loop.
PingRemoves(n) ==
    /\ dying[n] # {}
    /\ RemovePeers(n, dying[n])
    /\ dying' = [dying EXCEPT ![n] = {}]
    /\ UNCHANGED <<known, runs, silences>>

\* _catch_up_loop, as far as it dials.
CatchUpDials(n) ==
    /\ runs[n] /\ BelowTarget(n) /\ \E m \in known[n] : Dial(n, m)
    /\ UNCHANGED known

\* _bootstrap_retry_loop, and the first calls of start.
BootstrapRetry(n) ==
    /\ runs[n] /\ DOMAIN table[n] = {} /\ \E m \in Bootstrap[n] : Dial(n, m)
    /\ UNCHANGED known

\* _discovery_loop asks every peer for its peers and dials below the target.
DiscoveryTurn(n) == CatchUpDials(n) \/ \E l \in OpenLinks(n) : HearsPeers(n, l)

\* reconnect_known_peers dials whom the table lacks, however many that has.
ReconnectKnownPeers(n) ==
    /\ runs[n] /\ \E m \in (Bootstrap[n] \cup known[n]) \ (DOMAIN table[n] \ Dead(n)) : Dial(n, m)
    /\ UNCHANGED known

PostReconnect == \E n \in PeerNodes : ReconnectKnownPeers(n)

\* stop: a handshake under way goes on, and its message loop ends at once.
StopNode(n) ==
    /\ runs[n] /\ runs' = [runs EXCEPT ![n] = FALSE]
    /\ silences < MaxSilences /\ silences' = silences + 1
    /\ RemovePeers(n, DOMAIN table[n])
    /\ UNCHANGED <<known, dying>>

-----------------------------------------------------------------------------

\* start: the bootstrap peers are the known ones.
PeersInit ==
    /\ links = <<>> /\ runs = [n \in PeerNodes |-> TRUE] /\ silences = 0
    /\ table = [n \in PeerNodes |-> [k \in {} |-> 0]]
    /\ known = Bootstrap /\ chainIdOf \in ChainIds
    /\ dying = [n \in PeerNodes |-> {}]

PeersNext ==
    /\ UNCHANGED chainIdOf
    /\ \/ \E l \in DOMAIN links : Finish(l) \/ GivesUp(l) \/ Accept(l) \/ AnswerCall(l)
       \/ \E n \in PeerNodes : \E l \in Links(n) : LoopEnds(n, l) \/ Hears(n, l) \/ Silence(n, l)
       \/ \E n \in PeerNodes : PingCollects(n) \/ PingRemoves(n) \/ DiscoveryTurn(n) \/ BootstrapRetry(n) \/ StopNode(n)
       \/ PostReconnect

-----------------------------------------------------------------------------
(* Properties *)

\* No connection leaks and none is used after it was closed: of every node the sides
\* that are open are the ones its table has, whoever dialled whom, whatever was
\* replaced, dropped as silent or removed by the wrong list, and also while it stops.
OpenIsInTable ==
    \A n \in PeerNodes : OpenLinks(n) = Range(table[n])
=============================================================================
