------------------------------- MODULE Votes -------------------------------
(***************************************************************************)
(* The consensus adapter (consensus/adapter.py) of several nodes: which     *)
(* validator may produce a block (validator_selection.py and the mining     *)
(* loop of main.py), the attestations that follow a block, their gossip,    *)
(* the slashing of double votes and double proposals (slashing.py), the     *)
(* latest votes (lmd.py), the fork choice (ghost.py) and the finality that  *)
(* engine_slashing.py derives from the votes (finality_beacon.py).  Every   *)
(* node holds one validator key, its own name.                              *)
(*                                                                          *)
(* What chain a node holds is abstracted to its last block: import, fork    *)
(* reconciliation and their state are modelled in Ledger and Network.       *)
(* Counters that only statistics read (attestations, produced blocks,       *)
(* reputation, ConsensusEngine.finalized_checkpoints) are left out.  The    *)
(* Casper and Beacon engines of the adapter are given blocks, never         *)
(* validators or votes: their trees are the one below, and they never       *)
(* justify anything.                                                        *)
(***************************************************************************)
EXTENDS Integers, FiniteSets, FiniteSetsExt

CONSTANTS
    Nodes,          \* the nodes, and the validator each of them holds the key of
    Stake,          \* min_stake, the stake every node registers with
    EpochSize,      \* epoch_size of BeaconFinality
    MaxBlocks,      \* bound: blocks ever produced
    MaxSlot,        \* bound: slot of a node
    MaxWeight,      \* bound: votes counted for one block in one epoch
    MaxRestarts     \* bound: restarts

ASSUME VotesAssumption ==
    /\ IsFiniteSet(Nodes) /\ Nodes # {}
    /\ Stake \in Nat \ {0} /\ EpochSize \in Nat \ {0}
    /\ MaxBlocks \in Nat /\ MaxSlot \in Nat /\ MaxWeight \in Nat /\ MaxRestarts \in Nat

VARIABLES
    blocks,     \* every block produced so far: [id, parent, height, miner]
    tip,        \* tip[n]: id of the last block of n's chain
    rows,       \* rows[n][v]: "none", "active" or "slashed" in table validators
    slot,       \* slot[n]: ConsensusEngine.current_slot
    seed,       \* seed[n]: the block n started from, or OwnSeed once n has mixed its own in
    pick,       \* pick[n]: the validator n's seed, slot and rows hash to
    draws,      \* what a seed nobody has mixed yet hashes to: triples <<seed, validators, pick>>
    eng,        \* eng[n]: the engines of n, see NoVotes
    signed,     \* attestations given to the network, as pairs <<v, block>>
    restarts    \* restarts so far

vars == <<blocks, tip, rows, slot, seed, pick, draws, eng, signed, restarts>>

Genesis == 0
NoRoot == -1
OwnSeed == -1

Block(i) == CHOOSE b \in blocks : b.id = i

\* The validators table holds v as active and not slashed.
Active(n) == {v \in Nodes : rows[n][v] = "active"}

-----------------------------------------------------------------------------
(* The engines of one node, as a record *)

\* known: registered validators; votes: triples <<v, slot, block>> and proposals:
\* pairs <<height, miner>> of SlashingEngine; slashed: pairs <<v, reason>>;
\* latest: the latest votes [v, b, s]; kids: pairs <<parent, child>> of the block
\* tree, blank: its nodes made for an unknown parent, root: the first of them;
\* weight, just, final, total: BeaconFinality.
NoVotes(members) ==
    [known |-> members, votes |-> {}, proposals |-> {}, slashed |-> {}, latest |-> {},
     kids |-> {}, blank |-> {}, root |-> NoRoot,
     weight |-> [x \in (0..MaxSlot \div EpochSize) \X (1..MaxBlocks) |-> 0],
     just |-> {}, final |-> {}, total |-> Stake * Cardinality(members)]

Out(e) == {x[1] : x \in e.slashed}

\* get_total_active_stake
ActiveStake(e) == Stake * Cardinality(e.known \ Out(e))

Slash(e, v, reason) ==
    IF v \in Out(e) THEN e ELSE [e EXCEPT !.slashed = @ \cup {<<v, reason>>}]

\* Mutant: a vote of a slashed validator is looked at like any other.
AddVoteUnchecked(e, v, s, b) ==
    IF \E x \in e.votes : x[1] = v /\ x[2] = s /\ x[3] # b THEN Slash(e, v, "double_vote")
    ELSE [e EXCEPT !.votes = @ \cup {<<v, s, b>>}]

\* add_vote: accepted exactly when v is not out afterwards.
AddVote(e, v, s, b) ==
    IF v \in Out(e) THEN e
    ELSE IF \E x \in e.votes : x[1] = v /\ x[2] = s /\ x[3] # b THEN Slash(e, v, "double_vote")
    ELSE [e EXCEPT !.votes = @ \cup {<<v, s, b>>}]

\* record_proposal: refused exactly when the height and miner are recorded already.
RecordProposal(e, b) ==
    IF <<b.height, b.miner>> \in e.proposals THEN Slash(e, b.miner, "double_proposal")
    ELSE [e EXCEPT !.proposals = @ \cup {<<b.height, b.miner>>}]

\* LMDTable.update: only a newer slot replaces a vote.
UpdateLatest(e, v, s, b) ==
    IF v \notin e.known \/ \E x \in e.latest : x.v = v /\ x.s >= s THEN e
    ELSE [e EXCEPT !.latest = {x \in @ : x.v # v} \cup {[v |-> v, b |-> b, s |-> s]}]

\* BeaconFinality.add_vote and _evaluate: every call adds the stake again; an epoch
\* of slots is justified by one block, and finalizes a justified predecessor.
Threshold(e) == (2 * e.total) \div 3

CountVote(e, s, b) ==
    LET k == s \div EpochSize
        w == [e.weight EXCEPT ![<<k, b>>] = @ + Stake]
        new == k \notin e.just /\ \E i \in 1..MaxBlocks : w[k, i] > 0 /\ w[k, i] >= Threshold(e)
    IN [e EXCEPT !.weight = w,
                 !.just  = IF new THEN @ \cup {k} ELSE @,
                 !.final = IF new THEN @ \cup ({k - 1} \cap e.just) ELSE @]

TreeNodes(e) == e.blank \cup {x[2] : x \in e.kids}

\* add_block of the tree: an unknown parent becomes a node without parent, and the
\* first node without parent is where the fork choice starts.
AddBlock(e, b) ==
    [e EXCEPT !.kids  = @ \cup {<<b.parent, b.id>>},
              !.blank = @ \cup ({b.parent} \ TreeNodes(e)),
              !.root  = IF @ = NoRoot THEN b.parent ELSE @,
              !.total = ActiveStake(e)]

\* Mutant: the latest vote moves before the slashing engine has accepted it.
OnAttestationLmdFirst(e, v, s, b) == AddVote(UpdateLatest(e, v, s, b), v, s, b)

\* on_attestation of engine_slashing.py
OnAttestation(e, v, s, b) ==
    LET voted == AddVote(e, v, s, b)
        moved == UpdateLatest(voted, v, s, b)
        done  == IF v \in e.known /\ \E x \in e.kids : x[2] = b
                 THEN CountVote(moved, s, b) ELSE moved
    IN IF v \in Out(voted) THEN voted ELSE [done EXCEPT !.total = ActiveStake(done)]

-----------------------------------------------------------------------------
(* ghost.py *)

Children(e, i) == {x[2] : x \in {y \in e.kids : y[1] = i}}
VotesFor(e, i) == Cardinality({x \in e.latest : x.b = i})

\* Mutant: the votes of the descendants are not added.
CumulativeWeightOwn(e) == [i \in TreeNodes(e) |-> Stake * VotesFor(e, i)]

\* get_cumulative_weight
CumulativeWeight(e) ==
    LET cum[i \in TreeNodes(e)] ==
            Stake * VotesFor(e, i) + MapThenSumSet(LAMBDA c : cum[c], Children(e, i))
    IN cum

\* The number select_head breaks a tie with: 0 for a node made for an unknown parent.
Number(e, i) == IF i \in e.blank THEN 0 ELSE Block(i).height

\* c is chosen over its sibling d.
Beats(e, cum, c, d) ==
    \/ cum[c] > cum[d]
    \/ cum[c] = cum[d] /\ Number(e, c) > Number(e, d)
    \/ cum[c] = cum[d] /\ Number(e, c) = Number(e, d) /\ c < d

\* select_head
Head(e) ==
    LET cum == CumulativeWeight(e)
        best(i) == CHOOSE c \in Children(e, i) :
                        \A d \in Children(e, i) \ {c} : Beats(e, cum, c, d)
        end[i \in TreeNodes(e)] == IF Children(e, i) = {} THEN i ELSE end[best(i)]
    IN end[e.root]

-----------------------------------------------------------------------------
(* The node *)

\* select_proposer_weighted: equal seeds, slots and validators pick the same proposer
\* on every node.  A seed is shared until a node mixes a block of its own into it, and
\* its slot is 0 until then; without validators the node picks itself.
Draw(n, from, act) ==
    /\ \E p \in IF act = {} THEN {n} ELSE act :
          /\ \A d \in draws : d[1] = from /\ d[2] = act => d[3] = p
          /\ pick' = [pick EXCEPT ![n] = p]
          /\ draws' = IF from = OwnSeed \/ Cardinality(act) < 2 THEN draws
                      ELSE draws \cup {<<from, act, p>>}
    /\ seed' = [seed EXCEPT ![n] = from]

\* A slash found by the engines of n is written to its table by the callback; with
\* the table, or the seed and slot, the proposer of the slot changes.
Chosen(n, e, mixed) ==
    /\ eng' = [eng EXCEPT ![n] = e]
    /\ rows' = [rows EXCEPT ![n] =
            [v \in Nodes |-> IF v \in Out(eng'[n]) \ Out(eng[n]) /\ @[v] # "none"
                             THEN "slashed" ELSE @[v]]]
    /\ IF mixed \/ rows' # rows
       THEN Draw(n, IF mixed THEN OwnSeed ELSE seed[n], {v \in Nodes : rows'[n][v] = "active"})
       ELSE UNCHANGED <<seed, pick, draws>>

\* _verify_block_proposer
ProposerOk(n, b) ==
    /\ b.miner \notin Out(eng[n])
    /\ Cardinality(Active(n)) > 1 => b.miner \in Active(n) \cup {n}

\* add_block executes b: the second proposal of a miner at a height fails the block.
Stored(e, b) ==
    LET r == RecordProposal(e, b)
    IN IF b.miner \in Out(r) THEN r ELSE AddBlock(r, b)

\* _on_consensus_attestation: a vote of this node's own that counted is signed and sent.
Gossiped(n, e, b) == IF n \in e.known \ Out(e) THEN {<<n, b>>} ELSE {}

\* adapter.attest
Attested(n, e, b) ==
    LET a == OnAttestation(e, n, slot[n], b)
    IN [engines |-> a, sent |-> Gossiped(n, a, b)]

\* One turn of the mining loop: produce, attest, advance the slot, mix the seed.
MayProduce(n) == Cardinality(Active(n)) <= 1 \/ pick[n] = n

Mine(n) ==
    /\ Cardinality(blocks) <= MaxBlocks /\ slot[n] < MaxSlot
    /\ MayProduce(n) /\ n \notin Out(eng[n])
    /\ LET b == [id |-> Cardinality(blocks), parent |-> tip[n],
                 height |-> Block(tip[n]).height + 1, miner |-> n]
       IN \E e \in {Stored(eng[n], b)} : \E a \in {Attested(n, e, b.id)} :
          IF n \in Out(e)
          THEN Chosen(n, e, FALSE) /\ UNCHANGED <<blocks, tip, slot, signed>>
          ELSE /\ blocks' = blocks \cup {b}
               /\ tip' = [tip EXCEPT ![n] = b.id]
               /\ slot' = [slot EXCEPT ![n] = @ + 1]
               /\ Chosen(n, a.engines, TRUE)
               /\ signed' = signed \cup a.sent
    /\ UNCHANGED restarts

\* A block on n's last one arrives: announced, it is stored and attested
\* (_handle_new_block); in an answer to a synchronisation it is only stored.
Import(n, b, announced) ==
    /\ b.parent = tip[n] /\ ProposerOk(n, b)
    /\ \E e \in {Stored(eng[n], b)} : \E a \in {Attested(n, e, b.id)} :
          IF b.miner \in Out(e)
          THEN Chosen(n, e, FALSE) /\ UNCHANGED <<tip, signed>>
          ELSE /\ tip' = [tip EXCEPT ![n] = b.id]
               /\ Chosen(n, IF announced THEN a.engines ELSE e, FALSE)
               /\ signed' = IF announced THEN signed \cup a.sent ELSE signed
    /\ UNCHANGED <<blocks, slot, restarts>>

\* A fork at the height of n's last block: that block goes, and b takes its place
\* unless it is refused.
Reconcile(n, b) ==
    /\ tip[n] # Genesis /\ b.id # tip[n] /\ b.id # Genesis
    /\ b.parent = Block(tip[n]).parent
    /\ LET e == IF ProposerOk(n, b) THEN Stored(eng[n], b) ELSE eng[n]
       IN /\ Chosen(n, e, FALSE)
          /\ tip' = [tip EXCEPT ![n] = IF b.miner \in Out(e) \/ ~ProposerOk(n, b)
                                       THEN b.parent ELSE b.id]
    /\ UNCHANGED <<blocks, slot, signed, restarts>>

\* _handle_attestation: the vote counts in n's own slot, whatever slot was signed.
\* The network may repeat, delay or lose it.
Hear(n, v, b) ==
    /\ <<v, b>> \in signed
    /\ v # n \/ Cardinality(Nodes) > 2
    /\ eng[n].weight[slot[n] \div EpochSize, b] < MaxWeight * Stake
    /\ Chosen(n, OnAttestation(eng[n], v, slot[n], b), FALSE)
    /\ UNCHANGED <<blocks, tip, slot, signed, restarts>>

\* adapter.add_validator: new to the engines, v is added to them.
AddValidator(e, v) ==
    LET with == [e EXCEPT !.known = @ \cup {v}]
    IN [with EXCEPT !.total = ActiveStake(with)]

\* /validators/register, or a peer's announcement.  A row that says slashed keeps
\* saying so.
Register(n, v) ==
    /\ v \notin eng[n].known
    /\ LET row == IF rows[n][v] = "none" THEN "active" ELSE rows[n][v]
           act == Active(n) \cup (IF row = "active" THEN {v} ELSE {})
       IN /\ eng' = [eng EXCEPT ![n] = AddValidator(@, v)]
          /\ rows' = [rows EXCEPT ![n][v] = row]
          /\ Draw(n, seed[n], act)
    /\ UNCHANGED <<blocks, tip, slot, signed, restarts>>

\* The node starts again: the engines know the active rows and the node itself.
Restart(n) ==
    /\ restarts < MaxRestarts /\ restarts' = restarts + 1
    /\ eng' = [eng EXCEPT ![n] = NoVotes(Active(n) \cup {n})]
    /\ slot' = [slot EXCEPT ![n] = 0]
    /\ Draw(n, tip[n], Active(n))
    /\ UNCHANGED <<blocks, tip, rows, signed>>

-----------------------------------------------------------------------------
\* Every node knows every validator, or only itself.
Init ==
    /\ blocks = {[id |-> Genesis, parent |-> NoRoot, height |-> 0, miner |-> "genesis"]}
    /\ tip = [n \in Nodes |-> Genesis]
    /\ \E met \in BOOLEAN :
        /\ rows = [n \in Nodes |-> [v \in Nodes |-> IF met \/ v = n THEN "active" ELSE "none"]]
        /\ eng = [n \in Nodes |-> NoVotes(IF met THEN Nodes ELSE {n})]
        /\ IF met THEN \E p \in Nodes : /\ pick = [n \in Nodes |-> p]
                                        /\ draws = {<<Genesis, Nodes, p>>}
           ELSE pick = [n \in Nodes |-> n] /\ draws = {}
    /\ seed = [n \in Nodes |-> Genesis]
    /\ slot = [n \in Nodes |-> 0]
    /\ signed = {} /\ restarts = 0

Step(n) ==
    \/ Mine(n)
    \/ \E b \in blocks : \/ Import(n, b, TRUE)
                         \/ Import(n, b, FALSE)
                         \/ Reconcile(n, b)
    \/ \E x \in signed : Hear(n, x[1], x[2])
    \/ \E v \in Nodes : Register(n, v)
    \/ Restart(n)

Next == \E n \in Nodes : Step(n)

\* The mining loop looks every second, and announcements of a block reach the peers.
Fairness ==
    \A n \in Nodes : /\ WF_vars(Mine(n))
                     /\ WF_vars(\E b \in blocks : Import(n, b, TRUE))

Spec == Init /\ [][Next]_vars /\ Fairness

-----------------------------------------------------------------------------
(* Properties *)

\* The vote the fork choice counts for a validator (lmd.py) is the last one that the
\* slashing engine accepted from it (slashing.py): two tables filled by one handler.
LatestIsLast ==
    \A n \in Nodes : \A x \in eng[n].latest :
        /\ <<x.v, x.s, x.b>> \in eng[n].votes
        /\ \A y \in eng[n].votes : y[1] = x.v => y[2] <= x.s

\* i is d or an ancestor of d.
Under(i, d) ==
    LET up[j \in {b.id : b \in blocks}] == j = i \/ (j # Genesis /\ up[Block(j).parent])
    IN up[d]

\* ghost.py: a block below the root with more than half of the votes for known blocks
\* below the root is the head or an ancestor of it, whatever the order in which
\* blocks, votes, reorganisations and restarts came.
HeadHeaviest ==
    \A n \in Nodes : eng[n].root # NoRoot =>
        LET e == eng[n]
            count(i) == Cardinality({x \in e.latest : x.b \in TreeNodes(e) /\ Under(i, x.b)})
        IN \A i \in TreeNodes(e) :
              Under(e.root, i) /\ 2 * count(i) > count(e.root) => Under(i, Head(e))

\* slashing.py, engine_slashing.py: while a node runs, the votes of a validator it
\* slashed stay as they were and none of its later attestations is counted.
SlashedFrozen ==
    [][\A n \in Nodes : \A v \in Out(eng[n]) \cap Out(eng[n]') :
            /\ {x \in eng'[n].latest : x.v = v} = {x \in eng[n].latest : x.v = v}
            /\ {x \in eng'[n].votes : x[1] = v} = {x \in eng[n].votes : x[1] = v}]_vars

\* slashing.py:66 "slash only on conflicting votes in one slot": who is slashed for a
\* double vote has attested two blocks neither of which descends from the other.
SlashNeedsConflict ==
    \A n \in Nodes, v \in Nodes : <<v, "double_vote">> \in eng[n].slashed =>
        \E x \in signed, y \in signed :
            /\ x[1] = v /\ y[1] = v
            /\ ~Under(x[2], y[2]) /\ ~Under(y[2], x[2])

\* main.py:1340, the mining loop forges a new block every block_time: below the bound
\* on blocks, another one always follows.
BlocksGoOn ==
    \A k \in 1..MaxBlocks : (Cardinality(blocks) = k) ~> (Cardinality(blocks) > k)
=============================================================================
