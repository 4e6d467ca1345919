------------------------------ MODULE Gadgets ------------------------------
(***************************************************************************)
(* The engines of consensus beside the one the node follows: the Casper and  *)
(* the beacon engine (engine_casper.py, engine_beacon.py), each with its own *)
(* table of latest votes and its own finality, and the slot counter of       *)
(* consensus_engine.py that two endpoints drive.  The epochs of the first    *)
(* come from block numbers, those of the second from slots, and votes come   *)
(* in any order.                                                             *)
(***************************************************************************)
EXTENDS Integers, FiniteSets, FiniteSetsExt, Functions

CONSTANTS
    Attesters,      \* validators, of stake 1 once they are added
    Checkpoints,    \* hashes of blocks
    NumberOf,       \* hash -> number of the block
    GadgetEpoch,    \* epoch_size, SLOTS_PER_EPOCH
    MaxSlot,        \* bound: slots
    MaxVotes        \* bound: attestations

ASSUME GadgetsAssumption ==
    /\ GadgetEpoch \in Nat \ {0} /\ MaxSlot \in Nat
    /\ NumberOf \in [Checkpoints -> Nat]

Epochs == 0..(Max(Range(NumberOf) \cup {MaxSlot}) \div GadgetEpoch)
GetEpoch(n) == n \div GadgetEpoch

VARIABLES
    casper, beacon, \* the two engines
    slots,          \* the slot counter
    votesCast

gadgetVars == <<casper, beacon, slots, votesCast>>

NoCheckpoint == [epoch |-> -1, hash |-> "none"]

\* LMDTable, the blocks that were added, and the finality: weight per epoch and hash,
\* the block of each justified epoch, the finalized epochs, the last of either kind.
NewEngine == [members |-> {}, latest |-> << >>, blocks |-> {}, weight |-> [x \in Epochs \X Checkpoints |-> 0],
              seen |-> {}, justified |-> << >>, final |-> {}, lastJust |-> NoCheckpoint, lastFinal |-> NoCheckpoint]

Justified(g) == DOMAIN g.justified
With(fn, k, v) == [x \in DOMAIN fn \cup {k} |-> IF x = k THEN v ELSE fn[x]]

\* int(total_stake * 2/3)
GetThreshold(g) == (2 * Cardinality(g.members)) \div 3
GetWeights(g, b) == Cardinality({v \in DOMAIN g.latest : g.latest[v].hash = b})

\* LMDTable.update
Newer(g, v, slot) == v \in g.members /\ (v \in DOMAIN g.latest => slot > g.latest[v].slot)
LmdUpdate(g, v, b, slot) == IF Newer(g, v, slot) THEN [g EXCEPT !.latest = With(@, v, [hash |-> b, slot |-> slot])] ELSE g

-----------------------------------------------------------------------------
(* CasperFinality, BeaconFinality *)

Voted(g, e, b, w) == [g EXCEPT !.weight[<<e, b>>] = @ + w, !.seen = @ \cup {<<e, b>>}]

\* max over the votes of the epoch; which of several is not told apart.
BestBlocks(g, e) ==
    {b \in Checkpoints : <<e, b>> \in g.seen /\ \A o \in Checkpoints : <<e, o>> \in g.seen => g.weight[<<e, o>>] <= g.weight[<<e, b>>]}
Reached(g, e) == {b \in BestBlocks(g, e) : g.weight[<<e, b>>] >= GetThreshold(g)}

\* An epoch keeps the first block it was justified with.
JustifyEpoch(g, e, b) == IF e \in Justified(g) THEN g ELSE [g EXCEPT !.justified = With(@, e, b), !.lastJust = [epoch |-> e, hash |-> b]]

\* Mutant: the epoch before is taken to be justified.
TryFinalizeAlways(g, e) ==
    IF e - 1 \in Epochs \ g.final
    THEN [g EXCEPT !.final = @ \cup {e - 1}, !.lastFinal = [epoch |-> e - 1, hash |-> "none"]] ELSE g

TryFinalize(g, e) ==
    IF e - 1 \in Justified(g) \ g.final
    THEN [g EXCEPT !.final = @ \cup {e - 1}, !.lastFinal = [epoch |-> e - 1, hash |-> g.justified[e - 1]]] ELSE g

\* Casper looks at the epoch before with every vote over the threshold,
CasperEvaluate(g, e) ==
    IF Reached(g, e) = {} THEN {g} ELSE {TryFinalize(JustifyEpoch(g, e, b), e) : b \in Reached(g, e)}

\* the beacon's finality only when the epoch becomes justified.
BeaconEvaluate(g, e) ==
    IF Reached(g, e) = {} \/ e \in Justified(g) THEN {g} ELSE {TryFinalize(JustifyEpoch(g, e, b), e) : b \in Reached(g, e)}

-----------------------------------------------------------------------------
(* The engines *)

AddValidator(g, v) == [g EXCEPT !.members = @ \cup {v}]
AddBlock(g, b) == [g EXCEPT !.blocks = @ \cup {b}]

\* add_validator, add_block of either engine.
Prepared(g) == {AddValidator(g, v) : v \in Attesters} \cup {AddBlock(g, b) : b \in Checkpoints}
CasperPrepare == casper' \in Prepared(casper) /\ UNCHANGED <<beacon, slots, votesCast>>
BeaconPrepare == beacon' \in Prepared(beacon) /\ UNCHANGED <<casper, slots, votesCast>>

\* on_attestation of the Casper engine: a vote for a known block adds the whole weight the
\* block has by now, also a vote that is not newer or of nobody who was added.
CasperAttestation(v, b, slot) ==
    /\ votesCast < MaxVotes /\ votesCast' = votesCast + 1
    /\ LET g == LmdUpdate(casper, v, b, slot)
           e == GetEpoch(NumberOf[b])
       IN casper' \in IF b \in g.blocks THEN CasperEvaluate(Voted(g, e, b, GetWeights(g, b)), e) ELSE {g}
    /\ UNCHANGED <<beacon, slots>>

\* on_attestation of the beacon engine: a newer vote adds the validator's stake, whatever
\* it voted for before in the epoch.
BeaconAttestation(v, b, slot) ==
    /\ votesCast < MaxVotes /\ votesCast' = votesCast + 1
    /\ IF Newer(beacon, v, slot)
       THEN beacon' \in BeaconEvaluate(Voted(LmdUpdate(beacon, v, b, slot), GetEpoch(slot), b, 1), GetEpoch(slot))
       ELSE UNCHANGED beacon
    /\ UNCHANGED <<casper, slots>>

\* CasperFinality.update
CasperUpdate(e) ==
    /\ casper' \in CasperEvaluate(casper, e)
    /\ UNCHANGED <<beacon, slots, votesCast>>

-----------------------------------------------------------------------------
(* POST /consensus/engine/attest and /advance: the node's own validator only *)

Attest(slot) ==
    /\ votesCast < MaxVotes /\ votesCast' = votesCast + 1
    /\ slots' = [slots EXCEPT !.attested[slot] = @ + 1]
    /\ UNCHANGED <<casper, beacon>>

\* _finalize_checkpoint at the end of an epoch: all slots with votes enough, again those of
\* epochs before.  A vote for a new slot meanwhile stops the loop over them with an
\* error, after any of them.
AdvanceSlot(got) ==
    /\ slots.now < MaxSlot
    /\ LET now == slots.now + 1
           enough == {s \in DOMAIN slots.attested : slots.attested[s] > 0}
       IN /\ got \subseteq enough
          /\ now % GadgetEpoch # 0 => got = {}
          /\ slots' = [slots EXCEPT !.now = now, !.epoch = IF now % GadgetEpoch = 0 THEN @ + 1 ELSE @, !.final = @ \cup got]
    /\ UNCHANGED <<casper, beacon, votesCast>>

\* Nothing of this is stored.
GadgetsRestart ==
    /\ casper' = NewEngine /\ beacon' = NewEngine
    /\ slots' = [now |-> 0, epoch |-> 0, attested |-> [s \in 0..MaxSlot |-> 0], final |-> {}]
    /\ UNCHANGED votesCast

GadgetsInit ==
    /\ casper = NewEngine /\ beacon = NewEngine /\ votesCast = 0
    /\ slots = [now |-> 0, epoch |-> 0, attested |-> [s \in 0..MaxSlot |-> 0], final |-> {}]

\* The engines share nothing: each can be looked at alone.
CasperNext ==
    \/ CasperPrepare \/ GadgetsRestart
    \/ \E v \in Attesters, b \in Checkpoints, s \in 0..MaxSlot : CasperAttestation(v, b, s)
    \/ \E e \in Epochs : CasperUpdate(e)

BeaconNext ==
    \/ BeaconPrepare \/ GadgetsRestart
    \/ \E v \in Attesters, b \in Checkpoints, s \in 0..MaxSlot : BeaconAttestation(v, b, s)

SlotsNext ==
    \/ \E s \in 0..MaxSlot : Attest(s)
    \/ \E got \in SUBSET (0..MaxSlot) : AdvanceSlot(got)
    \/ GadgetsRestart

-----------------------------------------------------------------------------
(* Properties *)

\* finality_casper.py, finality_beacon.py: an epoch is finalized only when it and the next
\* are justified, in whatever order votes, blocks and validators come; and the finalized
\* block is the one its epoch was justified with, though the votes have moved on.
TwoStep ==
    \A g \in {casper, beacon} :
        /\ \A e \in g.final : {e, e + 1} \subseteq Justified(g)
        /\ g.lastFinal # NoCheckpoint => g.justified[g.lastFinal.epoch] = g.lastFinal.hash
=============================================================================
