------------------------------ MODULE PoolLocks ------------------------------
(***************************************************************************)
(* runtime/pool_locks.py: the ecosystem pool, closed until the validators    *)
(* vote, and the staking pool, released epoch by epoch.  Their state is one  *)
(* entry of the meta table: it is read, changed and written back without a   *)
(* lock in between.  The treasury is a second pool like the ecosystem's.     *)
(***************************************************************************)
EXTENDS Services

CONSTANTS
    Miner,          \* the mining thread
    Voters,         \* the validators of the registry the API was given
    ReleaseEpochs,  \* STAKING_RELEASE_EPOCHS
    PerEpoch,       \* what an epoch releases of the staking pool
    PoolTotal       \* what the ecosystem pool holds at genesis

ASSUME PoolLocksAssumption ==
    /\ IsFiniteSet(Voters) /\ ReleaseEpochs \in Nat /\ PerEpoch \in Nat /\ PoolTotal \in Nat

PoolIds == {"ecosystem", "staking"}

VARIABLES
    locksMeta,      \* pool_locks_state
    chainEpoch,     \* the epoch of the chain's tip
    paidOut         \* what requests have paid out of each pool

poolVars == <<bal, req, items, locksMeta, chainEpoch, paidOut>>

\* _ensure_state
FirstState ==
    [released |-> 0, epochs |-> 0, last |-> -1, votes |-> {}, unlocked |-> FALSE,
     spent |-> [p \in PoolIds |-> 0]]

\* A call reads the entry, and writes back what it made of it.
Loads(h, step) == req' = [req EXCEPT ![h].step = step, ![h].id = locksMeta]
Loaded(h) == req[h].id

-----------------------------------------------------------------------------
(* on_epoch_boundary, catch_up_epochs *)

\* Mutant: an epoch can be released again.
EpochReleasedAgain(state, epoch) ==
    [state EXCEPT !.last = epoch,
                  !.epochs = IF @ < ReleaseEpochs THEN @ + 1 ELSE @,
                  !.released = IF state.epochs < ReleaseEpochs THEN @ + PerEpoch ELSE @]

EpochReleased(state, epoch) ==
    IF epoch <= state.last THEN state
    ELSE [state EXCEPT !.last = epoch,
                       !.epochs = IF @ < ReleaseEpochs THEN @ + 1 ELSE @,
                       !.released = IF state.epochs < ReleaseEpochs THEN @ + PerEpoch ELSE @]

\* The mining loop has stored a block at the boundary of an epoch.
MinedBoundary ==
    /\ chainEpoch < MaxRounds
    /\ Begins(Miner, Request("epoch", "save", locksMeta, "none", chainEpoch + 1))
    /\ chainEpoch' = chainEpoch + 1
    /\ UNCHANGED <<bal, items, locksMeta, paidOut>>

EpochSave ==
    /\ At(Miner, "epoch", "save")
    /\ locksMeta' = EpochReleased(Loaded(Miner), req[Miner].amt)
    /\ Ends(Miner)
    /\ UNCHANGED <<bal, items, chainEpoch, paidOut>>

CaughtUp(state, epoch) ==
    LET after[e \in -1..epoch] == IF e = -1 THEN state ELSE EpochReleased(after[e - 1], e)
    IN after[epoch]

\* A miner that starts again releases what it missed.
PoolsRestart ==
    /\ locksMeta' = CaughtUp(locksMeta, chainEpoch)
    /\ UNCHANGED <<chainEpoch, paidOut>>

-----------------------------------------------------------------------------
(* dao_vote *)

\* Mutant: half of the validators is enough.
VoteQuorumHalf(votes) == 100 * Cardinality(votes) >= 50 * Cardinality(Voters)

VoteQuorum(votes) == 100 * Cardinality(votes) >= 51 * Cardinality(Voters)

DaoVote(h, voter) ==
    /\ voter \in Voters
    /\ Begins(h, Request("vote", "save", locksMeta, voter, 0))
    /\ UNCHANGED <<bal, items, locksMeta, chainEpoch, paidOut>>

VoteSave(h) ==
    /\ At(h, "vote", "save")
    /\ LET votes == Loaded(h).votes \cup {req[h].user}
       IN locksMeta' = [Loaded(h) EXCEPT !.votes = votes, !.unlocked = @ \/ VoteQuorum(votes)]
    /\ Ends(h)
    /\ UNCHANGED <<bal, items, chainEpoch, paidOut>>

-----------------------------------------------------------------------------
(* _handle_devnet_pool_spend *)

Releasable(pool) ==
    IF pool = "staking" THEN locksMeta.released
    ELSE IF locksMeta.unlocked THEN PoolTotal
    ELSE 0

\* spendable_balance; the pool's own balance plays no part in it.
Spendable(pool) == Releasable(pool) - locksMeta.spent[pool]

\* The bound on the spendings of a behaviour.
SpendBound == IF mode = "serial" THEN MaxRounds + 1 ELSE 1

PoolSpend(h, pool, to, amount) ==
    /\ items < SpendBound /\ items' = items + 1 /\ amount <= Spendable(pool)
    /\ Begins(h, Request("spend", "debit", locksMeta, <<pool, to>>, amount))
    /\ UNCHANGED <<bal, locksMeta, chainEpoch, paidOut>>

SpendDebit(h) ==
    /\ At(h, "spend", "debit")
    /\ UpdateBalance(req[h].user[1], -req[h].amt)
    /\ Goes(h, "credit")
    /\ UNCHANGED <<items, locksMeta, chainEpoch, paidOut>>

SpendCredit(h) ==
    /\ At(h, "spend", "credit")
    /\ UpdateBalance(req[h].user[2], req[h].amt)
    /\ paidOut' = [paidOut EXCEPT ![req[h].user[1]] = @ + req[h].amt]
    /\ Goes(h, "load")
    /\ UNCHANGED <<items, locksMeta, chainEpoch>>

SpendLoad(h) ==
    /\ At(h, "spend", "load") /\ Loads(h, "save")
    /\ UNCHANGED <<bal, items, locksMeta, chainEpoch, paidOut>>

\* Mutant: the amount replaces what was spent before.
RecordLastOnly(state, pool, amount) == [state EXCEPT !.spent[pool] = amount]

RecordOutgoing(state, pool, amount) == [state EXCEPT !.spent[pool] = @ + amount]

SpendSave(h) ==
    /\ At(h, "spend", "save")
    /\ locksMeta' = RecordOutgoing(Loaded(h), req[h].user[1], req[h].amt)
    /\ Ends(h)
    /\ UNCHANGED <<bal, items, chainEpoch, paidOut>>

-----------------------------------------------------------------------------
(* The REST endpoints *)

PostPoolsDaoVote(h) == \E v \in Voters : DaoVote(h, v)

PostPoolsSpend(h) == \E p \in PoolIds, u \in Users, x \in Amounts : PoolSpend(h, p, u, x)

PoolsInit ==
    /\ locksMeta = FirstState /\ chainEpoch = 0
    /\ paidOut = [p \in PoolIds |-> 0]

PoolsNext ==
    \/ MinedBoundary \/ EpochSave
    \/ \E h \in Handlers :
          \/ PostPoolsDaoVote(h) \/ VoteSave(h)
          \/ PostPoolsSpend(h) \/ SpendDebit(h) \/ SpendCredit(h) \/ SpendLoad(h) \/ SpendSave(h)

-----------------------------------------------------------------------------
(* Properties *)

\* Whatever is lost, repeated or caught up after a restart, no epoch releases its
\* share of the staking pool twice.
ReleasedBySchedule ==
    /\ locksMeta.released <= PerEpoch * (locksMeta.last + 1)
    /\ locksMeta.last <= chainEpoch

\* One request after another, no pool pays out more than the schedule or the vote
\* has set free.
PaidWithinRelease ==
    mode = "serial" => \A p \in PoolIds : paidOut[p] <= Releasable(p)

\* Only a majority of the validators opens the ecosystem pool, and a pool that was
\* opened has their votes, also after writes that overlapped.
OpenedByMajority ==
    locksMeta.unlocked => \E q \in SUBSET locksMeta.votes : 2 * Cardinality(q) > Cardinality(Voters)
=============================================================================
