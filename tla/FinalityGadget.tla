--------------------------- MODULE FinalityGadget ---------------------------
(***************************************************************************)
(* finality_engine.py: the checkpoints a node keeps in memory.  A value is  *)
(* a record: cps, one checkpoint per epoch (the first block of the epoch    *)
(* that was processed); votes, pairs of an epoch and a validator; just and  *)
(* final, the justified and finalized epochs; cur, the epoch of the last    *)
(* block; n, the number of active validators.                               *)
(***************************************************************************)
EXTENDS Integers, FiniteSets

CONSTANT EpochLen       \* EPOCH_LENGTH

ASSUME EpochAssumption == EpochLen \in Nat \ {0}

NoFinality(n) == [cps |-> {}, votes |-> {}, just |-> {}, final |-> {}, cur |-> 0, n |-> n]

Epoch(number) == number \div EpochLen

CreateCheckpoint(f, number, hash) ==
    IF \E c \in f.cps : c.epoch = Epoch(number) THEN f
    ELSE [f EXCEPT !.cps = @ \cup {[epoch |-> Epoch(number), hash |-> hash, number |-> number]}]

\* add_attestation: only a vote for the checkpoint's own hash counts.
AddAttestation(f, v, e, hash) ==
    IF \E c \in f.cps : c.epoch = e /\ c.hash = hash
    THEN LET votes == f.votes \cup {<<e, v>>}
             count == Cardinality({x \in votes : x[1] = e})
         IN [f EXCEPT !.votes = votes,
                      !.just  = IF 3 * count >= 2 * f.n THEN @ \cup {e} ELSE @]
    ELSE f

\* Every epoch from the last one to this one that is justified after a
\* justified predecessor.
FinalizeUpTo(f, e) ==
    [f EXCEPT !.final = @ \cup {k \in f.just : k \in f.cur..e /\ k - 1 \in f.just},
              !.cur   = e]

ProcessBlock(f, number, hash, v) ==
    LET e == Epoch(number)
    IN FinalizeUpTo(AddAttestation(CreateCheckpoint(f, number, hash), v, e, hash), e)

\* The checkpoints get_finalized_floor_height takes the highest of.
Finalized(f) == {c \in f.cps : c.epoch \in f.final}
=============================================================================
