------------------------------- MODULE Custody -------------------------------
(***************************************************************************)
(* What a service that takes coins into custody promises: a payment channel,*)
(* a will, a plasma deposit, a sale, a bridge lock.  Every item holds what   *)
(* was taken for it, less a fee, and whatever is given out for it comes out  *)
(* of what it holds.  RestServer implements this with the services of src/.  *)
(***************************************************************************)
EXTENDS Integers

CONSTANTS
    Users,   \* the addresses with a balance
    Items,   \* identifiers of channels, wills, deposits, locks
    Outside  \* those whose coins come from another chain

VARIABLES
    bal,     \* the balance of every address
    held     \* what every item holds

vars == <<bal, held>>

TypeOK == bal \in [Users -> Nat] /\ held \in [Items -> Nat]

Init == TypeOK

\* x coins of u are taken, of which item i holds y; the rest is a fee.
Take(i, u, x, y) ==
    /\ x \in 0..bal[u] /\ y \in 0..x
    /\ bal' = [bal EXCEPT ![u] = @ - x]
    /\ held' = [held EXCEPT ![i] = @ + y]

\* Item i gives x of its coins to u.
Give(i, u, x) ==
    /\ x \in 0..held[i]
    /\ bal' = [bal EXCEPT ![u] = @ + x]
    /\ held' = [held EXCEPT ![i] = @ - x]

\* Coins of an item that nobody gets: a fee, or coins that leave the chain.
Forfeit(i, x) ==
    /\ x \in 0..held[i]
    /\ held' = [held EXCEPT ![i] = @ - x]
    /\ UNCHANGED bal

\* Coins that were locked for us on another chain.
Arrive(i, x) ==
    /\ i \in Outside /\ x \in Nat
    /\ held' = [held EXCEPT ![i] = @ + x]
    /\ UNCHANGED bal

\* The amounts are read off the two states, so that no set of them is enumerated.
Next ==
    \E i \in Items :
        \/ \E u \in Users : Take(i, u, bal[u] - bal'[u], held'[i] - held[i])
        \/ \E u \in Users : Give(i, u, bal'[u] - bal[u])
        \/ Forfeit(i, held[i] - held'[i])
        \/ Arrive(i, held'[i] - held[i])

Spec == Init /\ [][Next]_vars
=============================================================================
