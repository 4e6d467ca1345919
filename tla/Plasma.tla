------------------------------- MODULE Plasma -------------------------------
(***************************************************************************)
(* features/plasma.py: a side chain with coins deposited from the accounts.  *)
(* Everything after the debit of a deposit happens under the chain's lock,   *)
(* but each save is a commit of its own.  A monitor thread finalizes exits   *)
(* whose challenge period is over.                                           *)
(***************************************************************************)
EXTENDS Services

CONSTANTS
    ExitMonitor,    \* the thread of _exit_monitor_loop
    KeptPending     \* how many pending transactions the plasma_pending_txs entry keeps

ASSUME PlasmaAssumption == KeptPending \in Nat

VARIABLES
    deposits, depositDb,    \* in memory, and plasma_deposits
    exits, exitDb,          \* in memory, and plasma_exits
    l2txs, l2txDb,          \* transfers not in a block yet, and the saved tail of them
    l2blocks                \* transfers of the blocks, saved as they are made

plasmaDb == <<depositDb, exitDb, l2txDb>>
plasmaMem == <<deposits, exits, l2txs>>
plasmaVars == <<bal, req, items, plasmaDb, plasmaMem, l2blocks>>

PlasmaThreads == Handlers \cup {ExitMonitor}

PlasmaLockFree == \A h \in PlasmaThreads : ~At(h, "finalize", "mark")

-----------------------------------------------------------------------------
(* _l2_balance *)

TxSum(txs, user, side) ==
    SumFunction([i \in DOMAIN txs |-> IF txs[i][side] = user THEN txs[i].amount ELSE 0])

L2Balance(user) ==
    LET amounts == [d \in DOMAIN deposits |-> deposits[d].amount]
        confirmed == {d \in DOMAIN deposits : deposits[d].from = user /\ deposits[d].status = "confirmed"}
        all == l2blocks \o l2txs
    IN SumFunctionOnSet(amounts, confirmed) + TxSum(all, user, "to") - TxSum(all, user, "from")

-----------------------------------------------------------------------------
(* deposit *)

Deposit(h, user, amount) ==
    /\ amount > 0 /\ bal[user] >= amount
    /\ NewItem /\ Begins(h, Request("deposit", "debit", items + 1, user, amount))
    /\ UNCHANGED <<bal, plasmaDb, plasmaMem, l2blocks>>

DepositDebit(h) ==
    /\ At(h, "deposit", "debit")
    /\ UpdateBalance(req[h].user, -req[h].amt)
    /\ Goes(h, "save")
    /\ UNCHANGED <<items, plasmaDb, plasmaMem, l2blocks>>

\* The deposit's entry among the pending transactions moves nothing; it is left out.
DepositSave(h) ==
    /\ At(h, "deposit", "save") /\ PlasmaLockFree
    /\ LET d == [from |-> req[h].user, amount |-> req[h].amt, status |-> "confirmed"]
       IN deposits' = With(deposits, req[h].id, d) /\ depositDb' = With(depositDb, req[h].id, d)
    /\ Ends(h)
    /\ UNCHANGED <<bal, items, exits, exitDb, l2txs, l2txDb, l2blocks>>

-----------------------------------------------------------------------------
(* submit_transaction, submit_block *)

\* pending_txs[-200:]
SavedPending(txs) == SubSeq(txs, 1 + (IF Len(txs) > KeptPending THEN Len(txs) - KeptPending ELSE 0), Len(txs))

\* Mutant: what is pending does not count.
CanSendConfirmedOnly(from, amount) ==
    amount <= MapThenSumSet(LAMBDA d : deposits[d].amount,
                  {d \in DOMAIN deposits : deposits[d].from = from /\ deposits[d].status = "confirmed"})

CanSend(from, amount) == L2Balance(from) >= amount

SubmitTransaction(from, to, amount) ==
    /\ PlasmaLockFree /\ amount > 0 /\ CanSend(from, amount)
    /\ Len(l2txs \o l2blocks) < MaxRounds
    /\ l2txs' = Append(l2txs, [from |-> from, to |-> to, amount |-> amount])
    /\ l2txDb' = SavedPending(l2txs')
    /\ UNCHANGED <<bal, req, items, deposits, depositDb, exits, exitDb, l2blocks>>

SubmitBlock ==
    /\ PlasmaLockFree /\ l2txs # <<>>
    /\ l2blocks' = l2blocks \o l2txs
    /\ l2txs' = <<>> /\ l2txDb' = <<>>
    /\ UNCHANGED <<bal, req, items, deposits, depositDb, exits, exitDb>>

-----------------------------------------------------------------------------
(* request_exit, finalize_exit *)

DepositLeaves(d) ==
    /\ deposits' = [deposits EXCEPT ![d].status = "exiting"]
    /\ depositDb' = [depositDb EXCEPT ![d].status = "exiting"]

\* The exit is saved before the deposit; both under the lock.
RequestExit(d, user) ==
    /\ PlasmaLockFree /\ d \in DOMAIN deposits
    /\ deposits[d].status = "confirmed" /\ deposits[d].from = user
    /\ L2Balance(user) >= deposits[d].amount
    /\ LET e == [deposit |-> d, user |-> user, amount |-> deposits[d].amount, status |-> "pending", due |-> FALSE]
           id == Cardinality(DOMAIN exits) + 1
       IN exits' = With(exits, id, e) /\ exitDb' = With(exitDb, id, e)
    /\ DepositLeaves(d)
    /\ UNCHANGED <<bal, req, items, l2txs, l2txDb, l2blocks>>

PeriodOver(e) ==
    /\ e \in DOMAIN exits /\ exits[e].status = "pending" /\ ~exits[e].due
    /\ exits' = [exits EXCEPT ![e].due = TRUE] /\ exitDb' = [exitDb EXCEPT ![e].due = TRUE]
    /\ UNCHANGED <<bal, req, items, deposits, depositDb, l2txs, l2txDb, l2blocks>>

FinalizeExit(h, e, force) ==
    /\ PlasmaLockFree /\ e \in DOMAIN exits
    /\ exits[e].status = "pending" /\ (force \/ exits[e].due)
    /\ UpdateBalance(exits[e].user, exits[e].amount)
    /\ Begins(h, Request("finalize", "mark", e, exits[e].user, 0))
    /\ UNCHANGED <<items, plasmaDb, plasmaMem, l2blocks>>

FinalizeMark(h) ==
    /\ At(h, "finalize", "mark")
    /\ LET e == req[h].id
           d == exits[e].deposit
       IN /\ exits' = [exits EXCEPT ![e].status = "finalized"]
          /\ exitDb' = [exitDb EXCEPT ![e].status = "finalized"]
          /\ deposits' = [deposits EXCEPT ![d].status = "exited"]
          /\ depositDb' = [depositDb EXCEPT ![d].status = "exited"]
    /\ Ends(h)
    /\ UNCHANGED <<bal, items, l2txs, l2txDb, l2blocks>>

\* Mutant: the loop stops at the first exit it has seen.
MonitorFinalizesFirst == \E e \in DOMAIN exits : e = 1 /\ FinalizeExit(ExitMonitor, e, FALSE)

\* _exit_monitor_loop
MonitorFinalizes == \E e \in DOMAIN exits : FinalizeExit(ExitMonitor, e, FALSE)

-----------------------------------------------------------------------------
(* The REST endpoints *)

PostPlasmaDeposit(h) == \E u \in Users, x \in Amounts : x > 0 /\ Deposit(h, u, x)

PostPlasmaTx == \E u, v \in Users, x \in Amounts : x > 0 /\ SubmitTransaction(u, v, x)

PostPlasmaSubmitBlock == SubmitBlock

PostPlasmaExit == \E d \in DOMAIN deposits, u \in Users : RequestExit(d, u)

PostPlasmaFinalizeExit(h) == \E e \in DOMAIN exits, force \in BOOLEAN : FinalizeExit(h, e, force)

\* A new PlasmaChain reads its tables.
PlasmaRestart ==
    /\ deposits' = depositDb /\ exits' = exitDb /\ l2txs' = l2txDb
    /\ UNCHANGED <<plasmaDb, l2blocks>>

PlasmaInit ==
    /\ deposits = Nothing /\ depositDb = Nothing /\ exits = Nothing /\ exitDb = Nothing
    /\ l2txs = <<>> /\ l2txDb = <<>> /\ l2blocks = <<>>

PlasmaNext ==
    \/ \E h \in Handlers : PostPlasmaDeposit(h) \/ DepositDebit(h) \/ DepositSave(h) \/ PostPlasmaFinalizeExit(h)
    \/ \E h \in PlasmaThreads : FinalizeMark(h)
    \/ PostPlasmaTx \/ PostPlasmaSubmitBlock \/ PostPlasmaExit
    \/ \E e \in DOMAIN exits : PeriodOver(e)
    \/ MonitorFinalizes

-----------------------------------------------------------------------------
(* Properties *)

Finalizing(d) == \E h \in PlasmaThreads : At(h, "finalize", "mark") /\ exits[req[h].id].deposit = d
Depositing(d) == {h \in Handlers : At(h, "deposit", "save") /\ req[h].id = d}

DepositHolds(d) ==
    IF Depositing(d) # {} THEN req[CHOOSE h \in Depositing(d) : TRUE].amt
    ELSE IF d \in DOMAIN deposits /\ deposits[d].status # "exited" /\ ~Finalizing(d) THEN deposits[d].amount
    ELSE 0

\* Nobody has spent more on the side chain than was paid in, also when exits, blocks
\* and transfers overlap: what the balance counts is checked and changed under one lock.
L2Solvent == \A u \in Users : L2Balance(u) >= 0
=============================================================================
