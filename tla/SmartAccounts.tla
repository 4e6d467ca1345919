---------------------------- MODULE SmartAccounts ----------------------------
(***************************************************************************)
(* features/smart_accounts.py, one account: guardians who can give it a new  *)
(* owner, and session keys that can spend from it.  features/multisig.py,    *)
(* one wallet.  All of it lives in memory and has no lock.                   *)
(***************************************************************************)
EXTENDS Services

CONSTANTS
    Owner,          \* the account's first owner
    Weights,        \* weights a guardian can be given
    MaxUses,        \* max_uses of a session key; 0 is no limit
    MaxRequests,    \* bound on the recovery requests
    Required        \* confirmations a wallet transaction needs; Users own the wallet

ASSUME SmartAccountsAssumption ==
    IsFiniteSet(Users) /\ Weights \subseteq Nat /\ MaxUses \in Nat /\ MaxRequests \in Nat /\ Required \in Nat

VARIABLES
    account,        \* owner, guardians and recovery requests
    keys,           \* the account's session keys
    wallet          \* the wallet's transactions

accountVars == <<bal, req, items, account, keys, wallet>>

WeightOf == [g \in DOMAIN account.guardians |-> account.guardians[g].weight]

Weight(w, gs) == MapThenSumSet(LAMBDA g : w[g], gs)

ApprovedGuardians == {g \in DOMAIN account.guardians : account.guardians[g].approved}

-----------------------------------------------------------------------------
(* create_account, delete_account *)

NewAccount(owner) == [owner |-> owner, guardians |-> Nothing, requests |-> Nothing]

Exists == account.owner \in Users

CreateAccount(owner) ==
    /\ ~Exists
    /\ account' = NewAccount(owner)
    /\ UNCHANGED <<bal, req, items, keys, wallet>>

\* POST /smart-account/create, the only route that makes one: /smart-account/register
\* hands the owner's name to register_account, which fails on it.
PostCreateAccount == \E owner \in Users : CreateAccount(owner)

\* Only the owner may, and POST /smart-account/delete leaves the owner out: the call
\* fails and deletes nothing.
DeleteAccount(owner) ==
    /\ Exists /\ owner = account.owner
    /\ account' = NewAccount("none")
    /\ UNCHANGED <<bal, req, items, keys, wallet>>

-----------------------------------------------------------------------------
(* add_guardian, approve_guardian, remove_guardian *)

AddGuardian(g, weight) ==
    /\ Exists /\ g \notin DOMAIN account.guardians /\ weight > 0
    /\ account' = [account EXCEPT !.guardians = With(@, g, [weight |-> weight, approved |-> FALSE])]
    /\ UNCHANGED <<bal, req, items, keys, wallet>>

ApproveGuardian(g, approver) ==
    /\ g \in DOMAIN account.guardians /\ approver = account.owner
    /\ account' = [account EXCEPT !.guardians[g].approved = TRUE]
    /\ UNCHANGED <<bal, req, items, keys, wallet>>

RemoveGuardian(g) ==
    /\ g \in DOMAIN account.guardians
    /\ account' = [account EXCEPT !.guardians = Without(@, g)]
    /\ UNCHANGED <<bal, req, items, keys, wallet>>

-----------------------------------------------------------------------------
(* request_recovery, approve_recovery, execute_recovery, recover_account *)

\* electorate is the approved guardians, with their weights, when the request was
\* approved; the code does not keep it.
NewRecovery == [by |-> {}, status |-> "pending", expired |-> FALSE, electorate |-> Nothing]

NextRequest == Cardinality(DOMAIN account.requests) + 1

RequestRecovery(g) ==
    /\ g \in ApprovedGuardians /\ NextRequest <= MaxRequests
    /\ account' = [account EXCEPT !.requests = With(@, NextRequest, NewRecovery)]
    /\ UNCHANGED <<bal, req, items, keys, wallet>>

\* Mutant: half of the weight is enough.
RequiredHalf == Weight(WeightOf, ApprovedGuardians) \div 2

RequiredWeight == Weight(WeightOf, ApprovedGuardians) \div 2 + 1

\* A guardian who approved and was removed makes the sum fail with KeyError, after
\* the new approval was appended.
ApprovedBy(request, g) ==
    LET by == request.by \cup {g}
        enough == by \subseteq DOMAIN account.guardians /\ Weight(WeightOf, by) >= RequiredWeight
    IN IF request.expired THEN [request EXCEPT !.status = "expired"]
       ELSE IF enough THEN [request EXCEPT !.by = by, !.status = "approved",
                                           !.electorate = Restrict(WeightOf, ApprovedGuardians)]
       ELSE [request EXCEPT !.by = by]

MayApprove(request, g) == g \in ApprovedGuardians /\ request.status = "pending"

ApproveRecovery(r, g) ==
    /\ MayApprove(account.requests[r], g)
    /\ account' = [account EXCEPT !.requests[r] = ApprovedBy(@, g)]
    /\ UNCHANGED <<bal, req, items, keys, wallet>>

ExecuteRecovery(r, newOwner) ==
    LET request == account.requests[r]
    IN /\ newOwner # account.owner /\ request.status = "approved"
       /\ account' = IF request.expired THEN [account EXCEPT !.requests[r].status = "expired"]
                     ELSE [account EXCEPT !.owner = newOwner, !.requests[r].status = "executed"]
       /\ UNCHANGED <<bal, req, items, keys, wallet>>

\* The first approved guardian of the list asks, and from there on every guardian of
\* it must be able to approve: one too many, after the weight is reached, fails the
\* call.  A call that fails leaves its request and the approvals given so far.
Approvals(state, g) ==
    IF state.ok /\ MayApprove(state.request, g) THEN [request |-> ApprovedBy(state.request, g), ok |-> TRUE]
    ELSE [request |-> state.request, ok |-> FALSE]

RecoverAccount(gs, newOwner) ==
    LET first == Min({i \in DOMAIN gs : gs[i] \in ApprovedGuardians})
        after[i \in 0..Len(gs)] == IF i < first THEN [request |-> NewRecovery, ok |-> TRUE]
                                   ELSE Approvals(after[i - 1], gs[i])
        done == after[Len(gs)]
        executes == done.ok /\ done.request.status = "approved" /\ newOwner # account.owner
    IN /\ Exists /\ Range(gs) \cap ApprovedGuardians # {} /\ NextRequest <= MaxRequests
       /\ account' = [account EXCEPT !.owner = IF executes THEN newOwner ELSE @,
              !.requests = With(@, NextRequest, IF executes THEN [done.request EXCEPT !.status = "executed"] ELSE done.request)]
       /\ UNCHANGED <<bal, req, items, keys, wallet>>

\* POST /smart-account/recover, with a list of at most as many guardians as there are users.
PostRecover == \E m \in 1..Cardinality(Users) : \E gs \in [1..m -> Users], u \in Users : RecoverAccount(gs, u)

RequestExpires(r) ==
    /\ ~account.requests[r].expired
    /\ account' = [account EXCEPT !.requests[r].expired = TRUE]
    /\ UNCHANGED <<bal, req, items, keys, wallet>>

-----------------------------------------------------------------------------
(* create_session_key, revoke_session_key, execute_transaction *)

\* done counts the transactions the executor made with the key; the code has uses.
CreateSessionKey(transfer) ==
    /\ NewItem
    /\ keys' = With(keys, items + 1, [uses |-> 0, done |-> 0, transfer |-> transfer, expired |-> FALSE])
    /\ UNCHANGED <<bal, req, account, wallet>>

RevokeSessionKey(k) ==
    /\ keys' = Without(keys, k)
    /\ UNCHANGED <<bal, req, items, account, wallet>>

KeyExpires(k) ==
    /\ ~keys[k].expired
    /\ keys' = [keys EXCEPT ![k].expired = TRUE]
    /\ UNCHANGED <<bal, req, items, account, wallet>>

\* The manager's create_session_key makes no transfer key unless it is asked to, and
\* POST /smart-account/session-key does not ask.
ManagerSessionKey(transfer) == Exists /\ CreateSessionKey(transfer)

PostSessionKey == ManagerSessionKey(FALSE)

KeyValid(key) == ~key.expired /\ (MaxUses > 0 => key.uses < MaxUses)

\* Every method but the session key is refused.
Authenticated(k) == k \in DOMAIN keys /\ KeyValid(keys[k])

ExecuteTransaction(h, k) ==
    /\ Authenticated(k) /\ keys[k].transfer
    /\ Begins(h, Request("spend", "execute", k, "none", 0))
    /\ UNCHANGED <<bal, items, account, keys, wallet>>

\* Of more transactions with the same key: the amount is how many are left.
ExecuteBatch(h, k, more) ==
    /\ Authenticated(k) /\ keys[k].transfer
    /\ Begins(h, Request("spend", "execute", k, "none", more))
    /\ UNCHANGED <<bal, items, account, keys, wallet>>

\* A use is counted when the executor succeeds.
KeyUsed(key, ok) == [key EXCEPT !.done = IF ok THEN @ + 1 ELSE @, !.uses = IF ok THEN @ + 1 ELSE @]

\* The executor answers; the key may have been revoked meanwhile.  The next transaction
\* of a batch authenticates anew.
TransactionExecuted(h, ok) ==
    LET k == req[h].id
    IN /\ At(h, "spend", "execute")
       /\ keys' = IF k \in DOMAIN keys THEN [keys EXCEPT ![k] = KeyUsed(@, ok)] ELSE keys
       /\ IF req[h].amt > 0 /\ k \in DOMAIN keys /\ KeyValid(keys'[k])
            THEN req' = [req EXCEPT ![h].amt = @ - 1] ELSE Ends(h)
       /\ UNCHANGED <<bal, items, account, wallet>>

-----------------------------------------------------------------------------
(* MultiSigWallet: create_transaction, confirm *)

CreateWalletTx(to, amount) ==
    /\ amount > 0 /\ NewItem
    /\ wallet' = With(wallet, items + 1, [by |-> {}, status |-> "pending", paid |-> 0])
    /\ UNCHANGED <<bal, req, account, keys>>

\* Mutant: confirmations are counted, not owners.
ConfirmedEnoughByAnyone(t, owner) == Cardinality(wallet[t].by) + 1 >= Required

ConfirmedEnough(t, owner) == Cardinality(wallet[t].by \cup {owner}) >= Required

\* The owner's confirmation is noted at once; the executor answers later.
ConfirmWalletTx(h, t, owner) ==
    /\ wallet[t].status # "executed"
    /\ wallet' = [wallet EXCEPT ![t].by = @ \cup {owner}]
    /\ IF ConfirmedEnough(t, owner) THEN Begins(h, Request("confirmTx", "execute", t, owner, 0)) ELSE UNCHANGED req
    /\ UNCHANGED <<bal, items, account, keys>>

\* paid counts what the executor did, up to 2.  A failed transaction can be confirmed again;
\* a wallet without an executor, as /multisig/create makes it, only approves.
WalletTxExecuted(h, status) ==
    /\ At(h, "confirmTx", "execute")
    /\ wallet' = [wallet EXCEPT ![req[h].id].status = status, ![req[h].id].paid = IF status = "executed" /\ @ < 2 THEN @ + 1 ELSE @]
    /\ Ends(h)
    /\ UNCHANGED <<bal, items, account, keys>>

-----------------------------------------------------------------------------

\* Nothing of this is stored.
AccountsInit ==
    /\ account = NewAccount(Owner)
    /\ keys = Nothing /\ wallet = Nothing

AccountsRestart ==
    /\ account' = NewAccount(Owner)
    /\ keys' = Nothing /\ wallet' = Nothing

AccountsNext ==
    \/ PostCreateAccount \/ (\E u \in Users : DeleteAccount(u)) \/ PostRecover
    \/ \E g \in Users :
          \/ \E w \in Weights : AddGuardian(g, w)
          \/ \E u \in Users : ApproveGuardian(g, u)
          \/ RemoveGuardian(g) \/ RequestRecovery(g)
    \/ \E r \in DOMAIN account.requests :
          RequestExpires(r) \/ \E u \in Users : ApproveRecovery(r, u) \/ ExecuteRecovery(r, u)

KeysNext ==
    \/ PostSessionKey \/ \E b \in BOOLEAN : ManagerSessionKey(b)
    \/ \E k \in DOMAIN keys : RevokeSessionKey(k) \/ KeyExpires(k) \/ \E h \in Handlers : ExecuteTransaction(h, k) \/ ExecuteBatch(h, k, 1)
    \/ \E h \in Handlers, ok \in BOOLEAN : TransactionExecuted(h, ok)

WalletNext ==
    \/ \E u \in Users, x \in Amounts : CreateWalletTx(u, x)
    \/ \E h \in Handlers : \E t \in DOMAIN wallet, u \in Users : ConfirmWalletTx(h, t, u)
    \/ \E h \in Handlers, s \in {"executed", "execution_failed", "approved"} : WalletTxExecuted(h, s)

-----------------------------------------------------------------------------
(* Properties *)

Recovered == {r \in DOMAIN account.requests : account.requests[r].status \in {"approved", "executed"}}

\* Of the same approved guardians with the same weights, no two disjoint groups can both
\* give the account away.  (One who approved, was removed and is added again counts
\* although nobody approved the guardian anew, and without being in the electorate.)
QuorumsMeet ==
    \A r, s \in Recovered :
        LET a == account.requests[r]
            b == account.requests[s]
        IN a.electorate = b.electorate /\ a.by \cup b.by \subseteq DOMAIN a.electorate => a.by \cap b.by # {}

\* Without overlap a session key makes no more than its max_uses transactions, and a
\* wallet transaction is paid at most once and only with Required owners.
SpendingBounded ==
    mode = "serial" =>
    /\ \A k \in DOMAIN keys : MaxUses > 0 => keys[k].done <= MaxUses
    /\ \A t \in DOMAIN wallet : wallet[t].paid <= (IF Cardinality(wallet[t].by) >= Required THEN 1 ELSE 0)
=============================================================================
