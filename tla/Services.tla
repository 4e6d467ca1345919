------------------------------ MODULE Services ------------------------------
(***************************************************************************)
(* What the services behind the REST server share.  ThreadedHTTPServer runs *)
(* every request in a thread of its own, and every call of Database takes   *)
(* the database lock and commits by itself, so a request is a sequence of   *)
(* steps between which other requests run and the process can die.          *)
(***************************************************************************)
EXTENDS Integers, Sequences, FiniteSets, FiniteSetsExt, Functions

CONSTANTS
    Users,      \* the addresses of the model
    Handlers,   \* threads of the REST server
    Funds,      \* the balance of every account at the start
    Amounts,    \* amounts a request can carry
    MaxItem,    \* bound on the identifiers a service gives out
    MaxRounds   \* bound on the transfers, epochs and spendings of a behaviour

ASSUME ServicesAssumption ==
    /\ Funds \in [DOMAIN Funds -> Nat] /\ Users \subseteq DOMAIN Funds
    /\ Amounts \subseteq Nat \ {0} /\ IsFiniteSet(Handlers) /\ MaxItem \in Nat /\ MaxRounds \in Nat

VARIABLES
    mode,       \* "serial": one request after another and no crash; "threads", and
                \* "restarted" after the one crash of a behaviour
    bal,        \* accounts.balance
    req,        \* the request that each thread serves
    items       \* how many identifiers were given out

Request(op, step, id, user, amt) ==
    [op |-> op, step |-> step, id |-> id, user |-> user, amt |-> amt]

NoRequest == [op |-> "none"]

\* A thread takes a request, goes on to its next step, answers it.
Begins(h, r) ==
    /\ req[h] = NoRequest
    /\ mode # "serial" \/ \A g \in DOMAIN req : req[g] = NoRequest
    /\ req' = [req EXCEPT ![h] = r]
At(h, op, step) == req[h].op = op /\ req[h].step = step
Goes(h, step) == req' = [req EXCEPT ![h].step = step]
Ends(h) == req' = [req EXCEPT ![h] = NoRequest]

NewItem == items < MaxItem /\ items' = items + 1

\* Database.update_balance: balance = MAX(0, balance + delta), committed.
UpdateBalance(u, x) == bal' = [bal EXCEPT ![u] = IF @ + x >= 0 THEN @ + x ELSE 0]

\* The process dies: the requests are gone, and each service reads its tables
\* again when it starts.
ServicesCrash ==
    /\ mode = "threads" /\ mode' = "restarted"
    /\ req' = [h \in DOMAIN req |-> NoRequest]
    /\ UNCHANGED <<bal, items>>

ServicesInit(threads) ==
    /\ mode \in {"serial", "threads"}
    /\ bal = Funds /\ items = 0
    /\ req = [h \in threads |-> NoRequest]

\* f with one more argument, or another value for it.
With(f, i, x) == [j \in DOMAIN f \cup {i} |-> IF j = i THEN x ELSE f[j]]
Without(f, i) == [j \in DOMAIN f \ {i} |-> f[j]]
Nothing == [j \in {} |-> 0]
=============================================================================
