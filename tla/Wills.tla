-------------------------------- MODULE Wills --------------------------------
(***************************************************************************)
(* features/crypto_will.py: coins locked for an heir.  The manager's lock    *)
(* covers a whole cancel; an execute takes it twice, once for the payment    *)
(* and once for the new status.  A monitor thread executes the wills that    *)
(* have fallen due.                                                          *)
(***************************************************************************)
EXTENDS Services

CONSTANT Monitor    \* the thread of _check_wills_loop

VARIABLES
    wills,      \* wills in memory
    willDb,     \* crypto_wills
    monitorUp   \* whether the monitor thread is alive

willVars == <<bal, req, items, wills, willDb, monitorUp>>

Threads == Handlers \cup {Monitor}

Will(owner, heir, amount) ==
    [owner |-> owner, heir |-> heir, amount |-> amount, status |-> "pending", due |-> FALSE]

\* A cancel keeps the lock from its credit to the end.
WillLockFree == \A h \in Threads : ~At(h, "cancel", "mark")

Pending(w) == w \in DOMAIN wills /\ wills[w].status = "pending"

-----------------------------------------------------------------------------
(* create_will *)

\* _debit looks at the balance first.
CreateWill(h, owner, heir, amount) ==
    /\ amount > 0 /\ bal[owner] >= amount
    /\ NewItem /\ Begins(h, Request("create", "debit", items + 1, <<owner, heir>>, amount))
    /\ UNCHANGED <<bal, wills, willDb, monitorUp>>

CreateDebit(h) ==
    /\ At(h, "create", "debit")
    /\ UpdateBalance(req[h].user[1], -req[h].amt)
    /\ Goes(h, "save")
    /\ UNCHANGED <<items, wills, willDb, monitorUp>>

CreateSave(h) ==
    /\ At(h, "create", "save") /\ WillLockFree
    /\ LET w == Will(req[h].user[1], req[h].user[2], req[h].amt)
       IN wills' = With(wills, req[h].id, w) /\ willDb' = With(willDb, req[h].id, w)
    /\ Ends(h)
    /\ UNCHANGED <<bal, items, monitorUp>>

\* The delay of a will has passed.
FallDue(w) ==
    /\ Pending(w) /\ ~wills[w].due
    /\ wills' = [wills EXCEPT ![w].due = TRUE]
    /\ willDb' = [willDb EXCEPT ![w].due = TRUE]
    /\ UNCHANGED <<bal, req, items, monitorUp>>

-----------------------------------------------------------------------------
(* cancel_will *)

CancelWill(h, w, owner) ==
    /\ WillLockFree /\ Pending(w) /\ wills[w].owner = owner
    /\ UpdateBalance(owner, wills[w].amount)
    /\ Begins(h, Request("cancel", "mark", w, owner, 0))
    /\ UNCHANGED <<items, wills, willDb, monitorUp>>

\* Mutant: the will stays in memory as it was.
CancelMarkKept(h) ==
    /\ At(h, "cancel", "mark")
    /\ willDb' = [willDb EXCEPT ![req[h].id].status = "cancelled"]
    /\ Ends(h)
    /\ UNCHANGED <<bal, items, wills, monitorUp>>

CancelMark(h) ==
    /\ At(h, "cancel", "mark")
    /\ LET w == req[h].id
       IN /\ willDb' = With(willDb, w, [wills[w] EXCEPT !.status = "cancelled"])
          /\ wills' = Without(wills, w)
    /\ Ends(h)
    /\ UNCHANGED <<bal, items, monitorUp>>

-----------------------------------------------------------------------------
(* execute_will *)

ExecutableWill(w, force) == Pending(w) /\ (force \/ wills[w].due)

ExecuteWill(h, w, force) ==
    /\ WillLockFree /\ ExecutableWill(w, force)
    /\ UpdateBalance(wills[w].heir, wills[w].amount)
    /\ Begins(h, Request("execute", "mark", w, wills[w].heir, 0))
    /\ UNCHANGED <<items, wills, willDb, monitorUp>>

\* The status is written and the will dropped from memory.  If another request
\* dropped it in between, del raises KeyError after the row was written: a
\* handler answers 500, the monitor thread is gone.
ExecuteMark(h) ==
    /\ At(h, "execute", "mark") /\ WillLockFree
    /\ LET w == req[h].id
       IN /\ willDb' = [willDb EXCEPT ![w].status = "executed"]
          /\ wills' = Without(wills, w)
          /\ monitorUp' = (monitorUp /\ (h = Monitor => w \in DOMAIN wills))
    /\ Ends(h)
    /\ UNCHANGED <<bal, items>>

\* Mutant: the loop leaves out a will whose owner and heir are the same.
MonitorExecutesOthers ==
    /\ monitorUp
    /\ \E w \in DOMAIN wills : wills[w].owner # wills[w].heir /\ ExecuteWill(Monitor, w, FALSE)

\* _execute_due_wills
MonitorExecutes ==
    /\ monitorUp
    /\ \E w \in DOMAIN wills : ExecuteWill(Monitor, w, FALSE)

-----------------------------------------------------------------------------
(* The REST endpoints *)

PostWillCreate(h) ==
    \E owner \in Users, heir \in Users, x \in Amounts : x > 0 /\ CreateWill(h, owner, heir, x)

PostWillCancel(h) == \E w \in DOMAIN wills, owner \in Users : CancelWill(h, w, owner)

PostWillExecute(h) == \E w \in DOMAIN wills, force \in BOOLEAN : ExecuteWill(h, w, force)

\* A new manager reads the wills that are not cancelled and starts its thread.
WillsRestart ==
    /\ wills' = Restrict(willDb, {w \in DOMAIN willDb : willDb[w].status # "cancelled"})
    /\ monitorUp' = TRUE
    /\ UNCHANGED willDb

WillsInit == wills = Nothing /\ willDb = Nothing /\ monitorUp = TRUE

WillsNext ==
    \/ \E h \in Handlers : PostWillCreate(h) \/ PostWillCancel(h) \/ PostWillExecute(h)
    \/ \E h \in Threads : CreateDebit(h) \/ CreateSave(h) \/ CancelMark(h) \/ ExecuteMark(h)
    \/ \E w \in DOMAIN wills : FallDue(w)
    \/ MonitorExecutes

-----------------------------------------------------------------------------
(* Properties *)

Settling(w) == \E h \in Threads : req[h].op \in {"cancel", "execute"} /\ req[h].id = w
Creating(w) == {h \in Handlers : At(h, "create", "save") /\ req[h].id = w}

WillHolds(w) ==
    IF Creating(w) # {} THEN req[CHOOSE h \in Creating(w) : TRUE].amt
    ELSE IF w \in DOMAIN willDb /\ willDb[w].status = "pending" /\ ~Settling(w) THEN willDb[w].amount
    ELSE 0
=============================================================================
