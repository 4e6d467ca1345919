------------------------------ MODULE Channels ------------------------------
(***************************************************************************)
(* features/lightning.py: payment channels of this node, funded from its    *)
(* account, kept in memory and in the lightning_channels table.  The class  *)
(* has no lock.                                                             *)
(***************************************************************************)
EXTENDS Services

CONSTANTS
    NodeAddr,     \* node_address
    MinChannel, MaxChannel,
    ChannelFee    \* fee of a payment: amount * fee_rate

ASSUME ChannelsAssumption == NodeAddr \in DOMAIN Funds /\ ChannelFee \in Nat

VARIABLES
    ln,           \* channels in memory
    lnDb          \* lightning_channels

lnVars == <<bal, req, items, ln, lnDb>>

Channel(peer, capacity) ==
    [node1 |-> NodeAddr, node2 |-> peer, balance1 |-> capacity, balance2 |-> 0, open |-> TRUE]

IsOpen(c) == c \in DOMAIN ln /\ ln[c].open

\* _persist_channel: the row is the channel as it is in memory.
PersistChannel(c, ch) == ln' = With(ln, c, ch) /\ lnDb' = With(lnDb, c, ch)

-----------------------------------------------------------------------------
(* open_channel *)

OpenChannel(h, peer, capacity) ==
    /\ capacity \in MinChannel..MaxChannel
    /\ bal[NodeAddr] >= capacity
    /\ NewItem /\ Begins(h, Request("open", "debit", items + 1, peer, capacity))
    /\ UNCHANGED <<bal, ln, lnDb>>

OpenDebit(h) ==
    /\ At(h, "open", "debit")
    /\ UpdateBalance(NodeAddr, -req[h].amt)
    /\ Goes(h, "save")
    /\ UNCHANGED <<items, ln, lnDb>>

OpenSave(h) ==
    /\ At(h, "open", "save")
    /\ PersistChannel(req[h].id, Channel(req[h].user, req[h].amt))
    /\ Ends(h)
    /\ UNCHANGED <<bal, items>>

-----------------------------------------------------------------------------
(* send_payment *)

\* The side this node pays from: it can be the second one of a channel that was
\* opened under another address.
Payer(ch) == IF NodeAddr = ch.node1 THEN "balance1" ELSE "balance2"
Payee(ch) == IF NodeAddr = ch.node1 THEN "balance2" ELSE "balance1"
Other(ch) == IF NodeAddr = ch.node1 THEN ch.node2 ELSE ch.node1

CanPay(ch, to, x) ==
    /\ NodeAddr \in {ch.node1, ch.node2} /\ to = Other(ch)
    /\ ch[Payer(ch)] >= x + ChannelFee

SendPayment(h, c, to, x) ==
    /\ x > 0 /\ IsOpen(c) /\ CanPay(ln[c], to, x)
    /\ Begins(h, Request("pay", "move", c, to, x))
    /\ UNCHANGED <<bal, items, ln, lnDb>>

PaidOver(ch, x) == [ch EXCEPT ![Payer(ch)] = @ - x - ChannelFee, ![Payee(ch)] = @ + x]

PayMove(h) ==
    /\ At(h, "pay", "move")
    /\ PersistChannel(req[h].id, PaidOver(ln[req[h].id], req[h].amt))
    /\ Ends(h)
    /\ UNCHANGED <<bal, items>>

-----------------------------------------------------------------------------
(* close_channel: two credits and the new status, each a commit of its own *)

CloseChannel(h, c) ==
    /\ IsOpen(c)
    /\ Begins(h, Request("close", "credit1", c, ln[c].node1, 0))
    /\ UNCHANGED <<bal, items, ln, lnDb>>

CloseCredit1(h) ==
    /\ At(h, "close", "credit1")
    /\ LET ch == ln[req[h].id] IN UpdateBalance(ch.node1, ch.balance1)
    /\ Goes(h, "credit2")
    /\ UNCHANGED <<items, ln, lnDb>>

CloseCredit2(h) ==
    /\ At(h, "close", "credit2")
    /\ LET ch == ln[req[h].id] IN UpdateBalance(ch.node2, ch.balance2)
    /\ Goes(h, "mark")
    /\ UNCHANGED <<items, ln, lnDb>>

CloseMark(h) ==
    /\ At(h, "close", "mark")
    /\ PersistChannel(req[h].id, [ln[req[h].id] EXCEPT !.open = FALSE])
    /\ Ends(h)
    /\ UNCHANGED <<bal, items>>

-----------------------------------------------------------------------------
(* The REST endpoints *)

PostLightningOpen(h) ==
    \E peer \in Users, x \in Amounts : x > 0 /\ OpenChannel(h, peer, x)

PostLightningClose(h) == \E c \in DOMAIN ln : CloseChannel(h, c)

PostLightningPay(h) ==
    \E c \in DOMAIN ln, to \in Users, x \in Amounts : x > 0 /\ SendPayment(h, c, to, x)

\* A new LightningNetwork reads every row.
ChannelsRestart == ln' = lnDb /\ UNCHANGED lnDb

\* At the start there can be a channel of an earlier node address.
ChannelsInit ==
    /\ \/ ln = Nothing
       \/ \E u \in Users \ {NodeAddr} : ln = [c \in {0} |-> [Channel(NodeAddr, 2) EXCEPT !.node1 = u, !.balance2 = 2]]
    /\ lnDb = ln

ChannelsNext ==
    \E h \in Handlers :
       \/ PostLightningOpen(h) \/ OpenDebit(h) \/ OpenSave(h)
       \/ PostLightningPay(h) \/ PayMove(h)
       \/ PostLightningClose(h) \/ CloseCredit1(h) \/ CloseCredit2(h) \/ CloseMark(h)

-----------------------------------------------------------------------------
(* Properties *)

\* The requests that are closing channel c, and the one that is opening it.
Closing(c, step) == \E h \in Handlers : At(h, "close", step) /\ req[h].id = c
Opening(c) == {h \in Handlers : At(h, "open", "save") /\ req[h].id = c}

\* The coins behind channel c that are nobody's balance: those of a request that
\* has taken them and not saved the channel, or the channel's own, less what a
\* close has already paid out.
ChannelHolds(c) ==
    IF Opening(c) # {} THEN req[CHOOSE h \in Opening(c) : TRUE].amt
    ELSE IF ~IsOpen(c) \/ Closing(c, "mark") THEN 0
    ELSE IF Closing(c, "credit2") THEN ln[c].balance2
    ELSE ln[c].balance1 + ln[c].balance2
=============================================================================
