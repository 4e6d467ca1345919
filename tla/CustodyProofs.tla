---------------------------- MODULE CustodyProofs ----------------------------
(*****************************************************************************)
(* One request after another, the services implement Custody: for any number *)
(* of users, threads, items and amounts, every step of RestServer takes coins *)
(* for an item, gives out what an item holds, or moves none.                 *)
(*****************************************************************************)
EXTENDS RestProofs

-----------------------------------------------------------------------------
(* Tables, and one thread at work *)

\* Nobody but h serves a request, and h serves r.
Only(h, r) == [g \in AllThreads |-> IF g = h THEN r ELSE NoRequest]

LEMMA OnlyIs ==
    ASSUME NEW h \in AllThreads, NEW r, req = Only(h, r)
    PROVE  DOMAIN req = AllThreads /\ req[h] = r /\ \A g \in AllThreads : g # h => req[g] = NoRequest
BY DEF Only

LEMMA HandlersAreThreads ==
    /\ Handlers \subseteq AllThreads /\ Threads \subseteq AllThreads
    /\ PlasmaThreads \subseteq AllThreads /\ BridgeThreads \subseteq AllThreads
    /\ Monitor \in AllThreads /\ ExitMonitor \in AllThreads /\ Relayer \in AllThreads
BY DEF AllThreads, Threads, PlasmaThreads, BridgeThreads

LEMMA NobodyElse ==
    ASSUME NEW g \in AllThreads, NEW h \in AllThreads, req = Only(g, NoRequest)
    PROVE  req = Only(h, NoRequest)
BY DEF Only

LEMMA OnlyBegins ==
    ASSUME NEW g \in AllThreads, NEW q, req = Only(g, q), NEW h \in AllThreads, NEW r, mode = "serial", Begins(h, r)
    PROVE  req = Only(h, NoRequest) /\ q = NoRequest /\ req' = Only(h, r)
<1>1. \A x \in AllThreads : req[x] = NoRequest
  BY OnlyIs DEF Begins
<1>2. q = NoRequest
  BY <1>1, OnlyIs
<1>3. req = Only(h, NoRequest)
  BY <1>2, NobodyElse
<1>4. req' = [req EXCEPT ![h] = r]
  BY DEF Begins
<1>5. req' = Only(h, r)
  BY <1>3, <1>4 DEF Only
<1>. QED  BY <1>2, <1>3, <1>5

LEMMA OnlyAt ==
    ASSUME NEW g \in AllThreads, NEW q, req = Only(g, q), NEW h \in AllThreads, req[h].op # "none"
    PROVE  h = g /\ req[h] = q
BY OnlyIs DEF NoRequest

LEMMA OnlyBecomes ==
    ASSUME NEW h \in AllThreads, NEW q, req = Only(h, q), NEW r, req' = [req EXCEPT ![h] = r]
    PROVE  req' = Only(h, r)
BY DEF Only

LEMMA OnlyEnds ==
    ASSUME NEW h \in AllThreads, NEW q, req = Only(h, q), Ends(h)
    PROVE  req' = Only(h, NoRequest)
BY OnlyBecomes DEF Ends

LEMMA OnlyGoes ==
    ASSUME NEW h \in AllThreads, NEW q, req = Only(h, q), IsRequest(q), NEW step, Goes(h, step)
    PROVE  req' = Only(h, Request(q.op, step, q.id, q.user, q.amt))
<1>1. req[h] = q
  BY OnlyIs
<1>2. q = Request(q.op, q.step, q.id, q.user, q.amt)
  BY DEF IsRequest
<1>3. [q EXCEPT !.step = step] = Request(q.op, step, q.id, q.user, q.amt)
  BY <1>2 DEF Request
<1>4. req' = [req EXCEPT ![h] = [q EXCEPT !.step = step]]
  BY <1>1 DEF Goes
<1>. QED  BY <1>3, <1>4, OnlyBecomes

-----------------------------------------------------------------------------
(* Steps of Custody, on values *)

Balances == [DOMAIN Funds -> Nat]
Items == 0..MaxItem

\* From balances b and holdings hd to c and kd.
Taken(b, hd, c, kd) ==
    \E i \in Items, u \in DOMAIN Funds, x \in Nat, y \in Nat :
        x <= b[u] /\ y <= x /\ c = [b EXCEPT ![u] = @ - x] /\ kd = [hd EXCEPT ![i] = @ + y]
Given(b, hd, c, kd) ==
    \E i \in Items, u \in DOMAIN Funds, x \in Nat :
        x <= hd[i] /\ c = [b EXCEPT ![u] = @ + x] /\ kd = [hd EXCEPT ![i] = @ - x]
Forfeited(b, hd, c, kd) ==
    \E i \in Items, x \in Nat : x <= hd[i] /\ c = b /\ kd = [hd EXCEPT ![i] = @ - x]
Arrived(b, hd, c, kd) ==
    \E x \in Nat : c = b /\ kd = [hd EXCEPT ![0] = @ + x]

Moves(b, hd, c, kd) ==
    \/ Taken(b, hd, c, kd) \/ Given(b, hd, c, kd)
    \/ Forfeited(b, hd, c, kd) \/ Arrived(b, hd, c, kd) \/ (c = b /\ kd = hd)

\* The next-state relation of Custody, with its variables named.
LEMMA CustodyNext ==
    ASSUME NEW b, NEW c, NEW hd, NEW kd, b = MappedBal, c = MappedBal', hd = MappedHeld, kd = MappedHeld'
    PROVE  /\ c = b /\ kd = hd => UNCHANGED Cust!vars
           /\ \A i \in Items, u \in DOMAIN Funds :
                /\ /\ b[u] - c[u] \in 0..b[u] /\ kd[i] - hd[i] \in 0..(b[u] - c[u])
                   /\ c = [b EXCEPT ![u] = @ - (b[u] - c[u])] /\ kd = [hd EXCEPT ![i] = @ + (kd[i] - hd[i])]
                   => Cust!Next
                /\ /\ c[u] - b[u] \in 0..hd[i]
                   /\ c = [b EXCEPT ![u] = @ + (c[u] - b[u])] /\ kd = [hd EXCEPT ![i] = @ - (c[u] - b[u])]
                   => Cust!Next
           /\ \A i \in Items : hd[i] - kd[i] \in 0..hd[i] /\ kd = [hd EXCEPT ![i] = @ - (hd[i] - kd[i])] /\ c = b => Cust!Next
           /\ 0 \in Items /\ kd[0] - hd[0] \in Nat /\ kd = [hd EXCEPT ![0] = @ + (kd[0] - hd[0])] /\ c = b => Cust!Next
<1>1. c = b /\ kd = hd => UNCHANGED Cust!vars
  BY DEF Cust!vars
<1>2. ASSUME NEW i \in Items, NEW u \in DOMAIN Funds,
             b[u] - c[u] \in 0..b[u], kd[i] - hd[i] \in 0..(b[u] - c[u]),
             c = [b EXCEPT ![u] = @ - (b[u] - c[u])], kd = [hd EXCEPT ![i] = @ + (kd[i] - hd[i])]
      PROVE  Cust!Next
  <2>1. Cust!Take(i, u, MappedBal[u] - MappedBal'[u], MappedHeld'[i] - MappedHeld[i])
    <3>1. b[u] - c[u] \in 0..b[u] /\ kd[i] - hd[i] \in 0..(b[u] - c[u]) /\ c = [b EXCEPT ![u] = @ - (b[u] - c[u])] /\ kd = [hd EXCEPT ![i] = @ + (kd[i] - hd[i])]
      BY <1>2
    <3>. QED BY <3>1, Zenon DEF Cust!Take
  <2>. QED  BY <2>1, Zenon DEF Cust!Next, Items
<1>3. ASSUME NEW i \in Items, NEW u \in DOMAIN Funds, c[u] - b[u] \in 0..hd[i],
             c = [b EXCEPT ![u] = @ + (c[u] - b[u])], kd = [hd EXCEPT ![i] = @ - (c[u] - b[u])]
      PROVE  Cust!Next
  <2>1. Cust!Give(i, u, MappedBal'[u] - MappedBal[u])
    <3>1. /\ c[u] - b[u] \in 0..hd[i]
          /\ c = [b EXCEPT ![u] = @ + (c[u] - b[u])] /\ kd = [hd EXCEPT ![i] = @ - (c[u] - b[u])]
      BY <1>3
    <3>. QED  BY <3>1, Zenon DEF Cust!Give
  <2>. QED  BY <2>1, Zenon DEF Cust!Next, Items
<1>4. ASSUME NEW i \in Items, hd[i] - kd[i] \in 0..hd[i], kd = [hd EXCEPT ![i] = @ - (hd[i] - kd[i])], c = b
      PROVE  Cust!Next
  <2>1. Cust!Forfeit(i, MappedHeld[i] - MappedHeld'[i])
    <3>1. hd[i] - kd[i] \in 0..hd[i] /\ kd = [hd EXCEPT ![i] = @ - (hd[i] - kd[i])] /\ c = b
      BY <1>4
    <3>. QED  BY <3>1, Zenon DEF Cust!Forfeit
  <2>. QED  BY <2>1, Zenon DEF Cust!Next, Items
<1>5. ASSUME 0 \in Items, kd[0] - hd[0] \in Nat, kd = [hd EXCEPT ![0] = @ + (kd[0] - hd[0])], c = b
      PROVE  Cust!Next
  <2>1. Cust!Arrive(0, MappedHeld'[0] - MappedHeld[0])
    <3>1. kd[0] - hd[0] \in Nat /\ kd = [hd EXCEPT ![0] = @ + (kd[0] - hd[0])] /\ c = b
      BY <1>5
    <3>. QED  BY <3>1, Zenon DEF Cust!Arrive
  <2>. QED  BY <1>5, <2>1, Zenon DEF Cust!Next, Items
<1>. QED  BY <1>1, <1>2, <1>3, <1>4, <1>5

LEMMA MovesIsStep ==
    ASSUME NEW b \in Balances, NEW c, NEW hd \in [Items -> Int], NEW kd, Moves(b, hd, c, kd),
           b = MappedBal, c = MappedBal', hd = MappedHeld, kd = MappedHeld'
    PROVE  [Cust!Next]_Cust!vars
<1>5. CASE Taken(b, hd, c, kd)
  <2>1. PICK i \in Items, u \in DOMAIN Funds, x \in Nat, y \in Nat :
            x <= b[u] /\ y <= x /\ c = [b EXCEPT ![u] = @ - x] /\ kd = [hd EXCEPT ![i] = @ + y]
    BY <1>5 DEF Taken
  <2>2. b[u] \in Nat /\ hd[i] \in Int
    BY DEF Balances
  <2>3. c[u] = b[u] - x /\ kd[i] = hd[i] + y
    BY <2>1 DEF Balances
  <2>4. b[u] - c[u] = x /\ kd[i] - hd[i] = y
    BY <2>2, <2>3
  <2>5. b[u] - c[u] \in 0..b[u] /\ kd[i] - hd[i] \in 0..(b[u] - c[u])
    BY <2>1, <2>2, <2>4
  <2>6. c = [b EXCEPT ![u] = @ - (b[u] - c[u])] /\ kd = [hd EXCEPT ![i] = @ + (kd[i] - hd[i])]
    BY <2>1, <2>4
  <2>. QED  BY <2>5, <2>6, CustodyNext
<1>6. CASE Given(b, hd, c, kd)
  <2>1. PICK i \in Items, u \in DOMAIN Funds, x \in Nat :
            x <= hd[i] /\ c = [b EXCEPT ![u] = @ + x] /\ kd = [hd EXCEPT ![i] = @ - x]
    BY <1>6 DEF Given
  <2>2. b[u] \in Nat /\ hd[i] \in Int
    BY DEF Balances
  <2>3. c[u] = b[u] + x
    BY <2>1 DEF Balances
  <2>4. c[u] - b[u] = x
    BY <2>2, <2>3
  <2>5. c[u] - b[u] \in 0..hd[i]
    BY <2>1, <2>2, <2>4
  <2>6. c = [b EXCEPT ![u] = @ + (c[u] - b[u])] /\ kd = [hd EXCEPT ![i] = @ - (c[u] - b[u])]
    BY <2>1, <2>4
  <2>. QED  BY <2>5, <2>6, CustodyNext
<1>7. CASE Forfeited(b, hd, c, kd)
  <2>1. PICK i \in Items, x \in Nat : x <= hd[i] /\ c = b /\ kd = [hd EXCEPT ![i] = @ - x]
    BY <1>7 DEF Forfeited
  <2>2. hd[i] \in Int /\ kd[i] = hd[i] - x
    BY <2>1
  <2>3. hd[i] - kd[i] = x
    BY <2>2
  <2>4. kd = [hd EXCEPT ![i] = @ - (hd[i] - kd[i])] /\ c = b
    BY <2>1, <2>3
  <2>5. hd[i] - kd[i] \in 0..hd[i]
    <3>1. x \in 0..hd[i]
      BY <2>1, <2>2
    <3>. QED  BY <2>3, <3>1
  <2>. QED  BY <2>4, <2>5, CustodyNext
<1>8. CASE Arrived(b, hd, c, kd)
  <2>0. 0 \in Items
    BY ServicesAssumption DEF Items
  <2>1. PICK x \in Nat : c = b /\ kd = [hd EXCEPT ![0] = @ + x]
    BY <1>8 DEF Arrived
  <2>2. hd[0] \in Int /\ kd[0] = hd[0] + x
    BY <2>0, <2>1
  <2>3. kd[0] - hd[0] = x
    BY <2>2
  <2>4. kd[0] - hd[0] \in Nat /\ kd = [hd EXCEPT ![0] = @ + (kd[0] - hd[0])]
    BY <2>1, <2>3
  <2>. QED  BY <2>0, <2>1, <2>4, CustodyNext
<1>9. CASE c = b /\ kd = hd
  BY <1>9, CustodyNext
<1>. QED  BY <1>5, <1>6, <1>7, <1>8, <1>9 DEF Moves

\* What an item holds changes by y, everything else stays.
LEMMA HeldChanges ==
    ASSUME NEW hd \in [Items -> Int], NEW kd \in [Items -> Int], NEW i \in Items, NEW y \in Int,
           \A j \in Items : j # i => kd[j] = hd[j], kd[i] = hd[i] + y
    PROVE  kd = [hd EXCEPT ![i] = @ + y]
OBVIOUS

LEMMA TakesIn ==
    ASSUME NEW b \in Balances, NEW hd \in [Items -> Int], NEW kd \in [Items -> Int],
           NEW i \in Items, NEW u \in DOMAIN Funds, NEW x \in Nat, NEW y \in Nat, x <= b[u], y <= x,
           \A j \in Items : j # i => kd[j] = hd[j], kd[i] = hd[i] + y
    PROVE  Moves(b, hd, [b EXCEPT ![u] = @ - x], kd)
<1>1. kd = [hd EXCEPT ![i] = @ + y]
  BY HeldChanges
<1>. QED  BY <1>1 DEF Moves, Taken

LEMMA GivesOut ==
    ASSUME NEW b \in Balances, NEW hd \in [Items -> Int], NEW kd \in [Items -> Int],
           NEW i \in Items, NEW u \in DOMAIN Funds, NEW x \in Nat, x <= hd[i],
           \A j \in Items : j # i => kd[j] = hd[j], kd[i] = hd[i] - x
    PROVE  Moves(b, hd, [b EXCEPT ![u] = @ + x], kd)
<1>1. kd = [hd EXCEPT ![i] = @ - x]
  OBVIOUS
<1>. QED  BY <1>1 DEF Moves, Given

LEMMA LosesSome ==
    ASSUME NEW b, NEW hd \in [Items -> Int], NEW kd \in [Items -> Int], NEW i \in Items, NEW x \in Nat, x <= hd[i],
           \A j \in Items : j # i => kd[j] = hd[j], kd[i] = hd[i] - x
    PROVE  Moves(b, hd, b, kd)
<1>1. kd = [hd EXCEPT ![i] = @ - x]
  OBVIOUS
<1>. QED  BY <1>1 DEF Moves, Forfeited

LEMMA NothingMoves ==
    ASSUME NEW b, NEW hd \in [Items -> Int], NEW kd \in [Items -> Int], \A j \in Items : kd[j] = hd[j]
    PROVE  Moves(b, hd, b, kd)
<1>1. kd = hd
  OBVIOUS
<1>. QED  BY <1>1 DEF Moves

\* Database.update_balance, of a debit that was checked and of a credit.
LEMMA Debited ==
    ASSUME bal \in Balances, NEW u \in DOMAIN Funds, NEW x \in Nat, x <= bal[u], UpdateBalance(u, -x)
    PROVE  bal' = [bal EXCEPT ![u] = @ - x] /\ bal' \in Balances
<1>1. bal[u] \in Nat
  BY DEF Balances
<1>2. bal[u] + (-x) = bal[u] - x /\ bal[u] - x >= 0 /\ bal[u] - x \in Nat
  BY <1>1
<1>. QED  BY <1>1, <1>2 DEF Balances, UpdateBalance

LEMMA Credited ==
    ASSUME bal \in Balances, NEW u \in DOMAIN Funds, NEW x \in Nat, UpdateBalance(u, x)
    PROVE  bal' = [bal EXCEPT ![u] = @ + x] /\ bal' \in Balances
<1>1. bal[u] \in Nat
  BY DEF Balances
<1>2. bal[u] + x >= 0 /\ bal[u] + x \in Nat
  BY <1>1
<1>. QED  BY <1>1, <1>2 DEF Balances, UpdateBalance

LEMMA NewItemIs ==
    ASSUME items \in Items, NewItem
    PROVE  items' = items + 1 /\ items' \in Items /\ items \in Nat /\ items' >= 1
BY ServicesAssumption DEF Items, NewItem

-----------------------------------------------------------------------------
(* Channels *)

\* What channel c holds while r is served.
ChannelHeld(r, l, c) ==
    IF r.op = "open" /\ r.step = "save" /\ r.id = c THEN r.amt
    ELSE IF ~(c \in DOMAIN l /\ l[c].open) \/ (r.op = "close" /\ r.step = "mark" /\ r.id = c) THEN 0
    ELSE IF r.op = "close" /\ r.step = "credit2" /\ r.id = c THEN l[c].balance2
    ELSE l[c].balance1 + l[c].balance2
ChannelsHeld(r, l) == [c \in Items |-> ChannelHeld(r, l, c)]

ChannelRows == [node1 : DOMAIN Funds, node2 : DOMAIN Funds, balance1 : Nat, balance2 : Nat, open : BOOLEAN]

ChannelTable(l, n) ==
    /\ l = [c \in DOMAIN l |-> l[c]] /\ DOMAIN l \subseteq 0..n
    /\ \A c \in DOMAIN l : l[c] \in ChannelRows

\* The request r on channels l: its channel is new or open, and what it will take is there.
ChannelRequest(r, l, b, n) ==
    r = NoRequest \/
    /\ IsRequest(r) /\ r.amt \in Nat
    /\ \/ /\ r.op = "open" /\ r.step \in {"debit", "save"} /\ r.id = n /\ r.id >= 1 /\ r.id \notin DOMAIN l /\ r.user \in Users
          /\ r.step = "debit" => r.amt <= b[NodeAddr]
       \/ r.op = "pay" /\ r.step = "move" /\ r.id \in DOMAIN l /\ l[r.id].open /\ CanPay(l[r.id], r.user, r.amt)
       \/ r.op = "close" /\ r.step \in {"credit1", "credit2", "mark"} /\ r.id \in DOMAIN l /\ l[r.id].open

ChannelsServe(h, r) ==
    /\ h \in AllThreads /\ (r # NoRequest => h \in Handlers) /\ req = Only(h, r)
    /\ bal \in Balances /\ items \in Items
    /\ ChannelTable(ln, items) /\ ChannelRequest(r, ln, bal, items)

ChannelsMove(q) == \E h, r : ChannelsServe(h, r)' /\ Moves(bal, ChannelsHeld(q, ln), bal', ChannelsHeld(r, ln'))

LEMMA ChannelsHeldType ==
    ASSUME NEW l, NEW n \in Nat, NEW b, NEW r, ChannelTable(l, n), ChannelRequest(r, l, b, n)
    PROVE  ChannelsHeld(r, l) \in [Items -> Nat]
<1>1. ASSUME NEW c \in Items PROVE ChannelHeld(r, l, c) \in Nat
  <2>1. c \in DOMAIN l => l[c].balance1 \in Nat /\ l[c].balance2 \in Nat
    BY DEF ChannelTable, ChannelRows
  <2>2. r.op = "open" => r.amt \in Nat
    BY DEF ChannelRequest, NoRequest
  <2>. QED  BY <2>1, <2>2 DEF ChannelHeld
<1>. QED  BY <1>1 DEF ChannelsHeld

\* A request begins that has taken nothing yet.
LEMMA ChannelsBegin ==
    ASSUME mode = "serial", NEW g, NEW q, ChannelsServe(g, q), NEW h \in Handlers, NEW r, Begins(h, r), bal' = bal, ln' = ln,
           items' \in Items, items' >= items, ChannelRequest(r, ln, bal, items'),
           r.op \in {"open", "pay", "close"}, r.step \in {"debit", "move", "credit1"}
    PROVE  ChannelsMove(q)
<1>1. req' = Only(h, r) /\ q = NoRequest /\ h \in AllThreads
  BY OnlyBegins, HandlersAreThreads DEF ChannelsServe
<1>2. ChannelTable(ln, items')
  <2>1. items \in Nat /\ items' \in Nat
    BY DEF ChannelsServe, Items
  <2>. QED  BY <2>1 DEF ChannelsServe, ChannelTable
<1>3. ChannelsServe(h, r)'
  BY <1>1, <1>2 DEF ChannelsServe
<1>4. q.op = "none"
  BY <1>1 DEF NoRequest
<1>5. \A c \in Items : ChannelsHeld(r, ln)[c] = ChannelsHeld(q, ln)[c]
  BY <1>4 DEF ChannelsHeld, ChannelHeld
<1>6. ChannelsHeld(q, ln) \in [Items -> Int] /\ ChannelsHeld(r, ln) \in [Items -> Int]
  <2>1. items \in Nat /\ items' \in Nat
    BY DEF ChannelsServe, Items
  <2>2. ChannelsHeld(q, ln) \in [Items -> Nat] /\ ChannelsHeld(r, ln) \in [Items -> Nat]
    BY <2>1, <1>2, ChannelsHeldType DEF ChannelsServe
  <2>. QED  BY <2>2
<1>7. Moves(bal, ChannelsHeld(q, ln), bal, ChannelsHeld(r, ln))
  BY <1>5, <1>6, NothingMoves
<1>. QED  BY <1>3, <1>7 DEF ChannelsMove

LEMMA ChannelsBegins ==
    ASSUME mode = "serial", NEW g, NEW q, ChannelsServe(g, q), NEW h \in Handlers,
           PostLightningOpen(h) \/ PostLightningPay(h) \/ PostLightningClose(h)
    PROVE  ChannelsMove(q)
<1>0. bal \in Balances /\ items \in Items /\ items \in Nat /\ ChannelTable(ln, items)
  BY DEF ChannelsServe, Items
<1>1. CASE PostLightningOpen(h)
  <2>1. PICK peer \in Users, x \in Amounts : OpenChannel(h, peer, x)
    BY <1>1 DEF PostLightningOpen
  <2>. DEFINE r == Request("open", "debit", items + 1, peer, x)
  <2>2. items' = items + 1 /\ items' \in Items /\ items' >= 1
    BY <1>0, <2>1, NewItemIs DEF OpenChannel
  <2>3. Begins(h, r) /\ bal' = bal /\ ln' = ln /\ bal[NodeAddr] >= x
    BY <2>1 DEF OpenChannel
  <2>4. IsRequest(r) /\ r.op = "open" /\ r.step = "debit" /\ r.id = items + 1 /\ r.user = peer /\ r.amt = x
    BY RequestIs
  <2>5. x \in Nat /\ items + 1 \notin DOMAIN ln /\ bal[NodeAddr] \in Nat
    BY <1>0, ServicesAssumption, ChannelsAssumption DEF ChannelTable, Balances
  <2>. HIDE DEF r
  <2>6. ChannelRequest(r, ln, bal, items')
    BY <2>2, <2>3, <2>4, <2>5 DEF ChannelRequest
  <2>7. items' >= items
    BY <1>0, <2>2
  <2>. QED  BY <2>2, <2>3, <2>4, <2>6, <2>7, ChannelsBegin
<1>2. CASE PostLightningPay(h)
  <2>1. PICK c \in DOMAIN ln, to \in Users, x \in Amounts : SendPayment(h, c, to, x)
    BY <1>2 DEF PostLightningPay
  <2>. DEFINE r == Request("pay", "move", c, to, x)
  <2>2. items' = items /\ items' >= items
    BY <1>0, <2>1 DEF SendPayment
  <2>3. Begins(h, r) /\ bal' = bal /\ ln' = ln /\ ln[c].open /\ CanPay(ln[c], to, x)
    BY <2>1 DEF SendPayment, IsOpen
  <2>4. IsRequest(r) /\ r.op = "pay" /\ r.step = "move" /\ r.id = c /\ r.user = to /\ r.amt = x
    BY RequestIs
  <2>5. x \in Nat
    BY ServicesAssumption
  <2>. HIDE DEF r
  <2>6. ChannelRequest(r, ln, bal, items')
    BY <2>3, <2>4, <2>5 DEF ChannelRequest
  <2>. QED  BY <1>0, <2>2, <2>3, <2>4, <2>6, ChannelsBegin
<1>3. CASE PostLightningClose(h)
  <2>1. PICK c \in DOMAIN ln : CloseChannel(h, c)
    BY <1>3 DEF PostLightningClose
  <2>. DEFINE r == Request("close", "credit1", c, ln[c].node1, 0)
  <2>2. items' = items /\ items' >= items
    BY <1>0, <2>1 DEF CloseChannel
  <2>3. Begins(h, r) /\ bal' = bal /\ ln' = ln /\ ln[c].open
    BY <2>1 DEF CloseChannel, IsOpen
  <2>4. IsRequest(r) /\ r.op = "close" /\ r.step = "credit1" /\ r.id = c /\ r.amt = 0
    BY RequestIs
  <2>. HIDE DEF r
  <2>6. ChannelRequest(r, ln, bal, items')
    BY <2>3, <2>4 DEF ChannelRequest
  <2>. QED  BY <1>0, <2>2, <2>3, <2>4, <2>6, ChannelsBegin
<1>. QED  BY <1>1, <1>2, <1>3

LEMMA ChannelPut ==
    ASSUME NEW l, NEW n, ChannelTable(l, n), NEW c \in 0..n, NEW ch \in ChannelRows
    PROVE  ChannelTable(With(l, c, ch), n)
<1>. DEFINE k == With(l, c, ch)
<1>1. /\ DOMAIN k = DOMAIN l \cup {c} /\ k[c] = ch /\ \A j \in DOMAIN l : j # c => k[j] = l[j]
      /\ k = [j \in DOMAIN k |-> k[j]]
  BY DEF With
<1>. HIDE DEF k
<1>2. ChannelTable(k, n)
  BY <1>1 DEF ChannelTable
<1>. QED  BY <1>2 DEF k

\* The request that is served is the one of the thread that goes on.
LEMMA ChannelsServed ==
    ASSUME NEW g, NEW q, ChannelsServe(g, q), NEW h \in Handlers, req[h].op # "none"
    PROVE  /\ g = h /\ h \in AllThreads /\ req[h] = q /\ q # NoRequest /\ IsRequest(q)
           /\ bal \in Balances /\ items \in Items /\ items \in Nat /\ ChannelTable(ln, items)
           /\ ChannelsHeld(q, ln) \in [Items -> Int]
<1>1. g = h /\ h \in AllThreads /\ req[h] = q
  BY OnlyAt, HandlersAreThreads DEF ChannelsServe
<1>2. q # NoRequest
  BY <1>1 DEF NoRequest
<1>3. bal \in Balances /\ items \in Items /\ items \in Nat /\ ChannelTable(ln, items) /\ ChannelRequest(q, ln, bal, items)
  BY DEF ChannelsServe, Items
<1>4. ChannelsHeld(q, ln) \in [Items -> Nat]
  BY <1>3, ChannelsHeldType
<1>5. ChannelsHeld(q, ln) \in [Items -> Int]
  BY <1>4
<1>. QED  BY <1>1, <1>2, <1>3, <1>5 DEF ChannelRequest

LEMMA ChannelsMoved ==
    ASSUME NEW h \in Handlers, NEW q, NEW r, req' = Only(h, r), items' = items, items \in Items, bal' \in Balances,
           ChannelTable(ln', items), ChannelRequest(r, ln', bal', items),
           Moves(bal, ChannelsHeld(q, ln), bal', ChannelsHeld(r, ln'))
    PROVE  ChannelsMove(q)
<1>1. ChannelsServe(h, r)'
  BY HandlersAreThreads DEF ChannelsServe
<1>. QED  BY <1>1 DEF ChannelsMove

LEMMA OpenDebitMoves ==
    ASSUME NEW g, NEW q, ChannelsServe(g, q), NEW h \in Handlers, OpenDebit(h)
    PROVE  ChannelsMove(q)
<1>1. req[h].op = "open" /\ req[h].step = "debit"
  BY DEF OpenDebit, At
<1>2. /\ g = h /\ h \in AllThreads /\ req[h] = q /\ IsRequest(q) /\ q # NoRequest
      /\ bal \in Balances /\ items \in Items /\ items \in Nat /\ ChannelTable(ln, items)
      /\ ChannelsHeld(q, ln) \in [Items -> Int]
  BY <1>1, ChannelsServed
<1>3. /\ q.amt \in Nat /\ q.id = items /\ q.id >= 1 /\ q.id \notin DOMAIN ln /\ q.user \in Users /\ q.amt <= bal[NodeAddr]
  BY <1>1, <1>2 DEF ChannelsServe, ChannelRequest
<1>. DEFINE r == Request("open", "save", q.id, q.user, q.amt)
<1>4. req' = Only(h, r)
  BY <1>1, <1>2, OnlyGoes DEF OpenDebit, ChannelsServe
<1>5. bal' = [bal EXCEPT ![NodeAddr] = @ - q.amt] /\ bal' \in Balances
  BY <1>2, <1>3, Debited, ChannelsAssumption DEF OpenDebit
<1>6. IsRequest(r) /\ r.op = "open" /\ r.step = "save" /\ r.id = q.id /\ r.user = q.user /\ r.amt = q.amt
  BY RequestIs
<1>. HIDE DEF r
<1>7. ln' = ln /\ items' = items
  BY DEF OpenDebit
<1>8. ChannelRequest(r, ln, bal', items)
  BY <1>3, <1>6 DEF ChannelRequest
<1>9. ChannelsHeld(r, ln) \in [Items -> Int]
  <2>1. ChannelsHeld(r, ln) \in [Items -> Nat]
    BY <1>2, <1>8, ChannelsHeldType
  <2>. QED  BY <2>1
<1>10. ChannelsHeld(q, ln)[q.id] = 0 /\ ChannelsHeld(r, ln)[q.id] = q.amt
  BY <1>1, <1>2, <1>3, <1>6 DEF ChannelsHeld, ChannelHeld
<1>11. \A j \in Items : j # q.id => ChannelsHeld(r, ln)[j] = ChannelsHeld(q, ln)[j]
  BY <1>1, <1>2, <1>6 DEF ChannelsHeld, ChannelHeld
<1>12. q.id \in Items /\ q.amt <= q.amt /\ ChannelsHeld(r, ln)[q.id] = ChannelsHeld(q, ln)[q.id] + q.amt
  BY <1>2, <1>3, <1>10
<1>13. Moves(bal, ChannelsHeld(q, ln), bal', ChannelsHeld(r, ln))
  <2>. DEFINE hd == ChannelsHeld(q, ln)
              kd == ChannelsHeld(r, ln)
  <2>1. hd \in [Items -> Int] /\ kd \in [Items -> Int] /\ kd[q.id] = hd[q.id] + q.amt /\ \A j \in Items : j # q.id => kd[j] = hd[j]
    BY <1>2, <1>9, <1>11, <1>12
  <2>. HIDE DEF hd, kd
  <2>2. Moves(bal, hd, [bal EXCEPT ![NodeAddr] = @ - q.amt], kd)
    BY <2>1, <1>2, <1>3, <1>12, TakesIn, ChannelsAssumption
  <2>. QED  BY <2>2, <1>5 DEF hd, kd
<1>. QED  BY <1>2, <1>4, <1>5, <1>7, <1>8, <1>13, ChannelsMoved

LEMMA OpenSaveMoves ==
    ASSUME NEW g, NEW q, ChannelsServe(g, q), NEW h \in Handlers, OpenSave(h)
    PROVE  ChannelsMove(q)
<1>1. req[h].op = "open" /\ req[h].step = "save"
  BY DEF OpenSave, At
<1>2. /\ g = h /\ h \in AllThreads /\ req[h] = q /\ IsRequest(q) /\ q # NoRequest
      /\ bal \in Balances /\ items \in Items /\ items \in Nat /\ ChannelTable(ln, items)
      /\ ChannelsHeld(q, ln) \in [Items -> Int]
  BY <1>1, ChannelsServed
<1>3. /\ q.amt \in Nat /\ q.id = items /\ q.id >= 1 /\ q.id \notin DOMAIN ln /\ q.user \in Users
  BY <1>1, <1>2 DEF ChannelsServe, ChannelRequest
<1>. DEFINE ch == Channel(q.user, q.amt)
            l == With(ln, q.id, ch)
<1>4. req' = Only(h, NoRequest)
  BY <1>2, OnlyEnds DEF OpenSave, ChannelsServe
<1>5. ln' = l /\ bal' = bal /\ items' = items
  BY <1>2 DEF OpenSave, PersistChannel
<1>6. ch \in ChannelRows /\ ch.open /\ ch.balance1 = q.amt /\ ch.balance2 = 0
  BY <1>3, ChannelsAssumption, ServicesAssumption DEF ChannelRows, Channel
<1>. HIDE DEF ch
<1>7. q.id \in 0..items /\ q.id \in Items
  BY <1>2, <1>3
<1>8. ChannelTable(l, items)
  BY <1>2, <1>6, <1>7, ChannelPut
<1>9. ChannelRequest(NoRequest, l, bal, items)
  BY DEF ChannelRequest
<1>10. ChannelsHeld(NoRequest, l) \in [Items -> Int]
  <2>1. ChannelsHeld(NoRequest, l) \in [Items -> Nat]
    BY <1>2, <1>8, <1>9, ChannelsHeldType
  <2>. QED  BY <2>1
<1>11. /\ DOMAIN l = DOMAIN ln \cup {q.id} /\ l[q.id] = ch
       /\ \A j \in DOMAIN ln : j # q.id => l[j] = ln[j]
  BY DEF With
<1>. HIDE DEF l
<1>12. NoRequest.op = "none"
  BY DEF NoRequest
<1>13. \A j \in Items : ChannelsHeld(NoRequest, l)[j] = ChannelsHeld(q, ln)[j]
  <2>. SUFFICES ASSUME NEW j \in Items PROVE ChannelHeld(NoRequest, l, j) = ChannelHeld(q, ln, j)
    BY DEF ChannelsHeld
  <2>1. CASE j = q.id
    BY <2>1, <1>1, <1>2, <1>3, <1>6, <1>11, <1>12 DEF ChannelHeld
  <2>2. CASE j # q.id
    BY <2>2, <1>1, <1>2, <1>11, <1>12 DEF ChannelHeld
  <2>. QED  BY <2>1, <2>2
<1>14. Moves(bal, ChannelsHeld(q, ln), bal, ChannelsHeld(NoRequest, l))
  BY <1>2, <1>10, <1>13, NothingMoves
<1>. QED  BY <1>2, <1>4, <1>5, <1>8, <1>9, <1>14, ChannelsMoved

LEMMA PayMoveMoves ==
    ASSUME NEW g, NEW q, ChannelsServe(g, q), NEW h \in Handlers, PayMove(h)
    PROVE  ChannelsMove(q)
<1>1. req[h].op = "pay" /\ req[h].step = "move"
  BY DEF PayMove, At
<1>2. /\ g = h /\ h \in AllThreads /\ req[h] = q /\ IsRequest(q) /\ q # NoRequest
      /\ bal \in Balances /\ items \in Items /\ items \in Nat /\ ChannelTable(ln, items)
      /\ ChannelsHeld(q, ln) \in [Items -> Int]
  BY <1>1, ChannelsServed
<1>. DEFINE c == q.id
            old == ln[c]
<1>3. c \in DOMAIN ln /\ c \in 0..items /\ c \in Items /\ old \in ChannelRows /\ old.open /\ q.amt \in Nat /\ CanPay(old, q.user, q.amt)
  <2>1. ChannelRequest(q, ln, bal, items)
    BY DEF ChannelsServe
  <2>2. c \in DOMAIN ln /\ old.open /\ q.amt \in Nat /\ CanPay(old, q.user, q.amt)
    BY <2>1, <1>1, <1>2 DEF ChannelRequest
  <2>3. c \in 0..items /\ old \in ChannelRows
    BY <2>2, <1>2 DEF ChannelTable
  <2>4. c \in Items
    BY <2>3, <1>2, ServicesAssumption DEF Items
  <2>. QED  BY <2>2, <2>3, <2>4
<1>4. /\ old.balance1 \in Nat /\ old.balance2 \in Nat /\ old.node1 \in DOMAIN Funds /\ old.node2 \in DOMAIN Funds
      /\ old = [node1 |-> old.node1, node2 |-> old.node2, balance1 |-> old.balance1, balance2 |-> old.balance2, open |-> old.open]
  BY <1>3 DEF ChannelRows
<1>. DEFINE ch == PaidOver(old, q.amt)
            l == With(ln, c, ch)
            hd == ChannelsHeld(q, ln)
            kd == ChannelsHeld(NoRequest, l)
<1>5. req' = Only(h, NoRequest) /\ ln' = l /\ bal' = bal /\ items' = items
  BY <1>2, OnlyEnds DEF PayMove, ChannelsServe, PersistChannel
<1>6. ch \in ChannelRows /\ ch.open /\ ch.balance1 + ch.balance2 = old.balance1 + old.balance2 - ChannelFee
  <2>1. ChannelFee \in Nat /\ q.amt + ChannelFee \in Nat
    BY <1>3, ChannelsAssumption
  <2>. HIDE DEF old, c
  <2>2. CASE NodeAddr = old.node1
    <3>1. old.balance1 >= q.amt + ChannelFee
      BY <2>2, <1>3, <1>4 DEF CanPay, Payer
    <3>2. ch = [old EXCEPT !.balance1 = @ - q.amt - ChannelFee, !.balance2 = @ + q.amt]
      BY <2>2, <1>4 DEF PaidOver, Payer, Payee
    <3>3. old.balance1 - q.amt - ChannelFee \in Nat /\ old.balance2 + q.amt \in Nat
      BY <3>1, <2>1, <1>3, <1>4
    <3>4. /\ ch.node1 = old.node1 /\ ch.node2 = old.node2 /\ ch.open = old.open
          /\ ch.balance1 = old.balance1 - q.amt - ChannelFee /\ ch.balance2 = old.balance2 + q.amt
      BY <3>2, <1>4
    <3>5. ch \in ChannelRows
      BY <3>2, <3>3, <1>3 DEF ChannelRows
    <3>. QED  BY <3>3, <3>4, <3>5, <2>1, <1>3, <1>4
  <2>3. CASE NodeAddr # old.node1
    <3>1. old.balance2 >= q.amt + ChannelFee
      BY <2>3, <1>3, <1>4 DEF CanPay, Payer
    <3>2. ch = [old EXCEPT !.balance2 = @ - q.amt - ChannelFee, !.balance1 = @ + q.amt]
      BY <2>3, <1>4 DEF PaidOver, Payer, Payee
    <3>3. old.balance2 - q.amt - ChannelFee \in Nat /\ old.balance1 + q.amt \in Nat
      BY <3>1, <2>1, <1>3, <1>4
    <3>4. /\ ch.node1 = old.node1 /\ ch.node2 = old.node2 /\ ch.open = old.open
          /\ ch.balance2 = old.balance2 - q.amt - ChannelFee /\ ch.balance1 = old.balance1 + q.amt
      BY <3>2, <1>4
    <3>5. ch \in ChannelRows
      BY <3>2, <3>3, <1>3 DEF ChannelRows
    <3>. QED  BY <3>3, <3>4, <3>5, <2>1, <1>3, <1>4
  <2>. QED  BY <2>2, <2>3
<1>7. /\ DOMAIN l = DOMAIN ln \cup {c} /\ l[c] = ch
      /\ \A j \in DOMAIN ln : j # c => l[j] = ln[j]
  BY DEF With
<1>8. ChannelTable(l, items) /\ ChannelRequest(NoRequest, l, bal, items)
  BY <1>2, <1>3, <1>6, ChannelPut DEF ChannelRequest
<1>. HIDE DEF l, ch
<1>9. kd \in [Items -> Int]
  <2>1. kd \in [Items -> Nat]
    BY <1>2, <1>8, ChannelsHeldType
  <2>. HIDE DEF kd
  <2>. QED  BY <2>1
<1>10. NoRequest.op = "none"
  BY DEF NoRequest
<1>11. hd[c] = old.balance1 + old.balance2 /\ kd[c] = ch.balance1 + ch.balance2
  BY <1>1, <1>2, <1>3, <1>6, <1>7, <1>10 DEF ChannelsHeld, ChannelHeld
<1>12. \A j \in Items : j # c => kd[j] = hd[j]
  BY <1>1, <1>2, <1>7, <1>10 DEF ChannelsHeld, ChannelHeld
<1>13. Moves(bal, hd, bal, kd)
  <2>. HIDE DEF hd, kd, c, old
  <2>1. ChannelFee \in Nat /\ ChannelFee <= hd[c]
    <3>1. ch.balance1 \in Nat /\ ch.balance2 \in Nat /\ ChannelFee \in Nat
      BY <1>6, ChannelsAssumption DEF ChannelRows
    <3>. QED  BY <3>1, <1>4, <1>6, <1>11
  <2>2. kd[c] = hd[c] - ChannelFee
    BY <1>4, <1>6, <1>11, <2>1
  <2>3. hd \in [Items -> Int]
    BY <1>2 DEF hd
  <2>. QED  BY <2>1, <2>2, <2>3, <1>3, <1>9, <1>12, LosesSome
<1>. QED  BY <1>2, <1>5, <1>8, <1>13, ChannelsMoved

LEMMA CloseCredit1Moves ==
    ASSUME NEW g, NEW q, ChannelsServe(g, q), NEW h \in Handlers, CloseCredit1(h)
    PROVE  ChannelsMove(q)
<1>1. req[h].op = "close" /\ req[h].step = "credit1"
  BY DEF CloseCredit1, At
<1>2. /\ g = h /\ h \in AllThreads /\ req[h] = q /\ IsRequest(q) /\ q # NoRequest
      /\ bal \in Balances /\ items \in Items /\ items \in Nat /\ ChannelTable(ln, items)
      /\ ChannelsHeld(q, ln) \in [Items -> Int]
  BY <1>1, ChannelsServed
<1>. DEFINE c == q.id
            old == ln[c]
<1>3. c \in DOMAIN ln /\ c \in 0..items /\ c \in Items /\ old \in ChannelRows /\ old.open /\ q.amt \in Nat
  <2>1. ChannelRequest(q, ln, bal, items)
    BY DEF ChannelsServe
  <2>2. c \in DOMAIN ln /\ old.open /\ q.amt \in Nat
    BY <2>1, <1>1, <1>2 DEF ChannelRequest
  <2>3. c \in 0..items /\ old \in ChannelRows
    BY <2>2, <1>2 DEF ChannelTable
  <2>4. c \in Items
    BY <2>3, <1>2, ServicesAssumption DEF Items
  <2>. QED  BY <2>2, <2>3, <2>4
<1>4. /\ old.balance1 \in Nat /\ old.balance2 \in Nat /\ old.node1 \in DOMAIN Funds /\ old.node2 \in DOMAIN Funds
      /\ old = [node1 |-> old.node1, node2 |-> old.node2, balance1 |-> old.balance1, balance2 |-> old.balance2, open |-> old.open]
  BY <1>3 DEF ChannelRows
<1>. DEFINE r == Request("close", "credit2", c, q.user, q.amt)
            hd == ChannelsHeld(q, ln)
            kd == ChannelsHeld(r, ln)
<1>5. req' = Only(h, r) /\ ln' = ln /\ items' = items
  BY <1>1, <1>2, OnlyGoes DEF CloseCredit1, ChannelsServe
<1>6. bal' = [bal EXCEPT ![old.node1] = @ + old.balance1] /\ bal' \in Balances
  BY <1>2, <1>4, Credited DEF CloseCredit1
<1>7. IsRequest(r) /\ r.op = "close" /\ r.step = "credit2" /\ r.id = c /\ r.amt = q.amt
  BY RequestIs
<1>. HIDE DEF r
<1>8. ChannelRequest(r, ln, bal', items)
  BY <1>3, <1>7 DEF ChannelRequest
<1>9. kd \in [Items -> Int]
  <2>1. kd \in [Items -> Nat]
    BY <1>2, <1>8, ChannelsHeldType
  <2>. QED  BY <2>1
<1>10. hd[c] = old.balance1 + old.balance2 /\ kd[c] = old.balance2
  BY <1>1, <1>2, <1>3, <1>7 DEF ChannelsHeld, ChannelHeld
<1>11. \A j \in Items : j # c => kd[j] = hd[j]
  BY <1>1, <1>2, <1>7 DEF ChannelsHeld, ChannelHeld
<1>12. Moves(bal, hd, bal', kd)
  <2>. HIDE DEF hd, kd, c, old
  <2>1. kd[c] = hd[c] - old.balance1 /\ old.balance1 <= hd[c]
    BY <1>4, <1>10
  <2>2. hd \in [Items -> Int]
    BY <1>2 DEF hd
  <2>3. Moves(bal, hd, [bal EXCEPT ![old.node1] = @ + old.balance1], kd)
    BY <2>1, <2>2, <1>2, <1>3, <1>4, <1>9, <1>11, GivesOut
  <2>. QED  BY <2>3, <1>6
<1>. QED  BY <1>2, <1>5, <1>6, <1>8, <1>12, ChannelsMoved

LEMMA CloseCredit2Moves ==
    ASSUME NEW g, NEW q, ChannelsServe(g, q), NEW h \in Handlers, CloseCredit2(h)
    PROVE  ChannelsMove(q)
<1>1. req[h].op = "close" /\ req[h].step = "credit2"
  BY DEF CloseCredit2, At
<1>2. /\ g = h /\ h \in AllThreads /\ req[h] = q /\ IsRequest(q) /\ q # NoRequest
      /\ bal \in Balances /\ items \in Items /\ items \in Nat /\ ChannelTable(ln, items)
      /\ ChannelsHeld(q, ln) \in [Items -> Int]
  BY <1>1, ChannelsServed
<1>. DEFINE c == q.id
            old == ln[c]
<1>3. c \in DOMAIN ln /\ c \in 0..items /\ c \in Items /\ old \in ChannelRows /\ old.open /\ q.amt \in Nat
  <2>1. ChannelRequest(q, ln, bal, items)
    BY DEF ChannelsServe
  <2>2. c \in DOMAIN ln /\ old.open /\ q.amt \in Nat
    BY <2>1, <1>1, <1>2 DEF ChannelRequest
  <2>3. c \in 0..items /\ old \in ChannelRows
    BY <2>2, <1>2 DEF ChannelTable
  <2>4. c \in Items
    BY <2>3, <1>2, ServicesAssumption DEF Items
  <2>. QED  BY <2>2, <2>3, <2>4
<1>4. /\ old.balance1 \in Nat /\ old.balance2 \in Nat /\ old.node1 \in DOMAIN Funds /\ old.node2 \in DOMAIN Funds
      /\ old = [node1 |-> old.node1, node2 |-> old.node2, balance1 |-> old.balance1, balance2 |-> old.balance2, open |-> old.open]
  BY <1>3 DEF ChannelRows
<1>. DEFINE r == Request("close", "mark", c, q.user, q.amt)
            hd == ChannelsHeld(q, ln)
            kd == ChannelsHeld(r, ln)
<1>5. req' = Only(h, r) /\ ln' = ln /\ items' = items
  BY <1>1, <1>2, OnlyGoes DEF CloseCredit2, ChannelsServe
<1>6. bal' = [bal EXCEPT ![old.node2] = @ + old.balance2] /\ bal' \in Balances
  BY <1>2, <1>4, Credited DEF CloseCredit2
<1>7. IsRequest(r) /\ r.op = "close" /\ r.step = "mark" /\ r.id = c /\ r.amt = q.amt
  BY RequestIs
<1>. HIDE DEF r
<1>8. ChannelRequest(r, ln, bal', items)
  BY <1>3, <1>7 DEF ChannelRequest
<1>9. kd \in [Items -> Int]
  <2>1. kd \in [Items -> Nat]
    BY <1>2, <1>8, ChannelsHeldType
  <2>. QED  BY <2>1
<1>10. hd[c] = old.balance2 /\ kd[c] = 0
  BY <1>1, <1>2, <1>3, <1>7 DEF ChannelsHeld, ChannelHeld
<1>11. \A j \in Items : j # c => kd[j] = hd[j]
  BY <1>1, <1>2, <1>7 DEF ChannelsHeld, ChannelHeld
<1>12. Moves(bal, hd, bal', kd)
  <2>. HIDE DEF hd, kd, c, old
  <2>1. kd[c] = hd[c] - old.balance2 /\ old.balance2 <= hd[c]
    BY <1>4, <1>10
  <2>2. hd \in [Items -> Int]
    BY <1>2 DEF hd
  <2>3. Moves(bal, hd, [bal EXCEPT ![old.node2] = @ + old.balance2], kd)
    BY <2>1, <2>2, <1>2, <1>3, <1>4, <1>9, <1>11, GivesOut
  <2>. QED  BY <2>3, <1>6
<1>. QED  BY <1>2, <1>5, <1>6, <1>8, <1>12, ChannelsMoved

LEMMA CloseMarkMoves ==
    ASSUME NEW g, NEW q, ChannelsServe(g, q), NEW h \in Handlers, CloseMark(h)
    PROVE  ChannelsMove(q)
<1>1. req[h].op = "close" /\ req[h].step = "mark"
  BY DEF CloseMark, At
<1>2. /\ g = h /\ h \in AllThreads /\ req[h] = q /\ IsRequest(q) /\ q # NoRequest
      /\ bal \in Balances /\ items \in Items /\ items \in Nat /\ ChannelTable(ln, items)
      /\ ChannelsHeld(q, ln) \in [Items -> Int]
  BY <1>1, ChannelsServed
<1>. DEFINE c == q.id
            old == ln[c]
<1>3. c \in DOMAIN ln /\ c \in 0..items /\ c \in Items /\ old \in ChannelRows /\ old.open
  <2>1. ChannelRequest(q, ln, bal, items)
    BY DEF ChannelsServe
  <2>2. c \in DOMAIN ln /\ old.open
    BY <2>1, <1>1, <1>2 DEF ChannelRequest
  <2>3. c \in 0..items /\ old \in ChannelRows
    BY <2>2, <1>2 DEF ChannelTable
  <2>4. c \in Items
    BY <2>3, <1>2, ServicesAssumption DEF Items
  <2>. QED  BY <2>2, <2>3, <2>4
<1>4. /\ old.balance1 \in Nat /\ old.balance2 \in Nat /\ old.node1 \in DOMAIN Funds /\ old.node2 \in DOMAIN Funds
      /\ old = [node1 |-> old.node1, node2 |-> old.node2, balance1 |-> old.balance1, balance2 |-> old.balance2, open |-> old.open]
  BY <1>3 DEF ChannelRows
<1>. DEFINE ch == [old EXCEPT !.open = FALSE]
            l == With(ln, c, ch)
            hd == ChannelsHeld(q, ln)
            kd == ChannelsHeld(NoRequest, l)
<1>5. req' = Only(h, NoRequest) /\ ln' = l /\ bal' = bal /\ items' = items
  BY <1>2, OnlyEnds DEF CloseMark, ChannelsServe, PersistChannel
<1>6. ch \in ChannelRows /\ ~ ch.open
  BY <1>3, <1>4 DEF ChannelRows
<1>7. /\ DOMAIN l = DOMAIN ln \cup {c} /\ l[c] = ch
      /\ \A j \in DOMAIN ln : j # c => l[j] = ln[j]
  BY DEF With
<1>8. ChannelTable(l, items) /\ ChannelRequest(NoRequest, l, bal, items)
  BY <1>2, <1>3, <1>6, ChannelPut DEF ChannelRequest
<1>. HIDE DEF l, ch
<1>9. kd \in [Items -> Int]
  <2>1. kd \in [Items -> Nat]
    BY <1>2, <1>8, ChannelsHeldType
  <2>. HIDE DEF kd
  <2>. QED  BY <2>1
<1>10. NoRequest.op = "none"
  BY DEF NoRequest
<1>11. hd[c] = 0 /\ kd[c] = 0
  BY <1>1, <1>2, <1>3, <1>6, <1>7, <1>10 DEF ChannelsHeld, ChannelHeld
<1>12. \A j \in Items : j # c => kd[j] = hd[j]
  BY <1>1, <1>2, <1>7, <1>10 DEF ChannelsHeld, ChannelHeld
<1>13. Moves(bal, hd, bal, kd)
  <2>1. hd \in [Items -> Int]
    BY <1>2
  <2>. HIDE DEF hd, kd, c
  <2>. QED  BY <2>1, <1>9, <1>11, <1>12, NothingMoves
<1>. QED  BY <1>2, <1>5, <1>8, <1>13, ChannelsMoved

LEMMA ChannelsStep ==
    ASSUME mode = "serial", NEW g, NEW q, ChannelsServe(g, q), ChannelsNext
    PROVE  ChannelsMove(q)
BY ChannelsBegins, OpenDebitMoves, OpenSaveMoves, PayMoveMoves, CloseCredit1Moves, CloseCredit2Moves, CloseMarkMoves
   DEF ChannelsNext

\* ChannelHolds, when one thread serves one request.
ChannelsView == \A h, r : ChannelsServe(h, r) => \A c : ChannelHolds(c) = ChannelHeld(r, ln, c)

LEMMA ChannelsViewed == ChannelsView /\ ChannelsView'
<1>1. ChannelsView
  <2>. SUFFICES ASSUME NEW h, NEW r, ChannelsServe(h, r), NEW c PROVE ChannelHolds(c) = ChannelHeld(r, ln, c)
    BY DEF ChannelsView
  <2>1. /\ h \in AllThreads /\ (r # NoRequest => h \in Handlers) /\ req[h] = r
        /\ \A x \in Handlers : x # h => req[x].op = "none"
    BY OnlyIs, HandlersAreThreads DEF ChannelsServe, NoRequest
  <2>2. r = NoRequest => r.op = "none"
    BY DEF NoRequest
  <2>3. \A op, step : op # "none" => {x \in Handlers : At(x, op, step) /\ req[x].id = c}
                         = IF r.op = op /\ r.step = step /\ r.id = c THEN {h} ELSE {}
    BY <2>1, <2>2 DEF At
  <2>4. Opening(c) = IF r.op = "open" /\ r.step = "save" /\ r.id = c THEN {h} ELSE {}
    BY <2>3 DEF Opening
  <2>5. \A step : Closing(c, step) <=> r.op = "close" /\ r.step = step /\ r.id = c
    BY <2>1, <2>2 DEF Closing, At
  <2>6. CASE r.op = "open" /\ r.step = "save" /\ r.id = c
    <3>1. Opening(c) = {h}
      BY <2>4, <2>6
    <3>2. (CHOOSE x \in Opening(c) : TRUE) = h
      BY <3>1
    <3>. QED  BY <3>1, <3>2, <2>1, <2>6 DEF ChannelHolds, ChannelHeld
  <2>7. CASE ~(r.op = "open" /\ r.step = "save" /\ r.id = c)
    <3>1. Opening(c) = {}
      BY <2>4, <2>7
    <3>. QED  BY <3>1, <2>5, <2>7 DEF ChannelHolds, ChannelHeld, IsOpen
  <2>. QED  BY <2>6, <2>7
<1>2. ChannelsView'
  BY <1>1, PTL
<1>. QED  BY <1>1, <1>2

-----------------------------------------------------------------------------
(* Wills *)

WillHeld(r, d, w) ==
    IF r.op = "create" /\ r.step = "save" /\ r.id = w THEN r.amt
    ELSE IF w \in DOMAIN d /\ d[w].status = "pending" /\ ~(r.op \in {"cancel", "execute"} /\ r.id = w) THEN d[w].amount
    ELSE 0
WillsHeld(r, d) == [w \in Items |-> WillHeld(r, d, w)]

WillRows == [owner : DOMAIN Funds, heir : DOMAIN Funds, amount : Nat, status : {"pending", "cancelled", "executed"}, due : BOOLEAN]

\* The wills in memory are those of the table that are not settled.
WillTables(m, d, n) ==
    /\ d = [w \in DOMAIN d |-> d[w]] /\ DOMAIN d \subseteq 1..n /\ \A w \in DOMAIN d : d[w] \in WillRows
    /\ m = [w \in DOMAIN m |-> m[w]] /\ DOMAIN m \subseteq DOMAIN d /\ \A w \in DOMAIN m : m[w] = d[w]

WillRequest(r, m, d, b, n) ==
    r = NoRequest \/
    /\ IsRequest(r) /\ r.amt \in Nat
    /\ \/ /\ r.op = "create" /\ r.step \in {"debit", "save"} /\ r.id = n /\ r.id >= 1 /\ r.id \notin DOMAIN d
          /\ r.user[1] \in Users /\ r.user[2] \in Users /\ (r.step = "debit" => r.amt <= b[r.user[1]])
       \/ r.op \in {"cancel", "execute"} /\ r.step = "mark" /\ r.id \in DOMAIN m

WillsServe(h, r) ==
    /\ h \in AllThreads /\ (r # NoRequest => h \in Threads) /\ (r.op = "create" => h \in Handlers) /\ req = Only(h, r)
    /\ bal \in Balances /\ items \in Items
    /\ WillTables(wills, willDb, items) /\ WillRequest(r, wills, willDb, bal, items)

WillsMove(q) == \E h, r : WillsServe(h, r)' /\ Moves(bal, WillsHeld(q, willDb), bal', WillsHeld(r, willDb'))

LEMMA WillsHeldType ==
    ASSUME NEW m, NEW d, NEW n, NEW b, NEW r, WillTables(m, d, n), WillRequest(r, m, d, b, n)
    PROVE  WillsHeld(r, d) \in [Items -> Nat] /\ WillsHeld(r, d) \in [Items -> Int]
<1>1. ASSUME NEW w \in Items PROVE WillHeld(r, d, w) \in Nat
  <2>1. w \in DOMAIN d => d[w].amount \in Nat
    BY DEF WillTables, WillRows
  <2>2. r.op = "create" => r.amt \in Nat
    BY DEF WillRequest, NoRequest
  <2>. QED  BY <2>1, <2>2 DEF WillHeld
<1>. HIDE DEF WillHeld
<1>. QED  BY <1>1 DEF WillsHeld

LEMMA WillsServed ==
    ASSUME NEW g, NEW q, WillsServe(g, q)
    PROVE  /\ bal \in Balances /\ items \in Items /\ items \in Nat /\ WillTables(wills, willDb, items)
           /\ WillRequest(q, wills, willDb, bal, items) /\ WillsHeld(q, willDb) \in [Items -> Int] /\ g \in AllThreads
           /\ \A h \in Threads : req[h].op # "none" => h = g /\ req[h] = q /\ q # NoRequest /\ IsRequest(q)
<1>1. /\ bal \in Balances /\ items \in Items /\ items \in Nat /\ WillTables(wills, willDb, items)
      /\ WillRequest(q, wills, willDb, bal, items) /\ g \in AllThreads
  BY DEF WillsServe, Items
<1>2. WillsHeld(q, willDb) \in [Items -> Int]
  BY <1>1, WillsHeldType
<1>3. ASSUME NEW h \in Threads, req[h].op # "none" PROVE h = g /\ req[h] = q /\ q # NoRequest /\ IsRequest(q)
  <2>1. h = g /\ req[h] = q
    BY <1>3, OnlyAt, HandlersAreThreads DEF WillsServe
  <2>2. q # NoRequest
    BY <2>1, <1>3 DEF NoRequest
  <2>. QED  BY <2>1, <2>2, <1>1 DEF WillRequest
<1>. QED  BY <1>1, <1>2, <1>3

LEMMA WillsMoved ==
    ASSUME NEW h \in Threads, NEW q, NEW r, r.op = "create" => h \in Handlers,
           req' = Only(h, r), items' \in Items, bal' \in Balances,
           WillTables(wills', willDb', items'), WillRequest(r, wills', willDb', bal', items'),
           Moves(bal, WillsHeld(q, willDb), bal', WillsHeld(r, willDb'))
    PROVE  WillsMove(q)
<1>1. WillsServe(h, r)'
  BY HandlersAreThreads DEF WillsServe
<1>. QED  BY <1>1 DEF WillsMove

LEMMA PostWillCreateMoves ==
    ASSUME mode = "serial", NEW g, NEW q, WillsServe(g, q), NEW h \in Handlers, PostWillCreate(h)
    PROVE  WillsMove(q)
<1>1. /\ bal \in Balances /\ items \in Items /\ items \in Nat /\ WillTables(wills, willDb, items)
      /\ WillsHeld(q, willDb) \in [Items -> Int] /\ g \in AllThreads
  BY WillsServed
<1>2. PICK owner \in Users, heir \in Users, x \in Amounts : CreateWill(h, owner, heir, x)
  BY DEF PostWillCreate
<1>. DEFINE r == Request("create", "debit", items + 1, <<owner, heir>>, x)
            hd == WillsHeld(q, willDb)
            kd == WillsHeld(r, willDb)
<1>3. items' = items + 1 /\ items' \in Items /\ items' >= 1
  BY <1>1, <1>2, NewItemIs DEF CreateWill
<1>4. Begins(h, r) /\ bal' = bal /\ wills' = wills /\ willDb' = willDb /\ bal[owner] >= x
  BY <1>2 DEF CreateWill
<1>5. IsRequest(r) /\ r.op = "create" /\ r.step = "debit" /\ r.id = items + 1 /\ r.user = <<owner, heir>> /\ r.amt = x
  BY RequestIs
<1>. HIDE DEF r
<1>6. req' = Only(h, r) /\ q = NoRequest /\ h \in Threads
  BY <1>4, OnlyBegins, HandlersAreThreads DEF WillsServe, Threads
<1>7. x \in Nat /\ bal[owner] \in Nat /\ owner \in DOMAIN Funds
  BY <1>1, ServicesAssumption DEF Balances
<1>8. WillTables(wills, willDb, items') /\ items + 1 \notin DOMAIN willDb
  BY <1>1, <1>3 DEF WillTables
<1>9. WillRequest(r, wills, willDb, bal, items')
  BY <1>3, <1>4, <1>5, <1>7, <1>8 DEF WillRequest
<1>10. kd \in [Items -> Int]
  BY <1>8, <1>9, WillsHeldType
<1>11. q.op = "none"
  BY <1>6 DEF NoRequest
<1>12. \A w \in Items : kd[w] = hd[w]
  BY <1>5, <1>11 DEF WillsHeld, WillHeld
<1>13. Moves(bal, hd, bal, kd)
  <2>1. hd \in [Items -> Int]
    BY <1>1
  <2>. HIDE DEF hd, kd
  <2>. QED  BY <2>1, <1>10, <1>12, NothingMoves
<1>. QED  BY <1>1, <1>3, <1>4, <1>6, <1>8, <1>9, <1>13, WillsMoved

LEMMA CreateDebitMoves ==
    ASSUME NEW g, NEW q, WillsServe(g, q), NEW h \in Threads, CreateDebit(h)
    PROVE  WillsMove(q)
<1>1. req[h].op = "create" /\ req[h].step = "debit"
  BY DEF CreateDebit, At
<1>2. /\ bal \in Balances /\ items \in Items /\ items \in Nat /\ WillTables(wills, willDb, items)
      /\ WillsHeld(q, willDb) \in [Items -> Int] /\ g = h /\ h \in AllThreads /\ req[h] = q /\ IsRequest(q) /\ q # NoRequest
  BY <1>1, WillsServed
<1>3. /\ q.amt \in Nat /\ q.id = items /\ q.id >= 1 /\ q.id \notin DOMAIN willDb /\ q.user[1] \in Users /\ q.user[2] \in Users
      /\ q.amt <= bal[q.user[1]] /\ q.user[1] \in DOMAIN Funds
  BY <1>1, <1>2, ServicesAssumption DEF WillsServe, WillRequest
<1>. DEFINE r == Request("create", "save", q.id, q.user, q.amt)
            hd == WillsHeld(q, willDb)
            kd == WillsHeld(r, willDb)
<1>4. req' = Only(h, r) /\ h \in Handlers
  BY <1>1, <1>2, OnlyGoes DEF CreateDebit, WillsServe
<1>5. bal' = [bal EXCEPT ![q.user[1]] = @ - q.amt] /\ bal' \in Balances
  BY <1>2, <1>3, Debited DEF CreateDebit
<1>6. IsRequest(r) /\ r.op = "create" /\ r.step = "save" /\ r.id = q.id /\ r.user = q.user /\ r.amt = q.amt
  BY RequestIs
<1>. HIDE DEF r
<1>7. wills' = wills /\ willDb' = willDb /\ items' = items
  BY DEF CreateDebit
<1>8. WillRequest(r, wills, willDb, bal', items)
  BY <1>3, <1>6 DEF WillRequest
<1>9. kd \in [Items -> Int]
  BY <1>2, <1>8, WillsHeldType
<1>10. hd[q.id] = 0 /\ kd[q.id] = q.amt
  BY <1>1, <1>2, <1>3, <1>6 DEF WillsHeld, WillHeld
<1>11. \A j \in Items : j # q.id => kd[j] = hd[j]
  BY <1>1, <1>2, <1>6 DEF WillsHeld, WillHeld
<1>12. Moves(bal, hd, bal', kd)
  <2>1. hd \in [Items -> Int]
    BY <1>2
  <2>. HIDE DEF hd, kd
  <2>2. q.id \in Items /\ q.amt <= q.amt /\ kd[q.id] = hd[q.id] + q.amt
    BY <1>2, <1>3, <1>10
  <2>3. Moves(bal, hd, [bal EXCEPT ![q.user[1]] = @ - q.amt], kd)
    BY <2>1, <2>2, <1>2, <1>3, <1>9, <1>11, TakesIn
  <2>. QED  BY <2>3, <1>5
<1>. QED  BY <1>2, <1>4, <1>5, <1>7, <1>8, <1>12, WillsMoved

LEMMA CreateSaveMoves ==
    ASSUME NEW g, NEW q, WillsServe(g, q), NEW h \in Threads, CreateSave(h)
    PROVE  WillsMove(q)
<1>1. req[h].op = "create" /\ req[h].step = "save"
  BY DEF CreateSave, At
<1>2. /\ bal \in Balances /\ items \in Items /\ items \in Nat /\ WillTables(wills, willDb, items)
      /\ WillsHeld(q, willDb) \in [Items -> Int] /\ g = h /\ h \in AllThreads /\ req[h] = q /\ IsRequest(q) /\ q # NoRequest
  BY <1>1, WillsServed
<1>3. /\ q.amt \in Nat /\ q.id = items /\ q.id >= 1 /\ q.id \notin DOMAIN willDb
      /\ q.user[1] \in DOMAIN Funds /\ q.user[2] \in DOMAIN Funds
  BY <1>1, <1>2, ServicesAssumption DEF WillsServe, WillRequest
<1>. DEFINE x == Will(q.user[1], q.user[2], q.amt)
            m == With(wills, q.id, x)
            d == With(willDb, q.id, x)
            hd == WillsHeld(q, willDb)
            kd == WillsHeld(NoRequest, d)
<1>4. req' = Only(h, NoRequest)
  BY <1>2, OnlyEnds DEF CreateSave, WillsServe
<1>5. wills' = m /\ willDb' = d /\ bal' = bal /\ items' = items
  BY <1>2 DEF CreateSave
<1>6. x \in WillRows /\ x.status = "pending" /\ x.amount = q.amt
  BY <1>3 DEF WillRows, Will
<1>. HIDE DEF x
<1>7. /\ DOMAIN d = DOMAIN willDb \cup {q.id} /\ d[q.id] = x /\ d = [w \in DOMAIN d |-> d[w]]
      /\ \A j \in DOMAIN willDb : j # q.id => d[j] = willDb[j]
  BY DEF With
<1>8. /\ DOMAIN m = DOMAIN wills \cup {q.id} /\ m[q.id] = x /\ m = [w \in DOMAIN m |-> m[w]]
      /\ \A j \in DOMAIN wills : j # q.id => m[j] = wills[j]
  BY DEF With
<1>. HIDE DEF m, d
<1>9. WillTables(m, d, items) /\ WillRequest(NoRequest, m, d, bal, items)
  <2>1. q.id \in 1..items
    BY <1>2, <1>3
  <2>. QED  BY <2>1, <1>2, <1>3, <1>6, <1>7, <1>8 DEF WillTables, WillRequest
<1>10. kd \in [Items -> Int]
  BY <1>9, WillsHeldType
<1>11. NoRequest.op = "none"
  BY DEF NoRequest
<1>12. \A j \in Items : kd[j] = hd[j]
  <2>. SUFFICES ASSUME NEW j \in Items PROVE WillHeld(NoRequest, d, j) = WillHeld(q, willDb, j)
    BY DEF WillsHeld
  <2>1. CASE j = q.id
    BY <2>1, <1>1, <1>2, <1>3, <1>6, <1>7, <1>11 DEF WillHeld
  <2>2. CASE j # q.id
    BY <2>2, <1>1, <1>2, <1>7, <1>11 DEF WillHeld
  <2>. QED  BY <2>1, <2>2
<1>13. Moves(bal, hd, bal, kd)
  <2>1. hd \in [Items -> Int]
    BY <1>2
  <2>. HIDE DEF hd, kd
  <2>. QED  BY <2>1, <1>10, <1>12, NothingMoves
<1>. QED  BY <1>2, <1>4, <1>5, <1>9, <1>11, <1>13, WillsMoved

\* A will is paid out, to its owner or to its heir; nothing else is served meanwhile.
LEMMA WillPaid ==
    ASSUME mode = "serial", NEW g, NEW q, WillsServe(g, q), NEW h \in Threads, NEW w, Pending(w), NEW u \in DOMAIN Funds,
           UpdateBalance(u, wills[w].amount), NEW op \in {"cancel", "execute"}, NEW to,
           Begins(h, Request(op, "mark", w, to, 0)), UNCHANGED <<items, wills, willDb>>
    PROVE  WillsMove(q)
<1>1. /\ bal \in Balances /\ items \in Items /\ items \in Nat /\ WillTables(wills, willDb, items)
      /\ WillsHeld(q, willDb) \in [Items -> Int] /\ g \in AllThreads
  BY WillsServed
<1>2. /\ w \in DOMAIN wills /\ w \in DOMAIN willDb /\ willDb[w] = wills[w] /\ willDb[w] \in WillRows /\ w \in 1..items
      /\ willDb[w].status = "pending"
  BY <1>1 DEF Pending, WillTables
<1>3. w \in Items /\ willDb[w].amount \in Nat
  BY <1>1, <1>2, ServicesAssumption DEF Items, WillRows
<1>. DEFINE r == Request(op, "mark", w, to, 0)
            hd == WillsHeld(q, willDb)
            kd == WillsHeld(r, willDb)
<1>4. IsRequest(r) /\ r.op = op /\ r.step = "mark" /\ r.id = w /\ r.amt = 0
  BY RequestIs
<1>5. Begins(h, r)
  OBVIOUS
<1>. HIDE DEF r
<1>6. req' = Only(h, r) /\ q = NoRequest
  BY <1>5, OnlyBegins, HandlersAreThreads DEF WillsServe
<1>7. WillRequest(r, wills, willDb, bal', items)
  BY <1>2, <1>4 DEF WillRequest
<1>8. bal' = [bal EXCEPT ![u] = @ + willDb[w].amount] /\ bal' \in Balances
  BY <1>1, <1>2, <1>3, Credited
<1>9. kd \in [Items -> Int]
  BY <1>1, <1>7, WillsHeldType
<1>10. q.op = "none"
  BY <1>6 DEF NoRequest
<1>11. hd[w] = willDb[w].amount /\ kd[w] = 0
  BY <1>2, <1>3, <1>4, <1>10 DEF WillsHeld, WillHeld
<1>12. \A j \in Items : j # w => kd[j] = hd[j]
  BY <1>4, <1>10 DEF WillsHeld, WillHeld
<1>13. Moves(bal, hd, bal', kd)
  <2>1. hd \in [Items -> Int]
    BY <1>1
  <2>. HIDE DEF hd, kd
  <2>2. willDb[w].amount <= hd[w] /\ kd[w] = hd[w] - willDb[w].amount
    BY <1>3, <1>11
  <2>3. Moves(bal, hd, [bal EXCEPT ![u] = @ + willDb[w].amount], kd)
    BY <2>1, <2>2, <1>1, <1>3, <1>9, <1>12, GivesOut
  <2>. QED  BY <2>3, <1>8
<1>. QED  BY <1>1, <1>4, <1>6, <1>7, <1>8, <1>13, WillsMoved

LEMMA WillSettles ==
    ASSUME mode = "serial", NEW g, NEW q, WillsServe(g, q), NEW h \in Threads,
           (\E w \in DOMAIN wills, owner \in Users : CancelWill(h, w, owner))
           \/ (\E w \in DOMAIN wills, force \in BOOLEAN : ExecuteWill(h, w, force))
    PROVE  WillsMove(q)
<1>1. WillTables(wills, willDb, items)
  BY WillsServed
<1>2. \A w \in DOMAIN wills : wills[w].owner \in DOMAIN Funds /\ wills[w].heir \in DOMAIN Funds
  BY <1>1 DEF WillTables, WillRows
<1>3. ASSUME NEW w \in DOMAIN wills, NEW owner \in Users, CancelWill(h, w, owner) PROVE WillsMove(q)
  <2>1. /\ Pending(w) /\ UpdateBalance(owner, wills[w].amount) /\ Begins(h, Request("cancel", "mark", w, owner, 0))
        /\ UNCHANGED <<items, wills, willDb>> /\ owner \in DOMAIN Funds
    BY <1>3, ServicesAssumption DEF CancelWill
  <2>. QED  BY <2>1, WillPaid
<1>4. ASSUME NEW w \in DOMAIN wills, NEW force \in BOOLEAN, ExecuteWill(h, w, force) PROVE WillsMove(q)
  <2>1. /\ Pending(w) /\ UpdateBalance(wills[w].heir, wills[w].amount) /\ Begins(h, Request("execute", "mark", w, wills[w].heir, 0))
        /\ UNCHANGED <<items, wills, willDb>> /\ wills[w].heir \in DOMAIN Funds
    BY <1>2, <1>4 DEF ExecuteWill, ExecutableWill
  <2>. QED  BY <2>1, WillPaid
<1>. QED  BY <1>3, <1>4

\* The status of a settled will is written, and the will leaves the memory.
LEMMA WillMarked ==
    ASSUME NEW g, NEW q, WillsServe(g, q), NEW h \in Threads, req[h].op \in {"cancel", "execute"}, NEW d, willDb' = d,
           DOMAIN d = DOMAIN willDb, d = [w \in DOMAIN d |-> d[w]], \A j \in DOMAIN willDb : j # req[h].id => d[j] = willDb[j],
           d[req[h].id] \in WillRows, d[req[h].id].status # "pending",
           wills' = Without(wills, req[h].id), Ends(h), UNCHANGED <<bal, items>>
    PROVE  WillsMove(q)
<1>1. req[h].op # "none"
  OBVIOUS
<1>2. /\ bal \in Balances /\ items \in Items /\ items \in Nat /\ WillTables(wills, willDb, items)
      /\ WillsHeld(q, willDb) \in [Items -> Int] /\ g = h /\ h \in AllThreads /\ req[h] = q /\ IsRequest(q) /\ q # NoRequest
  BY <1>1, WillsServed
<1>3. q.id \in DOMAIN wills /\ q.id \in DOMAIN willDb
  BY <1>2 DEF WillsServe, WillRequest, WillTables
<1>. DEFINE m == Without(wills, q.id)
            hd == WillsHeld(q, willDb)
            kd == WillsHeld(NoRequest, d)
<1>4. req' = Only(h, NoRequest)
  BY <1>2, OnlyEnds DEF WillsServe
<1>5. DOMAIN m = DOMAIN wills \ {q.id} /\ m = [w \in DOMAIN m |-> m[w]] /\ \A j \in DOMAIN m : m[j] = wills[j]
  BY DEF Without
<1>6. wills' = m
  BY <1>2
<1>. HIDE DEF m
<1>7. WillTables(m, d, items) /\ WillRequest(NoRequest, m, d, bal, items)
  <2>1. \A w \in DOMAIN d : d[w] \in WillRows
    BY <1>2 DEF WillTables
  <2>. QED  BY <2>1, <1>2, <1>5 DEF WillTables, WillRequest
<1>8. kd \in [Items -> Int]
  BY <1>7, WillsHeldType
<1>9. NoRequest.op = "none"
  BY DEF NoRequest
<1>10. \A j \in Items : kd[j] = hd[j]
  <2>. SUFFICES ASSUME NEW j \in Items PROVE WillHeld(NoRequest, d, j) = WillHeld(q, willDb, j)
    BY DEF WillsHeld
  <2>1. CASE j = q.id
    BY <2>1, <1>2, <1>3, <1>9 DEF WillHeld
  <2>2. CASE j # q.id
    BY <2>2, <1>2, <1>9 DEF WillHeld
  <2>. QED  BY <2>1, <2>2
<1>11. Moves(bal, hd, bal, kd)
  <2>1. hd \in [Items -> Int]
    BY <1>2
  <2>. HIDE DEF hd, kd
  <2>. QED  BY <2>1, <1>8, <1>10, NothingMoves
<1>. QED  BY <1>2, <1>4, <1>6, <1>7, <1>9, <1>11, WillsMoved

LEMMA WillMarks ==
    ASSUME NEW g, NEW q, WillsServe(g, q), NEW h \in Threads, CancelMark(h) \/ ExecuteMark(h)
    PROVE  WillsMove(q)
<1>1. req[h].op \in {"cancel", "execute"}
  BY DEF CancelMark, ExecuteMark, At
<1>2. req[h] = q /\ q # NoRequest /\ WillRequest(q, wills, willDb, bal, items) /\ WillTables(wills, willDb, items)
  <2>1. req[h].op # "none"
    BY <1>1
  <2>. QED  BY <2>1, WillsServed
<1>. DEFINE w == req[h].id
<1>3. w \in DOMAIN wills /\ w \in DOMAIN willDb /\ wills[w] = willDb[w] /\ willDb[w] \in WillRows
  BY <1>1, <1>2 DEF WillRequest, WillTables
<1>4. CASE CancelMark(h)
  <2>. DEFINE x == [wills[w] EXCEPT !.status = "cancelled"]
              d == With(willDb, w, x)
  <2>1. willDb' = d /\ wills' = Without(wills, w) /\ Ends(h) /\ UNCHANGED <<bal, items>>
    BY <1>4 DEF CancelMark
  <2>2. x \in WillRows /\ x.status # "pending"
    BY <1>3 DEF WillRows
  <2>. HIDE DEF x
  <2>3. /\ DOMAIN d = DOMAIN willDb /\ d[w] = x /\ d = [j \in DOMAIN d |-> d[j]]
        /\ \A j \in DOMAIN willDb : j # w => d[j] = willDb[j]
    BY <1>3 DEF With
  <2>. HIDE DEF d
  <2>. QED  BY <1>1, <2>1, <2>2, <2>3, WillMarked
<1>5. CASE ExecuteMark(h)
  <2>. DEFINE d == [willDb EXCEPT ![w].status = "executed"]
  <2>1. willDb' = d /\ wills' = Without(wills, w) /\ Ends(h) /\ UNCHANGED <<bal, items>>
    BY <1>5 DEF ExecuteMark
  <2>2. /\ DOMAIN d = DOMAIN willDb /\ d[w] = [willDb[w] EXCEPT !.status = "executed"] /\ d = [j \in DOMAIN d |-> d[j]]
        /\ \A j \in DOMAIN willDb : j # w => d[j] = willDb[j]
    BY <1>3
  <2>. HIDE DEF d
  <2>3. d[w] \in WillRows /\ d[w].status # "pending"
    BY <1>3, <2>2 DEF WillRows
  <2>. QED  BY <1>1, <2>1, <2>2, <2>3, WillMarked
<1>. QED  BY <1>4, <1>5

\* A will falls due, whatever is served meanwhile.
LEMMA FallDueMoves ==
    ASSUME NEW g, NEW q, WillsServe(g, q), NEW w \in DOMAIN wills, FallDue(w)
    PROVE  WillsMove(q)
<1>1. /\ bal \in Balances /\ items \in Items /\ items \in Nat /\ WillTables(wills, willDb, items)
      /\ WillRequest(q, wills, willDb, bal, items) /\ WillsHeld(q, willDb) \in [Items -> Int] /\ g \in AllThreads
  BY WillsServed
<1>. DEFINE m == [wills EXCEPT ![w].due = TRUE]
            d == [willDb EXCEPT ![w].due = TRUE]
            hd == WillsHeld(q, willDb)
            kd == WillsHeld(q, d)
<1>2. wills' = m /\ willDb' = d /\ UNCHANGED <<bal, req, items>>
  BY DEF FallDue
<1>3. w \in DOMAIN willDb /\ wills[w] = willDb[w] /\ willDb[w] \in WillRows
  BY <1>1 DEF WillTables
<1>4. /\ DOMAIN d = DOMAIN willDb /\ d[w] = [willDb[w] EXCEPT !.due = TRUE] /\ d = [j \in DOMAIN d |-> d[j]]
      /\ \A j \in DOMAIN willDb : j # w => d[j] = willDb[j]
  BY <1>3
<1>5. /\ DOMAIN m = DOMAIN wills /\ m[w] = [willDb[w] EXCEPT !.due = TRUE] /\ m = [j \in DOMAIN m |-> m[j]]
      /\ \A j \in DOMAIN wills : j # w => m[j] = wills[j]
  BY <1>3
<1>. HIDE DEF m, d
<1>6. d[w] \in WillRows /\ d[w].status = willDb[w].status /\ d[w].amount = willDb[w].amount
  BY <1>3, <1>4 DEF WillRows
<1>7. WillTables(m, d, items)
  BY <1>1, <1>4, <1>5, <1>6 DEF WillTables
<1>8. WillRequest(q, m, d, bal, items)
  BY <1>1, <1>4, <1>5 DEF WillRequest
<1>9. kd \in [Items -> Int]
  BY <1>7, <1>8, WillsHeldType
<1>10. \A j \in Items : kd[j] = hd[j]
  <2>. SUFFICES ASSUME NEW j \in Items PROVE WillHeld(q, d, j) = WillHeld(q, willDb, j)
    BY DEF WillsHeld
  <2>1. CASE j = w
    BY <2>1, <1>4, <1>6 DEF WillHeld
  <2>2. CASE j # w
    BY <2>2, <1>4 DEF WillHeld
  <2>. QED  BY <2>1, <2>2
<1>11. Moves(bal, hd, bal, kd)
  <2>1. hd \in [Items -> Int]
    BY <1>1
  <2>. HIDE DEF hd, kd
  <2>. QED  BY <2>1, <1>9, <1>10, NothingMoves
<1>12. WillsServe(g, q)'
  BY <1>1, <1>2, <1>7, <1>8 DEF WillsServe
<1>. QED  BY <1>2, <1>11, <1>12 DEF WillsMove

LEMMA WillsStep ==
    ASSUME mode = "serial", NEW g, NEW q, WillsServe(g, q), WillsNext
    PROVE  WillsMove(q)
<1>0. Handlers \subseteq Threads /\ Monitor \in Threads
  BY DEF Threads
<1>1. CASE \E h \in Handlers : PostWillCreate(h) \/ PostWillCancel(h) \/ PostWillExecute(h)
  <2>1. PICK h \in Handlers : PostWillCreate(h) \/ PostWillCancel(h) \/ PostWillExecute(h)
    BY <1>1
  <2>2. CASE PostWillCreate(h)
    BY <2>2, PostWillCreateMoves
  <2>3. CASE PostWillCancel(h) \/ PostWillExecute(h)
    BY <2>3, <1>0, WillSettles DEF PostWillCancel, PostWillExecute
  <2>. QED  BY <2>1, <2>2, <2>3
<1>2. CASE \E h \in Threads : CreateDebit(h) \/ CreateSave(h) \/ CancelMark(h) \/ ExecuteMark(h)
  BY <1>2, CreateDebitMoves, CreateSaveMoves, WillMarks
<1>3. CASE \E w \in DOMAIN wills : FallDue(w)
  BY <1>3, FallDueMoves
<1>4. CASE MonitorExecutes
  <2>1. \E w \in DOMAIN wills, force \in BOOLEAN : ExecuteWill(Monitor, w, force)
    BY <1>4 DEF MonitorExecutes
  <2>. QED  BY <2>1, <1>0, WillSettles
<1>. QED  BY <1>1, <1>2, <1>3, <1>4 DEF WillsNext

WillsView == \A h, r : WillsServe(h, r) => \A w : WillHolds(w) = WillHeld(r, willDb, w)

LEMMA WillsViewed == WillsView /\ WillsView'
<1>1. WillsView
  <2>. SUFFICES ASSUME NEW h, NEW r, WillsServe(h, r), NEW w PROVE WillHolds(w) = WillHeld(r, willDb, w)
    BY DEF WillsView
  <2>1. /\ h \in AllThreads /\ (r # NoRequest => h \in Threads) /\ (r.op = "create" => h \in Handlers) /\ req[h] = r
        /\ \A x \in Threads : x # h => req[x].op = "none"
    BY OnlyIs, HandlersAreThreads DEF WillsServe, NoRequest
  <2>2. r = NoRequest => r.op = "none"
    BY DEF NoRequest
  <2>0. Handlers \subseteq Threads
    BY DEF Threads
  <2>4. Creating(w) = IF r.op = "create" /\ r.step = "save" /\ r.id = w THEN {h} ELSE {}
    BY <2>0, <2>1, <2>2 DEF Creating, At
  <2>5. Settling(w) <=> r.op \in {"cancel", "execute"} /\ r.id = w
    <3>1. ASSUME NEW x \in Threads, req[x].op \in {"cancel", "execute"}, req[x].id = w PROVE r.op \in {"cancel", "execute"} /\ r.id = w
      BY <3>1, <2>1
    <3>2. ASSUME r.op \in {"cancel", "execute"}, r.id = w PROVE Settling(w)
      BY <3>2, <2>1, <2>2 DEF Settling
    <3>. QED  BY <3>1, <3>2 DEF Settling
  <2>6. CASE r.op = "create" /\ r.step = "save" /\ r.id = w
    <3>1. Creating(w) = {h}
      BY <2>4, <2>6
    <3>2. (CHOOSE x \in Creating(w) : TRUE) = h
      BY <3>1
    <3>. QED  BY <3>1, <3>2, <2>1, <2>6 DEF WillHolds, WillHeld
  <2>7. CASE ~(r.op = "create" /\ r.step = "save" /\ r.id = w)
    <3>1. Creating(w) = {}
      BY <2>4, <2>7
    <3>. QED  BY <3>1, <2>5, <2>7 DEF WillHolds, WillHeld
  <2>. QED  BY <2>6, <2>7
<1>2. WillsView'
  BY <1>1, PTL
<1>. QED  BY <1>1, <1>2

-----------------------------------------------------------------------------
(* Plasma deposits *)

DepositHeld(r, d, e, i) ==
    IF r.op = "deposit" /\ r.step = "save" /\ r.id = i THEN r.amt
    ELSE IF i \in DOMAIN d /\ d[i].status # "exited" /\ ~(r.op = "finalize" /\ r.step = "mark" /\ e[r.id].deposit = i) THEN d[i].amount
    ELSE 0
DepositsHeld(r, d, e) == [i \in Items |-> DepositHeld(r, d, e, i)]

DepositRows == [from : DOMAIN Funds, amount : Nat, status : {"confirmed", "exiting", "exited"}]
ExitRows == [deposit : Items, user : DOMAIN Funds, amount : Nat, status : {"pending", "finalized"}, due : BOOLEAN]

\* A pending exit is of a deposit that is exiting, for its amount, and the only one of it.
PlasmaTables(d, e, n) ==
    /\ d = [i \in DOMAIN d |-> d[i]] /\ DOMAIN d \subseteq 1..n /\ \A i \in DOMAIN d : d[i] \in DepositRows
    /\ e = [x \in DOMAIN e |-> e[x]] /\ \A x \in DOMAIN e : e[x] \in ExitRows
    /\ \A x \in DOMAIN e : e[x].status = "pending" =>
          e[x].deposit \in DOMAIN d /\ d[e[x].deposit].status = "exiting" /\ d[e[x].deposit].amount = e[x].amount
    /\ \A x, y \in DOMAIN e : e[x].status = "pending" /\ e[y].status = "pending" /\ e[x].deposit = e[y].deposit => x = y

PlasmaRequest(r, d, e, b, n) ==
    r = NoRequest \/
    /\ IsRequest(r) /\ r.amt \in Nat
    /\ \/ /\ r.op = "deposit" /\ r.step \in {"debit", "save"} /\ r.id = n /\ r.id >= 1 /\ r.id \notin DOMAIN d
          /\ r.user \in Users /\ (r.step = "debit" => r.amt <= b[r.user])
       \/ r.op = "finalize" /\ r.step = "mark" /\ r.id \in DOMAIN e /\ e[r.id].status = "pending"

PlasmaServe(h, r) ==
    /\ h \in AllThreads /\ (r # NoRequest => h \in PlasmaThreads) /\ (r.op = "deposit" => h \in Handlers) /\ req = Only(h, r)
    /\ bal \in Balances /\ items \in Items
    /\ PlasmaTables(deposits, exits, items) /\ PlasmaRequest(r, deposits, exits, bal, items)

PlasmaMove(q) ==
    \E h, r : PlasmaServe(h, r)' /\ Moves(bal, DepositsHeld(q, deposits, exits), bal', DepositsHeld(r, deposits', exits'))

LEMMA DepositsHeldType ==
    ASSUME NEW d, NEW e, NEW n, NEW b, NEW r, PlasmaTables(d, e, n), PlasmaRequest(r, d, e, b, n)
    PROVE  DepositsHeld(r, d, e) \in [Items -> Nat] /\ DepositsHeld(r, d, e) \in [Items -> Int]
<1>1. ASSUME NEW i \in Items PROVE DepositHeld(r, d, e, i) \in Nat
  <2>1. i \in DOMAIN d => d[i].amount \in Nat
    BY DEF PlasmaTables, DepositRows
  <2>2. r.op = "deposit" => r.amt \in Nat
    BY DEF PlasmaRequest, NoRequest
  <2>. QED  BY <2>1, <2>2 DEF DepositHeld
<1>. HIDE DEF DepositHeld
<1>. QED  BY <1>1 DEF DepositsHeld

LEMMA PlasmaServed ==
    ASSUME NEW g, NEW q, PlasmaServe(g, q)
    PROVE  /\ bal \in Balances /\ items \in Items /\ items \in Nat /\ PlasmaTables(deposits, exits, items)
           /\ PlasmaRequest(q, deposits, exits, bal, items) /\ DepositsHeld(q, deposits, exits) \in [Items -> Int] /\ g \in AllThreads
           /\ \A h \in PlasmaThreads : req[h].op # "none" => h = g /\ req[h] = q /\ q # NoRequest /\ IsRequest(q)
<1>1. /\ bal \in Balances /\ items \in Items /\ items \in Nat /\ PlasmaTables(deposits, exits, items)
      /\ PlasmaRequest(q, deposits, exits, bal, items) /\ g \in AllThreads
  BY DEF PlasmaServe, Items
<1>2. DepositsHeld(q, deposits, exits) \in [Items -> Int]
  BY <1>1, DepositsHeldType
<1>3. ASSUME NEW h \in PlasmaThreads, req[h].op # "none" PROVE h = g /\ req[h] = q /\ q # NoRequest /\ IsRequest(q)
  <2>1. h = g /\ req[h] = q
    BY <1>3, OnlyAt, HandlersAreThreads DEF PlasmaServe
  <2>2. q # NoRequest
    BY <2>1, <1>3 DEF NoRequest
  <2>. QED  BY <2>1, <2>2, <1>1 DEF PlasmaRequest
<1>. QED  BY <1>1, <1>2, <1>3

LEMMA PlasmaMoved ==
    ASSUME NEW h \in PlasmaThreads, NEW q, NEW r, r.op = "deposit" => h \in Handlers,
           req' = Only(h, r), items' \in Items, bal' \in Balances,
           PlasmaTables(deposits', exits', items'), PlasmaRequest(r, deposits', exits', bal', items'),
           Moves(bal, DepositsHeld(q, deposits, exits), bal', DepositsHeld(r, deposits', exits'))
    PROVE  PlasmaMove(q)
<1>1. PlasmaServe(h, r)'
  BY HandlersAreThreads DEF PlasmaServe
<1>. QED  BY <1>1 DEF PlasmaMove

LEMMA PostPlasmaDepositMoves ==
    ASSUME mode = "serial", NEW g, NEW q, PlasmaServe(g, q), NEW h \in Handlers, PostPlasmaDeposit(h)
    PROVE  PlasmaMove(q)
<1>1. /\ bal \in Balances /\ items \in Items /\ items \in Nat /\ PlasmaTables(deposits, exits, items)
      /\ DepositsHeld(q, deposits, exits) \in [Items -> Int] /\ g \in AllThreads
  BY PlasmaServed
<1>2. PICK u \in Users, x \in Amounts : Deposit(h, u, x)
  BY DEF PostPlasmaDeposit
<1>. DEFINE r == Request("deposit", "debit", items + 1, u, x)
            hd == DepositsHeld(q, deposits, exits)
            kd == DepositsHeld(r, deposits, exits)
<1>3. items' = items + 1 /\ items' \in Items /\ items' >= 1
  BY <1>1, <1>2, NewItemIs DEF Deposit
<1>4. Begins(h, r) /\ bal' = bal /\ deposits' = deposits /\ exits' = exits /\ bal[u] >= x
  BY <1>2 DEF Deposit, plasmaMem
<1>5. IsRequest(r) /\ r.op = "deposit" /\ r.step = "debit" /\ r.id = items + 1 /\ r.user = u /\ r.amt = x
  BY RequestIs
<1>. HIDE DEF r
<1>6. req' = Only(h, r) /\ q = NoRequest /\ h \in PlasmaThreads
  BY <1>4, OnlyBegins, HandlersAreThreads DEF PlasmaServe, PlasmaThreads
<1>7. x \in Nat /\ bal[u] \in Nat
  BY <1>1, ServicesAssumption DEF Balances
<1>8. PlasmaTables(deposits, exits, items') /\ items + 1 \notin DOMAIN deposits
  BY <1>1, <1>3 DEF PlasmaTables
<1>9. PlasmaRequest(r, deposits, exits, bal, items')
  BY <1>3, <1>4, <1>5, <1>7, <1>8 DEF PlasmaRequest
<1>10. kd \in [Items -> Int]
  BY <1>8, <1>9, DepositsHeldType
<1>11. q.op = "none"
  BY <1>6 DEF NoRequest
<1>12. \A w \in Items : kd[w] = hd[w]
  BY <1>5, <1>11 DEF DepositsHeld, DepositHeld
<1>13. Moves(bal, hd, bal, kd)
  <2>1. hd \in [Items -> Int]
    BY <1>1
  <2>. HIDE DEF hd, kd
  <2>. QED  BY <2>1, <1>10, <1>12, NothingMoves
<1>. QED  BY <1>1, <1>3, <1>4, <1>6, <1>8, <1>9, <1>13, PlasmaMoved

LEMMA DepositDebitMoves ==
    ASSUME NEW g, NEW q, PlasmaServe(g, q), NEW h \in Handlers, DepositDebit(h)
    PROVE  PlasmaMove(q)
<1>0. h \in PlasmaThreads
  BY DEF PlasmaThreads
<1>1. req[h].op = "deposit" /\ req[h].step = "debit"
  BY DEF DepositDebit, At
<1>2. /\ bal \in Balances /\ items \in Items /\ items \in Nat /\ PlasmaTables(deposits, exits, items)
      /\ DepositsHeld(q, deposits, exits) \in [Items -> Int] /\ g = h /\ h \in AllThreads /\ req[h] = q /\ IsRequest(q) /\ q # NoRequest
  BY <1>0, <1>1, PlasmaServed
<1>3. /\ q.amt \in Nat /\ q.id = items /\ q.id >= 1 /\ q.id \notin DOMAIN deposits /\ q.user \in Users
      /\ q.amt <= bal[q.user] /\ q.user \in DOMAIN Funds
  BY <1>1, <1>2, ServicesAssumption DEF PlasmaServe, PlasmaRequest
<1>. DEFINE r == Request("deposit", "save", q.id, q.user, q.amt)
            hd == DepositsHeld(q, deposits, exits)
            kd == DepositsHeld(r, deposits, exits)
<1>4. req' = Only(h, r)
  BY <1>1, <1>2, OnlyGoes DEF DepositDebit, PlasmaServe
<1>5. bal' = [bal EXCEPT ![q.user] = @ - q.amt] /\ bal' \in Balances
  BY <1>2, <1>3, Debited DEF DepositDebit
<1>6. IsRequest(r) /\ r.op = "deposit" /\ r.step = "save" /\ r.id = q.id /\ r.user = q.user /\ r.amt = q.amt
  BY RequestIs
<1>. HIDE DEF r
<1>7. deposits' = deposits /\ exits' = exits /\ items' = items
  BY DEF DepositDebit, plasmaMem
<1>8. PlasmaRequest(r, deposits, exits, bal', items)
  BY <1>3, <1>6 DEF PlasmaRequest
<1>9. kd \in [Items -> Int]
  BY <1>2, <1>8, DepositsHeldType
<1>10. hd[q.id] = 0 /\ kd[q.id] = q.amt
  BY <1>1, <1>2, <1>3, <1>6 DEF DepositsHeld, DepositHeld
<1>11. \A j \in Items : j # q.id => kd[j] = hd[j]
  BY <1>1, <1>2, <1>6 DEF DepositsHeld, DepositHeld
<1>12. Moves(bal, hd, bal', kd)
  <2>1. hd \in [Items -> Int]
    BY <1>2
  <2>. HIDE DEF hd, kd
  <2>2. q.id \in Items /\ q.amt <= q.amt /\ kd[q.id] = hd[q.id] + q.amt
    BY <1>2, <1>3, <1>10
  <2>3. Moves(bal, hd, [bal EXCEPT ![q.user] = @ - q.amt], kd)
    BY <2>1, <2>2, <1>2, <1>3, <1>9, <1>11, TakesIn
  <2>. QED  BY <2>3, <1>5
<1>. QED  BY <1>0, <1>2, <1>4, <1>5, <1>7, <1>8, <1>12, PlasmaMoved

LEMMA DepositSaveMoves ==
    ASSUME NEW g, NEW q, PlasmaServe(g, q), NEW h \in Handlers, DepositSave(h)
    PROVE  PlasmaMove(q)
<1>0. h \in PlasmaThreads
  BY DEF PlasmaThreads
<1>1. req[h].op = "deposit" /\ req[h].step = "save"
  BY DEF DepositSave, At
<1>2. /\ bal \in Balances /\ items \in Items /\ items \in Nat /\ PlasmaTables(deposits, exits, items)
      /\ DepositsHeld(q, deposits, exits) \in [Items -> Int] /\ g = h /\ h \in AllThreads /\ req[h] = q /\ IsRequest(q) /\ q # NoRequest
  BY <1>0, <1>1, PlasmaServed
<1>3. /\ q.amt \in Nat /\ q.id = items /\ q.id >= 1 /\ q.id \notin DOMAIN deposits /\ q.user \in DOMAIN Funds
  BY <1>1, <1>2, ServicesAssumption DEF PlasmaServe, PlasmaRequest
<1>. DEFINE x == [from |-> q.user, amount |-> q.amt, status |-> "confirmed"]
            d == With(deposits, q.id, x)
            hd == DepositsHeld(q, deposits, exits)
            kd == DepositsHeld(NoRequest, d, exits)
<1>4. req' = Only(h, NoRequest)
  BY <1>2, OnlyEnds DEF DepositSave, PlasmaServe
<1>5. deposits' = d /\ exits' = exits /\ bal' = bal /\ items' = items
  BY <1>2 DEF DepositSave
<1>6. x \in DepositRows /\ x.status = "confirmed" /\ x.amount = q.amt
  BY <1>3 DEF DepositRows
<1>. HIDE DEF x
<1>7. /\ DOMAIN d = DOMAIN deposits \cup {q.id} /\ d[q.id] = x /\ d = [w \in DOMAIN d |-> d[w]]
      /\ \A j \in DOMAIN deposits : j # q.id => d[j] = deposits[j]
  BY DEF With
<1>. HIDE DEF d
<1>9. PlasmaTables(d, exits, items) /\ PlasmaRequest(NoRequest, d, exits, bal, items)
  <2>1. q.id \in 1..items
    BY <1>2, <1>3
  <2>. QED  BY <2>1, <1>2, <1>3, <1>6, <1>7 DEF PlasmaTables, PlasmaRequest
<1>10. kd \in [Items -> Int]
  BY <1>9, DepositsHeldType
<1>11. NoRequest.op = "none"
  BY DEF NoRequest
<1>12. \A j \in Items : kd[j] = hd[j]
  <2>. SUFFICES ASSUME NEW j \in Items PROVE DepositHeld(NoRequest, d, exits, j) = DepositHeld(q, deposits, exits, j)
    BY DEF DepositsHeld
  <2>1. CASE j = q.id
    BY <2>1, <1>1, <1>2, <1>3, <1>6, <1>7, <1>11 DEF DepositHeld
  <2>2. CASE j # q.id
    BY <2>2, <1>1, <1>2, <1>7, <1>11 DEF DepositHeld
  <2>. QED  BY <2>1, <2>2
<1>13. Moves(bal, hd, bal, kd)
  <2>1. hd \in [Items -> Int]
    BY <1>2
  <2>. HIDE DEF hd, kd
  <2>. QED  BY <2>1, <1>10, <1>12, NothingMoves
<1>. QED  BY <1>0, <1>2, <1>4, <1>5, <1>9, <1>11, <1>13, PlasmaMoved

LEMMA FinalizeExitMoves ==
    ASSUME mode = "serial", NEW g, NEW q, PlasmaServe(g, q), NEW h \in PlasmaThreads, NEW x \in DOMAIN exits, NEW force \in BOOLEAN,
           FinalizeExit(h, x, force)
    PROVE  PlasmaMove(q)
<1>1. /\ bal \in Balances /\ items \in Items /\ items \in Nat /\ PlasmaTables(deposits, exits, items)
      /\ DepositsHeld(q, deposits, exits) \in [Items -> Int] /\ g \in AllThreads
  BY PlasmaServed
<1>. DEFINE e == exits[x]
            i == e.deposit
            r == Request("finalize", "mark", x, e.user, 0)
            hd == DepositsHeld(q, deposits, exits)
            kd == DepositsHeld(r, deposits, exits)
<1>2. e.status = "pending" /\ UpdateBalance(e.user, e.amount) /\ Begins(h, r) /\ deposits' = deposits /\ exits' = exits /\ items' = items
  BY DEF FinalizeExit, plasmaMem
<1>3. e.user \in DOMAIN Funds /\ e.amount \in Nat /\ i \in Items /\ i \in DOMAIN deposits
  BY <1>1, <1>2 DEF PlasmaTables, ExitRows
<1>4. deposits[i].status = "exiting" /\ deposits[i].amount = e.amount
  BY <1>1, <1>2 DEF PlasmaTables
<1>5. IsRequest(r) /\ r.op = "finalize" /\ r.step = "mark" /\ r.id = x /\ r.amt = 0
  BY RequestIs
<1>. HIDE DEF r
<1>6. req' = Only(h, r) /\ q = NoRequest
  BY <1>2, OnlyBegins, HandlersAreThreads DEF PlasmaServe
<1>7. PlasmaRequest(r, deposits, exits, bal', items)
  BY <1>2, <1>5 DEF PlasmaRequest
<1>8. bal' = [bal EXCEPT ![e.user] = @ + e.amount] /\ bal' \in Balances
  BY <1>1, <1>2, <1>3, Credited
<1>9. kd \in [Items -> Int]
  BY <1>1, <1>7, DepositsHeldType
<1>10. q.op = "none"
  BY <1>6 DEF NoRequest
<1>11. hd[i] = e.amount /\ kd[i] = 0
  BY <1>3, <1>4, <1>5, <1>10 DEF DepositsHeld, DepositHeld
<1>12. \A j \in Items : j # i => kd[j] = hd[j]
  BY <1>5, <1>10 DEF DepositsHeld, DepositHeld
<1>13. Moves(bal, hd, bal', kd)
  <2>1. hd \in [Items -> Int]
    BY <1>1
  <2>. HIDE DEF hd, kd, e, i
  <2>2. e.amount <= hd[i] /\ kd[i] = hd[i] - e.amount
    BY <1>3, <1>11
  <2>3. Moves(bal, hd, [bal EXCEPT ![e.user] = @ + e.amount], kd)
    BY <2>1, <2>2, <1>1, <1>3, <1>9, <1>12, GivesOut
  <2>. QED  BY <2>3, <1>8
<1>. QED  BY <1>1, <1>2, <1>5, <1>6, <1>7, <1>8, <1>13, PlasmaMoved

LEMMA FinalizeMarkMoves ==
    ASSUME NEW g, NEW q, PlasmaServe(g, q), NEW h \in PlasmaThreads, FinalizeMark(h)
    PROVE  PlasmaMove(q)
<1>1. req[h].op = "finalize" /\ req[h].step = "mark"
  BY DEF FinalizeMark, At
<1>2. /\ bal \in Balances /\ items \in Items /\ items \in Nat /\ PlasmaTables(deposits, exits, items)
      /\ DepositsHeld(q, deposits, exits) \in [Items -> Int] /\ g = h /\ h \in AllThreads /\ req[h] = q /\ IsRequest(q) /\ q # NoRequest
  BY <1>1, PlasmaServed
<1>3. q.id \in DOMAIN exits /\ exits[q.id].status = "pending"
  BY <1>1, <1>2 DEF PlasmaServe, PlasmaRequest
<1>. DEFINE x == q.id
            i == exits[x].deposit
            e == [exits EXCEPT ![x].status = "finalized"]
            d == [deposits EXCEPT ![i].status = "exited"]
            hd == DepositsHeld(q, deposits, exits)
            kd == DepositsHeld(NoRequest, d, e)
<1>4. req' = Only(h, NoRequest)
  BY <1>2, OnlyEnds DEF FinalizeMark, PlasmaServe
<1>5. deposits' = d /\ exits' = e /\ bal' = bal /\ items' = items
  BY <1>2 DEF FinalizeMark
<1>6. i \in DOMAIN deposits /\ deposits[i] \in DepositRows /\ exits[x] \in ExitRows
  BY <1>2, <1>3 DEF PlasmaTables
<1>7. /\ DOMAIN d = DOMAIN deposits /\ d[i] = [deposits[i] EXCEPT !.status = "exited"] /\ d = [w \in DOMAIN d |-> d[w]]
      /\ \A j \in DOMAIN deposits : j # i => d[j] = deposits[j]
  BY <1>6
<1>8. /\ DOMAIN e = DOMAIN exits /\ e[x] = [exits[x] EXCEPT !.status = "finalized"] /\ e = [w \in DOMAIN e |-> e[w]]
      /\ \A j \in DOMAIN exits : j # x => e[j] = exits[j]
  BY <1>3
<1>. HIDE DEF d, e
<1>9. d[i] \in DepositRows /\ d[i].status = "exited" /\ e[x] \in ExitRows /\ e[x].status = "finalized"
  BY <1>6, <1>7, <1>8 DEF DepositRows, ExitRows
<1>10. PlasmaTables(d, e, items) /\ PlasmaRequest(NoRequest, d, e, bal, items)
  <2>0. \A y \in DOMAIN exits : exits[y].status = "pending" /\ exits[y].deposit = exits[x].deposit => y = x
    BY <1>2, <1>3 DEF PlasmaTables
  <2>1. \A y \in DOMAIN e : e[y].status = "pending" => y # x /\ e[y] = exits[y] /\ exits[y].deposit # i
    <3>. SUFFICES ASSUME NEW y \in DOMAIN e, e[y].status = "pending" PROVE y # x /\ e[y] = exits[y] /\ exits[y].deposit # i
      OBVIOUS
    <3>1. y # x
      BY <1>9
    <3>2. e[y] = exits[y] /\ y \in DOMAIN exits
      BY <3>1, <1>8
    <3>. QED  BY <2>0, <3>1, <3>2
  <2>2. \A y \in DOMAIN e : e[y].status = "pending" =>
            e[y].deposit \in DOMAIN d /\ d[e[y].deposit].status = "exiting" /\ d[e[y].deposit].amount = e[y].amount
    BY <2>1, <1>2, <1>7, <1>8 DEF PlasmaTables
  <2>3. \A y, z \in DOMAIN e : e[y].status = "pending" /\ e[z].status = "pending" /\ e[y].deposit = e[z].deposit => y = z
    BY <2>1, <1>2, <1>8 DEF PlasmaTables
  <2>4. \A y \in DOMAIN e : e[y] \in ExitRows
    BY <1>2, <1>8, <1>9 DEF PlasmaTables
  <2>5. DOMAIN d \subseteq 1..items /\ \A j \in DOMAIN d : d[j] \in DepositRows
    BY <1>2, <1>7, <1>9 DEF PlasmaTables
  <2>. QED  BY <2>2, <2>3, <2>4, <2>5, <1>7, <1>8 DEF PlasmaTables, PlasmaRequest
<1>11. kd \in [Items -> Int]
  BY <1>10, DepositsHeldType
<1>12. NoRequest.op = "none"
  BY DEF NoRequest
<1>13. \A j \in Items : kd[j] = hd[j]
  <2>. SUFFICES ASSUME NEW j \in Items PROVE DepositHeld(NoRequest, d, e, j) = DepositHeld(q, deposits, exits, j)
    BY DEF DepositsHeld
  <2>1. CASE j = i
    BY <2>1, <1>1, <1>2, <1>6, <1>7, <1>9, <1>12 DEF DepositHeld
  <2>2. CASE j # i
    BY <2>2, <1>1, <1>2, <1>7, <1>12 DEF DepositHeld
  <2>. QED  BY <2>1, <2>2
<1>14. Moves(bal, hd, bal, kd)
  <2>1. hd \in [Items -> Int]
    BY <1>2
  <2>. HIDE DEF hd, kd
  <2>. QED  BY <2>1, <1>11, <1>13, NothingMoves
<1>. QED  BY <1>2, <1>4, <1>5, <1>10, <1>12, <1>14, PlasmaMoved

\* Transfers and blocks of the side chain touch neither deposits nor exits.
LEMMA PlasmaStays ==
    ASSUME NEW g, NEW q, PlasmaServe(g, q), UNCHANGED <<bal, req, items, deposits, exits>>
    PROVE  PlasmaMove(q)
<1>1. PlasmaServe(g, q)'
  BY DEF PlasmaServe
<1>2. Moves(bal, DepositsHeld(q, deposits, exits), bal, DepositsHeld(q, deposits, exits))
  BY DEF Moves
<1>3. Moves(bal, DepositsHeld(q, deposits, exits), bal', DepositsHeld(q, deposits', exits'))
  BY <1>2
<1>. QED  BY <1>1, <1>3 DEF PlasmaMove

\* While the lock is free nobody finalizes.
LEMMA PlasmaFree ==
    ASSUME NEW g, NEW q, PlasmaServe(g, q), PlasmaLockFree
    PROVE  q.op # "finalize"
<1>. SUFFICES ASSUME q.op = "finalize" PROVE FALSE
  OBVIOUS
<1>1. q # NoRequest /\ req[g] = q /\ g \in PlasmaThreads
  BY OnlyIs DEF PlasmaServe, NoRequest
<1>2. q.step = "mark"
  BY <1>1 DEF PlasmaServe, PlasmaRequest
<1>. QED  BY <1>1, <1>2 DEF PlasmaLockFree, At

LEMMA RequestExitMoves ==
    ASSUME NEW g, NEW q, PlasmaServe(g, q), NEW i \in DOMAIN deposits, NEW u \in Users, RequestExit(i, u)
    PROVE  PlasmaMove(q)
<1>1. /\ bal \in Balances /\ items \in Items /\ items \in Nat /\ PlasmaTables(deposits, exits, items)
      /\ PlasmaRequest(q, deposits, exits, bal, items) /\ DepositsHeld(q, deposits, exits) \in [Items -> Int]
  BY PlasmaServed
<1>. DEFINE y == [deposit |-> i, user |-> u, amount |-> deposits[i].amount, status |-> "pending", due |-> FALSE]
            x == Cardinality(DOMAIN exits) + 1
            e == With(exits, x, y)
            d == [deposits EXCEPT ![i].status = "exiting"]
            hd == DepositsHeld(q, deposits, exits)
            kd == DepositsHeld(q, d, e)
<1>2. exits' = e /\ deposits' = d /\ UNCHANGED <<bal, req, items>> /\ deposits[i].status = "confirmed" /\ PlasmaLockFree
  BY DEF RequestExit, DepositLeaves
<1>3. q.op # "finalize"
  BY <1>2, PlasmaFree
<1>4. deposits[i] \in DepositRows /\ deposits[i].amount \in Nat /\ i \in 1..items /\ i \in Items /\ u \in DOMAIN Funds
  BY <1>1, ServicesAssumption DEF PlasmaTables, DepositRows, Items
<1>5. y \in ExitRows /\ y.deposit = i /\ y.status = "pending" /\ y.amount = deposits[i].amount
  BY <1>4 DEF ExitRows
<1>. HIDE DEF y, x
<1>6. /\ DOMAIN e = DOMAIN exits \cup {x} /\ e[x] = y /\ e = [w \in DOMAIN e |-> e[w]]
      /\ \A j \in DOMAIN exits : j # x => e[j] = exits[j]
  BY DEF With
<1>7. /\ DOMAIN d = DOMAIN deposits /\ d[i] = [deposits[i] EXCEPT !.status = "exiting"] /\ d = [w \in DOMAIN d |-> d[w]]
      /\ \A j \in DOMAIN deposits : j # i => d[j] = deposits[j]
  OBVIOUS
<1>. HIDE DEF d, e
<1>8. d[i] \in DepositRows /\ d[i].status = "exiting" /\ d[i].amount = deposits[i].amount
  BY <1>4, <1>7 DEF DepositRows
<1>9. PlasmaTables(d, e, items)
  <2>1. \A z \in DOMAIN exits : exits[z].status = "pending" => exits[z].deposit # i
    BY <1>1, <1>2 DEF PlasmaTables
  <2>2. ASSUME NEW z \in DOMAIN e, e[z].status = "pending"
        PROVE  e[z].deposit \in DOMAIN d /\ d[e[z].deposit].status = "exiting" /\ d[e[z].deposit].amount = e[z].amount
    <3>1. CASE z = x
      BY <3>1, <1>5, <1>6, <1>7, <1>8
    <3>2. CASE z # x
      <4>1. z \in DOMAIN exits /\ e[z] = exits[z] /\ exits[z].status = "pending"
        BY <3>2, <2>2, <1>6
      <4>2. /\ exits[z].deposit \in DOMAIN deposits /\ deposits[exits[z].deposit].status = "exiting"
            /\ deposits[exits[z].deposit].amount = exits[z].amount /\ exits[z].deposit # i
        BY <4>1, <2>1, <1>1 DEF PlasmaTables
      <4>. QED  BY <4>1, <4>2, <1>7
    <3>. QED  BY <3>1, <3>2
  <2>3. ASSUME NEW z \in DOMAIN e, NEW w \in DOMAIN e, e[z].status = "pending", e[w].status = "pending", e[z].deposit = e[w].deposit
        PROVE  z = w
    <3>1. CASE z # x /\ w # x
      <4>1. z \in DOMAIN exits /\ e[z] = exits[z] /\ w \in DOMAIN exits /\ e[w] = exits[w]
        BY <3>1, <1>6
      <4>. QED  BY <4>1, <2>3, <1>1 DEF PlasmaTables
    <3>2. CASE z = x \/ w = x
      <4>1. \A v \in DOMAIN e : v # x /\ e[v].status = "pending" => e[v].deposit # i
        BY <2>1, <1>6
      <4>2. e[x].deposit = i
        BY <1>5, <1>6
      <4>. QED  BY <3>2, <4>1, <4>2, <2>3
    <3>. QED  BY <3>1, <3>2
  <2>4. \A z \in DOMAIN e : e[z] \in ExitRows
    BY <1>1, <1>5, <1>6 DEF PlasmaTables
  <2>5. DOMAIN d \subseteq 1..items /\ \A j \in DOMAIN d : d[j] \in DepositRows
    BY <1>1, <1>7, <1>8 DEF PlasmaTables
  <2>. QED  BY <2>2, <2>3, <2>4, <2>5, <1>6, <1>7 DEF PlasmaTables
<1>10. PlasmaRequest(q, d, e, bal, items)
  BY <1>1, <1>3, <1>7 DEF PlasmaRequest
<1>11. kd \in [Items -> Int]
  BY <1>9, <1>10, DepositsHeldType
<1>12. \A j \in Items : kd[j] = hd[j]
  <2>. SUFFICES ASSUME NEW j \in Items PROVE DepositHeld(q, d, e, j) = DepositHeld(q, deposits, exits, j)
    BY DEF DepositsHeld
  <2>1. CASE j = i
    BY <2>1, <1>2, <1>3, <1>7, <1>8 DEF DepositHeld
  <2>2. CASE j # i
    BY <2>2, <1>3, <1>7 DEF DepositHeld
  <2>. QED  BY <2>1, <2>2
<1>13. Moves(bal, hd, bal, kd)
  <2>1. hd \in [Items -> Int]
    BY <1>1
  <2>. HIDE DEF hd, kd
  <2>. QED  BY <2>1, <1>11, <1>12, NothingMoves
<1>14. PlasmaServe(g, q)'
  BY <1>2, <1>9, <1>10 DEF PlasmaServe
<1>. QED  BY <1>2, <1>13, <1>14 DEF PlasmaMove

LEMMA PeriodOverMoves ==
    ASSUME NEW g, NEW q, PlasmaServe(g, q), NEW x \in DOMAIN exits, PeriodOver(x)
    PROVE  PlasmaMove(q)
<1>1. /\ bal \in Balances /\ items \in Items /\ items \in Nat /\ PlasmaTables(deposits, exits, items)
      /\ PlasmaRequest(q, deposits, exits, bal, items) /\ DepositsHeld(q, deposits, exits) \in [Items -> Int]
  BY PlasmaServed
<1>. DEFINE e == [exits EXCEPT ![x].due = TRUE]
            hd == DepositsHeld(q, deposits, exits)
            kd == DepositsHeld(q, deposits, e)
<1>2. exits' = e /\ UNCHANGED <<bal, req, items, deposits>>
  BY DEF PeriodOver
<1>3. exits[x] \in ExitRows
  BY <1>1 DEF PlasmaTables
<1>4. /\ DOMAIN e = DOMAIN exits /\ e[x] = [exits[x] EXCEPT !.due = TRUE] /\ e = [w \in DOMAIN e |-> e[w]]
      /\ \A j \in DOMAIN exits : j # x => e[j] = exits[j]
  OBVIOUS
<1>. HIDE DEF e
<1>5. e[x] \in ExitRows /\ e[x].status = exits[x].status /\ e[x].deposit = exits[x].deposit /\ e[x].amount = exits[x].amount
  BY <1>3, <1>4 DEF ExitRows
<1>6. \A z \in DOMAIN exits : e[z] \in ExitRows /\ e[z].status = exits[z].status /\ e[z].deposit = exits[z].deposit /\ e[z].amount = exits[z].amount
  BY <1>1, <1>4, <1>5 DEF PlasmaTables
<1>7. PlasmaTables(deposits, e, items)
  <2>1. \A z \in DOMAIN e : e[z].status = "pending" =>
            e[z].deposit \in DOMAIN deposits /\ deposits[e[z].deposit].status = "exiting" /\ deposits[e[z].deposit].amount = e[z].amount
    BY <1>1, <1>4, <1>6 DEF PlasmaTables
  <2>2. \A z, w \in DOMAIN e : e[z].status = "pending" /\ e[w].status = "pending" /\ e[z].deposit = e[w].deposit => z = w
    <3>. SUFFICES ASSUME NEW z \in DOMAIN e, NEW w \in DOMAIN e, e[z].status = "pending", e[w].status = "pending", e[z].deposit = e[w].deposit
                  PROVE  z = w
      OBVIOUS
    <3>1. /\ z \in DOMAIN exits /\ w \in DOMAIN exits /\ exits[z].status = "pending" /\ exits[w].status = "pending"
          /\ exits[z].deposit = exits[w].deposit
      BY <1>4, <1>6
    <3>. QED  BY <3>1, <1>1 DEF PlasmaTables
  <2>. QED  BY <2>1, <2>2, <1>1, <1>4, <1>6 DEF PlasmaTables
<1>8. PlasmaRequest(q, deposits, e, bal, items)
  BY <1>1, <1>4, <1>6 DEF PlasmaRequest
<1>9. kd \in [Items -> Int]
  BY <1>7, <1>8, DepositsHeldType
<1>10. q.op = "finalize" => e[q.id].deposit = exits[q.id].deposit
  <2>1. q.op = "finalize" => q.id \in DOMAIN exits
    BY <1>1 DEF PlasmaRequest, NoRequest
  <2>. QED  BY <2>1, <1>6
<1>11. \A j \in Items : kd[j] = hd[j]
  BY <1>10 DEF DepositsHeld, DepositHeld
<1>12. Moves(bal, hd, bal, kd)
  <2>1. hd \in [Items -> Int]
    BY <1>1
  <2>. HIDE DEF hd, kd
  <2>. QED  BY <2>1, <1>9, <1>11, NothingMoves
<1>13. PlasmaServe(g, q)'
  BY <1>2, <1>7, <1>8 DEF PlasmaServe
<1>. QED  BY <1>2, <1>12, <1>13 DEF PlasmaMove

LEMMA PlasmaStep ==
    ASSUME mode = "serial", NEW g, NEW q, PlasmaServe(g, q), PlasmaNext
    PROVE  PlasmaMove(q)
<1>0. Handlers \subseteq PlasmaThreads /\ ExitMonitor \in PlasmaThreads
  BY DEF PlasmaThreads
<1>1. CASE \E h \in Handlers : PostPlasmaDeposit(h) \/ DepositDebit(h) \/ DepositSave(h) \/ PostPlasmaFinalizeExit(h)
  <2>1. PICK h \in Handlers : PostPlasmaDeposit(h) \/ DepositDebit(h) \/ DepositSave(h) \/ PostPlasmaFinalizeExit(h)
    BY <1>1
  <2>2. CASE PostPlasmaDeposit(h) \/ DepositDebit(h) \/ DepositSave(h)
    BY <2>2, PostPlasmaDepositMoves, DepositDebitMoves, DepositSaveMoves
  <2>3. CASE PostPlasmaFinalizeExit(h)
    BY <2>3, <1>0, FinalizeExitMoves DEF PostPlasmaFinalizeExit
  <2>. QED  BY <2>1, <2>2, <2>3
<1>2. CASE \E h \in PlasmaThreads : FinalizeMark(h)
  BY <1>2, FinalizeMarkMoves
<1>3. CASE PostPlasmaTx \/ PostPlasmaSubmitBlock
  <2>1. UNCHANGED <<bal, req, items, deposits, exits>>
    BY <1>3 DEF PostPlasmaTx, PostPlasmaSubmitBlock, SubmitTransaction, SubmitBlock
  <2>. QED  BY <2>1, PlasmaStays
<1>4. CASE PostPlasmaExit
  BY <1>4, RequestExitMoves DEF PostPlasmaExit
<1>5. CASE \E x \in DOMAIN exits : PeriodOver(x)
  BY <1>5, PeriodOverMoves
<1>6. CASE MonitorFinalizes
  BY <1>0, <1>6, FinalizeExitMoves DEF MonitorFinalizes
<1>. QED  BY <1>1, <1>2, <1>3, <1>4, <1>5, <1>6 DEF PlasmaNext

PlasmaView == \A h, r : PlasmaServe(h, r) => \A i : DepositHolds(i) = DepositHeld(r, deposits, exits, i)

LEMMA PlasmaViewed == PlasmaView /\ PlasmaView'
<1>1. PlasmaView
  <2>. SUFFICES ASSUME NEW h, NEW r, PlasmaServe(h, r), NEW i PROVE DepositHolds(i) = DepositHeld(r, deposits, exits, i)
    BY DEF PlasmaView
  <2>1. /\ h \in AllThreads /\ (r # NoRequest => h \in PlasmaThreads) /\ (r.op = "deposit" => h \in Handlers) /\ req[h] = r
        /\ \A x \in PlasmaThreads : x # h => req[x].op = "none"
    BY OnlyIs, HandlersAreThreads DEF PlasmaServe, NoRequest
  <2>2. r = NoRequest => r.op = "none"
    BY DEF NoRequest
  <2>0. Handlers \subseteq PlasmaThreads
    BY DEF PlasmaThreads
  <2>4. Depositing(i) = IF r.op = "deposit" /\ r.step = "save" /\ r.id = i THEN {h} ELSE {}
    BY <2>0, <2>1, <2>2 DEF Depositing, At
  <2>5. Finalizing(i) <=> r.op = "finalize" /\ r.step = "mark" /\ exits[r.id].deposit = i
    <3>1. ASSUME r.op = "finalize", r.step = "mark", exits[r.id].deposit = i PROVE Finalizing(i)
      BY <3>1, <2>1, <2>2 DEF Finalizing, At
    <3>2. ASSUME Finalizing(i) PROVE r.op = "finalize" /\ r.step = "mark" /\ exits[r.id].deposit = i
      <4>1. PICK x \in PlasmaThreads : req[x].op = "finalize" /\ req[x].step = "mark" /\ exits[req[x].id].deposit = i
        BY <3>2 DEF Finalizing, At
      <4>2. x = h
        BY <4>1, <2>1
      <4>. QED  BY <4>1, <4>2, <2>1
    <3>. QED  BY <3>1, <3>2
  <2>6. CASE r.op = "deposit" /\ r.step = "save" /\ r.id = i
    <3>1. Depositing(i) = {h}
      BY <2>4, <2>6
    <3>2. (CHOOSE x \in Depositing(i) : TRUE) = h
      BY <3>1
    <3>. QED  BY <3>1, <3>2, <2>1, <2>6 DEF DepositHolds, DepositHeld
  <2>7. CASE ~(r.op = "deposit" /\ r.step = "save" /\ r.id = i)
    <3>1. Depositing(i) = {}
      BY <2>4, <2>7
    <3>. QED  BY <3>1, <2>5, <2>7 DEF DepositHolds, DepositHeld
  <2>. QED  BY <2>6, <2>7
<1>2. PlasmaView'
  BY <1>1, PTL
<1>. QED  BY <1>1, <1>2

-----------------------------------------------------------------------------
(* Item 0 alone holds something *)

Single(x) == [i \in Items |-> IF i = 0 THEN x ELSE 0]

LEMMA SingleIs ==
    ASSUME NEW x \in Int
    PROVE  Single(x) \in [Items -> Int] /\ 0 \in Items /\ Single(x)[0] = x /\ \A j \in Items : j # 0 => Single(x)[j] = 0
BY ServicesAssumption DEF Single, Items

LEMMA SingleTakes ==
    ASSUME NEW b \in Balances, NEW u \in DOMAIN Funds, NEW x \in Nat, NEW v \in Nat, NEW w \in Nat,
           x <= b[u], v <= w, w - v <= x
    PROVE  Moves(b, Single(v), [b EXCEPT ![u] = @ - x], Single(w))
<1>. DEFINE hd == Single(v)
            kd == Single(w)
            y == w - v
<1>1. /\ hd \in [Items -> Int] /\ kd \in [Items -> Int] /\ 0 \in Items /\ y \in Nat /\ kd[0] = hd[0] + y
      /\ \A j \in Items : j # 0 => kd[j] = hd[j]
  BY SingleIs
<1>2. y <= x
  OBVIOUS
<1>3. Moves(b, hd, [b EXCEPT ![u] = @ - x], kd)
  <2>. HIDE DEF hd, kd, y
  <2>. QED  BY <1>1, <1>2, TakesIn
<1>. QED  BY <1>3

LEMMA SingleGives ==
    ASSUME NEW b \in Balances, NEW u \in DOMAIN Funds, NEW x \in Nat, NEW v \in Nat, NEW w \in Nat, v = w + x
    PROVE  Moves(b, Single(v), [b EXCEPT ![u] = @ + x], Single(w))
<1>. DEFINE hd == Single(v)
            kd == Single(w)
<1>1. /\ hd \in [Items -> Int] /\ kd \in [Items -> Int] /\ 0 \in Items /\ kd[0] = hd[0] - x /\ x <= hd[0]
      /\ \A j \in Items : j # 0 => kd[j] = hd[j]
  BY SingleIs
<1>2. Moves(b, hd, [b EXCEPT ![u] = @ + x], kd)
  <2>. HIDE DEF hd, kd
  <2>. QED  BY <1>1, GivesOut
<1>. QED  BY <1>2

LEMMA SingleLoses ==
    ASSUME NEW b, NEW v \in Nat, NEW w \in Nat, w <= v
    PROVE  Moves(b, Single(v), b, Single(w))
<1>. DEFINE hd == Single(v)
            kd == Single(w)
            x == v - w
<1>1. /\ hd \in [Items -> Int] /\ kd \in [Items -> Int] /\ 0 \in Items /\ x \in Nat /\ kd[0] = hd[0] - x /\ x <= hd[0]
      /\ \A j \in Items : j # 0 => kd[j] = hd[j]
  BY SingleIs
<1>2. Moves(b, hd, b, kd)
  <2>. HIDE DEF hd, kd, x
  <2>. QED  BY <1>1, LosesSome
<1>. QED  BY <1>2

LEMMA SumIsTotal == \A f : SumFunction(f) = Total(f, DOMAIN f)
BY DEF SumFunction, SumFunctionOnSet, FoldFunctionOnSet, Total, MapThenSumSet

\* A sum with one term that is not zero.
LEMMA SumOfOne ==
    ASSUME NEW S, IsFiniteSet(S), NEW f, f = [x \in S |-> f[x]], NEW y \in S, f[y] \in Int, \A x \in S : x # y => f[x] = 0
    PROVE  SumFunction(f) = f[y]
<1>. DEFINE z == [x \in S |-> 0]
<1>1. Total(z, S) = 0
  <2>1. Total(z, S) = 0 * Cardinality(S)
    BY TotalConstant
  <2>. QED  BY <2>1, FS_CardinalityType
<1>2. Total(f, S) = Total(z, S) - z[y] + f[y]
  <2>1. \A x \in S : z[x] \in Int
    OBVIOUS
  <2>2. \A x \in S \ {y} : f[x] = z[x]
    OBVIOUS
  <2>. HIDE DEF z
  <2>. QED  BY <2>1, <2>2, TotalUpdate
<1>. QED  BY <1>1, <1>2, SumIsTotal

LEMMA SumOfNone ==
    ASSUME NEW S, IsFiniteSet(S), NEW f, f = [x \in S |-> f[x]], \A x \in S : f[x] = 0
    PROVE  SumFunction(f) = 0
<1>1. Total(f, S) = 0 * Cardinality(S)
  BY TotalConstant
<1>. QED  BY <1>1, SumIsTotal, FS_CardinalityType

-----------------------------------------------------------------------------
(* The market *)

Prices == Amounts \cup {0, GenesisPrice}

\* What the sale r has taken and not paid out yet.
SaleHeld(r) ==
    IF r.op = "sale" /\ r.step = "pay" THEN r.amt
    ELSE IF r.op = "sale" /\ r.step = "royalty" THEN Royalty(r.amt)
    ELSE 0

TokenRows == [owner : DOMAIN Funds, creator : DOMAIN Funds, price : Prices, forSale : BOOLEAN]
OfferRows(T) == [token : T, bidder : DOMAIN Funds, price : Prices, status : {"pending", "accepted"}]
AuctionRows(T) ==
    [token : T, seller : DOMAIN Funds, reserve : Prices, bid : Prices, bidder : DOMAIN Funds,
     bids : BOOLEAN, over : BOOLEAN, status : {"active", "ended", "finalized", "settlement_failed"}]

MarketTables(m) ==
    /\ m = [tokens |-> m.tokens, offers |-> m.offers, auctions |-> m.auctions]
    /\ \A t \in DOMAIN m.tokens : m.tokens[t] \in TokenRows
    /\ \A o \in DOMAIN m.offers : m.offers[o] \in OfferRows(DOMAIN m.tokens)
    /\ \A a \in DOMAIN m.auctions : m.auctions[a] \in AuctionRows(DOMAIN m.tokens)

\* The request r on the market m: those it moves coins between are known, and what it will take is there.
MarketRequest(r, m, b) ==
    r = NoRequest \/
    /\ IsRequest(r) /\ r.amt \in Prices
    /\ \/ /\ r.op = "mint" /\ r.user \in DOMAIN Funds
          /\ r.step = "debit" => MintFee <= b[r.user]
       \/ /\ r.op = "sale" /\ r.id[1] \in DOMAIN m.tokens /\ r.user[1] \in DOMAIN Funds /\ r.user[2] \in DOMAIN Funds
          /\ r.id[2] # 0 => r.id[2] \in DOMAIN m.offers
          /\ r.step = "close" => r.id[2] # 0
          /\ r.step = "debit" => r.amt <= b[r.user[1]]

MarketServe(h, r) ==
    /\ h \in AllThreads /\ (r # NoRequest => h \in Handlers) /\ req = Only(h, r)
    /\ bal \in Balances /\ MarketTables(market) /\ MarketRequest(r, market, bal)

MarketMove(q) == \E h, r : MarketServe(h, r)' /\ Moves(bal, Single(SaleHeld(q)), bal', Single(SaleHeld(r)))

LEMMA PricesAre == Prices \subseteq Nat /\ \A x \in Prices : Royalty(x) \in Nat /\ Royalty(x) <= x
<1>1. Prices \subseteq Nat
  BY ServicesAssumption, MarketAssumption DEF Prices
<1>2. \A x \in Prices : Royalty(x) \in 0..x
  BY MarketAssumption DEF Prices
<1>. QED  BY <1>1, <1>2

LEMMA SaleHeldType ==
    ASSUME NEW r, NEW m, NEW b, MarketRequest(r, m, b)
    PROVE  SaleHeld(r) \in Nat
<1>1. CASE r = NoRequest
  <2>1. r.op = "none"
    BY <1>1 DEF NoRequest
  <2>. QED  BY <2>1 DEF SaleHeld
<1>2. CASE r.amt \in Prices
  BY <1>2, PricesAre DEF SaleHeld
<1>. QED  BY <1>1, <1>2 DEF MarketRequest

\* The tables after a row was saved.
LEMMA RowsStay ==
    ASSUME NEW T, NEW U, T \subseteq U
    PROVE  OfferRows(T) \subseteq OfferRows(U) /\ AuctionRows(T) \subseteq AuctionRows(U)
<1>1. ASSUME NEW o \in OfferRows(T) PROVE o \in OfferRows(U)
  BY <1>1 DEF OfferRows
<1>2. ASSUME NEW o \in AuctionRows(T) PROVE o \in AuctionRows(U)
  BY <1>2 DEF AuctionRows
<1>. QED  BY <1>1, <1>2

LEMMA TokenSaved ==
    ASSUME MarketTables(market), NEW i, NEW x \in TokenRows, SaveMarket("tokens", i, x)
    PROVE  /\ MarketTables(market') /\ DOMAIN market.tokens \subseteq DOMAIN market'.tokens
           /\ market'.offers = market.offers /\ market'.auctions = market.auctions
<1>. DEFINE t == With(market.tokens, i, x)
<1>1. market' = [tokens |-> t, offers |-> market.offers, auctions |-> market.auctions]
  <2>1. market' = [market EXCEPT !.tokens = t]
    BY DEF SaveMarket
  <2>. HIDE DEF t
  <2>. QED  BY <2>1 DEF MarketTables
<1>2. DOMAIN t = DOMAIN market.tokens \cup {i} /\ \A j \in DOMAIN t : t[j] = x \/ (j \in DOMAIN market.tokens /\ t[j] = market.tokens[j])
  BY DEF With
<1>. HIDE DEF t
<1>3. market'.tokens = t /\ market'.offers = market.offers /\ market'.auctions = market.auctions
  BY <1>1
<1>4. DOMAIN market.tokens \subseteq DOMAIN market'.tokens
  BY <1>2, <1>3
<1>5. OfferRows(DOMAIN market.tokens) \subseteq OfferRows(DOMAIN market'.tokens)
      /\ AuctionRows(DOMAIN market.tokens) \subseteq AuctionRows(DOMAIN market'.tokens)
  BY <1>4, RowsStay
<1>6. MarketTables(market')
  BY <1>1, <1>2, <1>3, <1>5 DEF MarketTables
<1>. QED  BY <1>3, <1>4, <1>6

LEMMA OfferSaved ==
    ASSUME MarketTables(market), NEW i, NEW x \in OfferRows(DOMAIN market.tokens), SaveMarket("offers", i, x)
    PROVE  /\ MarketTables(market') /\ market'.tokens = market.tokens
           /\ DOMAIN market.offers \subseteq DOMAIN market'.offers
<1>. DEFINE t == With(market.offers, i, x)
<1>1. market' = [tokens |-> market.tokens, offers |-> t, auctions |-> market.auctions]
  <2>1. market' = [market EXCEPT !.offers = t]
    BY DEF SaveMarket
  <2>. HIDE DEF t
  <2>. QED  BY <2>1 DEF MarketTables
<1>2. DOMAIN t = DOMAIN market.offers \cup {i} /\ \A j \in DOMAIN t : t[j] = x \/ (j \in DOMAIN market.offers /\ t[j] = market.offers[j])
  BY DEF With
<1>. HIDE DEF t
<1>3. market'.tokens = market.tokens /\ market'.offers = t /\ market'.auctions = market.auctions
  BY <1>1
<1>4. MarketTables(market')
  BY <1>1, <1>2, <1>3 DEF MarketTables
<1>. QED  BY <1>2, <1>3, <1>4

LEMMA AuctionSaved ==
    ASSUME MarketTables(market), NEW i, NEW x \in AuctionRows(DOMAIN market.tokens), SaveMarket("auctions", i, x)
    PROVE  MarketTables(market') /\ market'.tokens = market.tokens /\ market'.offers = market.offers
<1>. DEFINE t == With(market.auctions, i, x)
<1>1. market' = [tokens |-> market.tokens, offers |-> market.offers, auctions |-> t]
  <2>1. market' = [market EXCEPT !.auctions = t]
    BY DEF SaveMarket
  <2>. HIDE DEF t
  <2>. QED  BY <2>1 DEF MarketTables
<1>2. DOMAIN t = DOMAIN market.auctions \cup {i} /\ \A j \in DOMAIN t : t[j] = x \/ (j \in DOMAIN market.auctions /\ t[j] = market.auctions[j])
  BY DEF With
<1>. HIDE DEF t
<1>3. market'.tokens = market.tokens /\ market'.offers = market.offers /\ market'.auctions = t
  BY <1>1
<1>4. MarketTables(market')
  BY <1>1, <1>2, <1>3 DEF MarketTables
<1>. QED  BY <1>3, <1>4

-----------------------------------------------------------------------------

\* What the running request of the market may rely on.
LEMMA MarketServed ==
    ASSUME NEW g, NEW q, MarketServe(g, q)
    PROVE  /\ bal \in Balances /\ MarketTables(market) /\ MarketRequest(q, market, bal) /\ SaleHeld(q) \in Nat /\ g \in AllThreads
           /\ \A h \in Handlers : req[h].op # "none" => g = h /\ h \in AllThreads /\ req[h] = q /\ q # NoRequest /\ IsRequest(q)
<1>1. /\ bal \in Balances /\ MarketTables(market) /\ MarketRequest(q, market, bal) /\ g \in AllThreads
      /\ SaleHeld(q) \in Nat
  BY SaleHeldType DEF MarketServe
<1>2. ASSUME NEW h \in Handlers, req[h].op # "none"
      PROVE  g = h /\ h \in AllThreads /\ req[h] = q /\ q # NoRequest /\ IsRequest(q)
  <2>1. g = h /\ h \in AllThreads /\ req[h] = q
    BY <1>2, OnlyAt, HandlersAreThreads DEF MarketServe
  <2>2. q # NoRequest
    BY <1>2, <2>1 DEF NoRequest
  <2>. QED  BY <2>1, <2>2, <1>1 DEF MarketRequest
<1>. QED  BY <1>1, <1>2

LEMMA MarketMoved ==
    ASSUME NEW q, NEW h \in AllThreads, NEW r, r # NoRequest => h \in Handlers, req' = Only(h, r),
           bal' \in Balances, MarketTables(market'), MarketRequest(r, market', bal'),
           Moves(bal, Single(SaleHeld(q)), bal', Single(SaleHeld(r)))
    PROVE  MarketMove(q)
<1>1. MarketServe(h, r)'
  BY DEF MarketServe
<1>. QED  BY <1>1 DEF MarketMove

\* A request the tables have grown under.
LEMMA MarketRequestStays ==
    ASSUME NEW r, NEW m, NEW n, NEW b, MarketRequest(r, m, b),
           DOMAIN m.tokens \subseteq DOMAIN n.tokens, DOMAIN m.offers \subseteq DOMAIN n.offers
    PROVE  MarketRequest(r, n, b)
BY DEF MarketRequest

\* The tables change and the request that runs, if any, goes on.
LEMMA MarketStays ==
    ASSUME NEW g, NEW q, MarketServe(g, q), req' = req, bal' = bal, MarketTables(market'),
           DOMAIN market.tokens \subseteq DOMAIN market'.tokens, DOMAIN market.offers \subseteq DOMAIN market'.offers
    PROVE  MarketMove(q)
<1>1. MarketRequest(q, market', bal)
  BY MarketRequestStays DEF MarketServe
<1>2. Moves(bal, Single(SaleHeld(q)), bal, Single(SaleHeld(q)))
  BY DEF Moves
<1>. QED  BY <1>1, <1>2, MarketMoved DEF MarketServe

\* A request begins that has taken nothing yet.
LEMMA MarketBegins ==
    ASSUME mode = "serial", NEW g, NEW q, MarketServe(g, q), NEW h \in Handlers, NEW r, Begins(h, r), bal' = bal,
           MarketTables(market'), MarketRequest(r, market', bal), r.step = "debit"
    PROVE  MarketMove(q)
<1>1. req' = Only(h, r) /\ q = NoRequest /\ h \in AllThreads
  BY OnlyBegins, HandlersAreThreads DEF MarketServe
<1>2. q.op = "none"
  BY <1>1 DEF NoRequest
<1>3. SaleHeld(q) = 0 /\ SaleHeld(r) = 0
  BY <1>2 DEF SaleHeld
<1>4. Moves(bal, Single(SaleHeld(q)), bal', Single(SaleHeld(r)))
  BY <1>3 DEF Moves
<1>. QED  BY <1>1, <1>4, MarketMoved DEF MarketServe

\* A request ends that has paid out what it took.
LEMMA MarketEnds ==
    ASSUME NEW g, NEW q, MarketServe(g, q), NEW h \in Handlers, req[h].op # "none", Ends(h), bal' = bal, MarketTables(market'),
           SaleHeld(q) = 0
    PROVE  MarketMove(q)
<1>1. g = h /\ h \in AllThreads
  BY MarketServed
<1>2. req' = Only(h, NoRequest)
  BY <1>1, OnlyEnds DEF MarketServe
<1>3. NoRequest.op = "none"
  BY DEF NoRequest
<1>4. SaleHeld(NoRequest) = 0
  BY <1>3 DEF SaleHeld
<1>5. Moves(bal, Single(SaleHeld(q)), bal', Single(SaleHeld(NoRequest)))
  BY <1>4 DEF Moves
<1>6. MarketRequest(NoRequest, market', bal')
  BY DEF MarketRequest
<1>. QED  BY <1>1, <1>2, <1>5, <1>6, MarketMoved DEF MarketServe

\* A request goes on to its next step, with balances c.
LEMMA MarketGoes ==
    ASSUME NEW g, NEW q, MarketServe(g, q), NEW h \in Handlers, req[h].op # "none", NEW step, Goes(h, step), step # "debit",
           step = "close" => q.id[2] # 0, bal' \in Balances, MarketTables(market'),
           DOMAIN market.tokens \subseteq DOMAIN market'.tokens, DOMAIN market.offers \subseteq DOMAIN market'.offers,
           \A r : r.op = q.op /\ r.step = step /\ r.amt = q.amt => Moves(bal, Single(SaleHeld(q)), bal', Single(SaleHeld(r)))
    PROVE  MarketMove(q)
<1>1. g = h /\ h \in AllThreads /\ IsRequest(q) /\ q # NoRequest /\ MarketRequest(q, market, bal)
  BY MarketServed
<1>. DEFINE r == Request(q.op, step, q.id, q.user, q.amt)
<1>2. req' = Only(h, r)
  BY <1>1, OnlyGoes DEF MarketServe
<1>3. IsRequest(r) /\ r.op = q.op /\ r.step = step /\ r.id = q.id /\ r.user = q.user /\ r.amt = q.amt
  BY <1>1, RequestIs DEF IsRequest
<1>. HIDE DEF r
<1>4. MarketRequest(r, market', bal')
  BY <1>1, <1>3 DEF MarketRequest
<1>. QED  BY <1>1, <1>2, <1>3, <1>4, MarketMoved

-----------------------------------------------------------------------------

LEMMA MintMoves ==
    ASSUME mode = "serial", NEW g, NEW q, MarketServe(g, q), NEW h \in Handlers, PostNftMint(h)
    PROVE  MarketMove(q)
<1>1. PICK t \in Tokens, u \in Users, x \in Amounts \cup {0} : Mint(h, t, u, x)
  BY DEF PostNftMint
<1>. DEFINE r == Request("mint", "debit", <<t, 0>>, u, x)
<1>2. Begins(h, r) /\ bal' = bal /\ market' = market /\ bal[u] >= MintFee
  BY <1>1 DEF Mint
<1>3. IsRequest(r) /\ r.op = "mint" /\ r.step = "debit" /\ r.user = u /\ r.amt = x
  BY RequestIs
<1>. HIDE DEF r
<1>4. u \in DOMAIN Funds /\ x \in Prices /\ MintFee <= bal[u] /\ MarketTables(market)
  <2>1. bal[u] \in Nat /\ MintFee \in Nat /\ u \in DOMAIN Funds
    BY ServicesAssumption, MarketAssumption DEF MarketServe, Balances
  <2>. QED  BY <2>1, <1>2 DEF Prices, MarketServe
<1>5. MarketRequest(r, market', bal)
  BY <1>2, <1>3, <1>4 DEF MarketRequest
<1>. QED  BY <1>2, <1>3, <1>4, <1>5, MarketBegins

LEMMA MintDebitMoves ==
    ASSUME NEW g, NEW q, MarketServe(g, q), NEW h \in Handlers, MintDebit(h)
    PROVE  MarketMove(q)
<1>1. req[h].op = "mint" /\ req[h].step = "debit"
  BY DEF MintDebit, At
<1>2. req[h].op # "none"
  BY <1>1
<1>3. /\ bal \in Balances /\ MarketTables(market) /\ MarketRequest(q, market, bal) /\ SaleHeld(q) \in Nat
      /\ g = h /\ req[h] = q /\ q # NoRequest
  BY <1>2, MarketServed
<1>4. q.user \in DOMAIN Funds /\ MintFee <= bal[q.user] /\ MintFee \in Nat
  BY <1>1, <1>3, MarketAssumption DEF MarketRequest
<1>5. bal' = [bal EXCEPT ![q.user] = @ - MintFee] /\ bal' \in Balances
  BY <1>3, <1>4, Debited DEF MintDebit
<1>6. SaleHeld(q) = 0 /\ \A r : r.op = q.op => SaleHeld(r) = 0
  BY <1>1, <1>3 DEF SaleHeld
<1>7. Moves(bal, Single(0), [bal EXCEPT ![q.user] = @ - MintFee], Single(0))
  BY <1>3, <1>4, SingleTakes
<1>8. \A r : r.op = q.op /\ r.step = "save" /\ r.amt = q.amt => Moves(bal, Single(SaleHeld(q)), bal', Single(SaleHeld(r)))
  BY <1>5, <1>6, <1>7
<1>9. Goes(h, "save") /\ market' = market
  BY DEF MintDebit
<1>. QED  BY <1>2, <1>3, <1>5, <1>8, <1>9, MarketGoes

LEMMA MintSaveMoves ==
    ASSUME NEW g, NEW q, MarketServe(g, q), NEW h \in Handlers, MintSave(h)
    PROVE  MarketMove(q)
<1>1. req[h].op = "mint" /\ req[h].step = "save"
  BY DEF MintSave, At
<1>2. req[h].op # "none"
  BY <1>1
<1>3. MarketTables(market) /\ MarketRequest(q, market, bal) /\ req[h] = q /\ q # NoRequest
  BY <1>2, MarketServed
<1>4. Token(q.user, q.amt) \in TokenRows
  <2>1. q.user \in DOMAIN Funds /\ q.amt \in Prices
    BY <1>1, <1>3 DEF MarketRequest
  <2>. QED  BY <2>1 DEF Token, TokenRows
<1>5. SaveMarket("tokens", q.id[1], Token(q.user, q.amt)) /\ Ends(h) /\ bal' = bal
  BY <1>3 DEF MintSave
<1>6. MarketTables(market')
  BY <1>3, <1>4, <1>5, TokenSaved
<1>7. SaleHeld(q) = 0
  BY <1>1, <1>3 DEF SaleHeld
<1>. QED  BY <1>2, <1>5, <1>6, <1>7, MarketEnds

\* A token that changes its owner or its price.
LEMMA TokenChanges ==
    ASSUME MarketTables(market), NEW t \in DOMAIN market.tokens, NEW u \in DOMAIN Funds, NEW x \in Prices
    PROVE  /\ [market.tokens[t] EXCEPT !.price = x, !.forSale = TRUE] \in TokenRows
           /\ HandedOver(t, u) \in TokenRows
<1>1. market.tokens[t] \in TokenRows
  BY DEF MarketTables
<1>. QED  BY <1>1 DEF TokenRows, HandedOver

LEMMA ListMoves ==
    ASSUME NEW g, NEW q, MarketServe(g, q), PostNftList \/ PostNftTransfer
    PROVE  MarketMove(q)
<1>0. MarketTables(market)
  BY MarketServed
<1>1. ASSUME NEW t \in DOMAIN market.tokens, NEW x \in TokenRows, SaveMarket("tokens", t, x), UNCHANGED <<bal, req, items>>
      PROVE  MarketMove(q)
  BY <1>0, <1>1, TokenSaved, MarketStays
<1>2. CASE PostNftList
  <2>1. PICK t \in DOMAIN market.tokens, u \in Users, x \in Amounts : ListForSale(t, u, x)
    BY <1>2 DEF PostNftList
  <2>2. x \in Prices
    BY DEF Prices
  <2>3. [market.tokens[t] EXCEPT !.price = x, !.forSale = TRUE] \in TokenRows
    BY <1>0, <2>2, TokenChanges, MarketAssumption
  <2>. QED  BY <1>1, <2>1, <2>3 DEF ListForSale
<1>3. CASE PostNftTransfer
  <2>1. PICK t \in DOMAIN market.tokens, u \in Users, v \in Users : TransferToken(t, u, v)
    BY <1>3 DEF PostNftTransfer
  <2>2. v \in DOMAIN Funds /\ 0 \in Prices
    BY ServicesAssumption DEF Prices
  <2>3. HandedOver(t, v) \in TokenRows
    BY <1>0, <2>2, TokenChanges
  <2>. QED  BY <1>1, <2>1, <2>3 DEF TransferToken
<1>. QED  BY <1>2, <1>3

LEMMA OfferMoves ==
    ASSUME NEW g, NEW q, MarketServe(g, q), PostNftOffer
    PROVE  MarketMove(q)
<1>0. MarketTables(market)
  BY MarketServed
<1>1. PICK t \in DOMAIN market.tokens, u \in Users, x \in Amounts : MakeOffer(t, u, x)
  BY DEF PostNftOffer
<1>. DEFINE o == [token |-> t, bidder |-> u, price |-> x, status |-> "pending"]
<1>2. SaveMarket("offers", items + 1, o) /\ UNCHANGED <<bal, req>>
  BY <1>1 DEF MakeOffer
<1>3. o \in OfferRows(DOMAIN market.tokens)
  BY ServicesAssumption DEF OfferRows, Prices
<1>. HIDE DEF o
<1>. QED  BY <1>0, <1>2, <1>3, OfferSaved, MarketStays

LEMMA AuctionMoves ==
    ASSUME NEW g, NEW q, MarketServe(g, q),
           PostNftAuction \/ PostNftBid \/ \E a \in DOMAIN market.auctions : AuctionTimeOver(a)
    PROVE  MarketMove(q)
<1>0. MarketTables(market)
  BY MarketServed
<1>1. ASSUME NEW i, NEW x \in AuctionRows(DOMAIN market.tokens), SaveMarket("auctions", i, x), UNCHANGED <<bal, req>>
      PROVE  MarketMove(q)
  BY <1>0, <1>1, AuctionSaved, MarketStays
<1>2. CASE PostNftAuction
  <2>1. PICK t \in DOMAIN market.tokens, u \in Users, x \in Amounts, r \in Amounts : CreateAuction(t, u, x, r)
    BY <1>2 DEF PostNftAuction
  <2>. DEFINE a == [token |-> t, seller |-> u, reserve |-> r, bid |-> x, bidder |-> u,
                    bids |-> FALSE, over |-> FALSE, status |-> "active"]
  <2>2. SaveMarket("auctions", items + 1, a) /\ UNCHANGED <<bal, req>>
    BY <2>1 DEF CreateAuction
  <2>3. a \in AuctionRows(DOMAIN market.tokens)
    BY ServicesAssumption DEF AuctionRows, Prices
  <2>. QED  BY <1>1, <2>2, <2>3
<1>3. CASE PostNftBid
  <2>1. PICK a \in DOMAIN market.auctions, u \in Users, x \in Amounts : PlaceBid(a, u, x)
    BY <1>3 DEF PostNftBid
  <2>. DEFINE auction == market.auctions[a]
              e == [auction EXCEPT !.status = "ended"]
              f == [auction EXCEPT !.bid = x, !.bidder = u, !.bids = TRUE]
  <2>2. auction \in AuctionRows(DOMAIN market.tokens) /\ u \in DOMAIN Funds /\ x \in Prices
    BY <1>0, ServicesAssumption DEF MarketTables, Prices
  <2>3. (SaveMarket("auctions", a, e) \/ SaveMarket("auctions", a, f)) /\ UNCHANGED <<bal, req>>
    BY <2>1 DEF PlaceBid
  <2>4. e \in AuctionRows(DOMAIN market.tokens) /\ f \in AuctionRows(DOMAIN market.tokens)
    <3>. HIDE DEF auction
    <3>. QED  BY <2>2 DEF AuctionRows
  <2>. HIDE DEF e, f
  <2>. QED  BY <1>1, <2>3, <2>4
<1>4. CASE \E a \in DOMAIN market.auctions : AuctionTimeOver(a)
  <2>1. PICK a \in DOMAIN market.auctions : AuctionTimeOver(a)
    BY <1>4
  <2>. DEFINE auction == market.auctions[a]
              e == [auction EXCEPT !.over = TRUE]
  <2>2. auction \in AuctionRows(DOMAIN market.tokens)
    BY <1>0 DEF MarketTables
  <2>3. SaveMarket("auctions", a, e) /\ UNCHANGED <<bal, req>>
    BY <2>1 DEF AuctionTimeOver
  <2>4. e \in AuctionRows(DOMAIN market.tokens)
    <3>. HIDE DEF auction
    <3>. QED  BY <2>2 DEF AuctionRows
  <2>. HIDE DEF e
  <2>. QED  BY <1>1, <2>3, <2>4
<1>. QED  BY <1>2, <1>3, <1>4

\* A sale begins for a price the buyer has.
LEMMA SaleBegins ==
    ASSUME mode = "serial", NEW g, NEW q, MarketServe(g, q), NEW h \in Handlers, bal' = bal, MarketTables(market'),
           NEW t \in DOMAIN market'.tokens, NEW u \in DOMAIN Funds, NEW v \in DOMAIN Funds, NEW x \in Prices, NEW o,
           o = 0 \/ o \in DOMAIN market'.offers, BeginSale(h, t, u, v, x, o)
    PROVE  MarketMove(q)
<1>. DEFINE r == Request("sale", "debit", <<t, o>>, <<u, v>>, x)
<1>1. Begins(h, r) /\ bal[u] >= x
  BY DEF BeginSale
<1>2. IsRequest(r) /\ r.op = "sale" /\ r.step = "debit" /\ r.id = <<t, o>> /\ r.user = <<u, v>> /\ r.amt = x
  BY RequestIs
<1>. HIDE DEF r
<1>3. r.id[1] = t /\ r.id[2] = o /\ r.user[1] = u /\ r.user[2] = v
  BY <1>2
<1>4. x <= bal[u]
  <2>1. x \in Nat /\ bal[u] \in Nat
    BY PricesAre DEF MarketServe, Balances
  <2>. QED  BY <1>1, <2>1
<1>5. MarketRequest(r, market', bal)
  BY <1>2, <1>3, <1>4 DEF MarketRequest
<1>. QED  BY <1>1, <1>2, <1>5, MarketBegins

LEMMA BuyMoves ==
    ASSUME mode = "serial", NEW g, NEW q, MarketServe(g, q), NEW h \in Handlers, PostNftBuy(h)
    PROVE  MarketMove(q)
<1>0. MarketTables(market)
  BY MarketServed
<1>1. PICK t \in DOMAIN market.tokens, u \in Users : Buy(h, t, u)
  BY DEF PostNftBuy
<1>2. market.tokens[t].owner \in DOMAIN Funds /\ market.tokens[t].price \in Prices /\ u \in DOMAIN Funds
  BY <1>0, ServicesAssumption DEF MarketTables, TokenRows
<1>3. BeginSale(h, t, u, market.tokens[t].owner, market.tokens[t].price, 0) /\ bal' = bal /\ market' = market
  BY <1>1 DEF Buy
<1>. QED  BY <1>0, <1>2, <1>3, SaleBegins

LEMMA AcceptOfferMoves ==
    ASSUME mode = "serial", NEW g, NEW q, MarketServe(g, q), NEW h \in Handlers, PostNftAcceptOffer(h)
    PROVE  MarketMove(q)
<1>0. MarketTables(market)
  BY MarketServed
<1>1. PICK o \in DOMAIN market.offers, u \in Users : AcceptOffer(h, o, u)
  BY DEF PostNftAcceptOffer
<1>. DEFINE offer == market.offers[o]
<1>2. offer.token \in DOMAIN market.tokens /\ offer.bidder \in DOMAIN Funds /\ offer.price \in Prices /\ u \in DOMAIN Funds
  BY <1>0, ServicesAssumption DEF MarketTables, OfferRows
<1>3. BeginSale(h, offer.token, offer.bidder, u, offer.price, o) /\ bal' = bal /\ market' = market
  BY <1>1 DEF AcceptOffer
<1>. HIDE DEF offer
<1>. QED  BY <1>0, <1>2, <1>3, SaleBegins

LEMMA FinalizeAuctionMoves ==
    ASSUME mode = "serial", NEW g, NEW q, MarketServe(g, q), NEW h \in Handlers, PostNftFinalizeAuction(h)
    PROVE  MarketMove(q)
<1>0. MarketTables(market)
  BY MarketServed
<1>1. PICK a \in DOMAIN market.auctions : FinalizeAuction(h, a)
  BY DEF PostNftFinalizeAuction
<1>. DEFINE auction == market.auctions[a]
            v == market.tokens[auction.token].owner
<1>2. auction \in AuctionRows(DOMAIN market.tokens)
  BY <1>0 DEF MarketTables
<1>3. PICK status \in {"finalized", "settlement_failed"} :
        /\ SaveMarket("auctions", a, [auction EXCEPT !.status = status]) /\ bal' = bal
        /\ BeginSale(h, auction.token, auction.bidder, v, auction.bid, 0) \/ req' = req
  BY <1>1 DEF FinalizeAuction, PaidForAuction
<1>4. auction.token \in DOMAIN market.tokens /\ auction.bidder \in DOMAIN Funds /\ auction.bid \in Prices
  <2>. HIDE DEF auction
  <2>. QED  BY <1>2 DEF AuctionRows
<1>5. v \in DOMAIN Funds
  BY <1>0, <1>4 DEF MarketTables, TokenRows
<1>6. [auction EXCEPT !.status = status] \in AuctionRows(DOMAIN market.tokens)
  <2>. HIDE DEF auction
  <2>. QED  BY <1>2 DEF AuctionRows
<1>. HIDE DEF auction, v
<1>7. MarketTables(market') /\ market'.tokens = market.tokens /\ market'.offers = market.offers
  BY <1>0, <1>3, <1>6, AuctionSaved
<1>. QED  BY <1>3, <1>4, <1>5, <1>7, SaleBegins, MarketStays

LEMMA SaleDebitMoves ==
    ASSUME NEW g, NEW q, MarketServe(g, q), NEW h \in Handlers, SaleDebit(h)
    PROVE  MarketMove(q)
<1>1. req[h].op = "sale" /\ req[h].step = "debit"
  BY DEF SaleDebit, At
<1>2. req[h].op # "none"
  BY <1>1
<1>3. /\ bal \in Balances /\ MarketTables(market) /\ MarketRequest(q, market, bal)
      /\ g = h /\ req[h] = q /\ q # NoRequest
  BY <1>2, MarketServed
<1>4. q.user[1] \in DOMAIN Funds /\ q.amt <= bal[q.user[1]] /\ q.amt \in Nat
  BY <1>1, <1>3, PricesAre DEF MarketRequest
<1>5. bal' = [bal EXCEPT ![q.user[1]] = @ - q.amt] /\ bal' \in Balances
  BY <1>3, <1>4, Debited DEF SaleDebit
<1>6. SaleHeld(q) = 0 /\ \A r : r.op = q.op /\ r.step = "pay" /\ r.amt = q.amt => SaleHeld(r) = q.amt
  BY <1>1, <1>3 DEF SaleHeld
<1>7. Moves(bal, Single(0), [bal EXCEPT ![q.user[1]] = @ - q.amt], Single(q.amt))
  BY <1>3, <1>4, SingleTakes
<1>8. \A r : r.op = q.op /\ r.step = "pay" /\ r.amt = q.amt => Moves(bal, Single(SaleHeld(q)), bal', Single(SaleHeld(r)))
  BY <1>5, <1>6, <1>7
<1>9. Goes(h, "pay") /\ market' = market
  BY DEF SaleDebit
<1>. QED  BY <1>2, <1>3, <1>5, <1>8, <1>9, MarketGoes

LEMMA SalePayMoves ==
    ASSUME NEW g, NEW q, MarketServe(g, q), NEW h \in Handlers, SalePay(h)
    PROVE  MarketMove(q)
<1>1. req[h].op = "sale" /\ req[h].step = "pay"
  BY DEF SalePay, At
<1>2. req[h].op # "none"
  BY <1>1
<1>3. /\ bal \in Balances /\ MarketTables(market) /\ MarketRequest(q, market, bal)
      /\ g = h /\ req[h] = q /\ q # NoRequest
  BY <1>2, MarketServed
<1>. DEFINE y == Royalty(q.amt)
            x == q.amt - y
<1>4. q.user[2] \in DOMAIN Funds /\ q.amt \in Nat /\ y \in Nat /\ x \in Nat /\ q.amt = y + x
  <2>1. q.user[2] \in DOMAIN Funds /\ q.amt \in Nat /\ y \in Nat /\ y <= q.amt
    BY <1>1, <1>3, PricesAre DEF MarketRequest
  <2>. QED  BY <2>1
<1>5. UpdateBalance(q.user[2], x) /\ Goes(h, "royalty") /\ market' = market
  BY <1>3 DEF SalePay
<1>6. SaleHeld(q) = q.amt /\ \A r : r.op = q.op /\ r.step = "royalty" /\ r.amt = q.amt => SaleHeld(r) = y
  BY <1>1, <1>3 DEF SaleHeld
<1>. HIDE DEF x, y
<1>7. bal' = [bal EXCEPT ![q.user[2]] = @ + x] /\ bal' \in Balances
  BY <1>3, <1>4, <1>5, Credited
<1>8. Moves(bal, Single(q.amt), [bal EXCEPT ![q.user[2]] = @ + x], Single(y))
  BY <1>3, <1>4, SingleGives
<1>9. \A r : r.op = q.op /\ r.step = "royalty" /\ r.amt = q.amt => Moves(bal, Single(SaleHeld(q)), bal', Single(SaleHeld(r)))
  BY <1>6, <1>7, <1>8
<1>. QED  BY <1>2, <1>3, <1>5, <1>7, <1>9, MarketGoes

LEMMA SaleRoyaltyMoves ==
    ASSUME NEW g, NEW q, MarketServe(g, q), NEW h \in Handlers, SaleRoyalty(h)
    PROVE  MarketMove(q)
<1>1. req[h].op = "sale" /\ req[h].step = "royalty"
  BY DEF SaleRoyalty, At
<1>2. req[h].op # "none"
  BY <1>1
<1>3. /\ bal \in Balances /\ MarketTables(market) /\ MarketRequest(q, market, bal)
      /\ g = h /\ req[h] = q /\ q # NoRequest
  BY <1>2, MarketServed
<1>. DEFINE y == Royalty(q.amt)
            c == market.tokens[q.id[1]].creator
<1>4. c \in DOMAIN Funds /\ y \in Nat
  <2>1. q.id[1] \in DOMAIN market.tokens /\ q.amt \in Prices
    BY <1>1, <1>3 DEF MarketRequest
  <2>. QED  BY <2>1, <1>3, PricesAre DEF MarketTables, TokenRows
<1>5. Goes(h, "hand") /\ market' = market /\ (bal' = bal \/ UpdateBalance(c, y))
  BY <1>3 DEF SaleRoyalty
<1>6. SaleHeld(q) = y /\ \A r : r.op = q.op /\ r.step = "hand" /\ r.amt = q.amt => SaleHeld(r) = 0
  BY <1>1, <1>3 DEF SaleHeld
<1>. HIDE DEF c, y
<1>7. bal' \in Balances /\ Moves(bal, Single(y), bal', Single(0))
  <2>1. CASE bal' = bal
    BY <2>1, <1>3, <1>4, SingleLoses
  <2>2. CASE UpdateBalance(c, y)
    <3>1. bal' = [bal EXCEPT ![c] = @ + y] /\ bal' \in Balances
      BY <2>2, <1>3, <1>4, Credited
    <3>2. Moves(bal, Single(y), [bal EXCEPT ![c] = @ + y], Single(0))
      BY <1>3, <1>4, SingleGives
    <3>. QED  BY <3>1, <3>2
  <2>. QED  BY <1>5, <2>1, <2>2
<1>8. \A r : r.op = q.op /\ r.step = "hand" /\ r.amt = q.amt => Moves(bal, Single(SaleHeld(q)), bal', Single(SaleHeld(r)))
  BY <1>6, <1>7
<1>. QED  BY <1>2, <1>3, <1>5, <1>7, <1>8, MarketGoes

LEMMA SaleHandMoves ==
    ASSUME NEW g, NEW q, MarketServe(g, q), NEW h \in Handlers, SaleHand(h)
    PROVE  MarketMove(q)
<1>1. req[h].op = "sale" /\ req[h].step = "hand"
  BY DEF SaleHand, At
<1>2. req[h].op # "none"
  BY <1>1
<1>3. MarketTables(market) /\ MarketRequest(q, market, bal) /\ req[h] = q /\ q # NoRequest /\ bal \in Balances
  BY <1>2, MarketServed
<1>4. HandedOver(q.id[1], q.user[1]) \in TokenRows
  <2>1. q.user[1] \in DOMAIN Funds /\ q.id[1] \in DOMAIN market.tokens /\ q.amt \in Prices
    BY <1>1, <1>3 DEF MarketRequest
  <2>. QED  BY <2>1, <1>3, TokenChanges
<1>5. SaveMarket("tokens", q.id[1], HandedOver(q.id[1], q.user[1])) /\ (Ends(h) \/ (Goes(h, "close") /\ q.id[2] # 0)) /\ bal' = bal
  BY <1>3 DEF SaleHand
<1>6. MarketTables(market') /\ DOMAIN market.tokens \subseteq DOMAIN market'.tokens /\ market'.offers = market.offers
  BY <1>3, <1>4, <1>5, TokenSaved
<1>7. SaleHeld(q) = 0 /\ \A r : r.step = "close" => SaleHeld(r) = 0
  BY <1>1, <1>3 DEF SaleHeld
<1>8. \A r : r.op = q.op /\ r.step = "close" /\ r.amt = q.amt => Moves(bal, Single(SaleHeld(q)), bal', Single(SaleHeld(r)))
  BY <1>5, <1>7 DEF Moves
<1>. QED  BY <1>2, <1>3, <1>5, <1>6, <1>7, <1>8, MarketEnds, MarketGoes

LEMMA SaleCloseMoves ==
    ASSUME NEW g, NEW q, MarketServe(g, q), NEW h \in Handlers, SaleClose(h)
    PROVE  MarketMove(q)
<1>1. req[h].op = "sale" /\ req[h].step = "close"
  BY DEF SaleClose, At
<1>2. req[h].op # "none"
  BY <1>1
<1>3. MarketTables(market) /\ MarketRequest(q, market, bal) /\ req[h] = q /\ q # NoRequest
  BY <1>2, MarketServed
<1>. DEFINE o == q.id[2]
            x == [market.offers[o] EXCEPT !.status = "accepted"]
<1>4. SaveMarket("offers", o, x) /\ Ends(h) /\ bal' = bal
  BY <1>3 DEF SaleClose
<1>5. x \in OfferRows(DOMAIN market.tokens)
  <2>1. market.offers[o] \in OfferRows(DOMAIN market.tokens)
    BY <1>1, <1>3 DEF MarketRequest, MarketTables
  <2>. QED  BY <2>1 DEF OfferRows
<1>. HIDE DEF x
<1>6. MarketTables(market')
  BY <1>3, <1>4, <1>5, OfferSaved
<1>7. SaleHeld(q) = 0
  BY <1>1, <1>3 DEF SaleHeld
<1>. QED  BY <1>2, <1>4, <1>6, <1>7, MarketEnds

LEMMA MarketMovesOn ==
    ASSUME mode = "serial", NEW g, NEW q, MarketServe(g, q), MarketNext
    PROVE  MarketMove(q)
<1>1. CASE \E h \in Handlers :
          \/ PostNftMint(h) \/ MintDebit(h) \/ MintSave(h)
          \/ PostNftBuy(h) \/ PostNftAcceptOffer(h) \/ PostNftFinalizeAuction(h)
          \/ SaleDebit(h) \/ SalePay(h) \/ SaleRoyalty(h) \/ SaleHand(h) \/ SaleClose(h)
  BY <1>1, MintMoves, MintDebitMoves, MintSaveMoves, BuyMoves, AcceptOfferMoves, FinalizeAuctionMoves,
     SaleDebitMoves, SalePayMoves, SaleRoyaltyMoves, SaleHandMoves, SaleCloseMoves
<1>2. CASE PostNftList \/ PostNftTransfer
  BY <1>2, ListMoves
<1>3. CASE PostNftOffer
  BY <1>3, OfferMoves
<1>4. CASE PostNftAuction \/ PostNftBid \/ \E a \in DOMAIN market.auctions : AuctionTimeOver(a)
  BY <1>4, AuctionMoves
<1>. QED  BY <1>1, <1>2, <1>3, <1>4 DEF MarketNext

\* One sale at most runs, so that the sum over the threads is what it holds.
MarketView == \A h, r : MarketServe(h, r) => SumFunction([g \in Handlers |-> SaleHolds(g)]) = SaleHeld(r)

LEMMA MarketViewed == MarketView /\ MarketView'
<1>1. MarketView
  <2>. SUFFICES ASSUME NEW h, NEW r, MarketServe(h, r) PROVE SumFunction([g \in Handlers |-> SaleHolds(g)]) = SaleHeld(r)
    BY DEF MarketView
  <2>. DEFINE f == [g \in Handlers |-> SaleHolds(g)]
  <2>1. h \in AllThreads /\ (r # NoRequest => h \in Handlers) /\ req[h] = r /\ SaleHeld(r) \in Nat
    BY OnlyIs, SaleHeldType DEF MarketServe
  <2>2. \A g \in Handlers : g # h => req[g].op = "none"
    BY OnlyIs, HandlersAreThreads DEF MarketServe, NoRequest
  <2>3. \A g \in Handlers : g # h => f[g] = 0
    BY <2>2 DEF SaleHolds, At
  <2>4. h \in Handlers => f[h] = SaleHeld(r)
    BY <2>1 DEF SaleHolds, SaleHeld, At
  <2>5. f = [g \in Handlers |-> f[g]] /\ IsFiniteSet(Handlers)
    BY ServicesAssumption
  <2>8. SumFunction(f) = SaleHeld(r)
    <3>. HIDE DEF f
    <3>1. CASE h \in Handlers
      BY <2>1, <2>3, <2>4, <2>5, <3>1, SumOfOne
    <3>2. CASE h \notin Handlers
      <4>1. r.op = "none"
        BY <2>1, <3>2 DEF NoRequest
      <4>2. SaleHeld(r) = 0
        BY <4>1 DEF SaleHeld
      <4>. QED  BY <2>3, <2>5, <3>2, <4>2, SumOfNone
    <3>. QED  BY <3>1, <3>2
  <2>. QED  BY <2>8
<1>2. MarketView'
  BY <1>1, PTL
<1>. QED  BY <1>1, <1>2

-----------------------------------------------------------------------------
(* Shards *)

\* What the request has taken for the transfer it processes.
CrossHeld(r) == IF r.op = "cross" /\ r.step = "credit" THEN Head(r.id).amount ELSE 0

\* The request has a transfer at hand in every step but the first, and its sender had the coins.
CrossRequest(r, b) ==
    r = NoRequest \/
    /\ IsRequest(r) /\ r.op = "cross" /\ r.id \in Seq(Transfers)
    /\ r.step \in {"next", "debit", "credit", "confirmed", "failed"}
    /\ r.step # "next" => r.id # <<>>
    /\ r.step = "debit" => Head(r.id).amount <= b[Head(r.id).from]

CrossServe(h, r) ==
    /\ h \in AllThreads /\ (r # NoRequest => h \in Handlers) /\ req = Only(h, r)
    /\ bal \in Balances /\ pendingCross \in Seq(Transfers) /\ CrossRequest(r, bal)

CrossMove(q) == \E h, r : CrossServe(h, r)' /\ Moves(bal, Single(CrossHeld(q)), bal', Single(CrossHeld(r)))

LEMMA FirstTransfer ==
    ASSUME NEW s \in Seq(Transfers), s # <<>>
    PROVE  /\ Head(s) \in Transfers /\ Tail(s) \in Seq(Transfers)
           /\ Head(s).amount \in Nat /\ Head(s).from \in DOMAIN Funds /\ Head(s).to \in DOMAIN Funds
<1>1. Head(s) \in Transfers /\ Tail(s) \in Seq(Transfers)
  OBVIOUS
<1>. QED  BY <1>1, ServicesAssumption DEF Transfers

LEMMA CrossHeldType ==
    ASSUME NEW r, NEW b, CrossRequest(r, b)
    PROVE  CrossHeld(r) \in Nat
<1>1. CASE r.op = "cross" /\ r.step = "credit"
  <2>1. r # NoRequest
    BY <1>1 DEF NoRequest
  <2>. QED  BY <1>1, <2>1, FirstTransfer DEF CrossRequest, CrossHeld
<1>2. CASE ~(r.op = "cross" /\ r.step = "credit")
  BY <1>2 DEF CrossHeld
<1>. QED  BY <1>1, <1>2

LEMMA CrossServed ==
    ASSUME NEW g, NEW q, CrossServe(g, q)
    PROVE  /\ bal \in Balances /\ pendingCross \in Seq(Transfers) /\ CrossRequest(q, bal) /\ CrossHeld(q) \in Nat /\ g \in AllThreads
           /\ \A h \in Handlers : req[h].op # "none" => g = h /\ h \in AllThreads /\ req[h] = q /\ q # NoRequest /\ IsRequest(q)
<1>1. bal \in Balances /\ pendingCross \in Seq(Transfers) /\ CrossRequest(q, bal) /\ g \in AllThreads /\ CrossHeld(q) \in Nat
  BY CrossHeldType DEF CrossServe
<1>2. ASSUME NEW h \in Handlers, req[h].op # "none"
      PROVE  g = h /\ h \in AllThreads /\ req[h] = q /\ q # NoRequest /\ IsRequest(q)
  <2>1. g = h /\ h \in AllThreads /\ req[h] = q
    BY <1>2, OnlyAt, HandlersAreThreads DEF CrossServe
  <2>2. q # NoRequest
    BY <1>2, <2>1 DEF NoRequest
  <2>. QED  BY <2>1, <2>2, <1>1 DEF CrossRequest
<1>. QED  BY <1>1, <1>2

LEMMA CrossMoved ==
    ASSUME NEW q, NEW h \in AllThreads, NEW r, r # NoRequest => h \in Handlers, req' = Only(h, r),
           bal' \in Balances, pendingCross' \in Seq(Transfers), CrossRequest(r, bal'),
           Moves(bal, Single(CrossHeld(q)), bal', Single(CrossHeld(r)))
    PROVE  CrossMove(q)
<1>1. CrossServe(h, r)'
  BY DEF CrossServe
<1>. QED  BY <1>1 DEF CrossMove

\* The request ends, or its record becomes r, and no coins move.
LEMMA CrossBecomes ==
    ASSUME NEW g, NEW q, CrossServe(g, q), NEW h \in Handlers, req[h].op # "none", NEW r, req' = Only(h, r),
           bal' = bal, pendingCross' \in Seq(Transfers), CrossRequest(r, bal), CrossHeld(q) = 0, CrossHeld(r) = 0
    PROVE  CrossMove(q)
<1>1. g = h /\ h \in AllThreads
  BY CrossServed
<1>2. Moves(bal, Single(CrossHeld(q)), bal', Single(CrossHeld(r)))
  BY DEF Moves
<1>. QED  BY <1>1, <1>2, CrossMoved DEF CrossServe

LEMMA CrossAddMoves ==
    ASSUME NEW g, NEW q, CrossServe(g, q), PostShardingAddTx
    PROVE  CrossMove(q)
<1>1. PICK t \in Transfers : AddTransaction(t)
  BY DEF PostShardingAddTx
<1>2. UNCHANGED <<bal, req>> /\ (pendingCross' = pendingCross \/ pendingCross' = Append(pendingCross, t))
  BY <1>1 DEF AddTransaction
<1>3. pendingCross' \in Seq(Transfers)
  BY <1>2 DEF CrossServe
<1>4. Moves(bal, Single(CrossHeld(q)), bal, Single(CrossHeld(q)))
  BY DEF Moves
<1>. QED  BY <1>2, <1>3, <1>4, CrossMoved DEF CrossServe

LEMMA CrossBeginMoves ==
    ASSUME mode = "serial", NEW g, NEW q, CrossServe(g, q), NEW h \in Handlers, ProcessCross(h)
    PROVE  CrossMove(q)
<1>. DEFINE r == Request("cross", "next", pendingCross, "none", 0)
<1>1. Begins(h, r) /\ bal' = bal /\ pendingCross' = pendingCross
  BY DEF ProcessCross
<1>2. IsRequest(r) /\ r.op = "cross" /\ r.step = "next" /\ r.id = pendingCross
  BY RequestIs
<1>. HIDE DEF r
<1>3. req' = Only(h, r) /\ q = NoRequest /\ h \in AllThreads
  BY <1>1, OnlyBegins, HandlersAreThreads DEF CrossServe
<1>4. q.op = "none"
  BY <1>3 DEF NoRequest
<1>5. CrossHeld(q) = 0 /\ CrossHeld(r) = 0
  BY <1>2, <1>4 DEF CrossHeld
<1>6. CrossRequest(r, bal) /\ bal \in Balances /\ pendingCross \in Seq(Transfers)
  BY <1>2 DEF CrossRequest, CrossServe
<1>7. Moves(bal, Single(CrossHeld(q)), bal', Single(CrossHeld(r)))
  BY <1>1, <1>5 DEF Moves
<1>. QED  BY <1>1, <1>3, <1>6, <1>7, CrossMoved

\* The record of a request after its step and its list were assigned.
GoesWith(h, step, id) == req' = [req EXCEPT ![h].step = step, ![h].id = id]

LEMMA OnlyGoesWith ==
    ASSUME NEW h \in AllThreads, NEW q, req = Only(h, q), IsRequest(q), NEW step, NEW id, GoesWith(h, step, id)
    PROVE  req' = Only(h, Request(q.op, step, id, q.user, q.amt))
<1>1. req[h] = q
  BY OnlyIs
<1>2. q = Request(q.op, q.step, q.id, q.user, q.amt)
  BY DEF IsRequest
<1>. DEFINE m == [q EXCEPT !.step = step, !.id = id]
<1>3. m = Request(q.op, step, id, q.user, q.amt)
  <2>. DEFINE k == [q EXCEPT !.step = step]
  <2>1. k = Request(q.op, step, q.id, q.user, q.amt)
    BY <1>2 DEF Request
  <2>2. m = [k EXCEPT !.id = id]
    OBVIOUS
  <2>. HIDE DEF k, m
  <2>3. [k EXCEPT !.id = id] = Request(q.op, step, id, q.user, q.amt)
    BY <2>1 DEF Request
  <2>. QED  BY <2>2, <2>3
<1>4. req' = [req EXCEPT ![h] = m]
  BY <1>1 DEF GoesWith
<1>. HIDE DEF m
<1>. QED  BY <1>3, <1>4, OnlyBecomes

LEMMA CrossNextMoves ==
    ASSUME NEW g, NEW q, CrossServe(g, q), NEW h \in Handlers, CrossNext(h)
    PROVE  CrossMove(q)
<1>1. req[h].op = "cross" /\ req[h].step = "next" /\ bal' = bal /\ pendingCross' = pendingCross
  BY DEF CrossNext, At
<1>2. req[h].op # "none"
  BY <1>1
<1>3. /\ bal \in Balances /\ pendingCross \in Seq(Transfers) /\ CrossRequest(q, bal) /\ h \in AllThreads
      /\ g = h /\ req[h] = q /\ q # NoRequest /\ IsRequest(q) /\ req = Only(h, q)
  BY <1>2, CrossServed DEF CrossServe
<1>4. CrossHeld(q) = 0
  BY <1>1, <1>3 DEF CrossHeld
<1>5. CASE q.id = <<>>
  <2>0. Ends(h)
    BY <1>3, <1>5 DEF CrossNext, Ends
  <2>1. req' = Only(h, NoRequest)
    BY <1>3, <2>0, OnlyEnds
  <2>2. NoRequest.op = "none"
    BY DEF NoRequest
  <2>3. CrossHeld(NoRequest) = 0 /\ CrossRequest(NoRequest, bal)
    BY <2>2 DEF CrossHeld, CrossRequest
  <2>. QED  BY <1>1, <1>2, <1>3, <1>4, <2>1, <2>3, CrossBecomes
<1>6. CASE q.id # <<>>
  <2>. DEFINE step == IF ValidCross(Head(q.id)) THEN "debit" ELSE "failed"
              r == Request(q.op, step, q.id, q.user, q.amt)
  <2>1. req' = Only(h, r)
    <3>1. Goes(h, step)
      BY <1>3, <1>6 DEF CrossNext, Goes
    <3>. HIDE DEF step
    <3>. QED  BY <3>1, <1>3, OnlyGoes
  <2>2. step \in {"debit", "failed"} /\ (step = "debit" => ValidCross(Head(q.id)))
    OBVIOUS
  <2>. HIDE DEF step
  <2>3. IsRequest(r) /\ r.op = "cross" /\ r.step = step /\ r.id = q.id
    BY <1>1, <1>3, RequestIs DEF IsRequest
  <2>. HIDE DEF r
  <2>4. q.id \in Seq(Transfers)
    BY <1>3 DEF CrossRequest
  <2>5. step = "debit" => Head(q.id).amount <= bal[Head(q.id).from]
    <3>1. Head(q.id).amount \in Nat /\ Head(q.id).from \in DOMAIN Funds
      BY <1>6, <2>4, FirstTransfer
    <3>2. bal[Head(q.id).from] \in Nat
      BY <1>3, <3>1 DEF Balances
    <3>. QED  BY <2>2, <3>1, <3>2 DEF ValidCross
  <2>6. CrossRequest(r, bal) /\ CrossHeld(r) = 0
    BY <1>6, <2>2, <2>3, <2>4, <2>5 DEF CrossRequest, CrossHeld
  <2>. QED  BY <1>1, <1>2, <1>3, <1>4, <2>1, <2>6, CrossBecomes
<1>. QED  BY <1>5, <1>6

LEMMA CrossDebitMoves ==
    ASSUME NEW g, NEW q, CrossServe(g, q), NEW h \in Handlers, CrossDebit(h) \/ CrossCredit(h)
    PROVE  CrossMove(q)
<1>1. req[h].op = "cross" /\ req[h].step \in {"debit", "credit"} /\ pendingCross' = pendingCross
  BY DEF CrossDebit, CrossCredit, At
<1>2. req[h].op # "none"
  BY <1>1
<1>3. /\ bal \in Balances /\ pendingCross \in Seq(Transfers) /\ CrossRequest(q, bal) /\ h \in AllThreads
      /\ g = h /\ req[h] = q /\ q # NoRequest /\ IsRequest(q) /\ req = Only(h, q)
  BY <1>2, CrossServed DEF CrossServe
<1>. DEFINE t == Head(q.id)
            x == t.amount
<1>4. q.id \in Seq(Transfers) /\ q.id # <<>>
  BY <1>1, <1>3 DEF CrossRequest
<1>5. x \in Nat /\ t.from \in DOMAIN Funds /\ t.to \in DOMAIN Funds
  BY <1>4, FirstTransfer
<1>6. CASE CrossDebit(h)
  <2>. DEFINE r == Request(q.op, "credit", q.id, q.user, q.amt)
  <2>1. req[h].step = "debit" /\ UpdateBalance(t.from, -x) /\ Goes(h, "credit")
    BY <1>3, <1>6 DEF CrossDebit, At
  <2>2. req' = Only(h, r)
    BY <1>3, <2>1, OnlyGoes
  <2>3. IsRequest(r) /\ r.op = "cross" /\ r.step = "credit" /\ r.id = q.id
    BY <1>1, <1>3, RequestIs DEF IsRequest
  <2>. HIDE DEF r
  <2>4. x <= bal[t.from]
    BY <1>3, <2>1 DEF CrossRequest
  <2>5. CrossHeld(q) = 0 /\ CrossHeld(r) = x
    BY <1>3, <2>1, <2>3 DEF CrossHeld
  <2>. HIDE DEF t, x
  <2>6. bal' = [bal EXCEPT ![t.from] = @ - x] /\ bal' \in Balances
    BY <1>3, <1>5, <2>1, <2>4, Debited
  <2>7. Moves(bal, Single(0), [bal EXCEPT ![t.from] = @ - x], Single(x))
    BY <1>3, <1>5, <2>4, SingleTakes
  <2>8. CrossRequest(r, bal')
    BY <1>4, <2>3 DEF CrossRequest
  <2>. QED  BY <1>1, <1>3, <2>2, <2>5, <2>6, <2>7, <2>8, CrossMoved
<1>7. CASE CrossCredit(h)
  <2>. DEFINE r == Request(q.op, "confirmed", q.id, q.user, q.amt)
  <2>1. req[h].step = "credit" /\ UpdateBalance(t.to, x) /\ Goes(h, "confirmed")
    BY <1>3, <1>7 DEF CrossCredit, At
  <2>2. req' = Only(h, r)
    BY <1>3, <2>1, OnlyGoes
  <2>3. IsRequest(r) /\ r.op = "cross" /\ r.step = "confirmed" /\ r.id = q.id
    BY <1>1, <1>3, RequestIs DEF IsRequest
  <2>. HIDE DEF r
  <2>5. CrossHeld(q) = x /\ CrossHeld(r) = 0
    BY <1>1, <1>3, <2>1, <2>3 DEF CrossHeld
  <2>. HIDE DEF t, x
  <2>6. bal' = [bal EXCEPT ![t.to] = @ + x] /\ bal' \in Balances
    BY <1>3, <1>5, <2>1, Credited
  <2>7. Moves(bal, Single(x), [bal EXCEPT ![t.to] = @ + x], Single(0))
    BY <1>3, <1>5, SingleGives
  <2>8. CrossRequest(r, bal')
    BY <1>4, <2>3 DEF CrossRequest
  <2>. QED  BY <1>1, <1>3, <2>2, <2>5, <2>6, <2>7, <2>8, CrossMoved
<1>. QED  BY <1>6, <1>7

LEMMA CrossRemoveMoves ==
    ASSUME NEW g, NEW q, CrossServe(g, q), NEW h \in Handlers, CrossRemove(h)
    PROVE  CrossMove(q)
<1>1. req[h].op = "cross" /\ req[h].step \in {"confirmed", "failed"} /\ bal' = bal
  BY DEF CrossRemove
<1>2. req[h].op # "none"
  BY <1>1
<1>3. /\ bal \in Balances /\ pendingCross \in Seq(Transfers) /\ CrossRequest(q, bal) /\ h \in AllThreads
      /\ g = h /\ req[h] = q /\ q # NoRequest /\ IsRequest(q) /\ req = Only(h, q)
  BY <1>2, CrossServed DEF CrossServe
<1>4. q.id \in Seq(Transfers) /\ q.id # <<>> /\ CrossHeld(q) = 0
  BY <1>1, <1>3 DEF CrossRequest, CrossHeld
<1>. DEFINE t == Head(q.id)
            at == {i \in DOMAIN pendingCross : pendingCross[i] = t}
            first == CHOOSE i \in at : \A j \in at : i <= j
            rest == [i \in 1..Len(pendingCross) - 1 |-> pendingCross[IF i < first THEN i ELSE i + 1]]
            r == Request(q.op, "next", Tail(q.id), q.user, q.amt)
<1>5. CASE at = {}
  <2>0. pendingCross' = pendingCross /\ Ends(h)
    BY <1>3, <1>5 DEF CrossRemove, Ends
  <2>1. pendingCross' = pendingCross /\ req' = Only(h, NoRequest)
    BY <1>3, <2>0, OnlyEnds
  <2>2. NoRequest.op = "none"
    BY DEF NoRequest
  <2>3. CrossHeld(NoRequest) = 0 /\ CrossRequest(NoRequest, bal)
    BY <2>2 DEF CrossHeld, CrossRequest
  <2>. QED  BY <1>1, <1>2, <1>3, <1>4, <2>1, <2>3, CrossBecomes
<1>6. CASE at # {}
  <2>1. pendingCross' = rest /\ GoesWith(h, "next", Tail(q.id))
    BY <1>3, <1>6 DEF CrossRemove, GoesWith
  <2>2. req' = Only(h, r)
    BY <1>3, <2>1, OnlyGoesWith
  <2>3. IsRequest(r) /\ r.op = "cross" /\ r.step = "next" /\ r.id = Tail(q.id)
    BY <1>1, <1>3, RequestIs DEF IsRequest
  <2>. HIDE DEF r
  <2>4. CrossRequest(r, bal) /\ CrossHeld(r) = 0
    BY <1>4, <2>3, FirstTransfer DEF CrossRequest, CrossHeld
  <2>5. rest \in Seq(Transfers)
    <3>. DEFINE n == Len(pendingCross) - 1
    <3>1. at \subseteq 1..Len(pendingCross) /\ Len(pendingCross) \in Nat /\ at \subseteq Nat
      BY <1>3
    <3>2. first \in Int
      <4>1. \E i \in at : \A j \in at : i <= j
        <5>. HIDE DEF at
        <5>. QED  BY <1>6, <3>1, LeastNat
      <4>2. first \in at
        BY <4>1
      <4>. QED  BY <3>1, <4>2
    <3>3. n \in Nat
      BY <1>6, <3>1
    <3>. HIDE DEF first, at
    <3>4. \A i \in 1..n : pendingCross[IF i < first THEN i ELSE i + 1] \in Transfers
      BY <1>3, <3>2, <3>3
    <3>5. rest \in [1..n -> Transfers]
      BY <3>4
    <3>. QED  BY <3>3, <3>5
  <2>. QED  BY <1>1, <1>2, <1>3, <1>4, <2>1, <2>2, <2>4, <2>5, CrossBecomes
<1>. QED  BY <1>5, <1>6

LEMMA CrossStep ==
    ASSUME mode = "serial", NEW g, NEW q, CrossServe(g, q), ShardsNext
    PROVE  CrossMove(q)
BY CrossAddMoves, CrossBeginMoves, CrossNextMoves, CrossDebitMoves, CrossRemoveMoves DEF ShardsNext, PostShardingProcessCross

CrossView == \A h, r : CrossServe(h, r) => SumFunction([g \in Handlers |-> CrossHolds(g)]) = CrossHeld(r)

LEMMA CrossViewed == CrossView /\ CrossView'
<1>1. CrossView
  <2>. SUFFICES ASSUME NEW h, NEW r, CrossServe(h, r) PROVE SumFunction([g \in Handlers |-> CrossHolds(g)]) = CrossHeld(r)
    BY DEF CrossView
  <2>. DEFINE f == [g \in Handlers |-> CrossHolds(g)]
  <2>1. h \in AllThreads /\ (r # NoRequest => h \in Handlers) /\ req[h] = r /\ CrossHeld(r) \in Nat
    BY OnlyIs, CrossHeldType DEF CrossServe
  <2>2. \A g \in Handlers : g # h => req[g].op = "none"
    BY OnlyIs, HandlersAreThreads DEF CrossServe, NoRequest
  <2>3. \A g \in Handlers : g # h => f[g] = 0
    BY <2>2 DEF CrossHolds, At
  <2>4. h \in Handlers => f[h] = CrossHeld(r)
    BY <2>1 DEF CrossHolds, CrossHeld, At
  <2>5. f = [g \in Handlers |-> f[g]] /\ IsFiniteSet(Handlers)
    BY ServicesAssumption
  <2>8. SumFunction(f) = CrossHeld(r)
    <3>. HIDE DEF f
    <3>1. CASE h \in Handlers
      BY <2>1, <2>3, <2>4, <2>5, <3>1, SumOfOne
    <3>2. CASE h \notin Handlers
      <4>1. r.op = "none"
        BY <2>1, <3>2 DEF NoRequest
      <4>2. CrossHeld(r) = 0
        BY <4>1 DEF CrossHeld
      <4>. QED  BY <2>3, <2>5, <3>2, <4>2, SumOfNone
    <3>. QED  BY <3>1, <3>2
  <2>. QED  BY <2>8
<1>2. CrossView'
  BY <1>1, PTL
<1>. QED  BY <1>1, <1>2

-----------------------------------------------------------------------------
(* WASM contracts and agents *)

\* The owner had the fee when the request looked.
FeeRequest(r, b) ==
    r = NoRequest \/
    /\ IsRequest(r)
    /\ r.op \in {"deploy", "agent"} /\ r.step = "fee" => r.user \in DOMAIN Funds /\ CreateFee <= b[r.user]

FeeServe(h, r) == h \in AllThreads /\ req = Only(h, r) /\ bal \in Balances /\ FeeRequest(r, bal)

FeeMove == \E h, r : FeeServe(h, r)' /\ Moves(bal, Single(0), bal', Single(0))

\* A step that moves no coins and leaves no fee to be taken.
LEMMA FeeBecomes ==
    ASSUME NEW h \in AllThreads, NEW r, req' = Only(h, r), bal \in Balances, bal' = bal, FeeRequest(r, bal)
    PROVE  FeeMove
<1>1. Moves(bal, Single(0), bal', Single(0))
  BY DEF Moves
<1>2. FeeServe(h, r)'
  BY DEF FeeServe
<1>. QED  BY <1>1, <1>2 DEF FeeMove

LEMMA FeeBegins ==
    ASSUME mode = "serial", NEW g, NEW q, FeeServe(g, q), NEW h \in Handlers, NEW r, Begins(h, r), bal' = bal, FeeRequest(r, bal)
    PROVE  FeeMove
<1>1. req' = Only(h, r) /\ h \in AllThreads
  BY OnlyBegins, HandlersAreThreads DEF FeeServe
<1>. QED  BY <1>1, FeeBecomes DEF FeeServe

LEMMA CreateMoves ==
    ASSUME mode = "serial", NEW g, NEW q, FeeServe(g, q), NEW h \in Handlers, NEW op \in {"deploy", "agent"}, NEW u \in Users, NEW s,
           Create(h, op, u, s)
    PROVE  FeeMove
<1>. DEFINE r == Request(op, "fee", items + 1, u, s)
<1>1. Begins(h, r) /\ bal' = bal /\ bal[u] >= CreateFee
  BY DEF Create
<1>2. IsRequest(r) /\ r.user = u
  BY RequestIs
<1>. HIDE DEF r
<1>3. bal[u] \in Nat /\ CreateFee \in Nat /\ u \in DOMAIN Funds
  BY ServicesAssumption, ContractsAssumption DEF FeeServe, Balances
<1>4. FeeRequest(r, bal)
  BY <1>1, <1>2, <1>3 DEF FeeRequest
<1>. QED  BY <1>1, <1>4, FeeBegins

LEMMA ChargeFeeMoves ==
    ASSUME NEW g, NEW q, FeeServe(g, q), NEW h \in Handlers, ChargeFee(h)
    PROVE  FeeMove
<1>1. req[h].op \in {"deploy", "agent"} /\ req[h].step = "fee" /\ req[h].op # "none"
  BY DEF ChargeFee
<1>2. g = h /\ h \in AllThreads /\ req[h] = q /\ bal \in Balances
  BY <1>1, OnlyAt, HandlersAreThreads DEF FeeServe
<1>3. q # NoRequest
  BY <1>1, <1>2 DEF NoRequest
<1>4. IsRequest(q) /\ q.user \in DOMAIN Funds /\ CreateFee <= bal[q.user] /\ CreateFee \in Nat
  BY <1>1, <1>2, <1>3, ContractsAssumption DEF FeeServe, FeeRequest
<1>. DEFINE r == Request(q.op, "create", q.id, q.user, q.amt)
<1>5. req' = Only(h, r)
  BY <1>2, <1>4, OnlyGoes DEF ChargeFee, FeeServe
<1>6. IsRequest(r) /\ r.step = "create"
  BY <1>4, RequestIs DEF IsRequest
<1>. HIDE DEF r
<1>7. bal' = [bal EXCEPT ![q.user] = @ - CreateFee] /\ bal' \in Balances
  BY <1>2, <1>4, Debited DEF ChargeFee
<1>8. Moves(bal, Single(0), [bal EXCEPT ![q.user] = @ - CreateFee], Single(0))
  BY <1>2, <1>4, SingleTakes
<1>9. FeeServe(h, r)'
  BY <1>2, <1>5, <1>6, <1>7 DEF FeeServe, FeeRequest
<1>. QED  BY <1>7, <1>8, <1>9 DEF FeeMove

\* What the running request becomes, in a step that moves no coins.
LEMMA FeeGoesOn ==
    ASSUME NEW g, NEW q, FeeServe(g, q), NEW h \in Handlers, req[h].op # "none", bal' = bal,
           \/ Ends(h) \/ Goes(h, "save")
           \/ \E op \in {"call", "agent"} : req' = [req EXCEPT ![h] = Request(op, "save", @.id, "none", 0)]
    PROVE  FeeMove
<1>1. g = h /\ h \in AllThreads /\ req[h] = q /\ bal \in Balances /\ req = Only(h, q)
  BY OnlyAt, HandlersAreThreads DEF FeeServe
<1>2. IsRequest(q)
  BY <1>1 DEF FeeServe, FeeRequest, NoRequest
<1>3. CASE Ends(h)
  <2>1. req' = Only(h, NoRequest)
    BY <1>1, <1>3, OnlyEnds
  <2>. QED  BY <1>1, <2>1, FeeBecomes DEF FeeRequest
<1>4. CASE Goes(h, "save")
  <2>. DEFINE r == Request(q.op, "save", q.id, q.user, q.amt)
  <2>1. req' = Only(h, r)
    BY <1>1, <1>2, <1>4, OnlyGoes
  <2>2. IsRequest(r) /\ r.step = "save"
    BY <1>2, RequestIs DEF IsRequest
  <2>. HIDE DEF r
  <2>. QED  BY <1>1, <2>1, <2>2, FeeBecomes DEF FeeRequest
<1>5. CASE \E op \in {"call", "agent"} : req' = [req EXCEPT ![h] = Request(op, "save", @.id, "none", 0)]
  <2>1. PICK op \in {"call", "agent"} : req' = [req EXCEPT ![h] = Request(op, "save", q.id, "none", 0)]
    BY <1>1, <1>5
  <2>. DEFINE r == Request(op, "save", q.id, "none", 0)
  <2>2. req' = Only(h, r)
    BY <1>1, <2>1, OnlyBecomes
  <2>3. IsRequest(r) /\ r.step = "save"
    BY RequestIs
  <2>. HIDE DEF r
  <2>. QED  BY <1>1, <2>2, <2>3, FeeBecomes DEF FeeRequest
<1>. QED  BY <1>3, <1>4, <1>5

LEMMA OtherBegins ==
    ASSUME mode = "serial", NEW g, NEW q, FeeServe(g, q), NEW h \in Handlers, NEW op, op # "none", NEW step, step # "fee",
           NEW id, NEW user, NEW amt, Begins(h, Request(op, step, id, user, amt)), bal' = bal
    PROVE  FeeMove
<1>. DEFINE r == Request(op, step, id, user, amt)
<1>1. Begins(h, r)
  OBVIOUS
<1>2. IsRequest(r) /\ r.step = step
  BY RequestIs
<1>. HIDE DEF r
<1>3. FeeRequest(r, bal)
  BY <1>2 DEF FeeRequest
<1>. QED  BY <1>1, <1>3, FeeBegins

LEMMA ContractsStep ==
    ASSUME mode = "serial", NEW g, NEW q, FeeServe(g, q), WasmNext \/ AgentsNext
    PROVE  FeeMove
<1>1. ASSUME NEW h \in Handlers, PostWasmDeploy(h) \/ PostAiAgentCreate(h) PROVE FeeMove
  BY <1>1, CreateMoves DEF PostWasmDeploy, PostAiAgentCreate
<1>2. ASSUME NEW h \in Handlers, ChargeFee(h) PROVE FeeMove
  BY <1>2, ChargeFeeMoves
<1>3. ASSUME NEW h \in Handlers, DeployCreate(h) \/ AgentCreate(h) \/ CallWrite(h) \/ CallSave(h) \/ AgentSave(h) PROVE FeeMove
  <2>1. /\ req[h].op # "none" /\ bal' = bal
        /\ \/ Ends(h) \/ Goes(h, "save")
           \/ \E op \in {"call", "agent"} : req' = [req EXCEPT ![h] = Request(op, "save", @.id, "none", 0)]
    BY <1>3 DEF DeployCreate, AgentCreate, CallWrite, CallSave, AgentSave, At
  <2>. QED  BY <2>1, FeeGoesOn
<1>4. ASSUME NEW h \in Handlers, PostWasmCall(h) PROVE FeeMove
  <2>1. PICK c \in DOMAIN wasm, u \in Users, v \in Users, x \in Amounts : CallTransfer(h, c, u, v, x) \/ CallSetStorage(h, c, u, v, x)
    BY <1>4 DEF PostWasmCall
  <2>2. bal' = bal /\ (\/ Begins(h, Request("call", "write", c, <<u, v, wasm[c].tokens[u]>>, x))
                       \/ Begins(h, Request("call", "save", c, "none", 0)))
    BY <2>1 DEF CallTransfer, CallSetStorage
  <2>. QED  BY <2>2, OtherBegins
<1>5. ASSUME NEW h \in Handlers, PostAiAgentDeactivate(h) PROVE FeeMove
  <2>1. PICK a \in DOMAIN agents : Begins(h, Request("agent", "save", a, "none", 0)) /\ bal' = bal
    BY <1>5 DEF PostAiAgentDeactivate, Deactivate
  <2>. QED  BY <2>1, OtherBegins
<1>. QED  BY <1>1, <1>2, <1>3, <1>4, <1>5 DEF WasmNext, AgentsNext

-----------------------------------------------------------------------------
(* The bridge *)

\* Every request spells the name of the other chain in the same way, the normalised one.
\* bridge_credit_key takes it as it is spelled, so that a transfer is credited once for each spelling.
OneSpelling == \A c, d \in ChainNames : c = d /\ Normalize(c) = c

\* What lock k holds while r is served.
LockHeld(r, lk, k) ==
    IF r.op = "lock" /\ r.step = "burn" /\ r.id = k THEN r.amt
    ELSE IF r.op = "lock" /\ r.step = "save" /\ r.id = k THEN r.amt - BridgeBurn
    ELSE IF k \in DOMAIN lk /\ lk[k].status = "pending" /\ ~(r.op = "refund" /\ r.step = "mark" /\ r.id = k) THEN lk[k].amt
    ELSE 0

\* What transfer tx of the other chain still has to bring.
L1Held(r, cr, l, tx) ==
    IF \/ l[tx] = "none" \/ \E c \in ChainNames : CreditKey(tx, c) \in cr
       \/ (r.op = "incoming" /\ r.step = "save" /\ r.user[1] = tx)
    THEN 0 ELSE L1Amount[tx]
AllL1Held(r, cr, l) == SumFunction([tx \in L1Txs |-> L1Held(r, cr, l, tx)])

BridgeHeld(r, lk, cr, l) == [i \in Items |-> IF i = 0 THEN AllL1Held(r, cr, l) ELSE LockHeld(r, lk, i)]

LockRows == [from : DOMAIN Funds, amt : Nat, status : {"pending", "confirmed", "refunded"}]

LockTable(lk, n) ==
    /\ lk = [k \in DOMAIN lk |-> lk[k]] /\ DOMAIN lk \subseteq 1..n
    /\ \A k \in DOMAIN lk : lk[k] \in LockRows

\* Transfers that happened, under a name of the chain.
Happened(S, l) == \A e \in S : e.tx \in L1Txs /\ l[e.tx] # "none" /\ e.chain \in ChainNames

QueueOk(f, l) == f = [outgoing |-> f.outgoing, incoming |-> f.incoming] /\ Happened(f.incoming, l)

RelayOk(p, l) ==
    \/ p = NoPass
    \/ p = [step |-> "locks", todo |-> p.todo]
    \/ /\ p = [step |-> "watch", outgoing |-> p.outgoing, incoming |-> p.incoming, kept |-> p.kept]
       /\ Happened(p.incoming, l) /\ QueueOk(p.kept, l)

LockRequest(r, lk, b, n) ==
    /\ r.op = "lock" /\ r.step \in {"debit", "burn", "save"} /\ r.id \in 1..n /\ r.id \notin DOMAIN lk
    /\ r.amt \in Nat /\ r.amt > BridgeFee /\ r.user[1] \in DOMAIN Funds
    /\ r.step = "debit" => r.amt <= b[r.user[1]]
PendingRequest(r, lk) ==
    /\ r.id \in DOMAIN lk /\ lk[r.id].status = "pending"
    /\ \/ r.op = "confirm" /\ r.step = "mark"
       \/ r.op = "refund" /\ r.step \in {"credit", "mark"} /\ r.user = lk[r.id].from /\ r.amt = lk[r.id].amt
IncomingRequest(r, cr, l) ==
    /\ r.op = "incoming" /\ r.step \in {"queue", "check", "credit", "save"}
    /\ r.user[1] \in L1Txs /\ l[r.user[1]] # "none" /\ r.user[2] \in ChainNames /\ CreditKey(r.user[1], r.user[2]) \notin cr

BridgeRequest(r, lk, cr, l, b, n) ==
    r = NoRequest \/
    /\ IsRequest(r)
    /\ LockRequest(r, lk, b, n) \/ PendingRequest(r, lk) \/ IncomingRequest(r, cr, l)

ServedBy(h, r) == (r # NoRequest => h \in BridgeThreads) /\ (r.op \in {"lock", "refund"} => h \in Handlers)

BridgeState(n) ==
    /\ bal \in Balances /\ items \in Items /\ items = n /\ LockTable(locks, n)
    /\ l1 \in [L1Txs -> {"none", "mined", "confirmed"}] /\ QueueOk(queue, l1) /\ RelayOk(relay, l1)

BridgeServe(h, r) ==
    /\ h \in AllThreads /\ ServedBy(h, r) /\ req = Only(h, r)
    /\ BridgeState(items) /\ BridgeRequest(r, locks, credits, l1, bal, items)

BridgeMove(q) ==
    \E h, r : BridgeServe(h, r)' /\ Moves(bal, BridgeHeld(q, locks, credits, l1), bal', BridgeHeld(r, locks', credits', l1'))

LEMMA L1HeldType ==
    ASSUME NEW r, NEW cr, NEW l
    PROVE  AllL1Held(r, cr, l) \in Nat /\ \A tx \in L1Txs : L1Held(r, cr, l, tx) \in Nat /\ L1Held(r, cr, l, tx) <= L1Amount[tx]
<1>1. \A tx \in L1Txs : L1Held(r, cr, l, tx) \in Nat /\ L1Held(r, cr, l, tx) <= L1Amount[tx]
  BY BridgeAssumption DEF L1Held
<1>. DEFINE f == [tx \in L1Txs |-> L1Held(r, cr, l, tx)]
<1>2. \A tx \in L1Txs : f[tx] \in Nat
  BY <1>1
<1>3. DOMAIN f = L1Txs /\ AllL1Held(r, cr, l) = SumFunction(f)
  BY DEF AllL1Held
<1>. HIDE DEF f
<1>4. Total(f, L1Txs) \in Nat
  BY <1>2, TotalNat, BridgeAssumption
<1>. QED  BY <1>1, <1>3, <1>4, SumIsTotal

\* The transfers bring what they brought before, but for one.
LEMMA L1HeldSame ==
    ASSUME NEW q, NEW r, NEW cr, NEW ds, NEW l, NEW m, \A tx \in L1Txs : L1Held(q, cr, l, tx) = L1Held(r, ds, m, tx)
    PROVE  AllL1Held(q, cr, l) = AllL1Held(r, ds, m)
<1>1. [tx \in L1Txs |-> L1Held(q, cr, l, tx)] = [tx \in L1Txs |-> L1Held(r, ds, m, tx)]
  OBVIOUS
<1>. QED  BY <1>1 DEF AllL1Held

LEMMA L1HeldChanges ==
    ASSUME NEW q, NEW r, NEW cr, NEW ds, NEW l, NEW m, NEW y \in L1Txs,
           \A tx \in L1Txs : tx # y => L1Held(r, ds, m, tx) = L1Held(q, cr, l, tx)
    PROVE  AllL1Held(r, ds, m) = AllL1Held(q, cr, l) - L1Held(q, cr, l, y) + L1Held(r, ds, m, y)
<1>. DEFINE f == [tx \in L1Txs |-> L1Held(q, cr, l, tx)]
            e == [tx \in L1Txs |-> L1Held(r, ds, m, tx)]
<1>1. /\ DOMAIN f = L1Txs /\ DOMAIN e = L1Txs /\ \A tx \in L1Txs : f[tx] \in Int
      /\ e[y] \in Int /\ \A tx \in L1Txs \ {y} : e[tx] = f[tx]
      /\ f[y] = L1Held(q, cr, l, y) /\ e[y] = L1Held(r, ds, m, y)
  BY L1HeldType
<1>2. AllL1Held(q, cr, l) = SumFunction(f) /\ AllL1Held(r, ds, m) = SumFunction(e)
  BY DEF AllL1Held
<1>. HIDE DEF f, e
<1>3. Total(e, L1Txs) = Total(f, L1Txs) - f[y] + e[y]
  BY <1>1, TotalUpdate, BridgeAssumption
<1>. QED  BY <1>1, <1>2, <1>3, SumIsTotal

LEMMA BridgeConstants == BridgeFee \in Nat /\ BridgeBurn \in Nat /\ BridgeBurn <= BridgeFee /\ BurnAddress \in DOMAIN Funds
BY BridgeAssumption

LEMMA NoneAsked == NoRequest.op = "none"
BY DEF NoRequest

LEMMA LockHeldType ==
    ASSUME NEW r, NEW lk, NEW cr, NEW l, NEW b, NEW n, LockTable(lk, n), BridgeRequest(r, lk, cr, l, b, n), NEW k
    PROVE  LockHeld(r, lk, k) \in Nat
<1>1. k \in DOMAIN lk => lk[k].amt \in Nat
  BY DEF LockTable, LockRows
<1>2. r.op = "lock" => r.amt \in Nat /\ r.amt - BridgeBurn \in Nat
  <2>1. r.op = "lock" => r.amt \in Nat /\ r.amt > BridgeFee
    BY NoneAsked DEF BridgeRequest, LockRequest, PendingRequest, IncomingRequest
  <2>. QED  BY <2>1, BridgeConstants
<1>. QED  BY <1>1, <1>2 DEF LockHeld

LEMMA BridgeHeldType ==
    ASSUME NEW r, NEW lk, NEW cr, NEW l, NEW b, NEW n, LockTable(lk, n), BridgeRequest(r, lk, cr, l, b, n)
    PROVE  BridgeHeld(r, lk, cr, l) \in [Items -> Int]
<1>1. \A k : LockHeld(r, lk, k) \in Nat
  BY LockHeldType
<1>2. AllL1Held(r, cr, l) \in Nat
  BY L1HeldType
<1>. QED  BY <1>1, <1>2 DEF BridgeHeld

\* What the running request of the bridge may rely on.
LEMMA BridgeServed ==
    ASSUME NEW g, NEW q, BridgeServe(g, q)
    PROVE  /\ BridgeState(items) /\ BridgeRequest(q, locks, credits, l1, bal, items)
           /\ g \in AllThreads /\ ServedBy(g, q) /\ req = Only(g, q)
           /\ bal \in Balances /\ items \in Items /\ items \in Nat /\ LockTable(locks, items)
           /\ BridgeHeld(q, locks, credits, l1) \in [Items -> Int]
           /\ \A h \in BridgeThreads : req[h].op # "none" => g = h /\ h \in AllThreads /\ req[h] = q /\ q # NoRequest /\ IsRequest(q)
<1>1. /\ BridgeState(items) /\ BridgeRequest(q, locks, credits, l1, bal, items)
      /\ g \in AllThreads /\ ServedBy(g, q) /\ req = Only(g, q)
  BY DEF BridgeServe
<1>2. bal \in Balances /\ items \in Items /\ items \in Nat /\ LockTable(locks, items)
  BY <1>1 DEF BridgeState, Items
<1>3. BridgeHeld(q, locks, credits, l1) \in [Items -> Int]
  BY <1>1, <1>2, BridgeHeldType
<1>4. ASSUME NEW h \in BridgeThreads, req[h].op # "none"
      PROVE  g = h /\ h \in AllThreads /\ req[h] = q /\ q # NoRequest /\ IsRequest(q)
  <2>1. g = h /\ h \in AllThreads /\ req[h] = q
    BY <1>1, <1>4, OnlyAt, HandlersAreThreads
  <2>2. q # NoRequest
    BY <1>4, <2>1 DEF NoRequest
  <2>. QED  BY <2>1, <2>2, <1>1 DEF BridgeRequest
<1>. QED  BY <1>1, <1>2, <1>3, <1>4

LEMMA BridgeMoved ==
    ASSUME NEW q, NEW h \in AllThreads, NEW r, ServedBy(h, r), req' = Only(h, r), BridgeState(items)',
           BridgeRequest(r, locks', credits', l1', bal', items'),
           Moves(bal, BridgeHeld(q, locks, credits, l1), bal', BridgeHeld(r, locks', credits', l1'))
    PROVE  BridgeMove(q)
<1>1. BridgeServe(h, r)'
  BY DEF BridgeServe
<1>. QED  BY <1>1 DEF BridgeMove

\* The queue or the relayer's pass changes and no coins move.
LEMMA BridgeStays ==
    ASSUME NEW g, NEW q, BridgeServe(g, q), UNCHANGED <<bal, req, items, locks, credits, l1>>, QueueOk(queue', l1), RelayOk(relay', l1)
    PROVE  BridgeMove(q)
<1>1. BridgeState(items)'
  BY BridgeServed DEF BridgeState
<1>2. Moves(bal, BridgeHeld(q, locks, credits, l1), bal', BridgeHeld(q, locks', credits', l1'))
  BY DEF Moves
<1>3. BridgeRequest(q, locks', credits', l1', bal', items') /\ g \in AllThreads /\ ServedBy(g, q) /\ req' = Only(g, q)
  BY BridgeServed
<1>. QED  BY <1>1, <1>2, <1>3, BridgeMoved

\* A request begins that has moved no coins yet.
LEMMA BridgeBegins ==
    ASSUME mode = "serial", NEW g, NEW q, BridgeServe(g, q), NEW h \in BridgeThreads, NEW r, Begins(h, r),
           UNCHANGED <<bal, locks, credits, l1>>, items' \in Items, items <= items', QueueOk(queue', l1), RelayOk(relay', l1),
           ServedBy(h, r), BridgeRequest(r, locks, credits, l1, bal, items'),
           r.op = "lock" => r.step = "debit", r.step \in {"debit", "mark", "credit", "queue", "check"}, r.step = "mark" => r.op = "confirm"
    PROVE  BridgeMove(q)
<1>1. req' = Only(h, r) /\ q = NoRequest /\ h \in AllThreads
  BY OnlyBegins, HandlersAreThreads DEF BridgeServe
<1>2. items' \in Nat /\ items \in Nat
  BY BridgeServed DEF Items
<1>3. LockTable(locks, items')
  BY <1>2, BridgeServed DEF LockTable
<1>4. BridgeState(items)'
  BY <1>3, BridgeServed DEF BridgeState
<1>5. q.op = "none"
  BY <1>1, NoneAsked
<1>6. \A tx \in L1Txs : L1Held(q, credits, l1, tx) = L1Held(r, credits, l1, tx)
  BY <1>5 DEF L1Held
<1>7. AllL1Held(q, credits, l1) = AllL1Held(r, credits, l1)
  BY <1>6, L1HeldSame
<1>8. \A k \in Items : LockHeld(q, locks, k) = LockHeld(r, locks, k)
  BY <1>5 DEF LockHeld
<1>9. BridgeHeld(q, locks, credits, l1) = BridgeHeld(r, locks, credits, l1)
  BY <1>7, <1>8 DEF BridgeHeld
<1>10. Moves(bal, BridgeHeld(q, locks, credits, l1), bal', BridgeHeld(r, locks', credits', l1'))
  BY <1>9 DEF Moves
<1>11. BridgeRequest(r, locks', credits', l1', bal', items')
  OBVIOUS
<1>. QED  BY <1>1, <1>4, <1>10, <1>11, BridgeMoved

LEMMA BridgeKept ==
    ASSUME NEW g, NEW q, BridgeServe(g, q), UNCHANGED <<items, l1, queue, relay>>, bal' \in Balances, LockTable(locks', items)
    PROVE  BridgeState(items)'
BY BridgeServed DEF BridgeState

\* Only lock k holds something else than before.
LEMMA OneLockChanges ==
    ASSUME NEW q, NEW r, NEW lk, NEW ld, NEW k \in Items, k # 0,
           q.op # "incoming", r.op # "incoming", \A j \in Items : j # k => LockHeld(r, ld, j) = LockHeld(q, lk, j)
    PROVE  /\ \A j \in Items : j # k => BridgeHeld(r, ld, credits, l1)[j] = BridgeHeld(q, lk, credits, l1)[j]
           /\ BridgeHeld(q, lk, credits, l1)[k] = LockHeld(q, lk, k)
           /\ BridgeHeld(r, ld, credits, l1)[k] = LockHeld(r, ld, k)
<1>1. \A tx \in L1Txs : L1Held(q, credits, l1, tx) = L1Held(r, credits, l1, tx)
  BY DEF L1Held
<1>2. AllL1Held(q, credits, l1) = AllL1Held(r, credits, l1)
  BY <1>1, L1HeldSame
<1>. QED  BY <1>2 DEF BridgeHeld

\* What a request for a lock, or about one, may rely on.
LEMMA LockServed ==
    ASSUME NEW g, NEW q, BridgeServe(g, q), NEW h \in BridgeThreads, req[h].op \in {"lock", "confirm", "refund"}
    PROVE  /\ g = h /\ h \in AllThreads /\ req[h] = q /\ q # NoRequest /\ IsRequest(q) /\ req = Only(h, q) /\ ServedBy(h, q)
           /\ q.op = req[h].op /\ q.op # "incoming" /\ q.op # "none"
           /\ q.op = "lock" => LockRequest(q, locks, bal, items)
           /\ q.op # "lock" => PendingRequest(q, locks)
           /\ q.id \in Items /\ q.id # 0
<1>1. req[h].op # "none"
  OBVIOUS
<1>2. /\ g = h /\ h \in AllThreads /\ req[h] = q /\ q # NoRequest /\ IsRequest(q) /\ req = Only(h, q) /\ ServedBy(h, q)
      /\ BridgeRequest(q, locks, credits, l1, bal, items) /\ LockTable(locks, items) /\ items \in Items /\ items \in Nat
  BY <1>1, BridgeServed
<1>3. (q.op = "lock" => LockRequest(q, locks, bal, items)) /\ (q.op # "lock" => PendingRequest(q, locks))
  BY <1>2 DEF BridgeRequest, LockRequest, PendingRequest, IncomingRequest
<1>4. q.id \in 1..items
  BY <1>2, <1>3 DEF LockRequest, PendingRequest, LockTable
<1>5. q.id \in Items /\ q.id # 0
  BY <1>2, <1>4, ServicesAssumption DEF Items
<1>. QED  BY <1>2, <1>3, <1>5

LEMMA LockDebitMoves ==
    ASSUME NEW g, NEW q, BridgeServe(g, q), NEW h \in Handlers, LockDebit(h)
    PROVE  BridgeMove(q)
<1>0. h \in BridgeThreads
  BY DEF BridgeThreads
<1>1. req[h].op = "lock" /\ req[h].step = "debit" /\ UNCHANGED <<items, locks, credits, l1, queue, relay>>
  BY DEF LockDebit, At
<1>2. /\ h \in AllThreads /\ req[h] = q /\ IsRequest(q) /\ req = Only(h, q) /\ q.op = "lock" /\ q.step = "debit"
      /\ q.op # "incoming" /\ LockRequest(q, locks, bal, items) /\ q.id \in Items /\ q.id # 0 /\ bal \in Balances
      /\ LockTable(locks, items) /\ BridgeHeld(q, locks, credits, l1) \in [Items -> Int]
  BY <1>0, <1>1, LockServed, BridgeServed
<1>. DEFINE u == q.user[1]
            x == q.amt
            r == Request(q.op, "burn", q.id, q.user, q.amt)
            hd == BridgeHeld(q, locks, credits, l1)
            kd == BridgeHeld(r, locks, credits, l1)
<1>3. u \in DOMAIN Funds /\ x \in Nat /\ x <= bal[u] /\ UpdateBalance(u, -x) /\ Goes(h, "burn")
  BY <1>2 DEF LockRequest, LockDebit
<1>4. req' = Only(h, r)
  BY <1>2, <1>3, OnlyGoes
<1>5. IsRequest(r) /\ r.op = "lock" /\ r.step = "burn" /\ r.id = q.id /\ r.user = q.user /\ r.amt = q.amt /\ r # NoRequest
  BY <1>2, RequestIs
<1>. HIDE DEF r
<1>6. bal' = [bal EXCEPT ![u] = @ - x] /\ bal' \in Balances
  BY <1>2, <1>3, Debited
<1>7. BridgeRequest(r, locks, credits, l1, bal', items)
  BY <1>2, <1>5 DEF BridgeRequest, LockRequest
<1>8. kd \in [Items -> Int]
  BY <1>2, <1>7, BridgeHeldType
<1>9. \A j \in Items : j # q.id => LockHeld(r, locks, j) = LockHeld(q, locks, j)
  BY <1>2, <1>5 DEF LockHeld
<1>10. LockHeld(q, locks, q.id) = 0 /\ LockHeld(r, locks, q.id) = x
  BY <1>2, <1>5 DEF LockHeld, LockRequest
<1>11. (\A j \in Items : j # q.id => kd[j] = hd[j]) /\ hd[q.id] = 0 /\ kd[q.id] = x
  <2>1. r.op # "incoming"
    BY <1>5
  <2>. QED  BY <1>2, <1>9, <1>10, <2>1, OneLockChanges
<1>12. Moves(bal, hd, [bal EXCEPT ![u] = @ - x], kd)
  <2>1. hd \in [Items -> Int]
    BY <1>2
  <2>. HIDE DEF hd, kd, u, x
  <2>2. kd[q.id] = hd[q.id] + x
    BY <1>3, <1>11
  <2>3. bal \in Balances /\ q.id \in Items /\ u \in DOMAIN Funds /\ x \in Nat /\ x <= bal[u] /\ x <= x
    BY <1>2, <1>3
  <2>4. kd \in [Items -> Int] /\ \A j \in Items : j # q.id => kd[j] = hd[j]
    BY <1>8, <1>11
  <2>. QED  BY <2>1, <2>2, <2>3, <2>4, TakesIn
<1>13. BridgeState(items)'
  BY <1>1, <1>2, <1>6, BridgeKept
<1>14. ServedBy(h, r)
  BY <1>0 DEF ServedBy
<1>15. Moves(bal, hd, bal', BridgeHeld(r, locks', credits', l1')) /\ BridgeRequest(r, locks', credits', l1', bal', items')
  BY <1>1, <1>6, <1>7, <1>12
<1>. QED  BY <1>2, <1>4, <1>13, <1>14, <1>15, BridgeMoved

LEMMA LockBurnMoves ==
    ASSUME NEW g, NEW q, BridgeServe(g, q), NEW h \in Handlers, LockBurn(h)
    PROVE  BridgeMove(q)
<1>0. h \in BridgeThreads
  BY DEF BridgeThreads
<1>1. req[h].op = "lock" /\ req[h].step = "burn" /\ UNCHANGED <<items, locks, credits, l1, queue, relay>>
  BY DEF LockBurn, At
<1>2. /\ h \in AllThreads /\ req[h] = q /\ IsRequest(q) /\ req = Only(h, q) /\ q.op = "lock" /\ q.step = "burn"
      /\ q.op # "incoming" /\ LockRequest(q, locks, bal, items) /\ q.id \in Items /\ q.id # 0 /\ bal \in Balances
      /\ LockTable(locks, items) /\ BridgeHeld(q, locks, credits, l1) \in [Items -> Int]
  BY <1>0, <1>1, LockServed, BridgeServed
<1>. DEFINE r == Request(q.op, "save", q.id, q.user, q.amt)
            hd == BridgeHeld(q, locks, credits, l1)
            kd == BridgeHeld(r, locks, credits, l1)
<1>3. q.amt \in Nat /\ q.amt > BridgeFee /\ UpdateBalance(BurnAddress, BridgeBurn) /\ Goes(h, "save")
  BY <1>2 DEF LockRequest, LockBurn
<1>4. req' = Only(h, r)
  BY <1>2, <1>3, OnlyGoes
<1>5. IsRequest(r) /\ r.op = "lock" /\ r.step = "save" /\ r.id = q.id /\ r.user = q.user /\ r.amt = q.amt /\ r # NoRequest
  BY <1>2, RequestIs
<1>. HIDE DEF r
<1>6. bal' = [bal EXCEPT ![BurnAddress] = @ + BridgeBurn] /\ bal' \in Balances
  BY <1>2, <1>3, BridgeConstants, Credited
<1>7. BridgeRequest(r, locks, credits, l1, bal', items)
  BY <1>2, <1>5 DEF BridgeRequest, LockRequest
<1>8. kd \in [Items -> Int]
  BY <1>2, <1>7, BridgeHeldType
<1>9. \A j \in Items : j # q.id => LockHeld(r, locks, j) = LockHeld(q, locks, j)
  BY <1>2, <1>5 DEF LockHeld
<1>10. LockHeld(q, locks, q.id) = q.amt /\ LockHeld(r, locks, q.id) = q.amt - BridgeBurn
  BY <1>2, <1>5 DEF LockHeld
<1>11. (\A j \in Items : j # q.id => kd[j] = hd[j]) /\ hd[q.id] = q.amt /\ kd[q.id] = q.amt - BridgeBurn
  <2>1. r.op # "incoming"
    BY <1>5
  <2>. QED  BY <1>2, <1>9, <1>10, <2>1, OneLockChanges
<1>12. Moves(bal, hd, [bal EXCEPT ![BurnAddress] = @ + BridgeBurn], kd)
  <2>1. hd \in [Items -> Int]
    BY <1>2
  <2>. HIDE DEF hd, kd
  <2>2. kd[q.id] = hd[q.id] - BridgeBurn /\ BridgeBurn <= hd[q.id]
    BY <1>3, <1>11, BridgeConstants
  <2>. QED  BY <2>1, <2>2, <1>2, <1>8, <1>11, BridgeConstants, GivesOut
<1>13. BridgeState(items)'
  BY <1>1, <1>2, <1>6, BridgeKept
<1>14. ServedBy(h, r)
  BY <1>0 DEF ServedBy
<1>15. Moves(bal, hd, bal', BridgeHeld(r, locks', credits', l1')) /\ BridgeRequest(r, locks', credits', l1', bal', items')
  BY <1>1, <1>6, <1>7, <1>12
<1>. QED  BY <1>2, <1>4, <1>13, <1>14, <1>15, BridgeMoved

\* A request about a lock ends: the lock's row is ld[q.id] by then and holds at most what it held.
LEMMA LockSettled ==
    ASSUME NEW g, NEW q, BridgeServe(g, q), NEW h \in BridgeThreads, req[h].op \in {"lock", "confirm", "refund"}, Ends(h),
           UNCHANGED <<bal, items, credits, l1, relay>>, QueueOk(queue', l1), LockTable(locks', items),
           \A j : j # q.id => (j \in DOMAIN locks' <=> j \in DOMAIN locks) /\ (j \in DOMAIN locks => locks'[j] = locks[j]),
           LockHeld(NoRequest, locks', q.id) <= LockHeld(q, locks, q.id)
    PROVE  BridgeMove(q)
<1>1. /\ h \in AllThreads /\ req[h] = q /\ req = Only(h, q) /\ q.op # "incoming" /\ q.id \in Items /\ q.id # 0
      /\ bal \in Balances /\ BridgeHeld(q, locks, credits, l1) \in [Items -> Int]
      /\ BridgeRequest(q, locks, credits, l1, bal, items) /\ LockTable(locks, items)
  BY LockServed, BridgeServed
<1>. DEFINE hd == BridgeHeld(q, locks, credits, l1)
            kd == BridgeHeld(NoRequest, locks', credits, l1)
            x == LockHeld(q, locks, q.id) - LockHeld(NoRequest, locks', q.id)
<1>2. req' = Only(h, NoRequest)
  BY <1>1, OnlyEnds
<1>3. BridgeRequest(NoRequest, locks', credits, l1, bal, items)
  BY DEF BridgeRequest
<1>4. kd \in [Items -> Int]
  BY <1>3, BridgeHeldType
<1>5. x \in Nat /\ x <= LockHeld(q, locks, q.id) /\ LockHeld(q, locks, q.id) - x = LockHeld(NoRequest, locks', q.id)
  <2>1. LockHeld(q, locks, q.id) \in Nat /\ LockHeld(NoRequest, locks', q.id) \in Nat
    BY <1>1, <1>3, LockHeldType
  <2>. QED  BY <2>1
<1>6. \A j \in Items : j # q.id => LockHeld(NoRequest, locks', j) = LockHeld(q, locks, j)
  BY NoneAsked DEF LockHeld
<1>7. /\ \A j \in Items : j # q.id => kd[j] = hd[j]
      /\ hd[q.id] = LockHeld(q, locks, q.id) /\ kd[q.id] = LockHeld(NoRequest, locks', q.id)
  <2>1. NoRequest.op # "incoming"
    BY NoneAsked
  <2>. QED  BY <1>1, <1>6, <2>1, OneLockChanges
<1>8. Moves(bal, hd, bal, kd)
  <2>1. hd \in [Items -> Int]
    BY <1>1
  <2>2. x \in Nat /\ x <= hd[q.id] /\ kd[q.id] = hd[q.id] - x
    BY <1>5, <1>7
  <2>. HIDE DEF hd, kd, x
  <2>. QED  BY <2>1, <2>2, <1>1, <1>4, <1>7, LosesSome
<1>9. BridgeState(items)'
  BY BridgeServed DEF BridgeState
<1>10. ServedBy(h, NoRequest)
  BY NoneAsked DEF ServedBy
<1>11. Moves(bal, hd, bal', BridgeHeld(NoRequest, locks', credits', l1')) /\ BridgeRequest(NoRequest, locks', credits', l1', bal', items')
  BY <1>3, <1>8
<1>. QED  BY <1>1, <1>2, <1>9, <1>10, <1>11, BridgeMoved

LEMMA LockSaveMoves ==
    ASSUME NEW g, NEW q, BridgeServe(g, q), NEW h \in Handlers, LockSave(h)
    PROVE  BridgeMove(q)
<1>0. h \in BridgeThreads
  BY DEF BridgeThreads
<1>1. req[h].op = "lock" /\ req[h].step = "save" /\ UNCHANGED <<bal, items, credits, l1, relay>> /\ Ends(h)
  BY DEF LockSave, At
<1>2. /\ h \in AllThreads /\ req[h] = q /\ q.op = "lock" /\ q.step = "save"
      /\ LockRequest(q, locks, bal, items) /\ LockTable(locks, items) /\ QueueOk(queue, l1)
  BY <1>0, <1>1, LockServed, BridgeServed DEF BridgeState
<1>. DEFINE k == q.id
            x == [from |-> q.user[1], amt |-> q.amt - BridgeFee, status |-> "pending"]
            ld == With(locks, k, x)
            out == queue.outgoing \cup {[lock |-> k, tx |-> q.user[2]]}
<1>3. locks' = ld /\ (queue' = queue \/ queue' = [queue EXCEPT !.outgoing = out])
  BY <1>2 DEF LockSave
<1>4. x \in LockRows /\ x.amt = q.amt - BridgeFee
  <2>1. q.user[1] \in DOMAIN Funds /\ q.amt - BridgeFee \in Nat
    BY <1>2, BridgeConstants DEF LockRequest
  <2>. QED  BY <2>1 DEF LockRows
<1>. HIDE DEF x
<1>5. /\ DOMAIN ld = DOMAIN locks \cup {k} /\ ld[k] = x /\ ld = [j \in DOMAIN ld |-> ld[j]]
      /\ \A j \in DOMAIN locks : j # k => ld[j] = locks[j]
  BY DEF With
<1>. HIDE DEF ld
<1>6. LockTable(locks', items)
  BY <1>2, <1>3, <1>4, <1>5 DEF LockTable, LockRequest
<1>7. \A j : j # q.id => (j \in DOMAIN locks' <=> j \in DOMAIN locks) /\ (j \in DOMAIN locks => locks'[j] = locks[j])
  BY <1>3, <1>5
<1>8. QueueOk(queue', l1)
  <2>. HIDE DEF out
  <2>1. CASE queue' = queue
    BY <1>2, <2>1
  <2>2. CASE queue' = [queue EXCEPT !.outgoing = out]
    <3>1. queue' = [outgoing |-> out, incoming |-> queue.incoming]
      BY <1>2, <2>2 DEF QueueOk
    <3>. QED  BY <1>2, <3>1 DEF QueueOk
  <2>. QED  BY <1>3, <2>1, <2>2
<1>9. LockHeld(NoRequest, locks', q.id) <= LockHeld(q, locks, q.id)
  <2>1. LockHeld(q, locks, q.id) = q.amt - BridgeBurn
    BY <1>2 DEF LockHeld
  <2>2. LockHeld(NoRequest, locks', q.id) \in {0, q.amt - BridgeFee}
    BY <1>3, <1>4, <1>5, NoneAsked DEF LockHeld
  <2>. QED  BY <2>1, <2>2, <1>2, BridgeConstants DEF LockRequest
<1>10. req[h].op \in {"lock", "confirm", "refund"}
  BY <1>1
<1>. QED  BY <1>0, <1>1, <1>6, <1>7, <1>8, <1>9, <1>10, LockSettled

\* confirm_lock and the last step of refund write the status of a pending lock.
LEMMA MarkMoves ==
    ASSUME NEW g, NEW q, BridgeServe(g, q), NEW h \in BridgeThreads, ConfirmMark(h) \/ RefundMark(h)
    PROVE  BridgeMove(q)
<1>1. req[h].op \in {"lock", "confirm", "refund"} /\ req[h].op # "lock" /\ UNCHANGED <<bal, items, credits, l1, queue, relay>> /\ Ends(h)
  BY DEF ConfirmMark, RefundMark, At
<1>2. /\ h \in AllThreads /\ req[h] = q /\ q.op # "lock"
      /\ PendingRequest(q, locks) /\ LockTable(locks, items) /\ QueueOk(queue, l1)
      /\ BridgeRequest(q, locks, credits, l1, bal, items)
  BY <1>1, LockServed, BridgeServed DEF BridgeState
<1>3. PICK s \in {"confirmed", "refunded"} : locks' = [locks EXCEPT ![q.id].status = s]
  BY <1>2 DEF ConfirmMark, RefundMark
<1>. DEFINE ld == [locks EXCEPT ![q.id].status = s]
<1>4. q.id \in DOMAIN locks /\ locks[q.id] \in LockRows
  BY <1>2 DEF PendingRequest, LockTable
<1>5. /\ DOMAIN ld = DOMAIN locks /\ ld[q.id] = [locks[q.id] EXCEPT !.status = s] /\ ld = [j \in DOMAIN ld |-> ld[j]]
      /\ \A j \in DOMAIN locks : j # q.id => ld[j] = locks[j]
  BY <1>4
<1>. HIDE DEF ld
<1>6. ld[q.id] \in LockRows /\ ld[q.id].status = s
  BY <1>4, <1>5 DEF LockRows
<1>7. LockTable(ld, items) /\ locks' = ld
  BY <1>2, <1>3, <1>5, <1>6 DEF LockTable, ld
<1>8. \A j : j # q.id => (j \in DOMAIN locks' <=> j \in DOMAIN locks) /\ (j \in DOMAIN locks => locks'[j] = locks[j])
  BY <1>5, <1>7
<1>9. LockHeld(NoRequest, locks', q.id) = 0
  BY <1>6, <1>7, NoneAsked DEF LockHeld
<1>10. LockHeld(NoRequest, locks', q.id) <= LockHeld(q, locks, q.id)
  <2>1. LockHeld(q, locks, q.id) \in Nat
    BY <1>2, LockHeldType
  <2>. QED  BY <1>9, <2>1
<1>. QED  BY <1>1, <1>2, <1>7, <1>8, <1>10, LockSettled

LEMMA RefundCreditMoves ==
    ASSUME NEW g, NEW q, BridgeServe(g, q), NEW h \in Handlers, RefundCredit(h)
    PROVE  BridgeMove(q)
<1>0. h \in BridgeThreads
  BY DEF BridgeThreads
<1>1. req[h].op = "refund" /\ req[h].step = "credit" /\ UNCHANGED <<items, locks, credits, l1, queue, relay>>
  BY DEF RefundCredit, At
<1>2. /\ h \in AllThreads /\ req[h] = q /\ IsRequest(q) /\ req = Only(h, q) /\ q.op = "refund" /\ q.step = "credit"
      /\ q.op # "incoming" /\ PendingRequest(q, locks) /\ q.id \in Items /\ q.id # 0 /\ bal \in Balances
      /\ LockTable(locks, items) /\ BridgeHeld(q, locks, credits, l1) \in [Items -> Int]
  BY <1>0, <1>1, LockServed, BridgeServed
<1>. DEFINE u == q.user
            x == q.amt
            r == Request(q.op, "mark", q.id, q.user, q.amt)
            hd == BridgeHeld(q, locks, credits, l1)
            kd == BridgeHeld(r, locks, credits, l1)
<1>3. q.id \in DOMAIN locks /\ locks[q.id].status = "pending" /\ u = locks[q.id].from /\ x = locks[q.id].amt
  BY <1>2 DEF PendingRequest
<1>4. u \in DOMAIN Funds /\ x \in Nat
  BY <1>2, <1>3 DEF LockTable, LockRows
<1>5. UpdateBalance(u, x) /\ Goes(h, "mark")
  BY <1>2 DEF RefundCredit
<1>6. req' = Only(h, r)
  BY <1>2, <1>5, OnlyGoes
<1>7. IsRequest(r) /\ r.op = "refund" /\ r.step = "mark" /\ r.id = q.id /\ r.user = q.user /\ r.amt = q.amt /\ r # NoRequest
  BY <1>2, RequestIs
<1>. HIDE DEF r
<1>8. bal' = [bal EXCEPT ![u] = @ + x] /\ bal' \in Balances
  BY <1>2, <1>4, <1>5, Credited
<1>9. BridgeRequest(r, locks, credits, l1, bal', items)
  BY <1>2, <1>7 DEF BridgeRequest, PendingRequest
<1>10. kd \in [Items -> Int]
  BY <1>2, <1>9, BridgeHeldType
<1>11. \A j \in Items : j # q.id => LockHeld(r, locks, j) = LockHeld(q, locks, j)
  BY <1>2, <1>7 DEF LockHeld
<1>12. LockHeld(q, locks, q.id) = x /\ LockHeld(r, locks, q.id) = 0
  BY <1>2, <1>3, <1>7 DEF LockHeld
<1>13. (\A j \in Items : j # q.id => kd[j] = hd[j]) /\ hd[q.id] = x /\ kd[q.id] = 0
  <2>1. r.op # "incoming"
    BY <1>7
  <2>. QED  BY <1>2, <1>11, <1>12, <2>1, OneLockChanges
<1>14. Moves(bal, hd, [bal EXCEPT ![u] = @ + x], kd)
  <2>1. hd \in [Items -> Int]
    BY <1>2
  <2>. HIDE DEF hd, kd, u, x
  <2>2. kd[q.id] = hd[q.id] - x /\ x <= hd[q.id]
    BY <1>4, <1>13
  <2>. QED  BY <2>1, <2>2, <1>2, <1>4, <1>10, <1>13, GivesOut
<1>15. BridgeState(items)'
  BY <1>1, <1>2, <1>8, BridgeKept
<1>16. ServedBy(h, r)
  BY <1>0 DEF ServedBy
<1>17. Moves(bal, hd, bal', BridgeHeld(r, locks', credits', l1')) /\ BridgeRequest(r, locks', credits', l1', bal', items')
  BY <1>1, <1>8, <1>9, <1>14
<1>. QED  BY <1>2, <1>6, <1>15, <1>16, <1>17, BridgeMoved

\* The requests that begin.
LEMMA PostBridgeLockMoves ==
    ASSUME mode = "serial", NEW g, NEW q, BridgeServe(g, q), NEW h \in Handlers, PostBridgeLock(h)
    PROVE  BridgeMove(q)
<1>0. h \in BridgeThreads
  BY DEF BridgeThreads
<1>1. PICK u \in Users, x \in Amounts, p \in OnL1 \cup {"none"} : LockAndBridge(h, u, x, p)
  BY DEF PostBridgeLock
<1>. DEFINE r == Request("lock", "debit", items + 1, <<u, p>>, x)
<1>2. /\ x > BridgeFee /\ bal[u] >= x /\ NewItem /\ Begins(h, r)
      /\ UNCHANGED <<bal, locks, credits, l1, queue, relay>>
  BY <1>1 DEF LockAndBridge
<1>3. /\ bal \in Balances /\ items \in Items /\ items \in Nat /\ LockTable(locks, items) /\ QueueOk(queue, l1) /\ RelayOk(relay, l1)
  BY BridgeServed DEF BridgeState
<1>4. items' = items + 1 /\ items' \in Items
  BY <1>2, <1>3, NewItemIs
<1>5. /\ IsRequest(r) /\ r.op = "lock" /\ r.step = "debit" /\ r.id = items + 1 /\ r.user = <<u, p>> /\ r.amt = x /\ r # NoRequest
      /\ r.user[1] = u
  BY RequestIs
<1>. HIDE DEF r
<1>6. u \in DOMAIN Funds /\ x \in Nat /\ x <= bal[u]
  <2>1. u \in DOMAIN Funds /\ x \in Nat
    BY ServicesAssumption
  <2>2. bal[u] \in Nat
    BY <1>3, <2>1 DEF Balances
  <2>. QED  BY <1>2, <2>1, <2>2
<1>7. items + 1 \notin DOMAIN locks /\ items + 1 \in 1..items'
  BY <1>3, <1>4 DEF LockTable
<1>8. BridgeRequest(r, locks, credits, l1, bal, items')
  BY <1>2, <1>5, <1>6, <1>7 DEF BridgeRequest, LockRequest
<1>9. ServedBy(h, r)
  BY <1>0 DEF ServedBy
<1>10. items <= items' /\ QueueOk(queue', l1) /\ RelayOk(relay', l1)
  BY <1>2, <1>3, <1>4
<1>. QED  BY <1>0, <1>2, <1>4, <1>5, <1>8, <1>9, <1>10, BridgeBegins

LEMMA ConfirmLockMoves ==
    ASSUME mode = "serial", NEW g, NEW q, BridgeServe(g, q), NEW h \in BridgeThreads, NEW k, ConfirmLock(h, k), RelayOk(relay', l1)
    PROVE  BridgeMove(q)
<1>. DEFINE r == Request("confirm", "mark", k, "none", 0)
<1>1. Begins(h, r) /\ UNCHANGED <<bal, items, locks, credits, l1, queue>> /\ k \in DOMAIN locks /\ locks[k].status = "pending"
  BY DEF ConfirmLock, PendingLock
<1>2. IsRequest(r) /\ r.op = "confirm" /\ r.step = "mark" /\ r.id = k
  BY RequestIs
<1>. HIDE DEF r
<1>3. items \in Items /\ items \in Nat /\ QueueOk(queue, l1)
  BY BridgeServed DEF BridgeState
<1>4. BridgeRequest(r, locks, credits, l1, bal, items) /\ ServedBy(h, r)
  BY <1>1, <1>2 DEF BridgeRequest, PendingRequest, ServedBy
<1>5. items' \in Items /\ items <= items' /\ QueueOk(queue', l1)
  BY <1>1, <1>3
<1>6. BridgeRequest(r, locks, credits, l1, bal, items')
  BY <1>1, <1>4
<1>. QED  BY <1>1, <1>2, <1>4, <1>5, <1>6, BridgeBegins

LEMMA RefundMoves ==
    ASSUME mode = "serial", NEW g, NEW q, BridgeServe(g, q), NEW h \in Handlers, NEW k, Refund(h, k)
    PROVE  BridgeMove(q)
<1>0. h \in BridgeThreads
  BY DEF BridgeThreads
<1>. DEFINE r == Request("refund", "credit", k, locks[k].from, locks[k].amt)
<1>1. /\ Begins(h, r) /\ UNCHANGED <<bal, items, locks, credits, l1, queue, relay>>
      /\ k \in DOMAIN locks /\ locks[k].status = "pending"
  BY DEF Refund, PendingLock
<1>2. IsRequest(r) /\ r.op = "refund" /\ r.step = "credit" /\ r.id = k /\ r.user = locks[k].from /\ r.amt = locks[k].amt
  BY RequestIs
<1>. HIDE DEF r
<1>3. items \in Items /\ items \in Nat /\ QueueOk(queue, l1) /\ RelayOk(relay, l1)
  BY BridgeServed DEF BridgeState
<1>4. BridgeRequest(r, locks, credits, l1, bal, items) /\ ServedBy(h, r)
  BY <1>0, <1>1, <1>2 DEF BridgeRequest, PendingRequest, ServedBy
<1>5. items' \in Items /\ items <= items' /\ QueueOk(queue', l1) /\ RelayOk(relay', l1)
  BY <1>1, <1>3
<1>6. BridgeRequest(r, locks, credits, l1, bal, items')
  BY <1>1, <1>4
<1>. QED  BY <1>0, <1>1, <1>2, <1>4, <1>5, <1>6, BridgeBegins

LEMMA ConfirmIncomingMoves ==
    ASSUME mode = "serial", NEW g, NEW q, BridgeServe(g, q), NEW h \in BridgeThreads, NEW tx \in L1Txs, l1[tx] # "none",
           NEW c \in ChainNames, NEW p, ConfirmIncoming(h, tx, c, p), RelayOk(relay', l1)
    PROVE  BridgeMove(q)
<1>. DEFINE s == IF p THEN "queue" ELSE "check"
            r == Request("incoming", s, 0, <<tx, c>>, 0)
<1>1. Begins(h, r) /\ UNCHANGED <<bal, items, locks, credits, l1, queue>> /\ CreditKey(tx, c) \notin credits
  BY DEF ConfirmIncoming
<1>2. s \in {"queue", "check"}
  OBVIOUS
<1>. HIDE DEF s
<1>3. IsRequest(r) /\ r.op = "incoming" /\ r.step = s /\ r.user = <<tx, c>> /\ r.user[1] = tx /\ r.user[2] = c
  BY RequestIs
<1>. HIDE DEF r
<1>4. items \in Items /\ items \in Nat /\ QueueOk(queue, l1)
  BY BridgeServed DEF BridgeState
<1>5. BridgeRequest(r, locks, credits, l1, bal, items) /\ ServedBy(h, r)
  BY <1>1, <1>2, <1>3 DEF BridgeRequest, IncomingRequest, ServedBy
<1>6. items' \in Items /\ items <= items' /\ QueueOk(queue', l1)
  BY <1>1, <1>4
<1>7. BridgeRequest(r, locks, credits, l1, bal, items')
  BY <1>1, <1>5
<1>. QED  BY <1>1, <1>2, <1>3, <1>5, <1>6, <1>7, BridgeBegins

-----------------------------------------------------------------------------

\* What a request for a transfer of the other chain may rely on.
LEMMA IncomingServed ==
    ASSUME NEW g, NEW q, BridgeServe(g, q), NEW h \in BridgeThreads, req[h].op = "incoming"
    PROVE  /\ g = h /\ h \in AllThreads /\ req[h] = q /\ q # NoRequest /\ IsRequest(q) /\ req = Only(h, q)
           /\ q.op = "incoming" /\ IncomingRequest(q, credits, l1) /\ LockTable(locks, items) /\ bal \in Balances
           /\ QueueOk(queue, l1) /\ RelayOk(relay, l1) /\ BridgeHeld(q, locks, credits, l1) \in [Items -> Int]
<1>1. req[h].op # "none"
  OBVIOUS
<1>2. /\ g = h /\ h \in AllThreads /\ req[h] = q /\ q # NoRequest /\ IsRequest(q) /\ req = Only(h, q)
      /\ BridgeRequest(q, locks, credits, l1, bal, items) /\ LockTable(locks, items) /\ bal \in Balances
      /\ QueueOk(queue, l1) /\ RelayOk(relay, l1) /\ BridgeHeld(q, locks, credits, l1) \in [Items -> Int]
  BY <1>1, BridgeServed DEF BridgeState
<1>3. IncomingRequest(q, credits, l1)
  BY <1>2 DEF BridgeRequest, LockRequest, PendingRequest
<1>. QED  BY <1>2, <1>3

\* The request becomes r, which has brought neither less nor more.
LEMMA IncomingBecomes ==
    ASSUME NEW g, NEW q, BridgeServe(g, q), NEW h \in BridgeThreads, req[h].op = "incoming", NEW r, req' = Only(h, r),
           UNCHANGED <<bal, items, locks, l1, relay>>, QueueOk(queue', l1), r.op \in {"none", "incoming"}, ServedBy(h, r),
           BridgeRequest(r, locks, credits', l1, bal, items),
           \A tx \in L1Txs : L1Held(r, credits', l1, tx) = L1Held(q, credits, l1, tx)
    PROVE  BridgeMove(q)
<1>1. h \in AllThreads /\ q.op = "incoming" /\ LockTable(locks, items) /\ bal \in Balances /\ RelayOk(relay, l1)
  BY IncomingServed
<1>2. BridgeState(items)'
  BY BridgeServed DEF BridgeState
<1>3. AllL1Held(r, credits', l1) = AllL1Held(q, credits, l1)
  BY L1HeldSame
<1>4. \A k \in Items : LockHeld(r, locks, k) = LockHeld(q, locks, k)
  BY <1>1 DEF LockHeld
<1>5. BridgeHeld(r, locks, credits', l1) = BridgeHeld(q, locks, credits, l1)
  BY <1>3, <1>4 DEF BridgeHeld
<1>6. Moves(bal, BridgeHeld(q, locks, credits, l1), bal', BridgeHeld(r, locks', credits', l1'))
  BY <1>5 DEF Moves
<1>7. BridgeRequest(r, locks', credits', l1', bal', items')
  OBVIOUS
<1>. QED  BY <1>1, <1>2, <1>6, <1>7, BridgeMoved

\* The queue keeps to transfers that happened.
LEMMA EnqueuedOk ==
    ASSUME QueueOk(queue, l1), NEW tx \in L1Txs, l1[tx] # "none", NEW c \in ChainNames, Normalize(c) = c
    PROVE  QueueOk(Enqueued(tx, c), l1)
<1>. DEFINE e == [tx |-> tx, chain |-> Normalize(c)]
            i == {x \in queue.incoming : x.tx # tx} \cup {e}
            o == queue.outgoing
<1>1. Enqueued(tx, c) = [queue EXCEPT !.incoming = i]
  BY DEF Enqueued
<1>2. e.tx = tx /\ e.chain = c
  OBVIOUS
<1>. HIDE DEF e
<1>3. Happened(i, l1)
  BY <1>2 DEF Happened, QueueOk
<1>. HIDE DEF i
<1>4. Enqueued(tx, c) = [outgoing |-> o, incoming |-> i]
  BY <1>1 DEF QueueOk
<1>. HIDE DEF o
<1>. QED  BY <1>3, <1>4 DEF QueueOk

LEMMA IncomingQueueMoves ==
    ASSUME OneSpelling, NEW g, NEW q, BridgeServe(g, q), NEW h \in BridgeThreads, IncomingQueue(h)
    PROVE  BridgeMove(q)
<1>1. /\ req[h].op = "incoming" /\ req[h].step = "queue" /\ queue' = Enqueued(req[h].user[1], req[h].user[2])
      /\ req' = [req EXCEPT ![h].step = "check", ![h].amt = 1] /\ UNCHANGED <<bal, items, locks, credits, l1, relay>>
  BY DEF IncomingQueue, At
<1>2. /\ h \in AllThreads /\ req[h] = q /\ IsRequest(q) /\ req = Only(h, q) /\ q.op = "incoming" /\ IncomingRequest(q, credits, l1)
      /\ QueueOk(queue, l1)
  BY <1>1, IncomingServed
<1>. DEFINE r == Request(q.op, "check", q.id, q.user, 1)
<1>3. req' = Only(h, r)
  <2>. DEFINE k == [q EXCEPT !.step = "check"]
              m == [q EXCEPT !.step = "check", !.amt = 1]
  <2>1. q = Request(q.op, q.step, q.id, q.user, q.amt)
    BY <1>2 DEF IsRequest
  <2>2. k = Request(q.op, "check", q.id, q.user, q.amt)
    BY <2>1 DEF Request
  <2>3. m = [k EXCEPT !.amt = 1]
    OBVIOUS
  <2>4. req' = [req EXCEPT ![h] = m]
    BY <1>1, <1>2
  <2>. HIDE DEF k, m, r
  <2>5. [k EXCEPT !.amt = 1] = r
    BY <2>2 DEF Request, r
  <2>. QED  BY <1>2, <2>3, <2>4, <2>5, OnlyBecomes
<1>4. IsRequest(r) /\ r.op = "incoming" /\ r.step = "check" /\ r.user = q.user
  BY <1>2, RequestIs
<1>. HIDE DEF r
<1>5. QueueOk(queue', l1)
  <2>1. q.user[1] \in L1Txs /\ l1[q.user[1]] # "none" /\ q.user[2] \in ChainNames
    BY <1>2 DEF IncomingRequest
  <2>2. Normalize(q.user[2]) = q.user[2]
    BY <2>1 DEF OneSpelling
  <2>. QED  BY <1>1, <1>2, <2>1, <2>2, EnqueuedOk
<1>6. BridgeRequest(r, locks, credits', l1, bal, items) /\ ServedBy(h, r)
  BY <1>1, <1>2, <1>4 DEF BridgeRequest, IncomingRequest, ServedBy
<1>7. \A tx \in L1Txs : L1Held(r, credits', l1, tx) = L1Held(q, credits, l1, tx)
  BY <1>1, <1>2, <1>4 DEF L1Held
<1>. QED  BY <1>1, <1>3, <1>4, <1>5, <1>6, <1>7, IncomingBecomes

LEMMA IncomingCheckMoves ==
    ASSUME NEW g, NEW q, BridgeServe(g, q), NEW h \in BridgeThreads, IncomingCheck(h)
    PROVE  BridgeMove(q)
<1>1. /\ req[h].op = "incoming" /\ req[h].step = "check" /\ (Goes(h, "credit") \/ Ends(h))
      /\ UNCHANGED <<bal, items, locks, credits, l1, queue, relay>>
  BY DEF IncomingCheck, At
<1>2. /\ h \in AllThreads /\ req[h] = q /\ IsRequest(q) /\ req = Only(h, q) /\ q.op = "incoming" /\ IncomingRequest(q, credits, l1)
      /\ QueueOk(queue, l1)
  BY <1>1, IncomingServed
<1>3. QueueOk(queue', l1)
  BY <1>1, <1>2
<1>4. CASE Goes(h, "credit")
  <2>. DEFINE r == Request(q.op, "credit", q.id, q.user, q.amt)
  <2>1. req' = Only(h, r)
    BY <1>2, <1>4, OnlyGoes
  <2>2. IsRequest(r) /\ r.op = "incoming" /\ r.step = "credit" /\ r.user = q.user
    BY <1>2, RequestIs
  <2>. HIDE DEF r
  <2>3. BridgeRequest(r, locks, credits', l1, bal, items) /\ ServedBy(h, r)
    BY <1>1, <1>2, <2>2 DEF BridgeRequest, IncomingRequest, ServedBy
  <2>4. \A tx \in L1Txs : L1Held(r, credits', l1, tx) = L1Held(q, credits, l1, tx)
    BY <1>1, <1>2, <2>2 DEF L1Held
  <2>. QED  BY <1>1, <1>3, <2>1, <2>2, <2>3, <2>4, IncomingBecomes
<1>5. CASE Ends(h)
  <2>1. req' = Only(h, NoRequest)
    BY <1>2, <1>5, OnlyEnds
  <2>2. BridgeRequest(NoRequest, locks, credits', l1, bal, items) /\ ServedBy(h, NoRequest)
    BY NoneAsked DEF BridgeRequest, ServedBy
  <2>3. \A tx \in L1Txs : L1Held(NoRequest, credits', l1, tx) = L1Held(q, credits, l1, tx)
    BY <1>1, <1>2, NoneAsked DEF L1Held
  <2>4. NoRequest.op \in {"none", "incoming"}
    BY NoneAsked
  <2>. QED  BY <1>1, <1>3, <2>1, <2>2, <2>3, <2>4, IncomingBecomes
<1>. QED  BY <1>1, <1>4, <1>5

\* The coins of a transfer are given out once: nothing in bridge_credits says it was credited.
LEMMA IncomingCreditMoves ==
    ASSUME OneSpelling, NEW g, NEW q, BridgeServe(g, q), NEW h \in BridgeThreads, IncomingCredit(h)
    PROVE  BridgeMove(q)
<1>1. req[h].op = "incoming" /\ req[h].step = "credit" /\ UNCHANGED <<items, locks, credits, l1, queue, relay>>
  BY DEF IncomingCredit, At
<1>2. /\ h \in AllThreads /\ req[h] = q /\ IsRequest(q) /\ req = Only(h, q) /\ q.op = "incoming" /\ q.step = "credit"
      /\ IncomingRequest(q, credits, l1) /\ LockTable(locks, items) /\ bal \in Balances
      /\ BridgeHeld(q, locks, credits, l1) \in [Items -> Int]
  BY <1>1, IncomingServed
<1>. DEFINE tx == q.user[1]
            u == L1To[tx]
            x == L1Amount[tx]
            r == Request(q.op, "save", q.id, q.user, q.amt)
            hd == BridgeHeld(q, locks, credits, l1)
            kd == BridgeHeld(r, locks, credits, l1)
<1>3. UpdateBalance(u, x) /\ Goes(h, "save")
  BY <1>2 DEF IncomingCredit
<1>4. tx \in L1Txs /\ l1[tx] # "none" /\ \A c \in ChainNames : CreditKey(tx, c) \notin credits
  BY <1>2 DEF IncomingRequest, OneSpelling
<1>5. u \in DOMAIN Funds /\ x \in Nat
  BY <1>4, BridgeAssumption
<1>6. req' = Only(h, r)
  BY <1>2, <1>3, OnlyGoes
<1>7. IsRequest(r) /\ r.op = "incoming" /\ r.step = "save" /\ r.user = q.user
  BY <1>2, RequestIs
<1>. HIDE DEF r
<1>8. bal' = [bal EXCEPT ![u] = @ + x] /\ bal' \in Balances
  BY <1>2, <1>3, <1>5, Credited
<1>9. BridgeRequest(r, locks, credits, l1, bal', items) /\ ServedBy(h, r)
  BY <1>2, <1>7 DEF BridgeRequest, IncomingRequest, ServedBy
<1>10. kd \in [Items -> Int]
  BY <1>2, <1>9, BridgeHeldType
<1>11. L1Held(q, credits, l1, tx) = x /\ L1Held(r, credits, l1, tx) = 0
  BY <1>2, <1>4, <1>7 DEF L1Held
<1>12. \A y \in L1Txs : y # tx => L1Held(r, credits, l1, y) = L1Held(q, credits, l1, y)
  BY <1>2, <1>7 DEF L1Held
<1>13. AllL1Held(r, credits, l1) = AllL1Held(q, credits, l1) - x
  <2>. HIDE DEF tx, x
  <2>1. AllL1Held(r, credits, l1) = AllL1Held(q, credits, l1) - L1Held(q, credits, l1, tx) + L1Held(r, credits, l1, tx)
    BY <1>4, <1>12, L1HeldChanges
  <2>2. AllL1Held(r, credits, l1) \in Nat /\ AllL1Held(q, credits, l1) \in Nat
    BY L1HeldType
  <2>. QED  BY <1>5, <1>11, <2>1, <2>2
<1>14. 0 \in Items
  BY ServicesAssumption DEF Items
<1>15. (\A j \in Items : j # 0 => kd[j] = hd[j]) /\ kd[0] = hd[0] - x /\ x <= hd[0]
  <2>1. \A k \in Items : LockHeld(r, locks, k) = LockHeld(q, locks, k)
    BY <1>2, <1>7 DEF LockHeld
  <2>2. hd[0] = AllL1Held(q, credits, l1) /\ kd[0] = AllL1Held(r, credits, l1)
    BY <1>14 DEF BridgeHeld
  <2>3. \A j \in Items : j # 0 => kd[j] = hd[j]
    BY <2>1 DEF BridgeHeld
  <2>4. AllL1Held(r, credits, l1) \in Nat /\ AllL1Held(q, credits, l1) \in Nat
    BY L1HeldType
  <2>. HIDE DEF hd, kd, x
  <2>. QED  BY <1>5, <1>13, <2>2, <2>3, <2>4
<1>16. Moves(bal, hd, [bal EXCEPT ![u] = @ + x], kd)
  <2>1. hd \in [Items -> Int]
    BY <1>2
  <2>. HIDE DEF hd, kd, u, x
  <2>. QED  BY <2>1, <1>2, <1>5, <1>10, <1>14, <1>15, GivesOut
<1>17. BridgeState(items)'
  BY <1>1, <1>2, <1>8, BridgeKept
<1>18. Moves(bal, hd, bal', BridgeHeld(r, locks', credits', l1')) /\ BridgeRequest(r, locks', credits', l1', bal', items')
  BY <1>1, <1>8, <1>9, <1>16
<1>. QED  BY <1>2, <1>6, <1>9, <1>17, <1>18, BridgeMoved

LEMMA IncomingSaveMoves ==
    ASSUME NEW g, NEW q, BridgeServe(g, q), NEW h \in BridgeThreads, IncomingSave(h)
    PROVE  BridgeMove(q)
<1>1. /\ req[h].op = "incoming" /\ req[h].step = "save" /\ Ends(h)
      /\ UNCHANGED <<bal, items, locks, l1, queue, relay>>
  BY DEF IncomingSave, At
<1>2. /\ h \in AllThreads /\ req[h] = q /\ req = Only(h, q) /\ q.op = "incoming" /\ q.step = "save" /\ IncomingRequest(q, credits, l1)
      /\ QueueOk(queue, l1)
  BY <1>1, IncomingServed
<1>. DEFINE tx == q.user[1]
            c == q.user[2]
<1>3. credits' = credits \cup {CreditKey(tx, c)} /\ c \in ChainNames /\ tx \in L1Txs
  BY <1>2 DEF IncomingSave, IncomingRequest
<1>4. req' = Only(h, NoRequest)
  BY <1>1, <1>2, OnlyEnds
<1>5. BridgeRequest(NoRequest, locks, credits', l1, bal, items) /\ ServedBy(h, NoRequest)
  BY NoneAsked DEF BridgeRequest, ServedBy
<1>6. L1Held(q, credits, l1, tx) = 0
  BY <1>2 DEF L1Held
<1>. HIDE DEF tx, c
<1>7. \A y \in L1Txs : L1Held(NoRequest, credits', l1, y) = L1Held(q, credits, l1, y)
  <2>. SUFFICES ASSUME NEW y \in L1Txs PROVE L1Held(NoRequest, credits', l1, y) = L1Held(q, credits, l1, y)
    OBVIOUS
  <2>1. CASE y = tx
    <3>1. CreditKey(y, c) \in credits'
      BY <1>3, <2>1
    <3>2. L1Held(NoRequest, credits', l1, y) = 0
      BY <1>3, <3>1 DEF L1Held
    <3>. QED  BY <1>6, <2>1, <3>2
  <2>2. CASE y # tx
    <3>1. \A d : CreditKey(y, d) # CreditKey(tx, c)
      BY <2>2 DEF CreditKey
    <3>2. \A d : CreditKey(y, d) \in credits' <=> CreditKey(y, d) \in credits
      BY <1>3, <3>1
    <3>. QED  BY <1>2, <2>2, <3>2, NoneAsked DEF L1Held, tx
  <2>. QED  BY <2>1, <2>2
<1>8. NoRequest.op \in {"none", "incoming"} /\ QueueOk(queue', l1)
  BY <1>1, <1>2, NoneAsked
<1>. QED  BY <1>1, <1>4, <1>5, <1>7, <1>8, IncomingBecomes

LEMMA L1MovesMoves ==
    ASSUME NEW g, NEW q, BridgeServe(g, q), NEW tx \in L1Txs, L1Moves(tx)
    PROVE  BridgeMove(q)
<1>1. UNCHANGED <<bal, req, items, locks, credits, queue, relay>>
  BY DEF L1Moves
<1>2. /\ g \in AllThreads /\ ServedBy(g, q) /\ req = Only(g, q) /\ BridgeRequest(q, locks, credits, l1, bal, items)
      /\ LockTable(locks, items) /\ BridgeHeld(q, locks, credits, l1) \in [Items -> Int] /\ bal \in Balances /\ items \in Items
      /\ l1 \in [L1Txs -> {"none", "mined", "confirmed"}] /\ QueueOk(queue, l1) /\ RelayOk(relay, l1)
  BY BridgeServed DEF BridgeState
<1>3. PICK s \in {"mined", "confirmed"} : l1' = [l1 EXCEPT ![tx] = s]
  BY DEF L1Moves
<1>. DEFINE l == [l1 EXCEPT ![tx] = s]
            hd == BridgeHeld(q, locks, credits, l1)
            kd == BridgeHeld(q, locks, credits, l)
            x == L1Held(q, credits, l, tx) - L1Held(q, credits, l1, tx)
<1>4. /\ l \in [L1Txs -> {"none", "mined", "confirmed"}] /\ l[tx] # "none"
      /\ \A y \in L1Txs : (l1[y] # "none" => l[y] # "none") /\ (y # tx => l[y] = l1[y])
  BY <1>2
<1>. HIDE DEF l
<1>5. \A S : Happened(S, l1) => Happened(S, l)
  BY <1>4 DEF Happened
<1>6. QueueOk(queue, l) /\ RelayOk(relay, l)
  BY <1>2, <1>5 DEF QueueOk, RelayOk
<1>7. BridgeRequest(q, locks, credits, l, bal, items)
  <2>1. IncomingRequest(q, credits, l1) => IncomingRequest(q, credits, l)
    BY <1>4 DEF IncomingRequest
  <2>. QED  BY <1>2, <2>1 DEF BridgeRequest
<1>8. kd \in [Items -> Int]
  BY <1>2, <1>7, BridgeHeldType
<1>9. \A y \in L1Txs : y # tx => L1Held(q, credits, l, y) = L1Held(q, credits, l1, y)
  BY <1>4 DEF L1Held
<1>10. x \in Nat /\ L1Held(q, credits, l1, tx) \in Nat /\ L1Held(q, credits, l, tx) \in Nat
  <2>1. L1Held(q, credits, l1, tx) \in Nat /\ L1Held(q, credits, l, tx) \in Nat
    BY L1HeldType
  <2>2. L1Held(q, credits, l1, tx) = 0 \/ L1Held(q, credits, l, tx) = L1Held(q, credits, l1, tx)
    BY <1>4 DEF L1Held
  <2>. QED  BY <2>1, <2>2
<1>11. AllL1Held(q, credits, l) = AllL1Held(q, credits, l1) + x
  <2>1. AllL1Held(q, credits, l) = AllL1Held(q, credits, l1) - L1Held(q, credits, l1, tx) + L1Held(q, credits, l, tx)
    BY <1>9, L1HeldChanges
  <2>2. AllL1Held(q, credits, l) \in Nat /\ AllL1Held(q, credits, l1) \in Nat
    BY L1HeldType
  <2>. QED  BY <1>10, <2>1, <2>2
<1>12. 0 \in Items
  BY ServicesAssumption DEF Items
<1>13. (\A j \in Items : j # 0 => kd[j] = hd[j]) /\ kd[0] = hd[0] + x
  BY <1>11, <1>12 DEF BridgeHeld
<1>14. Moves(bal, hd, bal, kd)
  <2>1. hd \in [Items -> Int]
    BY <1>2
  <2>. HIDE DEF hd, kd, x
  <2>2. kd = [hd EXCEPT ![0] = @ + x]
    BY <2>1, <1>8, <1>10, <1>12, <1>13, HeldChanges
  <2>. QED  BY <2>2, <1>10 DEF Moves, Arrived
<1>15. l1' = l
  BY <1>3 DEF l
<1>16. BridgeState(items)'
  BY <1>1, <1>2, <1>4, <1>6, <1>15 DEF BridgeState
<1>17. /\ Moves(bal, hd, bal', BridgeHeld(q, locks', credits', l1')) /\ BridgeRequest(q, locks', credits', l1', bal', items')
       /\ req' = Only(g, q)
  BY <1>1, <1>2, <1>7, <1>14, <1>15
<1>. QED  BY <1>2, <1>16, <1>17, BridgeMoved

-----------------------------------------------------------------------------
(* The relayer *)

LEMMA SmallerHappened == \A S, T, l : Happened(S, l) /\ T \subseteq S => Happened(T, l)
BY DEF Happened

\* A pass over the queue, after an entry was looked at and perhaps taken off.
LEMMA WatchOk ==
    ASSUME RelayOk(relay, l1), relay.step = "watch", NEW o, NEW i, i \subseteq relay.incoming, NEW k, QueueOk(k, l1)
    PROVE  /\ relay = [step |-> "watch", outgoing |-> relay.outgoing, incoming |-> relay.incoming, kept |-> relay.kept]
           /\ Happened(relay.incoming, l1) /\ QueueOk(relay.kept, l1)
           /\ RelayOk([step |-> "watch", outgoing |-> o, incoming |-> i, kept |-> k], l1)
<1>1. NoPass.step = "idle"
  BY DEF NoPass
<1>2. relay # NoPass
  BY <1>1
<1>3. relay # [step |-> "locks", todo |-> relay.todo]
  <2>1. [step |-> "locks", todo |-> relay.todo].step = "locks"
    OBVIOUS
  <2>. QED  BY <2>1
<1>4. /\ relay = [step |-> "watch", outgoing |-> relay.outgoing, incoming |-> relay.incoming, kept |-> relay.kept]
      /\ Happened(relay.incoming, l1) /\ QueueOk(relay.kept, l1)
  BY <1>2, <1>3 DEF RelayOk
<1>. DEFINE p == [step |-> "watch", outgoing |-> o, incoming |-> i, kept |-> k]
<1>5. p = [step |-> "watch", outgoing |-> p.outgoing, incoming |-> p.incoming, kept |-> p.kept] /\ p.incoming = i /\ p.kept = k
  OBVIOUS
<1>6. Happened(i, l1)
  BY <1>4, SmallerHappened
<1>. HIDE DEF p
<1>7. RelayOk(p, l1)
  BY <1>5, <1>6 DEF RelayOk
<1>. QED  BY <1>4, <1>7 DEF p

LEMMA TodoOk ==
    ASSUME NEW t
    PROVE  RelayOk([step |-> "locks", todo |-> t], l1)
<1>. DEFINE p == [step |-> "locks", todo |-> t]
<1>1. p = [step |-> "locks", todo |-> p.todo]
  OBVIOUS
<1>. HIDE DEF p
<1>2. RelayOk(p, l1)
  BY <1>1 DEF RelayOk
<1>. QED  BY <1>2 DEF p

LEMMA RelayerTickMoves ==
    ASSUME NEW g, NEW q, BridgeServe(g, q), RelayerTick \/ RelayerLoads \/ RelayerSaves
    PROVE  BridgeMove(q)
<1>1. QueueOk(queue, l1) /\ RelayOk(relay, l1)
  BY BridgeServed DEF BridgeState
<1>2. CASE RelayerTick
  <2>1. relay' = [step |-> "locks", todo |-> {k \in DOMAIN locks : PendingLock(k)}] /\ UNCHANGED <<bal, req, items, locks, credits, l1, queue>>
    BY <1>2 DEF RelayerTick
  <2>2. RelayOk(relay', l1)
    BY <2>1, TodoOk
  <2>3. QueueOk(queue', l1)
    BY <1>1, <2>1
  <2>. QED  BY <2>1, <2>2, <2>3, BridgeStays
<1>3. CASE RelayerLoads
  <2>1. /\ relay' = [step |-> "watch", outgoing |-> queue.outgoing, incoming |-> queue.incoming, kept |-> queue]
        /\ UNCHANGED <<bal, req, items, locks, credits, l1, queue>>
    BY <1>3 DEF RelayerLoads
  <2>2. /\ relay' = [step |-> "watch", outgoing |-> relay'.outgoing, incoming |-> relay'.incoming, kept |-> relay'.kept]
        /\ relay'.incoming = queue.incoming /\ relay'.kept = queue
    BY <2>1
  <2>3. RelayOk(relay', l1)
    BY <1>1, <2>2 DEF RelayOk, QueueOk
  <2>4. QueueOk(queue', l1)
    BY <1>1, <2>1
  <2>. QED  BY <2>1, <2>3, <2>4, BridgeStays
<1>4. CASE RelayerSaves
  <2>1. relay.step = "watch" /\ queue' = relay.kept /\ relay' = NoPass /\ UNCHANGED <<bal, req, items, locks, credits, l1>>
    BY <1>4 DEF RelayerSaves
  <2>2. QueueOk(queue', l1)
    BY <1>1, <2>1, WatchOk
  <2>3. RelayOk(relay', l1)
    BY <2>1 DEF RelayOk
  <2>. QED  BY <2>1, <2>2, <2>3, BridgeStays
<1>. QED  BY <1>2, <1>3, <1>4

LEMMA RelayerConfirmsMoves ==
    ASSUME mode = "serial", NEW g, NEW q, BridgeServe(g, q), NEW k, RelayerConfirms(k)
    PROVE  BridgeMove(q)
<1>0. Relayer \in BridgeThreads
  BY DEF BridgeThreads
<1>1. QueueOk(queue, l1) /\ RelayOk(relay, l1)
  BY BridgeServed DEF BridgeState
<1>2. relay.step = "locks" /\ relay' = [relay EXCEPT !.todo = relay.todo \ {k}]
  BY DEF RelayerConfirms
<1>3. relay = [step |-> "locks", todo |-> relay.todo]
  <2>1. relay # NoPass
    <3>1. NoPass.step = "idle"
      BY DEF NoPass
    <3>. QED  BY <3>1, <1>2
  <2>2. ~(relay = [step |-> "watch", outgoing |-> relay.outgoing, incoming |-> relay.incoming, kept |-> relay.kept])
    BY <1>2
  <2>. QED  BY <1>1, <2>1, <2>2 DEF RelayOk
<1>. DEFINE t == relay.todo \ {k}
<1>4. relay' = [step |-> "locks", todo |-> t]
  <2>. HIDE DEF t
  <2>1. relay' = [relay EXCEPT !.todo = t]
    BY <1>2 DEF t
  <2>. QED  BY <1>3, <2>1
<1>5. RelayOk(relay', l1)
  BY <1>4, TodoOk
<1>6. CASE ConfirmLock(Relayer, k)
  BY <1>0, <1>5, <1>6, ConfirmLockMoves
<1>7. CASE UNCHANGED <<bal, req, items, locks, credits, l1, queue>>
  <2>1. QueueOk(queue', l1)
    BY <1>1, <1>7
  <2>. QED  BY <1>5, <1>7, <2>1, BridgeStays
<1>. QED  BY <1>6, <1>7 DEF RelayerConfirms

LEMMA RelayerOutgoingMoves ==
    ASSUME mode = "serial", NEW g, NEW q, BridgeServe(g, q), NEW e, RelayerOutgoing(e)
    PROVE  BridgeMove(q)
<1>0. Relayer \in BridgeThreads
  BY DEF BridgeThreads
<1>1. QueueOk(queue, l1) /\ RelayOk(relay, l1) /\ relay.step = "watch"
  BY BridgeServed DEF BridgeState, RelayerOutgoing
<1>. DEFINE o == relay.outgoing \ {e}
            i == relay.incoming
            k == relay.kept
            d == k.outgoing \ {e}
            n == [outgoing |-> d, incoming |-> k.incoming]
            seen == [step |-> "watch", outgoing |-> o, incoming |-> i, kept |-> k]
            done == [step |-> "watch", outgoing |-> o, incoming |-> i, kept |-> n]
<1>2. /\ relay = [step |-> "watch", outgoing |-> relay.outgoing, incoming |-> i, kept |-> k]
      /\ Happened(i, l1) /\ QueueOk(k, l1)
  BY <1>1, WatchOk
<1>3. QueueOk(n, l1)
  <2>1. n.incoming = k.incoming /\ n = [outgoing |-> n.outgoing, incoming |-> n.incoming]
    OBVIOUS
  <2>. HIDE DEF n
  <2>. QED  BY <1>2, <2>1 DEF QueueOk
<1>4. RelayOk(seen, l1) /\ RelayOk(done, l1)
  <2>. HIDE DEF o, n
  <2>. QED  BY <1>1, <1>2, <1>3, WatchOk
<1>5. [relay EXCEPT !.outgoing = o] = seen
  <2>. HIDE DEF o, i, k
  <2>. QED  BY <1>2
<1>6. [seen EXCEPT !.kept.outgoing = d] = done
  <2>1. [k EXCEPT !.outgoing = d] = n
    <3>1. k = [outgoing |-> k.outgoing, incoming |-> k.incoming]
      BY <1>2 DEF QueueOk
    <3>. HIDE DEF d, k
    <3>. QED  BY <3>1
  <2>2. seen.kept = k
    OBVIOUS
  <2>3. [seen EXCEPT !.kept.outgoing = d] = [seen EXCEPT !.kept = [k EXCEPT !.outgoing = d]]
    <3>. HIDE DEF d, k, o, i
    <3>. QED  OBVIOUS
  <2>. HIDE DEF o, i, k, n, d
  <2>. QED  BY <2>1, <2>3
<1>7. \/ ConfirmLock(Relayer, e.lock) /\ relay' = done
      \/ relay' = seen /\ UNCHANGED <<bal, req, items, locks, credits, l1, queue>>
  <2>1. seen.kept = k
    OBVIOUS
  <2>2. \/ ConfirmLock(Relayer, e.lock) /\ relay' = [seen EXCEPT !.kept.outgoing = seen.kept.outgoing \ {e}]
        \/ relay' = seen /\ UNCHANGED <<bal, req, items, locks, credits, l1, queue>>
    <3>. HIDE DEF seen
    <3>. QED  BY <1>5 DEF RelayerOutgoing
  <2>. HIDE DEF seen, done
  <2>. QED  BY <1>6, <2>1, <2>2
<1>. HIDE DEF seen, done
<1>8. CASE ConfirmLock(Relayer, e.lock) /\ relay' = done
  BY <1>0, <1>4, <1>8, ConfirmLockMoves
<1>9. CASE relay' = seen /\ UNCHANGED <<bal, req, items, locks, credits, l1, queue>>
  <2>1. QueueOk(queue', l1) /\ RelayOk(relay', l1)
    BY <1>1, <1>4, <1>9
  <2>. QED  BY <1>9, <2>1, BridgeStays
<1>. QED  BY <1>7, <1>8, <1>9

LEMMA RelayerIncomingMoves ==
    ASSUME mode = "serial", NEW g, NEW q, BridgeServe(g, q), NEW e, RelayerIncoming(e)
    PROVE  BridgeMove(q)
<1>0. Relayer \in BridgeThreads
  BY DEF BridgeThreads
<1>1. QueueOk(queue, l1) /\ RelayOk(relay, l1) /\ relay.step = "watch" /\ e \in relay.incoming
  BY BridgeServed DEF BridgeState, RelayerIncoming
<1>. DEFINE o == relay.outgoing
            i == relay.incoming \ {e}
            k == relay.kept
            d == k.incoming \ {e}
            n == [outgoing |-> k.outgoing, incoming |-> d]
            seen == [step |-> "watch", outgoing |-> o, incoming |-> i, kept |-> k]
            done == [step |-> "watch", outgoing |-> o, incoming |-> i, kept |-> n]
<1>2. /\ relay = [step |-> "watch", outgoing |-> o, incoming |-> relay.incoming, kept |-> k]
      /\ Happened(relay.incoming, l1) /\ QueueOk(k, l1)
  BY <1>1, WatchOk
<1>3. QueueOk(n, l1)
  <2>1. n.incoming = d /\ n = [outgoing |-> n.outgoing, incoming |-> n.incoming]
    OBVIOUS
  <2>2. Happened(d, l1)
    BY <1>2, SmallerHappened DEF QueueOk
  <2>. HIDE DEF n
  <2>. QED  BY <2>1, <2>2 DEF QueueOk
<1>4. RelayOk(seen, l1) /\ RelayOk(done, l1)
  <2>1. i \subseteq relay.incoming
    OBVIOUS
  <2>. HIDE DEF o, n, i
  <2>. QED  BY <1>1, <1>2, <1>3, <2>1, WatchOk
<1>5. [relay EXCEPT !.incoming = i] = seen
  <2>. HIDE DEF o, i, k
  <2>. QED  BY <1>2
<1>6. [seen EXCEPT !.kept.incoming = d] = done
  <2>1. [k EXCEPT !.incoming = d] = n
    <3>1. k = [outgoing |-> k.outgoing, incoming |-> k.incoming]
      BY <1>2 DEF QueueOk
    <3>. HIDE DEF d, k
    <3>. QED  BY <3>1
  <2>2. seen.kept = k
    OBVIOUS
  <2>3. [seen EXCEPT !.kept.incoming = d] = [seen EXCEPT !.kept = [k EXCEPT !.incoming = d]]
    <3>. HIDE DEF d, k, o, i
    <3>. QED  OBVIOUS
  <2>. HIDE DEF o, i, k, n, d
  <2>. QED  BY <2>1, <2>3
<1>7. \/ relay' \in {seen, done} /\ UNCHANGED <<bal, req, items, locks, credits, l1, queue>>
      \/ l1[e.tx] = "confirmed" /\ relay' = done /\ ConfirmIncoming(Relayer, e.tx, e.chain, FALSE)
  <2>1. seen.kept = k
    OBVIOUS
  <2>2. \/ relay' \in {seen, [seen EXCEPT !.kept.incoming = seen.kept.incoming \ {e}]} /\ UNCHANGED <<bal, req, items, locks, credits, l1, queue>>
        \/ l1[e.tx] = "confirmed" /\ relay' = [seen EXCEPT !.kept.incoming = seen.kept.incoming \ {e}]
           /\ ConfirmIncoming(Relayer, e.tx, e.chain, FALSE)
    <3>. HIDE DEF seen
    <3>. QED  BY <1>5 DEF RelayerIncoming
  <2>. HIDE DEF seen, done
  <2>. QED  BY <1>6, <2>1, <2>2
<1>. HIDE DEF seen, done
<1>8. CASE l1[e.tx] = "confirmed" /\ relay' = done /\ ConfirmIncoming(Relayer, e.tx, e.chain, FALSE)
  <2>1. e.tx \in L1Txs /\ l1[e.tx] # "none" /\ e.chain \in ChainNames /\ RelayOk(relay', l1)
    BY <1>1, <1>2, <1>4, <1>8 DEF Happened
  <2>. QED  BY <1>0, <1>8, <2>1, ConfirmIncomingMoves
<1>9. CASE relay' \in {seen, done} /\ UNCHANGED <<bal, req, items, locks, credits, l1, queue>>
  <2>1. QueueOk(queue', l1) /\ RelayOk(relay', l1)
    BY <1>1, <1>4, <1>9
  <2>. QED  BY <1>9, <2>1, BridgeStays
<1>. QED  BY <1>7, <1>8, <1>9

LEMMA RegisterMoves ==
    ASSUME OneSpelling, NEW g, NEW q, BridgeServe(g, q), PostBridgeL1Register
    PROVE  BridgeMove(q)
<1>1. QueueOk(queue, l1) /\ RelayOk(relay, l1)
  BY BridgeServed DEF BridgeState
<1>2. PICK tx \in OnL1, c \in ChainNames : queue' = Enqueued(tx, c) /\ UNCHANGED <<bal, req, items, locks, credits, l1, relay>>
  BY DEF PostBridgeL1Register
<1>3. tx \in L1Txs /\ l1[tx] # "none" /\ Normalize(c) = c
  BY DEF OnL1, OneSpelling
<1>4. QueueOk(queue', l1) /\ RelayOk(relay', l1)
  BY <1>1, <1>2, <1>3, EnqueuedOk
<1>. QED  BY <1>2, <1>4, BridgeStays

LEMMA BridgeStep ==
    ASSUME OneSpelling, mode = "serial", NEW g, NEW q, BridgeServe(g, q), BridgeNext
    PROVE  BridgeMove(q)
<1>0. Handlers \subseteq BridgeThreads /\ RelayOk(relay, l1)
  BY BridgeServed DEF BridgeThreads, BridgeState
<1>1. CASE \E h \in Handlers :
          \/ PostBridgeLock(h) \/ LockDebit(h) \/ LockBurn(h) \/ LockSave(h)
          \/ PostBridgeConfirmLock(h) \/ PostBridgeConfirm(h)
          \/ PostBridgeRefund(h) \/ RefundCredit(h) \/ RefundMark(h)
  <2>1. PICK h \in Handlers :
          \/ PostBridgeLock(h) \/ LockDebit(h) \/ LockBurn(h) \/ LockSave(h)
          \/ PostBridgeConfirmLock(h) \/ PostBridgeConfirm(h)
          \/ PostBridgeRefund(h) \/ RefundCredit(h) \/ RefundMark(h)
    BY <1>1
  <2>2. CASE PostBridgeLock(h) \/ LockDebit(h) \/ LockBurn(h) \/ LockSave(h) \/ RefundCredit(h)
    BY <2>2, PostBridgeLockMoves, LockDebitMoves, LockBurnMoves, LockSaveMoves, RefundCreditMoves
  <2>3. CASE PostBridgeConfirmLock(h)
    <3>1. PICK k \in DOMAIN locks : ConfirmLock(h, k) /\ UNCHANGED relay
      BY <2>3 DEF PostBridgeConfirmLock
    <3>2. RelayOk(relay', l1) /\ h \in BridgeThreads
      BY <1>0, <3>1
    <3>. QED  BY <3>1, <3>2, ConfirmLockMoves
  <2>4. CASE PostBridgeConfirm(h)
    <3>1. PICK tx \in OnL1, c \in ChainNames, p \in BOOLEAN : ConfirmIncoming(h, tx, c, p) /\ UNCHANGED relay
      BY <2>4 DEF PostBridgeConfirm
    <3>2. RelayOk(relay', l1) /\ h \in BridgeThreads /\ tx \in L1Txs /\ l1[tx] # "none"
      BY <1>0, <3>1 DEF OnL1
    <3>. QED  BY <3>1, <3>2, ConfirmIncomingMoves
  <2>5. CASE PostBridgeRefund(h)
    BY <2>5, RefundMoves DEF PostBridgeRefund
  <2>6. CASE RefundMark(h)
    BY <1>0, <2>6, MarkMoves
  <2>. QED  BY <2>1, <2>2, <2>3, <2>4, <2>5, <2>6
<1>2. CASE \E h \in BridgeThreads : ConfirmMark(h) \/ IncomingQueue(h) \/ IncomingCheck(h) \/ IncomingCredit(h) \/ IncomingSave(h)
  BY <1>2, MarkMoves, IncomingQueueMoves, IncomingCheckMoves, IncomingCreditMoves, IncomingSaveMoves
<1>3. CASE RelayerTick \/ RelayerLoads \/ RelayerSaves
  BY <1>3, RelayerTickMoves
<1>4. CASE \E k \in DOMAIN locks : RelayerConfirms(k)
  BY <1>4, RelayerConfirmsMoves
<1>5. CASE \E e : RelayerOutgoing(e) \/ RelayerIncoming(e)
  BY <1>5, RelayerOutgoingMoves, RelayerIncomingMoves
<1>6. CASE PostBridgeL1Register \/ \E tx \in L1Txs : L1Moves(tx)
  BY <1>6, RegisterMoves, L1MovesMoves
<1>. QED  BY <1>1, <1>2, <1>3, <1>4, <1>5, <1>6 DEF BridgeNext

BridgeView ==
    \A h, r : BridgeServe(h, r) =>
        /\ \A k : LockHolds(k) = LockHeld(r, locks, k)
        /\ SumFunction([tx \in L1Txs |-> L1Holds(tx)]) = AllL1Held(r, credits, l1)

LEMMA BridgeViewed == BridgeView /\ BridgeView'
<1>1. BridgeView
  <2>. SUFFICES ASSUME NEW h, NEW r, BridgeServe(h, r)
                PROVE  /\ \A k : LockHolds(k) = LockHeld(r, locks, k)
                       /\ SumFunction([tx \in L1Txs |-> L1Holds(tx)]) = AllL1Held(r, credits, l1)
    BY DEF BridgeView
  <2>0. Handlers \subseteq BridgeThreads
    BY DEF BridgeThreads
  <2>1. /\ h \in AllThreads /\ req[h] = r /\ \A x \in BridgeThreads : x # h => req[x].op = "none"
        /\ (r.op # "none" => h \in BridgeThreads) /\ (r.op \in {"lock", "refund"} => h \in Handlers)
    BY OnlyIs, HandlersAreThreads, NoneAsked DEF BridgeServe, ServedBy
  <2>2. ASSUME NEW k PROVE LockHolds(k) = LockHeld(r, locks, k)
    <3>1. \A s : Locking(k, s) = IF r.op = "lock" /\ r.step = s /\ r.id = k THEN {h} ELSE {}
      BY <2>0, <2>1 DEF Locking, At
    <3>2. Refunded(k) <=> r.op = "refund" /\ r.step = "mark" /\ r.id = k
      <4>1. ASSUME r.op = "refund", r.step = "mark", r.id = k PROVE Refunded(k)
        BY <4>1, <2>1 DEF Refunded, At
      <4>2. ASSUME Refunded(k) PROVE r.op = "refund" /\ r.step = "mark" /\ r.id = k
        <5>1. PICK x \in Handlers : req[x].op = "refund" /\ req[x].step = "mark" /\ req[x].id = k
          BY <4>2 DEF Refunded, At
        <5>2. x = h
          BY <5>1, <2>0, <2>1
        <5>. QED  BY <5>1, <5>2, <2>1
      <4>. QED  BY <4>1, <4>2
    <3>3. (CHOOSE x \in {h} : TRUE) = h
      OBVIOUS
    <3>4. CASE r.op = "lock" /\ r.step = "burn" /\ r.id = k
      <4>1. Locking(k, "burn") = {h}
        BY <3>1, <3>4
      <4>. QED  BY <4>1, <3>3, <3>4, <2>1 DEF LockHolds, LockHeld
    <3>5. CASE r.op = "lock" /\ r.step = "save" /\ r.id = k
      <4>1. Locking(k, "burn") = {} /\ Locking(k, "save") = {h}
        BY <3>1, <3>5
      <4>. QED  BY <4>1, <3>3, <3>5, <2>1 DEF LockHolds, LockHeld
    <3>6. CASE ~(r.op = "lock" /\ r.step = "burn" /\ r.id = k) /\ ~(r.op = "lock" /\ r.step = "save" /\ r.id = k)
      <4>1. Locking(k, "burn") = {} /\ Locking(k, "save") = {}
        BY <3>1, <3>6
      <4>. QED  BY <4>1, <3>2, <3>6 DEF LockHolds, LockHeld, PendingLock
    <3>. QED  BY <3>4, <3>5, <3>6
  <2>3. \A tx \in L1Txs : L1Holds(tx) = L1Held(r, credits, l1, tx)
    <3>. SUFFICES ASSUME NEW tx \in L1Txs PROVE L1Holds(tx) = L1Held(r, credits, l1, tx)
      OBVIOUS
    <3>1. (\E x \in BridgeThreads : At(x, "incoming", "save") /\ req[x].user[1] = tx) <=> r.op = "incoming" /\ r.step = "save" /\ r.user[1] = tx
      <4>1. ASSUME r.op = "incoming", r.step = "save", r.user[1] = tx
            PROVE  \E x \in BridgeThreads : At(x, "incoming", "save") /\ req[x].user[1] = tx
        BY <4>1, <2>1 DEF At
      <4>2. ASSUME \E x \in BridgeThreads : At(x, "incoming", "save") /\ req[x].user[1] = tx
            PROVE  r.op = "incoming" /\ r.step = "save" /\ r.user[1] = tx
        <5>1. PICK x \in BridgeThreads : req[x].op = "incoming" /\ req[x].step = "save" /\ req[x].user[1] = tx
          BY <4>2 DEF At
        <5>2. x = h
          BY <5>1, <2>1
        <5>. QED  BY <5>1, <5>2, <2>1
      <4>. QED  BY <4>1, <4>2
    <3>. QED  BY <3>1 DEF L1Holds, L1Held
  <2>4. [tx \in L1Txs |-> L1Holds(tx)] = [tx \in L1Txs |-> L1Held(r, credits, l1, tx)]
    BY <2>3
  <2>. QED  BY <2>2, <2>4 DEF AllL1Held
<1>2. BridgeView'
  BY <1>1, PTL
<1>. QED  BY <1>1, <1>2

-----------------------------------------------------------------------------
(* All services *)

Plain == {"accounts", "keys", "wallet", "minivm"}

\* What is known of the chosen service while one request is served after another.
CustodyInv ==
    InCustody =>
        /\ service \in Chosen /\ bal \in Balances
        /\ service = "channels" => \E h, r : ChannelsServe(h, r)
        /\ service = "wills" => \E h, r : WillsServe(h, r)
        /\ service = "plasma" => \E h, r : PlasmaServe(h, r)
        /\ service = "market" => \E h, r : MarketServe(h, r)
        /\ service = "bridge" => \E h, r : BridgeServe(h, r)
        /\ service = "shards" => \E h, r : CrossServe(h, r)
        /\ service \in {"wasm", "agents"} => \E h, r : FeeServe(h, r)

\* What the items hold is what the tables and the request that is served say.
HeldView ==
    InCustody =>
        /\ MappedBal = bal
        /\ service = "channels" => \A h, r : ChannelsServe(h, r) => MappedHeld = ChannelsHeld(r, ln)
        /\ service = "wills" => \A h, r : WillsServe(h, r) => MappedHeld = WillsHeld(r, willDb)
        /\ service = "plasma" => \A h, r : PlasmaServe(h, r) => MappedHeld = DepositsHeld(r, deposits, exits)
        /\ service = "market" => \A h, r : MarketServe(h, r) => MappedHeld = Single(SaleHeld(r))
        /\ service = "bridge" => \A h, r : BridgeServe(h, r) => MappedHeld = BridgeHeld(r, locks, credits, l1)
        /\ service = "shards" => \A h, r : CrossServe(h, r) => MappedHeld = Single(CrossHeld(r))
        /\ service \in {"wasm", "agents"} \cup Plain => MappedHeld = Single(0)

LEMMA HeldViewed == HeldView /\ HeldView'
<1>1. HeldView
  <2>. SUFFICES ASSUME InCustody
                PROVE  /\ MappedBal = bal
                       /\ service = "channels" => \A h, r : ChannelsServe(h, r) => MappedHeld = ChannelsHeld(r, ln)
                       /\ service = "wills" => \A h, r : WillsServe(h, r) => MappedHeld = WillsHeld(r, willDb)
                       /\ service = "plasma" => \A h, r : PlasmaServe(h, r) => MappedHeld = DepositsHeld(r, deposits, exits)
                       /\ service = "market" => \A h, r : MarketServe(h, r) => MappedHeld = Single(SaleHeld(r))
                       /\ service = "bridge" => \A h, r : BridgeServe(h, r) => MappedHeld = BridgeHeld(r, locks, credits, l1)
                       /\ service = "shards" => \A h, r : CrossServe(h, r) => MappedHeld = Single(CrossHeld(r))
                       /\ service \in {"wasm", "agents"} \cup Plain => MappedHeld = Single(0)
    BY DEF HeldView
  <2>0. MappedHeld = [i \in Items |-> Holds(i)] /\ MappedBal = bal
    BY DEF MappedHeld, MappedBal, Items
  <2>1. ASSUME service = "channels", NEW h, NEW r, ChannelsServe(h, r) PROVE MappedHeld = ChannelsHeld(r, ln)
    <3>1. \A i : Holds(i) = ChannelHolds(i)
      BY <2>1 DEF Holds
    <3>2. \A i : ChannelHolds(i) = ChannelHeld(r, ln, i)
      BY <2>1, ChannelsViewed DEF ChannelsView
    <3>. QED  BY <2>0, <3>1, <3>2 DEF ChannelsHeld
  <2>2. ASSUME service = "wills", NEW h, NEW r, WillsServe(h, r) PROVE MappedHeld = WillsHeld(r, willDb)
    <3>1. \A i : Holds(i) = WillHolds(i)
      BY <2>2 DEF Holds
    <3>2. \A i : WillHolds(i) = WillHeld(r, willDb, i)
      BY <2>2, WillsViewed DEF WillsView
    <3>. QED  BY <2>0, <3>1, <3>2 DEF WillsHeld
  <2>3. ASSUME service = "plasma", NEW h, NEW r, PlasmaServe(h, r) PROVE MappedHeld = DepositsHeld(r, deposits, exits)
    <3>1. \A i : Holds(i) = DepositHolds(i)
      BY <2>3 DEF Holds
    <3>2. \A i : DepositHolds(i) = DepositHeld(r, deposits, exits, i)
      BY <2>3, PlasmaViewed DEF PlasmaView
    <3>. QED  BY <2>0, <3>1, <3>2 DEF DepositsHeld
  <2>4. ASSUME service = "market", NEW h, NEW r, MarketServe(h, r) PROVE MappedHeld = Single(SaleHeld(r))
    <3>1. \A i : Holds(i) = IF i = 0 THEN SumFunction([g \in Handlers |-> SaleHolds(g)]) ELSE 0
      BY <2>4 DEF Holds
    <3>2. SumFunction([g \in Handlers |-> SaleHolds(g)]) = SaleHeld(r)
      BY <2>4, MarketViewed DEF MarketView
    <3>. QED  BY <2>0, <3>1, <3>2 DEF Single
  <2>5. ASSUME service = "bridge", NEW h, NEW r, BridgeServe(h, r) PROVE MappedHeld = BridgeHeld(r, locks, credits, l1)
    <3>1. \A i \in Items : Holds(i) = IF i = 0 THEN SumFunction([tx \in L1Txs |-> L1Holds(tx)]) ELSE LockHolds(i)
      BY <2>5, ServicesAssumption DEF Holds, Items
    <3>2. /\ \A k : LockHolds(k) = LockHeld(r, locks, k)
          /\ SumFunction([tx \in L1Txs |-> L1Holds(tx)]) = AllL1Held(r, credits, l1)
      BY <2>5, BridgeViewed DEF BridgeView
    <3>. QED  BY <2>0, <3>1, <3>2 DEF BridgeHeld
  <2>6. ASSUME service = "shards", NEW h, NEW r, CrossServe(h, r) PROVE MappedHeld = Single(CrossHeld(r))
    <3>1. \A i : Holds(i) = IF i = 0 THEN SumFunction([g \in Handlers |-> CrossHolds(g)]) ELSE 0
      BY <2>6 DEF Holds
    <3>2. SumFunction([g \in Handlers |-> CrossHolds(g)]) = CrossHeld(r)
      BY <2>6, CrossViewed DEF CrossView
    <3>. QED  BY <2>0, <3>1, <3>2 DEF Single
  <2>7. ASSUME service \in {"wasm", "agents"} \cup Plain PROVE MappedHeld = Single(0)
    <3>1. \A i : Holds(i) = 0
      BY <2>7 DEF Holds, Plain
    <3>. QED  BY <2>0, <3>1 DEF Single
  <2>. QED  BY <2>0, <2>1, <2>2, <2>3, <2>4, <2>5, <2>6, <2>7
<1>. QED  BY <1>1, PTL

LEMMA NobodyAtFirst ==
    RestInit => req = Only(Monitor, NoRequest) /\ bal \in Balances /\ items = 0 /\ items \in Items /\ Monitor \in AllThreads
<1>1. Funds \in Balances /\ 0 \in Items
  BY ServicesAssumption DEF Balances, Items
<1>. QED  BY <1>1, HandlersAreThreads DEF RestInit, ServicesInit, AllThreads, Only

\* What the tables hold at the start.
LEMMA TablesAtFirst ==
    ASSUME RestInit
    PROVE  /\ ChannelTable(ln, 0) /\ WillTables(wills, willDb, 0) /\ PlasmaTables(deposits, exits, 0)
           /\ MarketTables(market) /\ pendingCross \in Seq(Transfers) /\ BridgeState(items)
<1>1. Nothing = [j \in DOMAIN Nothing |-> Nothing[j]] /\ DOMAIN Nothing = {}
  BY DEF Nothing
<1>2. ChannelTable(ln, 0)
  <2>0. ln = Nothing \/ \E u \in Users \ {NodeAddr} : ln = [c \in {0} |-> [Channel(NodeAddr, 2) EXCEPT !.node1 = u, !.balance2 = 2]]
    BY DEF RestInit, ChannelsInit
  <2>1. CASE ln = Nothing
    BY <1>1, <2>1 DEF ChannelTable
  <2>2. CASE ln # Nothing
    <3>1. PICK u \in Users : ln = [c \in {0} |-> [Channel(NodeAddr, 2) EXCEPT !.node1 = u, !.balance2 = 2]]
      BY <2>0, <2>2
    <3>. DEFINE c0 == Channel(NodeAddr, 2)
                ch == [c0 EXCEPT !.node1 = u]
    <3>2. c0 = [node1 |-> NodeAddr, node2 |-> NodeAddr, balance1 |-> 2, balance2 |-> 0, open |-> TRUE]
      BY DEF Channel
    <3>. HIDE DEF c0
    <3>3. [c0 EXCEPT !.node1 = u, !.balance2 = 2] = [ch EXCEPT !.balance2 = 2]
      BY <3>2
    <3>6. c0 \in ChannelRows /\ u \in DOMAIN Funds
      BY <3>2, ServicesAssumption, ChannelsAssumption DEF ChannelRows
    <3>7. ch \in ChannelRows
      BY <3>6 DEF ChannelRows
    <3>. HIDE DEF ch
    <3>4. [ch EXCEPT !.balance2 = 2] \in ChannelRows
      BY <3>7 DEF ChannelRows
    <3>5. ln = [c \in {0} |-> [ch EXCEPT !.balance2 = 2]]
      BY <3>1, <3>3 DEF c0
    <3>. QED  BY <3>4, <3>5 DEF ChannelTable
  <2>. QED  BY <2>1, <2>2
<1>3. WillTables(wills, willDb, 0)
  BY <1>1 DEF RestInit, WillsInit, WillTables
<1>4. PlasmaTables(deposits, exits, 0)
  BY <1>1 DEF RestInit, PlasmaInit, PlasmaTables
<1>5. MarketTables(market)
  <2>1. market = [tokens |-> GenesisCollection, offers |-> Nothing, auctions |-> Nothing]
    BY DEF RestInit, MarketInit
  <2>2. \A t \in DOMAIN GenesisCollection : GenesisCollection[t] \in TokenRows
    <3>1. Token(GenesisOwner, GenesisPrice) \in TokenRows
      BY MarketAssumption DEF TokenRows, Prices, Token
    <3>. QED  BY <3>1 DEF GenesisCollection
  <2>. QED  BY <1>1, <2>1, <2>2 DEF MarketTables
<1>6. pendingCross \in Seq(Transfers)
  BY DEF RestInit, ShardsInit
<1>7. BridgeState(items)
  <2>1. locks = Nothing /\ l1 = [tx \in L1Txs |-> "none"] /\ queue = [outgoing |-> {}, incoming |-> {}] /\ relay = NoPass
    BY DEF RestInit, BridgeInit
  <2>2. LockTable(locks, items)
    BY <1>1, <2>1 DEF LockTable
  <2>3. QueueOk(queue, l1) /\ RelayOk(relay, l1)
    BY <2>1 DEF QueueOk, RelayOk, Happened
  <2>. QED  BY <2>1, <2>2, <2>3, NobodyAtFirst DEF BridgeState
<1>. QED  BY <1>2, <1>3, <1>4, <1>5, <1>6, <1>7

LEMMA CustodyStarts == RestInit => CustodyInv
<1>. SUFFICES ASSUME RestInit PROVE CustodyInv
  OBVIOUS
<1>0. NoRequest.op = "none"
  BY DEF NoRequest
<1>1. /\ req = Only(Monitor, NoRequest) /\ bal \in Balances /\ items = 0 /\ items \in Items /\ Monitor \in AllThreads
      /\ service \in Chosen
  BY NobodyAtFirst DEF RestInit
<1>2. ChannelsServe(Monitor, NoRequest)
  BY <1>1, TablesAtFirst DEF ChannelsServe, ChannelRequest
<1>3. WillsServe(Monitor, NoRequest)
  BY <1>0, <1>1, TablesAtFirst DEF WillsServe, WillRequest
<1>4. PlasmaServe(Monitor, NoRequest)
  BY <1>0, <1>1, TablesAtFirst DEF PlasmaServe, PlasmaRequest
<1>5. MarketServe(Monitor, NoRequest)
  BY <1>1, TablesAtFirst DEF MarketServe, MarketRequest
<1>6. BridgeServe(Monitor, NoRequest)
  BY <1>0, <1>1, TablesAtFirst DEF BridgeServe, BridgeRequest, ServedBy
<1>7. CrossServe(Monitor, NoRequest) /\ FeeServe(Monitor, NoRequest)
  BY <1>1, TablesAtFirst DEF CrossServe, CrossRequest, FeeServe, FeeRequest
<1>. QED  BY <1>1, <1>2, <1>3, <1>4, <1>5, <1>6, <1>7 DEF CustodyInv

LEMMA SingleNat ==
    ASSUME NEW x \in Nat
    PROVE  Single(x) \in [Items -> Nat]
BY DEF Single

LEMMA CustodyTyped ==
    ASSUME CustodyInv
    PROVE  MappedBal \in Balances /\ MappedHeld \in [Items -> Nat]
<1>1. CASE ~InCustody
  <2>1. MappedBal = Funds /\ MappedHeld = [i \in Items |-> 0]
    BY <1>1 DEF MappedBal, MappedHeld, Items
  <2>. QED  BY <2>1, ServicesAssumption DEF Balances
<1>2. CASE InCustody
  <2>0. bal \in Balances /\ MappedBal = bal /\ service \in Chosen /\ service # "pools"
    BY <1>2, HeldViewed DEF CustodyInv, HeldView, InCustody
  <2>1. CASE service = "channels"
    <3>1. PICK h, r : ChannelsServe(h, r)
      BY <1>2, <2>1 DEF CustodyInv
    <3>2. MappedHeld = ChannelsHeld(r, ln)
      BY <1>2, <2>1, <3>1, HeldViewed DEF HeldView
    <3>3. ChannelTable(ln, items) /\ ChannelRequest(r, ln, bal, items) /\ items \in Nat
      BY <3>1, ServicesAssumption DEF ChannelsServe, Items
    <3>. QED  BY <2>0, <3>2, <3>3, ChannelsHeldType
  <2>2. CASE service = "wills"
    <3>1. PICK h, r : WillsServe(h, r)
      BY <1>2, <2>2 DEF CustodyInv
    <3>2. MappedHeld = WillsHeld(r, willDb)
      BY <1>2, <2>2, <3>1, HeldViewed DEF HeldView
    <3>3. WillTables(wills, willDb, items) /\ WillRequest(r, wills, willDb, bal, items)
      BY <3>1 DEF WillsServe
    <3>. QED  BY <2>0, <3>2, <3>3, WillsHeldType
  <2>3. CASE service = "plasma"
    <3>1. PICK h, r : PlasmaServe(h, r)
      BY <1>2, <2>3 DEF CustodyInv
    <3>2. MappedHeld = DepositsHeld(r, deposits, exits)
      BY <1>2, <2>3, <3>1, HeldViewed DEF HeldView
    <3>3. PlasmaTables(deposits, exits, items) /\ PlasmaRequest(r, deposits, exits, bal, items)
      BY <3>1 DEF PlasmaServe
    <3>. QED  BY <2>0, <3>2, <3>3, DepositsHeldType
  <2>4. CASE service = "market"
    <3>1. PICK h, r : MarketServe(h, r)
      BY <1>2, <2>4 DEF CustodyInv
    <3>2. MappedHeld = Single(SaleHeld(r))
      BY <1>2, <2>4, <3>1, HeldViewed DEF HeldView
    <3>3. SaleHeld(r) \in Nat
      BY <3>1, SaleHeldType DEF MarketServe
    <3>. QED  BY <2>0, <3>2, <3>3, SingleNat
  <2>5. CASE service = "bridge"
    <3>1. PICK h, r : BridgeServe(h, r)
      BY <1>2, <2>5 DEF CustodyInv
    <3>2. MappedHeld = BridgeHeld(r, locks, credits, l1)
      BY <1>2, <2>5, <3>1, HeldViewed DEF HeldView
    <3>3. LockTable(locks, items) /\ BridgeRequest(r, locks, credits, l1, bal, items)
      BY <3>1 DEF BridgeServe, BridgeState
    <3>4. AllL1Held(r, credits, l1) \in Nat /\ \A k : LockHeld(r, locks, k) \in Nat
      BY <3>3, L1HeldType, LockHeldType
    <3>. QED  BY <2>0, <3>2, <3>4 DEF BridgeHeld
  <2>6. CASE service = "shards"
    <3>1. PICK h, r : CrossServe(h, r)
      BY <1>2, <2>6 DEF CustodyInv
    <3>2. MappedHeld = Single(CrossHeld(r))
      BY <1>2, <2>6, <3>1, HeldViewed DEF HeldView
    <3>3. CrossHeld(r) \in Nat
      BY <3>1, CrossHeldType DEF CrossServe
    <3>. QED  BY <2>0, <3>2, <3>3, SingleNat
  <2>7. CASE service \in {"wasm", "agents"} \cup Plain
    <3>1. MappedHeld = Single(0)
      BY <1>2, <2>7, HeldViewed DEF HeldView
    <3>. QED  BY <2>0, <3>1, SingleNat
  <2>. QED  BY <2>0, <2>1, <2>2, <2>3, <2>4, <2>5, <2>6, <2>7, RestAssumption DEF Plain
<1>. QED  BY <1>1, <1>2

-----------------------------------------------------------------------------
(* Every step *)

\* A service that takes nothing leaves the balances alone.
LEMMA PlainStep ==
    ASSUME AccountsNext \/ KeysNext \/ WalletNext \/ MiniNext
    PROVE  bal' = bal
<1>1. CASE AccountsNext
  <2>1. PostCreateAccount => bal' = bal
    BY DEF PostCreateAccount, CreateAccount
  <2>2. \A u : DeleteAccount(u) => bal' = bal
    BY DEF DeleteAccount
  <2>3. \A gs, u : RecoverAccount(gs, u) => bal' = bal
    BY DEF RecoverAccount
  <2>4. PostRecover => bal' = bal
    BY <2>3 DEF PostRecover
  <2>5. \A g, w : AddGuardian(g, w) => bal' = bal
    BY DEF AddGuardian
  <2>6. \A g, u : ApproveGuardian(g, u) => bal' = bal
    BY DEF ApproveGuardian
  <2>7. \A g : (RemoveGuardian(g) => bal' = bal) /\ (RequestRecovery(g) => bal' = bal)
    BY DEF RemoveGuardian, RequestRecovery
  <2>8. \A r : RequestExpires(r) => bal' = bal
    BY DEF RequestExpires
  <2>9. \A r, u : (ApproveRecovery(r, u) => bal' = bal) /\ (ExecuteRecovery(r, u) => bal' = bal)
    BY DEF ApproveRecovery, ExecuteRecovery
  <2>. QED  BY <1>1, <2>1, <2>2, <2>4, <2>5, <2>6, <2>7, <2>8, <2>9 DEF AccountsNext
<1>2. CASE KeysNext
  <2>1. \A b : ManagerSessionKey(b) => bal' = bal
    BY DEF ManagerSessionKey, CreateSessionKey
  <2>2. \A k : (RevokeSessionKey(k) => bal' = bal) /\ (KeyExpires(k) => bal' = bal)
    BY DEF RevokeSessionKey, KeyExpires
  <2>3. \A h, k : (ExecuteTransaction(h, k) => bal' = bal) /\ (ExecuteBatch(h, k, 1) => bal' = bal)
    BY DEF ExecuteTransaction, ExecuteBatch
  <2>4. \A h, ok : TransactionExecuted(h, ok) => bal' = bal
    BY DEF TransactionExecuted
  <2>. QED  BY <1>2, <2>1, <2>2, <2>3, <2>4 DEF KeysNext, PostSessionKey
<1>3. CASE WalletNext
  <2>1. \A u, x : CreateWalletTx(u, x) => bal' = bal
    BY DEF CreateWalletTx
  <2>2. \A h, t, u : ConfirmWalletTx(h, t, u) => bal' = bal
    BY DEF ConfirmWalletTx
  <2>3. \A h, s : WalletTxExecuted(h, s) => bal' = bal
    BY DEF WalletTxExecuted
  <2>. QED  BY <1>3, <2>1, <2>2, <2>3 DEF WalletNext
<1>4. CASE MiniNext
  <2>. SUFFICES ASSUME NEW h \in Handlers,
                       PostMiniVmDeploy(h) \/ PostMiniVmCall(h) \/ VmStep(h) \/ VmRaises(h) \/ MiniReturns(h) \/ MiniSave(h)
                PROVE  bal' = bal
    BY <1>4 DEF MiniNext
  <2>1. PostMiniVmDeploy(h) => bal' = bal
    BY DEF PostMiniVmDeploy, MiniDeploy
  <2>2. PostMiniVmCall(h) => bal' = bal
    BY DEF PostMiniVmCall, MiniCall
  <2>3. VmStep(h) \/ VmRaises(h) => bal' = bal
    BY DEF VmStep, VmRaises
  <2>4. MiniReturns(h) \/ MiniSave(h) => bal' = bal
    BY DEF MiniReturns, MiniSave
  <2>. QED  BY <2>1, <2>2, <2>3, <2>4
<1>. QED  BY <1>1, <1>2, <1>3, <1>4

LEMMA ServiceMoves ==
    ASSUME OneSpelling, CustodyInv, InCustody, ServiceStep
    PROVE  CustodyInv' /\ [Cust!Next]_Cust!vars
<1>0. InCustody' /\ mode = "serial" /\ service' = service /\ service \in Chosen /\ service # "pools" /\ bal \in Balances
  BY DEF ServiceStep, InCustody, CustodyInv
<1>1. MappedBal = bal /\ MappedBal' = bal'
  BY <1>0, HeldViewed DEF HeldView
<1>2. CASE service = "channels"
  <2>1. PICK g, q : ChannelsServe(g, q)
    BY <1>2 DEF CustodyInv
  <2>2. ChannelsMove(q)
    BY <1>0, <1>2, <2>1, ChannelsStep DEF ServiceStep
  <2>3. PICK h, r : ChannelsServe(h, r)' /\ Moves(bal, ChannelsHeld(q, ln), bal', ChannelsHeld(r, ln'))
    BY <2>2 DEF ChannelsMove
  <2>4. MappedHeld = ChannelsHeld(q, ln)
    BY <1>2, <2>1, HeldViewed DEF HeldView
  <2>5. MappedHeld' = ChannelsHeld(r, ln')
    BY <1>0, <1>2, <2>3, HeldViewed DEF HeldView
  <2>6. [Cust!Next]_Cust!vars
    BY <1>0, <1>1, <2>3, <2>4, <2>5, CustodyTyped, MovesIsStep
  <2>7. bal' \in Balances
    BY <2>3 DEF ChannelsServe
  <2>8. CustodyInv'
    BY <1>0, <1>2, <2>3, <2>7 DEF CustodyInv
  <2>. QED  BY <2>6, <2>8
<1>3. CASE service = "wills"
  <2>1. PICK g, q : WillsServe(g, q)
    BY <1>3 DEF CustodyInv
  <2>2. WillsMove(q)
    BY <1>0, <1>3, <2>1, WillsStep DEF ServiceStep
  <2>3. PICK h, r : WillsServe(h, r)' /\ Moves(bal, WillsHeld(q, willDb), bal', WillsHeld(r, willDb'))
    BY <2>2 DEF WillsMove
  <2>4. MappedHeld = WillsHeld(q, willDb)
    BY <1>3, <2>1, HeldViewed DEF HeldView
  <2>5. MappedHeld' = WillsHeld(r, willDb')
    BY <1>0, <1>3, <2>3, HeldViewed DEF HeldView
  <2>6. [Cust!Next]_Cust!vars
    BY <1>0, <1>1, <2>3, <2>4, <2>5, CustodyTyped, MovesIsStep
  <2>7. bal' \in Balances
    BY <2>3 DEF WillsServe
  <2>8. CustodyInv'
    BY <1>0, <1>3, <2>3, <2>7 DEF CustodyInv
  <2>. QED  BY <2>6, <2>8
<1>4. CASE service = "plasma"
  <2>1. PICK g, q : PlasmaServe(g, q)
    BY <1>4 DEF CustodyInv
  <2>2. PlasmaMove(q)
    BY <1>0, <1>4, <2>1, PlasmaStep DEF ServiceStep
  <2>3. PICK h, r : PlasmaServe(h, r)' /\ Moves(bal, DepositsHeld(q, deposits, exits), bal', DepositsHeld(r, deposits', exits'))
    BY <2>2 DEF PlasmaMove
  <2>4. MappedHeld = DepositsHeld(q, deposits, exits)
    BY <1>4, <2>1, HeldViewed DEF HeldView
  <2>5. MappedHeld' = DepositsHeld(r, deposits', exits')
    BY <1>0, <1>4, <2>3, HeldViewed DEF HeldView
  <2>6. [Cust!Next]_Cust!vars
    BY <1>0, <1>1, <2>3, <2>4, <2>5, CustodyTyped, MovesIsStep
  <2>7. bal' \in Balances
    BY <2>3 DEF PlasmaServe
  <2>8. CustodyInv'
    BY <1>0, <1>4, <2>3, <2>7 DEF CustodyInv
  <2>. QED  BY <2>6, <2>8
<1>5. CASE service = "market"
  <2>1. PICK g, q : MarketServe(g, q)
    BY <1>5 DEF CustodyInv
  <2>2. MarketMove(q)
    BY <1>0, <1>5, <2>1, MarketMovesOn DEF ServiceStep
  <2>3. PICK h, r : MarketServe(h, r)' /\ Moves(bal, Single(SaleHeld(q)), bal', Single(SaleHeld(r)))
    BY <2>2 DEF MarketMove
  <2>4. MappedHeld = Single(SaleHeld(q))
    BY <1>5, <2>1, HeldViewed DEF HeldView
  <2>5. MappedHeld' = Single(SaleHeld(r))
    BY <1>0, <1>5, <2>3, HeldViewed DEF HeldView
  <2>6. [Cust!Next]_Cust!vars
    BY <1>0, <1>1, <2>3, <2>4, <2>5, CustodyTyped, MovesIsStep
  <2>7. bal' \in Balances
    BY <2>3 DEF MarketServe
  <2>8. CustodyInv'
    BY <1>0, <1>5, <2>3, <2>7 DEF CustodyInv
  <2>. QED  BY <2>6, <2>8
<1>6. CASE service = "bridge"
  <2>1. PICK g, q : BridgeServe(g, q)
    BY <1>6 DEF CustodyInv
  <2>2. BridgeMove(q)
    BY <1>0, <1>6, <2>1, BridgeStep DEF ServiceStep
  <2>3. PICK h, r : BridgeServe(h, r)' /\ Moves(bal, BridgeHeld(q, locks, credits, l1), bal', BridgeHeld(r, locks', credits', l1'))
    BY <2>2 DEF BridgeMove
  <2>4. MappedHeld = BridgeHeld(q, locks, credits, l1)
    BY <1>6, <2>1, HeldViewed DEF HeldView
  <2>5. MappedHeld' = BridgeHeld(r, locks', credits', l1')
    BY <1>0, <1>6, <2>3, HeldViewed DEF HeldView
  <2>6. [Cust!Next]_Cust!vars
    BY <1>0, <1>1, <2>3, <2>4, <2>5, CustodyTyped, MovesIsStep
  <2>7. bal' \in Balances
    BY <2>3 DEF BridgeServe, BridgeState
  <2>8. CustodyInv'
    BY <1>0, <1>6, <2>3, <2>7 DEF CustodyInv
  <2>. QED  BY <2>6, <2>8
<1>7. CASE service = "shards"
  <2>1. PICK g, q : CrossServe(g, q)
    BY <1>7 DEF CustodyInv
  <2>2. CrossMove(q)
    BY <1>0, <1>7, <2>1, CrossStep DEF ServiceStep
  <2>3. PICK h, r : CrossServe(h, r)' /\ Moves(bal, Single(CrossHeld(q)), bal', Single(CrossHeld(r)))
    BY <2>2 DEF CrossMove
  <2>4. MappedHeld = Single(CrossHeld(q))
    BY <1>7, <2>1, HeldViewed DEF HeldView
  <2>5. MappedHeld' = Single(CrossHeld(r))
    BY <1>0, <1>7, <2>3, HeldViewed DEF HeldView
  <2>6. [Cust!Next]_Cust!vars
    BY <1>0, <1>1, <2>3, <2>4, <2>5, CustodyTyped, MovesIsStep
  <2>7. bal' \in Balances
    BY <2>3 DEF CrossServe
  <2>8. CustodyInv'
    BY <1>0, <1>7, <2>3, <2>7 DEF CustodyInv
  <2>. QED  BY <2>6, <2>8
<1>8. CASE service \in {"wasm", "agents"}
  <2>1. PICK g, q : FeeServe(g, q)
    BY <1>8 DEF CustodyInv
  <2>2. WasmNext \/ AgentsNext
    BY <1>8 DEF ServiceStep
  <2>3. FeeMove
    BY <1>0, <2>1, <2>2, ContractsStep
  <2>4. PICK h, r : FeeServe(h, r)' /\ Moves(bal, Single(0), bal', Single(0))
    BY <2>3 DEF FeeMove
  <2>5. MappedHeld = Single(0)
    BY <1>8, HeldViewed DEF HeldView
  <2>6. MappedHeld' = Single(0)
    BY <1>0, <1>8, HeldViewed DEF HeldView
  <2>7. [Cust!Next]_Cust!vars
    BY <1>0, <1>1, <2>4, <2>5, <2>6, CustodyTyped, MovesIsStep
  <2>8. bal' \in Balances
    BY <2>4 DEF FeeServe
  <2>9. CustodyInv'
    BY <1>0, <1>8, <2>4, <2>8 DEF CustodyInv
  <2>. QED  BY <2>7, <2>9
<1>9. CASE service \in Plain
  <2>1. bal' = bal
    BY <1>9, PlainStep DEF ServiceStep, Plain
  <2>2. MappedHeld = Single(0)
    BY <1>9, HeldViewed DEF HeldView
  <2>3. MappedHeld' = Single(0)
    BY <1>0, <1>9, HeldViewed DEF HeldView
  <2>4. UNCHANGED Cust!vars
    BY <1>1, <2>1, <2>2, <2>3 DEF Cust!vars
  <2>5. CustodyInv'
    BY <1>0, <1>9, <2>1 DEF CustodyInv, Plain
  <2>. QED  BY <2>4, <2>5
<1>. QED  BY <1>0, <1>2, <1>3, <1>4, <1>5, <1>6, <1>7, <1>8, <1>9, RestAssumption DEF Plain

LEMMA ServedStill ==
    ASSUME UNCHANGED restVars, NEW h, NEW r
    PROVE  /\ ChannelsServe(h, r) => ChannelsServe(h, r)'
           /\ WillsServe(h, r) => WillsServe(h, r)'
           /\ PlasmaServe(h, r) => PlasmaServe(h, r)'
           /\ MarketServe(h, r) => MarketServe(h, r)'
           /\ BridgeServe(h, r) => BridgeServe(h, r)'
           /\ CrossServe(h, r) => CrossServe(h, r)'
           /\ FeeServe(h, r) => FeeServe(h, r)'
<1>1. /\ bal' = bal /\ req' = req /\ items' = items /\ ln' = ln /\ wills' = wills /\ willDb' = willDb
      /\ deposits' = deposits /\ exits' = exits /\ market' = market
      /\ locks' = locks /\ credits' = credits /\ l1' = l1 /\ queue' = queue /\ relay' = relay /\ pendingCross' = pendingCross
  BY DEF restVars, plasmaMem
<1>2. ChannelsServe(h, r) => ChannelsServe(h, r)'
  BY <1>1 DEF ChannelsServe
<1>3. WillsServe(h, r) => WillsServe(h, r)'
  BY <1>1 DEF WillsServe
<1>4. PlasmaServe(h, r) => PlasmaServe(h, r)'
  BY <1>1 DEF PlasmaServe
<1>5. MarketServe(h, r) => MarketServe(h, r)'
  BY <1>1 DEF MarketServe
<1>6. BridgeServe(h, r) => BridgeServe(h, r)'
  BY <1>1 DEF BridgeServe, BridgeState
<1>7. CrossServe(h, r) => CrossServe(h, r)'
  BY <1>1 DEF CrossServe
<1>8. FeeServe(h, r) => FeeServe(h, r)'
  BY <1>1 DEF FeeServe
<1>. QED  BY <1>2, <1>3, <1>4, <1>5, <1>6, <1>7, <1>8

LEMMA CustodyRests ==
    ASSUME CustodyInv, UNCHANGED restVars
    PROVE  CustodyInv' /\ UNCHANGED Cust!vars
<1>0. mode' = mode /\ service' = service /\ bal' = bal /\ (InCustody' <=> InCustody)
  BY DEF restVars, InCustody
<1>1. MappedBal' = MappedBal
  BY <1>0 DEF MappedBal
<1>2. CustodyInv'
  BY <1>0, ServedStill DEF CustodyInv
<1>3. MappedHeld' = MappedHeld
  <2>1. CASE ~InCustody
    BY <1>0, <2>1 DEF MappedHeld
  <2>2. CASE InCustody
    <3>0. service \in Chosen /\ service # "pools" /\ InCustody'
      BY <1>0, <2>2 DEF InCustody, CustodyInv
    <3>9. /\ ln' = ln /\ willDb' = willDb /\ deposits' = deposits /\ exits' = exits
          /\ locks' = locks /\ credits' = credits /\ l1' = l1
      BY DEF restVars, plasmaMem
    <3>1. CASE service = "channels"
      <4>1. PICK h, r : ChannelsServe(h, r)
        BY <2>2, <3>1 DEF CustodyInv
      <4>2. ChannelsServe(h, r)'
        BY <4>1, ServedStill
      <4>3. MappedHeld = ChannelsHeld(r, ln)
        BY <2>2, <3>1, <4>1, HeldViewed DEF HeldView
      <4>4. MappedHeld' = ChannelsHeld(r, ln)
        BY <1>0, <3>0, <3>1, <3>9, <4>2, HeldViewed DEF HeldView
      <4>. QED  BY <4>3, <4>4
    <3>2. CASE service = "wills"
      <4>1. PICK h, r : WillsServe(h, r)
        BY <2>2, <3>2 DEF CustodyInv
      <4>2. WillsServe(h, r)'
        BY <4>1, ServedStill
      <4>3. MappedHeld = WillsHeld(r, willDb)
        BY <2>2, <3>2, <4>1, HeldViewed DEF HeldView
      <4>4. MappedHeld' = WillsHeld(r, willDb)
        BY <1>0, <3>0, <3>2, <3>9, <4>2, HeldViewed DEF HeldView
      <4>. QED  BY <4>3, <4>4
    <3>3. CASE service = "plasma"
      <4>1. PICK h, r : PlasmaServe(h, r)
        BY <2>2, <3>3 DEF CustodyInv
      <4>2. PlasmaServe(h, r)'
        BY <4>1, ServedStill
      <4>3. MappedHeld = DepositsHeld(r, deposits, exits)
        BY <2>2, <3>3, <4>1, HeldViewed DEF HeldView
      <4>4. MappedHeld' = DepositsHeld(r, deposits, exits)
        BY <1>0, <3>0, <3>3, <3>9, <4>2, HeldViewed DEF HeldView
      <4>. QED  BY <4>3, <4>4
    <3>4. CASE service = "market"
      <4>1. PICK h, r : MarketServe(h, r)
        BY <2>2, <3>4 DEF CustodyInv
      <4>2. MarketServe(h, r)'
        BY <4>1, ServedStill
      <4>3. MappedHeld = Single(SaleHeld(r))
        BY <2>2, <3>4, <4>1, HeldViewed DEF HeldView
      <4>4. MappedHeld' = Single(SaleHeld(r))
        BY <1>0, <3>0, <3>4, <3>9, <4>2, HeldViewed DEF HeldView
      <4>. QED  BY <4>3, <4>4
    <3>5. CASE service = "bridge"
      <4>1. PICK h, r : BridgeServe(h, r)
        BY <2>2, <3>5 DEF CustodyInv
      <4>2. BridgeServe(h, r)'
        BY <4>1, ServedStill
      <4>3. MappedHeld = BridgeHeld(r, locks, credits, l1)
        BY <2>2, <3>5, <4>1, HeldViewed DEF HeldView
      <4>4. MappedHeld' = BridgeHeld(r, locks, credits, l1)
        BY <1>0, <3>0, <3>5, <3>9, <4>2, HeldViewed DEF HeldView
      <4>. QED  BY <4>3, <4>4
    <3>6. CASE service = "shards"
      <4>1. PICK h, r : CrossServe(h, r)
        BY <2>2, <3>6 DEF CustodyInv
      <4>2. CrossServe(h, r)'
        BY <4>1, ServedStill
      <4>3. MappedHeld = Single(CrossHeld(r))
        BY <2>2, <3>6, <4>1, HeldViewed DEF HeldView
      <4>4. MappedHeld' = Single(CrossHeld(r))
        BY <1>0, <3>0, <3>6, <3>9, <4>2, HeldViewed DEF HeldView
      <4>. QED  BY <4>3, <4>4
    <3>7. CASE service \in {"wasm", "agents"} \cup Plain
      <4>1. MappedHeld = Single(0)
        BY <2>2, <3>7, HeldViewed DEF HeldView
      <4>2. MappedHeld' = Single(0)
        BY <1>0, <3>0, <3>7, HeldViewed DEF HeldView
      <4>. QED  BY <4>1, <4>2
    <3>. QED  BY <3>0, <3>1, <3>2, <3>3, <3>4, <3>5, <3>6, <3>7, RestAssumption DEF Plain
  <2>. QED  BY <2>1, <2>2
<1>. QED  BY <1>1, <1>2, <1>3 DEF Cust!vars

LEMMA CustodyMoves ==
    ASSUME OneSpelling, CustodyInv, [RestNext]_restVars
    PROVE  CustodyInv' /\ [Cust!Next]_Cust!vars
<1>1. CASE InCustody /\ ServiceStep
  BY <1>1, ServiceMoves
<1>2. CASE ~InCustody /\ RestNext
  <2>1. ~InCustody'
    BY <1>2 DEF RestNext, ServiceStep, Restart, ServicesCrash, InCustody
  <2>2. MappedBal' = MappedBal
    BY <1>2, <2>1 DEF MappedBal
  <2>3. MappedHeld' = MappedHeld
    BY <1>2, <2>1 DEF MappedHeld
  <2>. QED  BY <2>1, <2>2, <2>3 DEF CustodyInv, Cust!vars
<1>3. CASE InCustody /\ Restart
  BY <1>3 DEF InCustody, Restart, ServicesCrash
<1>4. CASE UNCHANGED restVars
  BY <1>4, CustodyRests
<1>. QED  BY <1>1, <1>2, <1>3, <1>4 DEF RestNext

\* Where requests give the other chain one name: served one after another, every request
\* to the channels, wills, plasma, market, bridge, shards and contracts takes coins from a
\* balance for an item, gives out at most what the item holds, or moves none.
THEOREM CustodyKept ==
    ASSUME OneSpelling
    PROVE  RestSpec => KeepsCustody
<1>1. RestInit => CustodyInv /\ Cust!Init
  <2>1. CustodyInv => Cust!Init
    BY CustodyTyped DEF Cust!Init, Cust!TypeOK, Balances, Items
  <2>. QED  BY <2>1, CustodyStarts
<1>2. CustodyInv /\ [RestNext]_restVars => CustodyInv' /\ [Cust!Next]_Cust!vars
  BY CustodyMoves
<1>. QED  BY <1>1, <1>2, PTL DEF RestSpec, KeepsCustody, Cust!Spec
=============================================================================
