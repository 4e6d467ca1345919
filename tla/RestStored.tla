----------------------------- MODULE RestStored -----------------------------
(*****************************************************************************)
(* What the services keep in memory and in their tables: that an answered    *)
(* request is stored, that the tokens of a contract only move, that nobody   *)
(* spends more on the side chain than was paid in, and that the MiniVM keeps *)
(* the storages of its contracts apart.                                      *)
(*****************************************************************************)
EXTENDS RestProofs

-----------------------------------------------------------------------------
(* What is in memory and in the tables: the channels and the side chain *)

\* A channel is changed in memory and in its row in one step.
LEMMA ChannelsStored ==
    ASSUME ln = lnDb, ChannelsNext
    PROVE  ln' = lnDb'
<1>. PICK h \in Handlers :
        \/ PostLightningOpen(h) \/ OpenDebit(h) \/ OpenSave(h)
        \/ PostLightningPay(h) \/ PayMove(h)
        \/ PostLightningClose(h) \/ CloseCredit1(h) \/ CloseCredit2(h) \/ CloseMark(h)
  BY DEF ChannelsNext
<1>1. CASE PostLightningOpen(h) \/ PostLightningPay(h) \/ PostLightningClose(h)
  BY <1>1 DEF PostLightningOpen, OpenChannel, PostLightningPay, SendPayment, PostLightningClose, CloseChannel
<1>2. CASE OpenDebit(h) \/ CloseCredit1(h) \/ CloseCredit2(h)
  BY <1>2 DEF OpenDebit, CloseCredit1, CloseCredit2
<1>3. CASE OpenSave(h) \/ PayMove(h) \/ CloseMark(h)
  <2>1. PICK c, ch : PersistChannel(c, ch)
    BY <1>3 DEF OpenSave, PayMove, CloseMark
  <2>. QED  BY <2>1 DEF PersistChannel
<1>. QED  BY <1>1, <1>2, <1>3

PlasmaStored ==
    /\ deposits = depositDb /\ exits = exitDb
    /\ l2txs \in Seq(Transfers) /\ l2txDb = SavedPending(l2txs)

\* The saved pending transactions are the last ones, and all of them up to the limit.
LEMMA SavedPendingIs ==
    ASSUME NEW S, NEW txs \in Seq(S)
    PROVE  /\ SavedPending(txs) \in Seq(S) /\ Len(SavedPending(txs)) <= KeptPending
           /\ Len(txs) <= KeptPending => SavedPending(txs) = txs
<1>. DEFINE m == 1 + (IF Len(txs) > KeptPending THEN Len(txs) - KeptPending ELSE 0)
<1>1. m \in Nat /\ m >= 1 /\ m <= Len(txs) + 1 /\ Len(txs) - m + 1 <= KeptPending /\ Len(txs) \in Nat
      /\ (Len(txs) <= KeptPending => m = 1)
  BY PlasmaAssumption
<1>2. SavedPending(txs) = SubSeq(txs, m, Len(txs))
  BY DEF SavedPending
<1>. HIDE DEF m
<1>3. SubSeq(txs, m, Len(txs)) \in Seq(S) /\ Len(SubSeq(txs, m, Len(txs))) = IF m <= Len(txs) THEN Len(txs) - m + 1 ELSE 0
  BY <1>1
<1>4. SubSeq(txs, 1, Len(txs)) = txs
  OBVIOUS
<1>. QED  BY <1>1, <1>2, <1>3, <1>4, PlasmaAssumption

\* The side chain saves what it changes in the same step.
LEMMA PlasmaStoredStep ==
    ASSUME PlasmaStored, PlasmaNext
    PROVE  PlasmaStored'
<1>1. CASE UNCHANGED <<plasmaDb, plasmaMem>>
  BY <1>1 DEF plasmaDb, plasmaMem, PlasmaStored
<1>2. ASSUME UNCHANGED <<l2txs, l2txDb>>, deposits' = depositDb', exits' = exitDb' PROVE PlasmaStored'
  BY <1>2 DEF PlasmaStored
<1>3. ASSUME NEW h, PostPlasmaDeposit(h) \/ DepositDebit(h) \/ PostPlasmaFinalizeExit(h) \/ MonitorFinalizes PROVE PlasmaStored'
  BY <1>1, <1>3 DEF PostPlasmaDeposit, Deposit, DepositDebit, PostPlasmaFinalizeExit, MonitorFinalizes, FinalizeExit
<1>4. ASSUME NEW h, DepositSave(h) PROVE PlasmaStored'
  BY <1>2, <1>4 DEF DepositSave, PlasmaStored
<1>5. ASSUME NEW h, FinalizeMark(h) PROVE PlasmaStored'
  BY <1>2, <1>5 DEF FinalizeMark, PlasmaStored
<1>6. ASSUME NEW d, NEW u, RequestExit(d, u) PROVE PlasmaStored'
  BY <1>2, <1>6 DEF RequestExit, DepositLeaves, PlasmaStored
<1>7. ASSUME NEW e, PeriodOver(e) PROVE PlasmaStored'
  BY <1>2, <1>7 DEF PeriodOver, PlasmaStored
<1>8. CASE PostPlasmaTx
  <2>1. PICK u, v \in Users, x \in Amounts : SubmitTransaction(u, v, x)
    BY <1>8 DEF PostPlasmaTx
  <2>. DEFINE t == [from |-> u, to |-> v, amount |-> x]
  <2>2. t \in Transfers
    BY DEF Transfers
  <2>3. l2txs' = Append(l2txs, t) /\ l2txDb' = SavedPending(l2txs') /\ UNCHANGED <<deposits, depositDb, exits, exitDb>>
    BY <2>1 DEF SubmitTransaction
  <2>. HIDE DEF t
  <2>. QED  BY <2>2, <2>3 DEF PlasmaStored
<1>9. CASE PostPlasmaSubmitBlock
  <2>1. l2txs' = <<>> /\ l2txDb' = <<>> /\ UNCHANGED <<deposits, depositDb, exits, exitDb>>
    BY <1>9 DEF PostPlasmaSubmitBlock, SubmitBlock
  <2>2. <<>> \in Seq(Transfers) /\ Len(<<>>) <= KeptPending
    BY PlasmaAssumption
  <2>3. SavedPending(<<>>) = <<>>
    BY <2>2, SavedPendingIs
  <2>. QED  BY <2>1, <2>2, <2>3 DEF PlasmaStored
<1>. QED  BY <1>3, <1>4, <1>5, <1>6, <1>7, <1>8, <1>9 DEF PlasmaNext, PostPlasmaExit

-----------------------------------------------------------------------------
(* The contracts and the agents *)

IsTable(f) == f = [i \in DOMAIN f |-> f[i]]

\* A table that differs from what is in memory in no more than the items that S says.
Behind(mem, db, S) ==
    /\ IsTable(mem) /\ IsTable(db) /\ S \subseteq DOMAIN mem /\ DOMAIN db \subseteq DOMAIN mem
    /\ \A i \in DOMAIN mem \ S : i \in DOMAIN db /\ db[i] = mem[i]

\* Memory is behind in nothing: both are equal.
LEMMA BehindNothing ==
    ASSUME NEW mem, NEW db, Behind(mem, db, {})
    PROVE  mem = db
<1>1. DOMAIN mem = DOMAIN db /\ \A i \in DOMAIN mem : db[i] = mem[i]
  BY DEF Behind
<1>. QED  BY <1>1 DEF Behind, IsTable

LEMMA BehindItself ==
    ASSUME NEW db, IsTable(db)
    PROVE  Behind(db, db, {})
BY DEF Behind

\* An item that changed in memory is one more in which the table is behind.
LEMMA BehindNew ==
    ASSUME NEW mem, NEW db, NEW S, Behind(mem, db, S), NEW i, NEW new, IsTable(new), DOMAIN new = DOMAIN mem \cup {i},
           \A j \in DOMAIN mem : j # i => new[j] = mem[j], NEW T, T = S \cup {i}
    PROVE  Behind(new, db, T)
BY DEF Behind

\* Saving an item makes up for it.
LEMMA BehindSaved ==
    ASSUME NEW mem, NEW db, NEW S, Behind(mem, db, S), NEW i \in S, NEW T, S \subseteq T \cup {i}, T \subseteq S
    PROVE  Behind(mem, With(db, i, mem[i]), T)
<1>. DEFINE x == mem[i]
            new == With(db, i, x)
<1>0. x = mem[i]
  OBVIOUS
<1>. HIDE DEF x
<1>1. DOMAIN new = DOMAIN db \cup {i} /\ IsTable(new) /\ new[i] = x /\ \A j \in DOMAIN db : j # i => new[j] = db[j]
  BY DEF With, IsTable
<1>. HIDE DEF new
<1>2. \A j \in DOMAIN mem \ T : j \in DOMAIN new /\ new[j] = mem[j]
  BY <1>0, <1>1 DEF Behind
<1>3. Behind(mem, new, T)
  BY <1>1, <1>2 DEF Behind
<1>. QED  BY <1>0, <1>3 DEF new

\* The items that running requests have changed and not saved.
Changes(r) == r.op = "call" \/ (r.op = "agent" /\ r.step = "save")
Unsaved == {req[h].id : h \in {g \in Handlers : Changes(req[g])}}

LEMMA NothingChanges == ~ Changes(NoRequest)
BY DEF Changes, NoRequest

\* The items that are not saved yet change only with the thread that moves.
LEMMA UnsavedKept ==
    ASSUME NEW h \in Handlers, Rest(h)
    PROVE  /\ Changes(req[h]) => req[h].id \in Unsaved /\ Unsaved \subseteq Unsaved' \cup {req[h].id}
           /\ ~ Changes(req[h]) => Unsaved \subseteq Unsaved'
           /\ Changes(req'[h]) => req'[h].id \in Unsaved' /\ Unsaved' \subseteq Unsaved \cup {req'[h].id}
           /\ ~ Changes(req'[h]) => Unsaved' \subseteq Unsaved
<1>1. \A g \in Handlers : g # h => req'[g] = req[g]
  BY ThreadsAre DEF Rest
<1>. QED  BY <1>1 DEF Unsaved

\* Thread h goes from one request to another, or none; what it changes it says.
Moves(h) == Rest(h) /\ (req'[h] = NoRequest \/ IsRequest(req'[h]))

LEMMA ReqMoved ==
    ASSUME ReqOk, NEW h \in AllThreads, Moves(h)
    PROVE  ReqOk'
BY ReqKept DEF Moves

\* A step of a thread, in the five forms it takes in the services.
LEMMA MovesBegin ==
    ASSUME ReqOk, NEW h \in AllThreads, NEW op, NEW step, NEW id, NEW user, NEW amt, op # "none",
           Begins(h, Request(op, step, id, user, amt))
    PROVE  Moves(h) /\ req[h] = NoRequest /\ req'[h].op = op /\ req'[h].step = step /\ req'[h].id = id
<1>. DEFINE r == Request(op, step, id, user, amt)
<1>2. IsRequest(r) /\ r.op = op /\ r.step = step /\ r.id = id
  BY RequestIs
<1>3. Begins(h, r)
  OBVIOUS
<1>. HIDE DEF r
<1>4. Rest(h) /\ req[h] = NoRequest /\ req'[h] = r
  BY <1>3, BeginsIs
<1>. QED  BY <1>2, <1>4 DEF Moves

LEMMA MovesOn ==
    ASSUME ReqOk, NEW h \in AllThreads, req[h].op # "none", NEW step, Goes(h, step)
    PROVE  Moves(h) /\ req'[h].op = req[h].op /\ req'[h].step = step /\ req'[h].id = req[h].id
<1>. DEFINE q == req[h]
            r == Request(q.op, step, q.id, q.user, q.amt)
<1>2. IsRequest(q) /\ q.op # "none"
  BY AtIs
<1>3. IsRequest(r) /\ r.op = q.op /\ r.step = step /\ r.id = q.id
  <2>. HIDE DEF q
  <2>. QED  BY <1>2, RequestIs
<1>4. Rest(h) /\ req'[h] = r
  BY <1>2, GoesIs
<1>. HIDE DEF r
<1>. QED  BY <1>3, <1>4 DEF Moves

LEMMA MovesEnd ==
    ASSUME ReqOk, NEW h \in AllThreads, Ends(h)
    PROVE  Moves(h) /\ req'[h] = NoRequest
BY EndsIs DEF Moves

Becomes(h, r) == req' = [req EXCEPT ![h] = r]

LEMMA MovesTo ==
    ASSUME ReqOk, NEW h \in AllThreads, NEW op, NEW step, NEW id, NEW user, NEW amt, op # "none",
           Becomes(h, Request(op, step, id, user, amt))
    PROVE  Moves(h) /\ req'[h].op = op /\ req'[h].step = step /\ req'[h].id = id
<1>. DEFINE r == Request(op, step, id, user, amt)
<1>2. IsRequest(r) /\ r.op = op /\ r.step = step /\ r.id = id
  BY RequestIs
<1>3. Becomes(h, r)
  OBVIOUS
<1>. HIDE DEF r
<1>4. Rest(h) /\ req'[h] = r
  BY <1>3 DEF Rest, ReqOk, Becomes
<1>. QED  BY <1>2, <1>4 DEF Moves

\* The three kinds of steps, for the contracts as for the agents.
LEMMA StepAside ==
    ASSUME NEW mem, NEW db, Behind(mem, db, Unsaved), NEW h \in Handlers, Moves(h), ~ Changes(req[h]), ~ Changes(req'[h])
    PROVE  Behind(mem, db, Unsaved')
<1>1. Unsaved' = Unsaved
  BY UnsavedKept DEF Moves
<1>. QED  BY <1>1

\* A step that changes an item and a step that saves it, for any two tables.
LEMMA StepChanges ==
    ASSUME NEW mem, NEW db, Behind(mem, db, Unsaved), NEW h \in Handlers, Moves(h), Changes(req'[h]),
           Changes(req[h]) => req[h].id = req'[h].id,
           NEW new, IsTable(new), DOMAIN new = DOMAIN mem \cup {req'[h].id}, \A j \in DOMAIN mem : j # req'[h].id => new[j] = mem[j]
    PROVE  Behind(new, db, Unsaved')
<1>1. Unsaved' = Unsaved \cup {req'[h].id}
  BY UnsavedKept DEF Moves
<1>. QED  BY <1>1, BehindNew

LEMMA StepSaves ==
    ASSUME NEW mem, NEW db, Behind(mem, db, Unsaved), NEW h \in Handlers, Moves(h), Changes(req[h]), req'[h] = NoRequest
    PROVE  Behind(mem, With(db, req[h].id, mem[req[h].id]), Unsaved')
<1>1. req[h].id \in Unsaved /\ Unsaved \subseteq Unsaved' \cup {req[h].id} /\ Unsaved' \subseteq Unsaved
  BY UnsavedKept, NothingChanges DEF Moves
<1>. QED  BY <1>1, BehindSaved

ContractsBehind == Behind(wasm, wasmDb, Unsaved)
AgentsBehind == Behind(agents, agentDb, Unsaved)

LEMMA CreateStep ==
    ASSUME ReqOk, NEW h \in Handlers, NEW op \in {"deploy", "agent"}, NEW u, NEW s, Create(h, op, u, s) \/ ChargeFee(h)
    PROVE  Moves(h) /\ ~ Changes(req[h]) /\ ~ Changes(req'[h]) /\ UNCHANGED <<wasm, wasmDb, agents, agentDb>>
<1>. h \in AllThreads
  BY ThreadsAre
<1>1. CASE Create(h, op, u, s)
  <2>1. Begins(h, Request(op, "fee", items + 1, u, s)) /\ UNCHANGED <<wasm, wasmDb, agents, agentDb>>
    BY <1>1 DEF Create
  <2>2. op # "none"
    OBVIOUS
  <2>3. Moves(h) /\ req[h] = NoRequest /\ req'[h].op = op /\ req'[h].step = "fee"
    BY <2>1, <2>2, MovesBegin
  <2>. QED  BY <2>1, <2>3, NothingChanges DEF Changes
<1>2. CASE ChargeFee(h)
  <2>1. req[h].op \in {"deploy", "agent"} /\ req[h].step = "fee" /\ Goes(h, "create") /\ UNCHANGED <<wasm, wasmDb, agents, agentDb>>
    BY <1>2 DEF ChargeFee
  <2>2. Moves(h) /\ req'[h].op = req[h].op /\ req'[h].step = "create"
    BY <2>1, MovesOn
  <2>. QED  BY <2>1, <2>2 DEF Changes
<1>. QED  BY <1>1, <1>2

\* Contracts and agents change in memory first and are saved by a later step of the same request.
LEMMA WasmStep ==
    ASSUME ReqOk, ContractsBehind, WasmNext
    PROVE  ReqOk' /\ ContractsBehind'
<1>. PICK h \in Handlers :
       \/ PostWasmDeploy(h) \/ ChargeFee(h) \/ DeployCreate(h)
       \/ PostWasmCall(h) \/ CallWrite(h) \/ CallSave(h)
  BY DEF WasmNext
<1>. h \in AllThreads
  BY ThreadsAre
<1>1. CASE PostWasmDeploy(h) \/ ChargeFee(h)
  <2>1. Moves(h) /\ ~ Changes(req[h]) /\ ~ Changes(req'[h]) /\ UNCHANGED <<wasm, wasmDb>>
    BY <1>1, CreateStep DEF PostWasmDeploy
  <2>. QED  BY <2>1, ReqMoved, StepAside DEF ContractsBehind
<1>2. CASE DeployCreate(h)
  <2>. DEFINE id == req[h].id
              c == Deployed(req[h].user, req[h].amt)
  <2>1. ~ Changes(req[h]) /\ wasmDb' = wasmDb /\ wasm' = With(wasm, id, c)
    BY <1>2 DEF DeployCreate, At, Changes
  <2>2. Becomes(h, Request("call", "save", id, "none", 0))
    BY <1>2, ThreadsAre DEF DeployCreate, ReqOk, Becomes
  <2>. HIDE DEF id, c
  <2>3. Moves(h) /\ req'[h].op = "call" /\ req'[h].id = id
    BY <2>2, MovesTo
  <2>4. IsTable(wasm') /\ DOMAIN wasm' = DOMAIN wasm \cup {id} /\ \A j \in DOMAIN wasm : j # id => wasm'[j] = wasm[j]
    BY <2>1 DEF With, IsTable
  <2>5. Changes(req'[h])
    BY <2>3 DEF Changes
  <2>. QED  BY <2>1, <2>3, <2>4, <2>5, ReqMoved, StepChanges DEF ContractsBehind
<1>3. CASE PostWasmCall(h)
  <2>1. PICK c, step, user, amt :
           /\ c \in DOMAIN wasm /\ Begins(h, Request("call", step, c, user, amt)) /\ wasmDb' = wasmDb
           /\ IsTable(wasm') /\ DOMAIN wasm' = DOMAIN wasm /\ \A j \in DOMAIN wasm : j # c => wasm'[j] = wasm[j]
    <3>1. PICK c \in DOMAIN wasm, u, v \in Users, x \in Amounts : CallTransfer(h, c, u, v, x) \/ CallSetStorage(h, c, u, v, x)
      BY <1>3 DEF PostWasmCall
    <3>2. IsTable(wasm') /\ DOMAIN wasm' = DOMAIN wasm /\ \A j \in DOMAIN wasm : j # c => wasm'[j] = wasm[j]
      <4>1. CASE CallTransfer(h, c, u, v, x)
        BY <4>1 DEF CallTransfer, IsTable
      <4>2. CASE CallSetStorage(h, c, u, v, x)
        BY <4>2 DEF CallSetStorage, IsTable
      <4>. QED  BY <3>1, <4>1, <4>2
    <3>. QED  BY <3>1, <3>2 DEF CallTransfer, CallSetStorage
  <2>2. Moves(h) /\ req[h] = NoRequest /\ req'[h].op = "call" /\ req'[h].id = c
    BY <2>1, MovesBegin
  <2>3. ~ Changes(req[h]) /\ Changes(req'[h])
    BY <2>2, NothingChanges DEF Changes
  <2>4. DOMAIN wasm' = DOMAIN wasm \cup {c}
    BY <2>1
  <2>. QED  BY <2>1, <2>2, <2>3, <2>4, ReqMoved, StepChanges DEF ContractsBehind
<1>4. CASE CallWrite(h)
  <2>. DEFINE c == req[h].id
  <2>1. req[h].op = "call" /\ Goes(h, "save") /\ wasmDb' = wasmDb
    BY <1>4 DEF CallWrite, At
  <2>2. Moves(h) /\ req'[h].op = "call" /\ req'[h].id = c
    BY <2>1, MovesOn
  <2>3. Changes(req[h]) /\ Changes(req'[h])
    BY <2>1, <2>2 DEF Changes
  <2>4. c \in Unsaved
    BY <2>2, <2>3, UnsavedKept DEF Moves
  <2>5. c \in DOMAIN wasm /\ IsTable(wasm)
    BY <2>4 DEF ContractsBehind, Behind
  <2>6. IsTable(wasm') /\ DOMAIN wasm' = DOMAIN wasm \cup {c} /\ \A j \in DOMAIN wasm : j # c => wasm'[j] = wasm[j]
    BY <1>4, <2>5 DEF CallWrite, IsTable
  <2>. QED  BY <2>1, <2>2, <2>3, <2>6, ReqMoved, StepChanges DEF ContractsBehind
<1>5. CASE CallSave(h)
  <2>1. req[h].op = "call" /\ Ends(h) /\ wasm' = wasm /\ wasmDb' = With(wasmDb, req[h].id, wasm[req[h].id])
    BY <1>5 DEF CallSave, At
  <2>2. Changes(req[h])
    BY <2>1 DEF Changes
  <2>3. Moves(h) /\ req'[h] = NoRequest
    BY <2>1, MovesEnd
  <2>. QED  BY <2>1, <2>2, <2>3, ReqMoved, StepSaves DEF ContractsBehind
<1>. QED  BY <1>1, <1>2, <1>3, <1>4, <1>5

LEMMA AgentStep ==
    ASSUME ReqOk, AgentsBehind, AgentsNext
    PROVE  ReqOk' /\ AgentsBehind'
<1>. PICK h \in Handlers :
       PostAiAgentCreate(h) \/ ChargeFee(h) \/ AgentCreate(h) \/ PostAiAgentDeactivate(h) \/ AgentSave(h)
  BY DEF AgentsNext
<1>. h \in AllThreads
  BY ThreadsAre
<1>1. CASE PostAiAgentCreate(h) \/ ChargeFee(h)
  <2>1. Moves(h) /\ ~ Changes(req[h]) /\ ~ Changes(req'[h]) /\ UNCHANGED <<agents, agentDb>>
    BY <1>1, CreateStep DEF PostAiAgentCreate
  <2>. QED  BY <2>1, ReqMoved, StepAside DEF AgentsBehind
<1>2. CASE AgentCreate(h)
  <2>. DEFINE id == req[h].id
  <2>1. ~ Changes(req[h]) /\ agentDb' = agentDb /\ agents' = With(agents, id, "active")
    BY <1>2 DEF AgentCreate, At, Changes
  <2>2. Becomes(h, Request("agent", "save", id, "none", 0))
    BY <1>2, ThreadsAre DEF AgentCreate, ReqOk, Becomes
  <2>. HIDE DEF id
  <2>3. Moves(h) /\ req'[h].op = "agent" /\ req'[h].step = "save" /\ req'[h].id = id
    BY <2>2, MovesTo
  <2>4. IsTable(agents') /\ DOMAIN agents' = DOMAIN agents \cup {id} /\ \A j \in DOMAIN agents : j # id => agents'[j] = agents[j]
    BY <2>1 DEF With, IsTable
  <2>5. Changes(req'[h])
    BY <2>3 DEF Changes
  <2>. QED  BY <2>1, <2>3, <2>4, <2>5, ReqMoved, StepChanges DEF AgentsBehind
<1>3. CASE PostAiAgentDeactivate(h)
  <2>1. PICK a \in DOMAIN agents : Deactivate(h, a)
    BY <1>3 DEF PostAiAgentDeactivate
  <2>2. Begins(h, Request("agent", "save", a, "none", 0)) /\ agentDb' = agentDb /\ agents' = [agents EXCEPT ![a] = "inactive"]
    BY <2>1 DEF Deactivate
  <2>3. Moves(h) /\ req[h] = NoRequest /\ req'[h].op = "agent" /\ req'[h].step = "save" /\ req'[h].id = a
    BY <2>2, MovesBegin
  <2>4. ~ Changes(req[h]) /\ Changes(req'[h])
    BY <2>3, NothingChanges DEF Changes
  <2>5. IsTable(agents') /\ DOMAIN agents' = DOMAIN agents \cup {a} /\ \A j \in DOMAIN agents : j # a => agents'[j] = agents[j]
    BY <2>2 DEF IsTable
  <2>. QED  BY <2>2, <2>3, <2>4, <2>5, ReqMoved, StepChanges DEF AgentsBehind
<1>4. CASE AgentSave(h)
  <2>1. req[h].op = "agent" /\ req[h].step = "save" /\ Ends(h) /\ agents' = agents /\ agentDb' = With(agentDb, req[h].id, agents[req[h].id])
    BY <1>4 DEF AgentSave, SaveAiAgent, AgentRow, At
  <2>2. Changes(req[h])
    BY <2>1 DEF Changes
  <2>3. Moves(h) /\ req'[h] = NoRequest
    BY <2>1, MovesEnd
  <2>. QED  BY <2>1, <2>2, <2>3, ReqMoved, StepSaves DEF AgentsBehind
<1>. QED  BY <1>1, <1>2, <1>3, <1>4

-----------------------------------------------------------------------------
(* The wills *)

WillFields == {"owner", "heir", "amount", "status", "due"}

AreWills(f) == IsTable(f) /\ \A w \in DOMAIN f : DOMAIN f[w] = WillFields /\ f[w] = [k \in WillFields |-> f[w][k]]

Cancels(r) == r.op = "cancel" /\ r.step = "mark"

\* A will is pending in memory when it is in the table.
WillsStored ==
    /\ AreWills(wills) /\ AreWills(willDb)
    /\ \A w \in DOMAIN willDb : willDb[w].status = "pending" <=> Pending(w)

\* One request at most holds the manager's lock between two of its steps; what it
\* cancels is in memory.
OneCancels ==
    /\ \A g, h \in Threads : Cancels(req[g]) /\ Cancels(req[h]) => g = h
    /\ \A h \in Threads : Cancels(req[h]) => req[h].id \in DOMAIN wills

LEMMA NothingCancels == ~ Cancels(NoRequest)
BY DEF Cancels, NoRequest

\* Only one thread cancels a will at a time, and the will it cancels stays.
LEMMA LockKept ==
    ASSUME OneCancels, NEW h \in Threads, Moves(h),
           \/ ~ Cancels(req'[h]) /\ (WillLockFree \/ Cancels(req[h]) \/ DOMAIN wills' = DOMAIN wills)
           \/ WillLockFree /\ req'[h].id \in DOMAIN wills'
    PROVE  OneCancels'
<1>1. \A g \in Threads : g # h => req'[g] = req[g]
  BY ThreadsAre DEF Moves, Rest
<1>2. WillLockFree => \A g \in Threads : ~ Cancels(req[g])
  BY DEF WillLockFree, Cancels, At
<1>. QED  BY <1>1, <1>2 DEF OneCancels

\* Both copies of will w change, or one is dropped.
LEMMA WillsChange ==
    ASSUME WillsStored, NEW w, AreWills(wills'), AreWills(willDb'), w \in DOMAIN willDb' => (willDb'[w].status = "pending" <=> Pending(w)'),
           \A v : v # w => (v \in DOMAIN wills' <=> v \in DOMAIN wills) /\ (v \in DOMAIN willDb' <=> v \in DOMAIN willDb),
           \A v \in DOMAIN wills : v # w => wills'[v] = wills[v],
           \A v \in DOMAIN willDb : v # w => willDb'[v] = willDb[v]
    PROVE  WillsStored'
BY DEF WillsStored, Pending

\* Wills stay wills when a field changes.
LEMMA WillChanged ==
    ASSUME NEW f, AreWills(f), NEW w, NEW k \in WillFields, NEW x
    PROVE  /\ AreWills([f EXCEPT ![w] = [f[w] EXCEPT ![k] = x]])
           /\ DOMAIN [f EXCEPT ![w] = [f[w] EXCEPT ![k] = x]] = DOMAIN f
           /\ \A v \in DOMAIN f : v # w => [f EXCEPT ![w] = [f[w] EXCEPT ![k] = x]][v] = f[v]
           /\ w \in DOMAIN f => [f EXCEPT ![w] = [f[w] EXCEPT ![k] = x]][w] = [f[w] EXCEPT ![k] = x]
<1>. DEFINE r == f[w]
            n == [r EXCEPT ![k] = x]
            g == [f EXCEPT ![w] = n]
<1>1. w \in DOMAIN f => DOMAIN n = WillFields /\ n = [j \in WillFields |-> n[j]]
  <2>1. w \in DOMAIN f => DOMAIN r = WillFields /\ r = [j \in WillFields |-> r[j]]
    BY DEF AreWills
  <2>. HIDE DEF r
  <2>. QED  BY <2>1
<1>. HIDE DEF n
<1>2. /\ DOMAIN g = DOMAIN f /\ IsTable(g) /\ \A v \in DOMAIN f : v # w => g[v] = f[v]
      /\ w \in DOMAIN f => g[w] = n
  BY DEF AreWills, IsTable
<1>. HIDE DEF g
<1>3. AreWills(g)
  BY <1>1, <1>2 DEF AreWills
<1>. QED  BY <1>2, <1>3 DEF g, n

LEMMA WillPut ==
    ASSUME NEW f, AreWills(f), NEW w, NEW r, DOMAIN r = WillFields, r = [k \in WillFields |-> r[k]]
    PROVE  AreWills(With(f, w, r))
<1>. DEFINE g == With(f, w, r)
<1>1. DOMAIN g = DOMAIN f \cup {w} /\ IsTable(g) /\ g[w] = r /\ \A v \in DOMAIN f : v # w => g[v] = f[v]
  BY DEF With, IsTable
<1>. HIDE DEF g
<1>2. AreWills(g)
  BY <1>1 DEF AreWills
<1>. QED  BY <1>2 DEF g

\* The steps of the wills, each with its row.
LEMMA FallDueStep ==
    ASSUME WillsStored, NEW w, FallDue(w)
    PROVE  WillsStored' /\ DOMAIN wills' = DOMAIN wills
<1>1. /\ wills' = [wills EXCEPT ![w] = [wills[w] EXCEPT !["due"] = TRUE]]
      /\ willDb' = [willDb EXCEPT ![w] = [willDb[w] EXCEPT !["due"] = TRUE]]
      /\ Pending(w)
  BY DEF FallDue
<1>2. AreWills(wills) /\ AreWills(willDb) /\ "due" \in WillFields
  BY DEF WillsStored, WillFields
<1>3. /\ AreWills(wills') /\ DOMAIN wills' = DOMAIN wills /\ \A v \in DOMAIN wills : v # w => wills'[v] = wills[v]
      /\ w \in DOMAIN wills => wills'[w] = [wills[w] EXCEPT !["due"] = TRUE]
  BY <1>1, <1>2, WillChanged
<1>4. /\ AreWills(willDb') /\ DOMAIN willDb' = DOMAIN willDb /\ \A v \in DOMAIN willDb : v # w => willDb'[v] = willDb[v]
      /\ w \in DOMAIN willDb => willDb'[w] = [willDb[w] EXCEPT !["due"] = TRUE]
  BY <1>1, <1>2, WillChanged
<1>5. \A r : DOMAIN r = WillFields => [r EXCEPT !["due"] = TRUE].status = r.status
  BY DEF WillFields
<1>6. (w \in DOMAIN wills => wills'[w].status = wills[w].status) /\ (w \in DOMAIN willDb => willDb'[w].status = willDb[w].status)
  BY <1>2, <1>3, <1>4, <1>5 DEF AreWills
<1>7. w \in DOMAIN willDb' => (willDb'[w].status = "pending" <=> Pending(w)')
  BY <1>3, <1>4, <1>6 DEF WillsStored, Pending
<1>. QED  BY <1>3, <1>4, <1>7, WillsChange

LEMMA CreateSaveStep ==
    ASSUME WillsStored, NEW h, CreateSave(h)
    PROVE  WillsStored'
<1>. PICK id : id = req[h].id
  OBVIOUS
<1>. DEFINE r == Will(req[h].user[1], req[h].user[2], req[h].amt)
<1>1. wills' = With(wills, id, r) /\ willDb' = With(willDb, id, r)
  BY DEF CreateSave
<1>2. DOMAIN r = WillFields /\ r = [k \in WillFields |-> r[k]] /\ r.status = "pending"
  BY DEF Will, WillFields
<1>. HIDE DEF r
<1>3. AreWills(wills')
  BY <1>1, <1>2, WillPut DEF WillsStored
<1>4. AreWills(willDb')
  BY <1>1, <1>2, WillPut DEF WillsStored
<1>5. willDb'[id].status = "pending" /\ wills'[id].status = "pending" /\ id \in DOMAIN wills'
  BY <1>1, <1>2 DEF With
<1>6. \A v : v # id => (v \in DOMAIN wills' <=> v \in DOMAIN wills) /\ (v \in DOMAIN willDb' <=> v \in DOMAIN willDb)
  BY <1>1 DEF With
<1>7. (\A v \in DOMAIN wills : v # id => wills'[v] = wills[v]) /\ (\A v \in DOMAIN willDb : v # id => willDb'[v] = willDb[v])
  BY <1>1 DEF With
<1>8. Pending(id)'
  BY <1>5 DEF Pending
<1>. QED  BY <1>3, <1>4, <1>5, <1>6, <1>7, <1>8, WillsChange

LEMMA CancelMarkStep ==
    ASSUME WillsStored, NEW h, CancelMark(h), req[h].id \in DOMAIN wills
    PROVE  WillsStored'
<1>. PICK id : id = req[h].id
  OBVIOUS
<1>. DEFINE q == wills[id]
            r == [q EXCEPT !.status = "cancelled"]
<1>1. wills' = Without(wills, id) /\ willDb' = With(willDb, id, r)
  BY DEF CancelMark
<1>2. DOMAIN r = WillFields /\ r = [k \in WillFields |-> r[k]] /\ r.status = "cancelled"
  <2>1. DOMAIN q = WillFields /\ q = [k \in WillFields |-> q[k]]
    BY DEF WillsStored, AreWills
  <2>. HIDE DEF q
  <2>. QED  BY <2>1 DEF WillFields
<1>. HIDE DEF r
<1>3. AreWills(wills')
  BY <1>1 DEF AreWills, Without, IsTable, WillsStored
<1>4. AreWills(willDb')
  BY <1>1, <1>2, WillPut DEF WillsStored
<1>5. willDb'[id].status = "cancelled" /\ id \notin DOMAIN wills'
  BY <1>1, <1>2 DEF With, Without
<1>6. \A v : v # id => (v \in DOMAIN wills' <=> v \in DOMAIN wills) /\ (v \in DOMAIN willDb' <=> v \in DOMAIN willDb)
  BY <1>1 DEF With, Without
<1>7. (\A v \in DOMAIN wills : v # id => wills'[v] = wills[v]) /\ (\A v \in DOMAIN willDb : v # id => willDb'[v] = willDb[v])
  BY <1>1 DEF With, Without
<1>8. ~ Pending(id)'
  BY <1>5 DEF Pending
<1>. QED  BY <1>3, <1>4, <1>5, <1>6, <1>7, <1>8, WillsChange

LEMMA ExecuteMarkStep ==
    ASSUME WillsStored, NEW h, ExecuteMark(h)
    PROVE  WillsStored'
<1>. PICK id : id = req[h].id
  OBVIOUS
<1>1. wills' = Without(wills, id) /\ willDb' = [willDb EXCEPT ![id] = [willDb[id] EXCEPT !["status"] = "executed"]]
  BY DEF ExecuteMark
<1>2. AreWills(willDb) /\ "status" \in WillFields
  BY DEF WillsStored, WillFields
<1>3. /\ AreWills(willDb') /\ DOMAIN willDb' = DOMAIN willDb /\ \A v \in DOMAIN willDb : v # id => willDb'[v] = willDb[v]
      /\ id \in DOMAIN willDb => willDb'[id] = [willDb[id] EXCEPT !["status"] = "executed"]
  BY <1>1, <1>2, WillChanged
<1>4. \A r : DOMAIN r = WillFields => [r EXCEPT !["status"] = "executed"].status = "executed"
  BY DEF WillFields
<1>5. id \in DOMAIN willDb' => willDb'[id].status = "executed"
  BY <1>2, <1>3, <1>4 DEF AreWills
<1>6. AreWills(wills') /\ id \notin DOMAIN wills' /\ (\A v : v # id => (v \in DOMAIN wills' <=> v \in DOMAIN wills))
      /\ \A v \in DOMAIN wills : v # id => wills'[v] = wills[v]
  BY <1>1 DEF Without, AreWills, IsTable, WillsStored
<1>7. ~ Pending(id)'
  BY <1>6 DEF Pending
<1>. QED  BY <1>3, <1>5, <1>6, <1>7, WillsChange

\* Wills: the memory and the row agree after every step.
LEMMA WillStep ==
    ASSUME ReqOk, WillsStored, OneCancels, WillsNext
    PROVE  ReqOk' /\ WillsStored' /\ OneCancels'
<1>0. ASSUME UNCHANGED <<wills, willDb>> PROVE WillsStored' /\ DOMAIN wills' = DOMAIN wills
  BY <1>0 DEF WillsStored, Pending
<1>1. ASSUME NEW h \in Handlers, PostWillCreate(h) PROVE ReqOk' /\ WillsStored' /\ OneCancels'
  <2>0. h \in AllThreads /\ h \in Threads
    BY ThreadsAre DEF Threads
  <2>1. PICK id, user, amt : Begins(h, Request("create", "debit", id, user, amt)) /\ UNCHANGED <<wills, willDb>>
    BY <1>1 DEF PostWillCreate, CreateWill
  <2>2. Moves(h) /\ req'[h].op = "create"
    BY <2>0, <2>1, MovesBegin
  <2>. QED  BY <1>0, <2>0, <2>1, <2>2, ReqMoved, LockKept DEF Cancels
<1>2. ASSUME NEW h \in Handlers, PostWillCancel(h) PROVE ReqOk' /\ WillsStored' /\ OneCancels'
  <2>0. h \in AllThreads /\ h \in Threads
    BY ThreadsAre DEF Threads
  <2>1. PICK w, u : CancelWill(h, w, u)
    BY <1>2 DEF PostWillCancel
  <2>2. Begins(h, Request("cancel", "mark", w, u, 0)) /\ UNCHANGED <<wills, willDb>> /\ w \in DOMAIN wills /\ WillLockFree
    BY <2>1 DEF CancelWill, Pending
  <2>3. Moves(h) /\ req'[h].id = w
    BY <2>0, <2>2, MovesBegin
  <2>. QED  BY <1>0, <2>0, <2>2, <2>3, ReqMoved, LockKept
<1>3. ASSUME NEW h \in Threads, NEW w, NEW force, ExecuteWill(h, w, force) PROVE ReqOk' /\ WillsStored' /\ OneCancels'
  <2>0. h \in AllThreads
    BY ThreadsAre
  <2>1. PICK user : Begins(h, Request("execute", "mark", w, user, 0)) /\ UNCHANGED <<wills, willDb>>
    BY <1>3 DEF ExecuteWill
  <2>2. Moves(h) /\ req'[h].op = "execute"
    BY <2>0, <2>1, MovesBegin
  <2>. QED  BY <1>0, <2>0, <2>1, <2>2, ReqMoved, LockKept DEF Cancels
<1>4. ASSUME NEW h \in Threads, CreateDebit(h) PROVE ReqOk' /\ WillsStored' /\ OneCancels'
  <2>0. h \in AllThreads
    BY ThreadsAre
  <2>1. req[h].op = "create" /\ Goes(h, "save") /\ UNCHANGED <<wills, willDb>>
    BY <1>4 DEF CreateDebit, At
  <2>2. Moves(h) /\ req'[h].op = "create"
    BY <2>0, <2>1, MovesOn
  <2>. QED  BY <1>0, <2>0, <2>1, <2>2, ReqMoved, LockKept DEF Cancels
<1>5. ASSUME NEW h \in Threads, CreateSave(h) \/ CancelMark(h) \/ ExecuteMark(h) PROVE ReqOk' /\ WillsStored' /\ OneCancels'
  <2>0. h \in AllThreads
    BY ThreadsAre
  <2>1. Ends(h) /\ (WillLockFree \/ Cancels(req[h]))
    BY <1>5 DEF CreateSave, CancelMark, ExecuteMark, At, Cancels
  <2>2. Moves(h) /\ req'[h] = NoRequest
    BY <2>0, <2>1, MovesEnd
  <2>3. CancelMark(h) => req[h].id \in DOMAIN wills
    BY <1>5 DEF CancelMark, At, Cancels, OneCancels
  <2>4. WillsStored'
    BY <1>5, <2>3, CreateSaveStep, CancelMarkStep, ExecuteMarkStep
  <2>. QED  BY <2>0, <2>1, <2>2, <2>4, NothingCancels, ReqMoved, LockKept
<1>6. ASSUME NEW w, FallDue(w) PROVE ReqOk' /\ WillsStored' /\ OneCancels'
  <2>1. req' = req
    BY <1>6 DEF FallDue
  <2>2. WillsStored' /\ DOMAIN wills' = DOMAIN wills
    BY <1>6, FallDueStep
  <2>. QED  BY <2>1, <2>2 DEF ReqOk, OneCancels
<1>. QED  BY <1>1, <1>2, <1>3, <1>4, <1>5, <1>6 DEF WillsNext, PostWillExecute, MonitorExecutes, Threads

-----------------------------------------------------------------------------
(* The contracts of the MiniVM, one request after another *)

Rows == [a \in DOMAIN minivm |-> ToRow(minivm[a])]

\* The table once request r has ended.
Saved(r, db) == IF r.step = "save" THEN With(db, r.id, r.user) ELSE db

MiniStored ==
    /\ IsTable(minivm)
    /\ (\A h \in AllThreads : req[h] = NoRequest) => minivmDb = Rows
    /\ \A h \in AllThreads : req[h] # NoRequest =>
          req[h].op = "mini" /\ req[h].id \in DOMAIN minivm /\ Saved(req[h], minivmDb) = Rows

\* Saving a MiniVM contract saves the row that is read back from it.
LEMMA RowsChange ==
    ASSUME IsTable(minivm), NEW a, NEW c, minivm' = With(minivm, a, c)
    PROVE  Rows' = With(Rows, a, ToRow(c)) /\ a \in DOMAIN minivm' /\ IsTable(minivm')
<1>1. DOMAIN minivm' = DOMAIN minivm \cup {a} /\ minivm'[a] = c /\ (\A b \in DOMAIN minivm : b # a => minivm'[b] = minivm[b])
      /\ IsTable(minivm')
  BY DEF With, IsTable
<1>2. Rows' = [b \in DOMAIN minivm' |-> ToRow(minivm'[b])]
  BY DEF Rows
<1>3. With(Rows, a, ToRow(c)) = [b \in DOMAIN minivm \cup {a} |-> IF b = a THEN ToRow(c) ELSE ToRow(minivm[b])]
  BY DEF With, Rows
<1>. QED  BY <1>1, <1>2, <1>3

\* One request after another, a MiniVM contract is saved before the next one starts.
LEMMA MiniAlone ==
    ASSUME ReqOk, OneAtATime, NEW h \in AllThreads, Moves(h), \A g \in AllThreads : g # h => req[g] = NoRequest,
           IsTable(minivm)',
           req'[h] = NoRequest => minivmDb' = Rows',
           req'[h] # NoRequest => req'[h].op = "mini" /\ req'[h].id \in DOMAIN minivm' /\ Saved(req'[h], minivmDb') = Rows'
    PROVE  ReqOk' /\ OneAtATime' /\ MiniStored'
<1>1. OneAtATime' /\ \A g \in AllThreads : req'[g] # NoRequest => g = h
  BY AloneKept DEF Moves
<1>. QED  BY <1>1, ReqMoved DEF MiniStored

LEMMA MiniStep ==
    ASSUME ReqOk, OneAtATime, MiniStored, mode = "serial", MiniNext
    PROVE  ReqOk' /\ OneAtATime' /\ MiniStored'
<1>. PICK h \in Handlers :
        PostMiniVmDeploy(h) \/ PostMiniVmCall(h) \/ VmStep(h) \/ VmRaises(h) \/ MiniReturns(h) \/ MiniSave(h)
  BY DEF MiniNext
<1>. h \in AllThreads
  BY ThreadsAre
<1>0. req[h].op = "mini" => /\ \A g \in AllThreads : g # h => req[g] = NoRequest
                           /\ req[h] # NoRequest /\ req[h].id \in DOMAIN minivm /\ Saved(req[h], minivmDb) = Rows
  BY DEF OneAtATime, MiniStored, NoRequest
<1>1. CASE PostMiniVmDeploy(h)
  <2>1. PICK a, c : /\ minivm' = With(minivm, a, c) /\ minivmDb' = minivmDb
                    /\ Begins(h, Request("mini", "save", a, ToRow(c), 0))
    BY <1>1 DEF PostMiniVmDeploy, MiniDeploy
  <2>. DEFINE r == Request("mini", "save", a, ToRow(c), 0)
  <2>2. IsRequest(r) /\ r.op = "mini" /\ r.step = "save" /\ r.id = a /\ r.user = ToRow(c) /\ r # NoRequest
    <3>. DEFINE row == ToRow(c)
    <3>. HIDE DEF row
    <3>1. LET q == Request("mini", "save", a, row, 0)
          IN IsRequest(q) /\ q.op = "mini" /\ q.step = "save" /\ q.id = a /\ q.user = row /\ q # NoRequest
      BY RequestIs
    <3>. QED  BY <3>1 DEF row
  <2>3. Begins(h, r)
    BY <2>1
  <2>. HIDE DEF r
  <2>4. Rest(h) /\ req'[h] = r /\ \A g \in AllThreads : req[g] = NoRequest
    BY <2>3, BeginsIs
  <2>5. minivmDb = Rows
    BY <2>4 DEF MiniStored
  <2>6. Rows' = With(Rows, a, ToRow(c)) /\ a \in DOMAIN minivm' /\ IsTable(minivm)'
    BY <2>1, RowsChange DEF MiniStored
  <2>7. Saved(r, minivmDb') = Rows'
    BY <2>1, <2>2, <2>5, <2>6 DEF Saved
  <2>8. Moves(h)
    BY <2>2, <2>4 DEF Moves
  <2>. QED  BY <2>2, <2>4, <2>6, <2>7, <2>8, MiniAlone
<1>2. CASE PostMiniVmCall(h)
  <2>1. PICK a, user : a \in DOMAIN minivm /\ minivm' = minivm /\ minivmDb' = minivmDb /\ Begins(h, Request("mini", "run", a, user, 0))
    BY <1>2 DEF PostMiniVmCall, MiniCall
  <2>2. Moves(h) /\ req'[h].op = "mini" /\ req'[h].step = "run" /\ req'[h].id = a
    BY <2>1, MovesBegin
  <2>3. \A g \in AllThreads : req[g] = NoRequest
    BY <2>1, BeginsIs
  <2>4. minivmDb = Rows
    BY <2>3 DEF MiniStored
  <2>5. Rows' = Rows /\ IsTable(minivm)'
    BY <2>1 DEF Rows, MiniStored
  <2>6. Saved(req'[h], minivmDb') = Rows' /\ req'[h] # NoRequest
    BY <2>1, <2>2, <2>4, <2>5 DEF Saved, NoRequest
  <2>. QED  BY <2>1, <2>2, <2>3, <2>5, <2>6, MiniAlone
<1>3. CASE VmStep(h)
  <2>1. UNCHANGED <<req, minivm, minivmDb>>
    BY <1>3 DEF VmStep
  <2>. QED  BY <2>1 DEF ReqOk, OneAtATime, MiniStored, Rows
<1>4. CASE VmRaises(h)
  <2>1. req[h].op = "mini" /\ req[h].step = "run" /\ Ends(h) /\ UNCHANGED <<minivm, minivmDb>>
    BY <1>4 DEF VmRaises, Runs, At
  <2>2. Moves(h) /\ req'[h] = NoRequest
    BY <2>1, MovesEnd
  <2>3. minivmDb' = Rows' /\ IsTable(minivm)'
    BY <1>0, <2>1 DEF Saved, Rows, MiniStored
  <2>. QED  BY <1>0, <2>1, <2>2, <2>3, MiniAlone
<1>5. CASE MiniReturns(h)
  <2>. PICK a : a = req[h].id
    OBVIOUS
  <2>. PICK c : c = [minivm[a] EXCEPT !.storage = vm.storage, !.calls = @ + 1]
    OBVIOUS
  <2>1. req[h].op = "mini" /\ req[h].step = "run" /\ minivmDb' = minivmDb /\ minivm' = [minivm EXCEPT ![a] = c]
    BY <1>5 DEF MiniReturns, At
  <2>. PICK row : row = ToRow(c)
    OBVIOUS
  <2>2. req' = [req EXCEPT ![h] = Request("mini", "save", a, row, 0)]
    BY <1>5 DEF MiniReturns
  <2>. DEFINE r == Request("mini", "save", a, row, 0)
  <2>3. IsRequest(r) /\ r.op = "mini" /\ r.step = "save" /\ r.id = a /\ r.user = row /\ r # NoRequest
    BY RequestIs
  <2>. HIDE DEF r
  <2>4. Rest(h) /\ req'[h] = r
    BY <2>2 DEF Rest, ReqOk, r
  <2>5. minivmDb = Rows /\ a \in DOMAIN minivm
    BY <1>0, <2>1 DEF Saved
  <2>6. minivm' = With(minivm, a, c)
    BY <2>1, <2>5 DEF With, MiniStored, IsTable
  <2>7. Rows' = With(Rows, a, row) /\ a \in DOMAIN minivm' /\ IsTable(minivm)'
    BY <2>6, RowsChange DEF MiniStored
  <2>8. Saved(r, minivmDb') = Rows'
    BY <2>1, <2>3, <2>5, <2>7 DEF Saved
  <2>9. Moves(h)
    BY <2>3, <2>4 DEF Moves
  <2>. QED  BY <1>0, <2>1, <2>3, <2>4, <2>7, <2>8, <2>9, MiniAlone
<1>6. CASE MiniSave(h)
  <2>1. req[h].op = "mini" /\ req[h].step = "save" /\ Ends(h) /\ minivm' = minivm /\ minivmDb' = With(minivmDb, req[h].id, req[h].user)
    BY <1>6 DEF MiniSave, At
  <2>2. Moves(h) /\ req'[h] = NoRequest
    BY <2>1, MovesEnd
  <2>3. minivmDb' = Rows' /\ IsTable(minivm)'
    BY <1>0, <2>1 DEF Saved, Rows, MiniStored
  <2>. QED  BY <1>0, <2>1, <2>2, <2>3, MiniAlone
<1>. QED  BY <1>1, <1>2, <1>3, <1>4, <1>5, <1>6

-----------------------------------------------------------------------------
(* Every service together *)

\* Memory and tables agree but for what the requests under way still have to save.
StoredInv ==
    /\ ln = lnDb /\ MarketInv /\ PlasmaStored /\ WillsStored /\ IsTable(wasmDb) /\ IsTable(agentDb)
    /\ service = "wills" => ReqOk /\ OneCancels
    /\ service = "wasm" => ReqOk /\ ContractsBehind
    /\ service # "wasm" => wasm = wasmDb
    /\ service = "agents" => ReqOk /\ AgentsBehind
    /\ service # "agents" => agents = agentDb
    /\ mode = "serial" /\ service = "minivm" => ReqOk /\ OneAtATime /\ MiniStored
    /\ mode = "serial" /\ service # "minivm" => minivmDb = Rows

LEMMA BehindTables == \A mem, db, S : Behind(mem, db, S) => IsTable(db)
BY DEF Behind

\* A restart reads the tables: nothing unsaved is left in memory.
LEMMA StoredRestart ==
    ASSUME StoredInv, Restart
    PROVE  StoredInv'
<1>1. MarketInv'
  BY SalesStep DEF StoredInv, RestNext
<1>2. mode' # "serial" /\ req' = [h \in DOMAIN req |-> NoRequest] /\ service' = service
  BY DEF Restart, ServicesCrash
<1>3. ln' = lnDb'
  BY DEF Restart, ChannelsRestart
<1>4. PlasmaStored'
  <2>1. deposits' = depositDb /\ exits' = exitDb /\ l2txs' = l2txDb /\ depositDb' = depositDb /\ exitDb' = exitDb /\ l2txDb' = l2txDb
    BY DEF Restart, PlasmaRestart, plasmaDb
  <2>2. l2txs \in Seq(Transfers) /\ l2txDb = SavedPending(l2txs)
    BY DEF StoredInv, PlasmaStored
  <2>3. l2txDb \in Seq(Transfers) /\ Len(l2txDb) <= KeptPending
    BY <2>2, SavedPendingIs
  <2>4. SavedPending(l2txDb) = l2txDb
    BY <2>3, SavedPendingIs
  <2>. QED  BY <2>1, <2>3, <2>4 DEF PlasmaStored
<1>5. WillsStored'
  <2>. DEFINE S == {w \in DOMAIN willDb : willDb[w].status # "cancelled"}
  <2>1. wills' = [w \in S |-> willDb[w]] /\ willDb' = willDb
    BY DEF Restart, WillsRestart, Restrict
  <2>2. S \subseteq DOMAIN willDb /\ \A w \in DOMAIN willDb : willDb[w].status = "pending" => w \in S
    OBVIOUS
  <2>. HIDE DEF S
  <2>3. AreWills(willDb)
    BY DEF StoredInv, WillsStored
  <2>4. DOMAIN wills' = S /\ IsTable(wills') /\ \A w \in S : wills'[w] = willDb[w]
    BY <2>1 DEF IsTable
  <2>5. AreWills(wills')
    BY <2>2, <2>3, <2>4 DEF AreWills
  <2>. QED  BY <2>1, <2>2, <2>3, <2>4, <2>5 DEF WillsStored, Pending
<1>6. wasm' = wasmDb /\ wasmDb' = wasmDb /\ agents' = agentDb /\ agentDb' = agentDb
  BY DEF Restart, ContractsRestart, GetAiAgents
<1>7. IsTable(wasmDb) /\ IsTable(agentDb)
  BY DEF StoredInv
<1>8. service \in {"wills", "wasm", "agents"} => ReqOk' /\ \A h \in AllThreads : req'[h] = NoRequest
  BY <1>2 DEF StoredInv, ReqOk
<1>9. service = "wills" => ReqOk' /\ OneCancels'
  BY <1>8, NothingCancels, ThreadsAre DEF OneCancels
<1>10. service \in {"wasm", "agents"} => Unsaved' = {}
  BY <1>8, NothingChanges, ThreadsAre DEF Unsaved
<1>11. service = "wasm" => ReqOk' /\ ContractsBehind'
  BY <1>6, <1>7, <1>8, <1>10, BehindItself DEF ContractsBehind
<1>12. service = "agents" => ReqOk' /\ AgentsBehind'
  BY <1>6, <1>7, <1>8, <1>10, BehindItself DEF AgentsBehind
<1>. QED  BY <1>1, <1>2, <1>3, <1>4, <1>5, <1>6, <1>7, <1>9, <1>11, <1>12 DEF StoredInv

\* Every step of every service keeps memory and tables together.
LEMMA StoredService ==
    ASSUME StoredInv, ServiceStep
    PROVE  StoredInv'
<1>1. MarketInv' /\ UNCHANGED <<mode, service>>
  BY SalesStep DEF StoredInv, RestNext, ServiceStep
<1>2. ln' = lnDb'
  BY ChannelsStored DEF StoredInv, ServiceStep
<1>3. PlasmaStored'
  <2>1. CASE service = "plasma"
    BY <2>1, PlasmaStoredStep DEF StoredInv, ServiceStep
  <2>2. CASE service # "plasma"
    <3>1. UNCHANGED <<plasmaDb, plasmaMem>>
      BY <2>2 DEF ServiceStep
    <3>. QED  BY <3>1 DEF StoredInv, PlasmaStored, plasmaDb, plasmaMem
  <2>. QED  BY <2>1, <2>2
<1>4. WillsStored' /\ (service = "wills" => ReqOk' /\ OneCancels')
  <2>1. CASE service = "wills"
    BY <2>1, WillStep DEF StoredInv, ServiceStep
  <2>2. CASE service # "wills"
    <3>1. UNCHANGED <<wills, willDb>>
      BY <2>2 DEF ServiceStep
    <3>. QED  BY <2>2, <3>1 DEF StoredInv, WillsStored, Pending
  <2>. QED  BY <2>1, <2>2
<1>5. (service = "wasm" => ReqOk' /\ ContractsBehind') /\ IsTable(wasmDb') /\ (service # "wasm" => wasm' = wasmDb')
  <2>1. CASE service = "wasm"
    BY <2>1, WasmStep, BehindTables DEF StoredInv, ServiceStep, ContractsBehind
  <2>2. CASE service # "wasm"
    BY <2>2 DEF StoredInv, ServiceStep
  <2>. QED  BY <2>1, <2>2
<1>6. (service = "agents" => ReqOk' /\ AgentsBehind') /\ IsTable(agentDb') /\ (service # "agents" => agents' = agentDb')
  <2>1. CASE service = "agents"
    BY <2>1, AgentStep, BehindTables DEF StoredInv, ServiceStep, AgentsBehind
  <2>2. CASE service # "agents"
    BY <2>2 DEF StoredInv, ServiceStep
  <2>. QED  BY <2>1, <2>2
<1>7. mode = "serial" /\ service = "minivm" => ReqOk' /\ OneAtATime' /\ MiniStored'
  BY MiniStep DEF StoredInv, ServiceStep
<1>8. mode = "serial" /\ service # "minivm" => minivmDb' = Rows'
  <2>. SUFFICES ASSUME mode = "serial", service # "minivm" PROVE minivmDb' = Rows'
    OBVIOUS
  <2>1. minivmDb = Rows /\ minivm' = minivm /\ minivmDb' = minivmDb
    BY DEF StoredInv, ServiceStep
  <2>. QED  BY <2>1 DEF Rows
<1>. QED  BY <1>1, <1>2, <1>3, <1>4, <1>5, <1>6, <1>7, <1>8 DEF StoredInv

\* Every step of the server keeps memory and tables together.
LEMMA StoredStep ==
    ASSUME StoredInv, [RestNext]_restVars
    PROVE  StoredInv'
<1>. SUFFICES ASSUME StoredInv, UNCHANGED restVars PROVE StoredInv'
  BY StoredRestart, StoredService DEF RestNext
<1>1. UNCHANGED <<ln, lnDb, market, marketDb, plasmaDb, plasmaMem, wills, willDb>>
      /\ UNCHANGED <<wasm, wasmDb, agents, agentDb, minivm, minivmDb, req, mode, service>>
  BY DEF restVars
<1>2. MarketInv' /\ PlasmaStored' /\ WillsStored'
  BY <1>1 DEF StoredInv, MarketInv, MarketOk, PlasmaStored, WillsStored, Pending, plasmaDb, plasmaMem,
              ReqOk, OneTrades, PaidIsOwner, NoSales
<1>3. (ReqOk => ReqOk') /\ (OneCancels => OneCancels') /\ (OneAtATime => OneAtATime') /\ (MiniStored => MiniStored') /\ Rows' = Rows
  BY <1>1 DEF ReqOk, OneCancels, OneAtATime, MiniStored, Rows
<1>4. (ContractsBehind => ContractsBehind') /\ (AgentsBehind => AgentsBehind')
  BY <1>1 DEF ContractsBehind, AgentsBehind, Unsaved
<1>. QED  BY <1>1, <1>2, <1>3, <1>4 DEF StoredInv

LEMMA StoredStart == RestInit => StoredInv
<1>. SUFFICES ASSUME RestInit PROVE StoredInv
  OBVIOUS
<1>1. MarketInv
  BY MarketStart
<1>2. req = [h \in AllThreads |-> NoRequest] /\ ln = lnDb
  BY DEF RestInit, ServicesInit, AllThreads, ChannelsInit
<1>3. ReqOk /\ \A h \in AllThreads : req[h] = NoRequest
  BY <1>2 DEF ReqOk
<1>4. PlasmaStored
  <2>1. deposits = depositDb /\ exits = exitDb /\ l2txs = <<>> /\ l2txDb = <<>>
    BY DEF RestInit, PlasmaInit
  <2>2. <<>> \in Seq(Transfers) /\ Len(<<>>) <= KeptPending
    BY PlasmaAssumption
  <2>. QED  BY <2>1, <2>2, SavedPendingIs DEF PlasmaStored
<1>5. IsTable(Nothing) /\ DOMAIN Nothing = {}
  BY DEF IsTable, Nothing
<1>6. wills = Nothing /\ willDb = Nothing /\ wasm = Nothing /\ wasmDb = Nothing /\ agents = Nothing /\ agentDb = Nothing
      /\ minivm = Nothing /\ minivmDb = Nothing
  BY DEF RestInit, WillsInit, ContractsInit, MiniInit
<1>7. WillsStored
  BY <1>5, <1>6 DEF WillsStored, AreWills
<1>8. OneCancels /\ OneAtATime
  BY <1>3, NothingCancels, ThreadsAre DEF OneCancels, OneAtATime
<1>9. Unsaved = {}
  BY <1>3, NothingChanges, ThreadsAre DEF Unsaved
<1>10. ContractsBehind /\ AgentsBehind
  BY <1>5, <1>6, <1>9, BehindItself DEF ContractsBehind, AgentsBehind
<1>11. minivmDb = Rows
  BY <1>6 DEF Rows, Nothing
<1>12. MiniStored
  BY <1>3, <1>5, <1>6, <1>11 DEF MiniStored
<1>. QED  BY <1>1, <1>2, <1>3, <1>4, <1>5, <1>6, <1>7, <1>8, <1>10, <1>11, <1>12 DEF StoredInv

\* AnsweredIsStored for every number of users, threads, items and contracts (the features'
\* _persist methods and Database): each service's requests interleave, the process dies
\* between two commits, and when no request runs the tables say what the memory says.
THEOREM StoredWhenAnswered == RestSpec => []AnsweredIsStored
<1>1. RestInit => StoredInv
  BY StoredStart
<1>2. StoredInv /\ [RestNext]_restVars => StoredInv'
  BY StoredStep
<1>3. StoredInv => AnsweredIsStored
  <2>. SUFFICES ASSUME StoredInv, Quiet PROVE
        /\ ln = lnDb /\ market = marketDb /\ wasm = wasmDb /\ agents = agentDb
        /\ deposits = depositDb /\ exits = exitDb /\ (Len(l2txs) <= KeptPending => l2txs = l2txDb)
        /\ \A w \in DOMAIN willDb : willDb[w].status = "pending" <=> Pending(w)
        /\ mode = "serial" => minivmDb = [a \in DOMAIN minivm |-> ToRow(minivm[a])]
    BY DEF AnsweredIsStored
  <2>1. ReqOk => (\A h \in AllThreads : req[h] = NoRequest) /\ Unsaved = {}
    BY ThreadsAre, NothingChanges DEF ReqOk, Quiet, Unsaved
  <2>2. wasm = wasmDb
    BY <2>1, BehindNothing DEF StoredInv, ContractsBehind
  <2>3. agents = agentDb
    BY <2>1, BehindNothing DEF StoredInv, AgentsBehind
  <2>4. mode = "serial" => minivmDb = Rows
    BY <2>1 DEF StoredInv, MiniStored
  <2>5. Len(l2txs) <= KeptPending => l2txs = l2txDb
    BY SavedPendingIs DEF StoredInv, PlasmaStored
  <2>. QED  BY <2>2, <2>3, <2>4, <2>5 DEF StoredInv, MarketInv, MarketOk, PlasmaStored, WillsStored, Rows
<1>. QED  BY <1>1, <1>2, <1>3, PTL DEF RestSpec

-----------------------------------------------------------------------------
(* Tokens of the contracts *)

LedgerFields == {"owner", "supply", "tokens", "calls", "edited"}

IsLedger(c) ==
    /\ DOMAIN c = LedgerFields /\ c = [k \in LedgerFields |-> c[k]]
    /\ c.tokens \in [Users -> Int] /\ c.supply \in Nat

LedgerOk(c) == IsLedger(c) /\ (c.edited \/ SumFunction(c.tokens) = c.supply)

\* What the transfer that runs has read, one request after another.
HasRead(r, contracts) ==
    /\ r.op \in {"deploy", "call"}
    /\ r.op = "deploy" => r.user \in Users /\ r.amt \in Nat
    /\ r.op = "call" /\ r.step = "write" =>
          \E c \in DOMAIN contracts, u, v \in Users, x \in Nat :
              r.id = c /\ r.user = <<u, v, contracts[c].tokens[u]>> /\ r.amt = x

\* The balance that a call has read is the one the contract still has.
TokensInv ==
    mode = "serial" =>
        /\ service # "wasm" => wasm = Nothing
        /\ service = "wasm" =>
              /\ ReqOk /\ OneAtATime /\ IsTable(wasm)
              /\ \A c \in DOMAIN wasm : LedgerOk(wasm[c])
              /\ \A h \in AllThreads : req[h] # NoRequest => HasRead(req[h], wasm)

\* The sum of the tokens as a total, which SumTheorems is about.
LEMMA SumIsTotal == \A f : SumFunction(f) = Total(f, DOMAIN f)
BY DEF SumFunction, SumFunctionOnSet, FoldFunctionOnSet, Total, MapThenSumSet

\* A transfer of tokens keeps their sum, also one to oneself.
LEMMA TokensMovedSum ==
    ASSUME NEW f \in [Users -> Int], NEW u \in Users, NEW v \in Users, NEW x \in Nat
    PROVE  /\ TokensMoved(f, u, v, f[u], x) \in [Users -> Int]
           /\ SumFunction(TokensMoved(f, u, v, f[u], x)) = SumFunction(f)
<1>. DEFINE p == [f EXCEPT ![u] = f[u] - x]
            m == [p EXCEPT ![v] = p[v] + x]
<1>0. IsFiniteSet(Users)
  BY SmartAccountsAssumption
<1>1. p \in [Users -> Int] /\ p[u] = f[u] - x /\ \A w \in Users \ {u} : p[w] = f[w]
  OBVIOUS
<1>2. TokensMoved(f, u, v, f[u], x) = m
  BY <1>1 DEF TokensMoved
<1>. HIDE DEF p
<1>3. m \in [Users -> Int] /\ m[v] = p[v] + x /\ \A w \in Users \ {v} : m[w] = p[w]
  BY <1>1
<1>. HIDE DEF m
<1>4. Total(p, Users) = Total(f, Users) - f[u] + p[u]
  BY <1>0, <1>1, TotalUpdate
<1>5. Total(m, Users) = Total(p, Users) - p[v] + m[v]
  BY <1>0, <1>1, <1>3, TotalUpdate
<1>6. Total(f, Users) \in Int
  BY <1>0, TotalRemove
<1>7. Total(m, Users) = Total(f, Users)
  <2>1. f[u] \in Int /\ p[v] \in Int
    BY <1>1
  <2>. QED  BY <1>1, <1>3, <1>4, <1>5, <1>6, <2>1
<1>8. DOMAIN f = Users /\ DOMAIN m = Users
  BY <1>3
<1>. QED  BY <1>2, <1>3, <1>7, <1>8, SumIsTotal

\* A new contract has given out what it says.
LEMMA DeployedOk ==
    ASSUME NEW u \in Users, NEW s \in Nat
    PROVE  LedgerOk(Deployed(u, s))
<1>. DEFINE f == [v \in Users |-> IF v = u THEN s ELSE 0]
            z == [v \in Users |-> 0]
            c == Deployed(u, s)
<1>0. IsFiniteSet(Users)
  BY SmartAccountsAssumption
<1>1. DOMAIN c = LedgerFields /\ c = [k \in LedgerFields |-> c[k]] /\ c.tokens = f /\ c.supply = s
  BY DEF Deployed, LedgerFields
<1>2. f \in [Users -> Int] /\ f[u] = s /\ (\A v \in Users \ {u} : f[v] = z[v]) /\ (\A v \in Users : z[v] = 0) /\ DOMAIN f = Users
  OBVIOUS
<1>. HIDE DEF f, z, c
<1>3. Total(z, Users) = 0 * Cardinality(Users)
  BY <1>0, <1>2, TotalConstant
<1>4. Total(f, Users) = Total(z, Users) - z[u] + f[u]
  BY <1>0, <1>2, TotalUpdate
<1>5. Cardinality(Users) \in Nat
  BY <1>0, FS_CardinalityType
<1>6. SumFunction(f) = s
  BY <1>2, <1>3, <1>4, <1>5, SumIsTotal
<1>7. LedgerOk(c)
  BY <1>1, <1>2, <1>6 DEF LedgerOk, IsLedger
<1>. QED  BY <1>7 DEF c

\* A step that changes one contract, one request after another.
LEMMA LedgerStep ==
    ASSUME ReqOk, OneAtATime, NEW h \in AllThreads, Moves(h), \A g \in AllThreads : g # h => req[g] = NoRequest,
           IsTable(wasm'), NEW c, \A a \in DOMAIN wasm : LedgerOk(wasm[a]),
           \A a \in DOMAIN wasm' : a # c => a \in DOMAIN wasm /\ wasm'[a] = wasm[a],
           c \in DOMAIN wasm' => LedgerOk(wasm'[c]),
           req'[h] # NoRequest => HasRead(req'[h], wasm'), UNCHANGED <<mode, service>>, service = "wasm"
    PROVE  TokensInv'
<1>1. OneAtATime' /\ \A g \in AllThreads : req'[g] # NoRequest => g = h
  BY AloneKept DEF Moves
<1>2. \A a \in DOMAIN wasm' : LedgerOk(wasm'[a])
  OBVIOUS
<1>. QED  BY <1>1, <1>2, ReqMoved DEF TokensInv

\* The steps of the contracts keep the tokens of each of them.
LEMMA TokensStep ==
    ASSUME TokensInv, mode = "serial", service = "wasm", UNCHANGED <<mode, service>>, WasmNext
    PROVE  TokensInv'
<1>. PICK h \in Handlers :
       \/ PostWasmDeploy(h) \/ ChargeFee(h) \/ DeployCreate(h)
       \/ PostWasmCall(h) \/ CallWrite(h) \/ CallSave(h)
  BY DEF WasmNext
<1>. h \in AllThreads
  BY ThreadsAre
<1>0. /\ ReqOk /\ OneAtATime /\ IsTable(wasm) /\ (\A c \in DOMAIN wasm : LedgerOk(wasm[c]))
      /\ \A g \in AllThreads : req[g] # NoRequest => HasRead(req[g], wasm)
  BY DEF TokensInv
<1>1. req[h] # NoRequest => HasRead(req[h], wasm) /\ \A g \in AllThreads : g # h => req[g] = NoRequest
  BY <1>0 DEF OneAtATime
<1>2. req[h].op # "none" => req[h] # NoRequest
  BY DEF NoRequest
<1>3. ASSUME Moves(h), \A g \in AllThreads : g # h => req[g] = NoRequest, wasm' = wasm, req'[h] # NoRequest => HasRead(req'[h], wasm)
      PROVE  TokensInv'
  <2>. PICK c : c \notin DOMAIN wasm
    <3>. DEFINE R == {a \in DOMAIN wasm : a \notin a}
    <3>1. R \notin DOMAIN wasm
      OBVIOUS
    <3>. QED  BY <3>1
  <2>1. IsTable(wasm') /\ (\A a \in DOMAIN wasm' : a # c => a \in DOMAIN wasm /\ wasm'[a] = wasm[a]) /\ c \notin DOMAIN wasm'
    BY <1>0, <1>3
  <2>2. req'[h] # NoRequest => HasRead(req'[h], wasm')
    BY <1>3
  <2>. QED  BY <1>0, <1>3, <2>1, <2>2, LedgerStep
<1>4. CASE PostWasmDeploy(h)
  <2>1. PICK u \in Users, s \in {0, InitialSupply} : Create(h, "deploy", u, s)
    BY <1>4 DEF PostWasmDeploy
  <2>2. PICK id : id = items + 1
    OBVIOUS
  <2>. DEFINE r == Request("deploy", "fee", id, u, s)
  <2>3. IsRequest(r) /\ r.op = "deploy" /\ r.user = u /\ r.amt = s /\ r # NoRequest
    BY RequestIs
  <2>4. Begins(h, r) /\ wasm' = wasm
    BY <2>1, <2>2 DEF Create
  <2>. HIDE DEF r
  <2>5. Rest(h) /\ req'[h] = r /\ \A g \in AllThreads : req[g] = NoRequest
    BY <1>0, <2>4, BeginsIs
  <2>6. HasRead(r, wasm)
    BY <2>3, ContractsAssumption DEF HasRead
  <2>. QED  BY <1>3, <2>3, <2>4, <2>5, <2>6 DEF Moves
<1>5. CASE ChargeFee(h)
  <2>1. req[h].op \in {"deploy", "agent"} /\ Goes(h, "create") /\ wasm' = wasm
    BY <1>5 DEF ChargeFee
  <2>2. HasRead(req[h], wasm) /\ req[h].op = "deploy" /\ \A g \in AllThreads : g # h => req[g] = NoRequest
    BY <1>1, <1>2, <2>1 DEF HasRead
  <2>. DEFINE q == req[h]
              r == Request(q.op, "create", q.id, q.user, q.amt)
  <2>3. IsRequest(q) /\ q.op = "deploy" /\ q.user \in Users /\ q.amt \in Nat
    BY <1>0, <2>2, AtIs DEF HasRead
  <2>4. Rest(h) /\ req'[h] = r
    BY <1>0, <2>1, <2>3, GoesIs
  <2>. HIDE DEF q
  <2>5. IsRequest(r) /\ r.op = "deploy" /\ r.user = q.user /\ r.amt = q.amt
    BY <2>3, RequestIs
  <2>. HIDE DEF r
  <2>6. HasRead(r, wasm)
    BY <2>3, <2>5 DEF HasRead
  <2>. QED  BY <1>3, <2>1, <2>2, <2>4, <2>5, <2>6 DEF Moves
<1>6. CASE DeployCreate(h)
  <2>1. PICK id, u, s : id = req[h].id /\ u = req[h].user /\ s = req[h].amt
    OBVIOUS
  <2>2. req[h].op = "deploy" /\ wasm' = With(wasm, id, Deployed(u, s)) /\ Becomes(h, Request("call", "save", id, "none", 0))
    BY <1>0, <1>6, <2>1 DEF DeployCreate, At, Becomes, ReqOk
  <2>3. u \in Users /\ s \in Nat /\ \A g \in AllThreads : g # h => req[g] = NoRequest
    BY <1>1, <1>2, <2>1, <2>2 DEF HasRead
  <2>4. Moves(h) /\ req'[h].op = "call" /\ req'[h].step = "save"
    BY <1>0, <2>2, MovesTo
  <2>. PICK d : d = Deployed(u, s)
    OBVIOUS
  <2>5. LedgerOk(d)
    BY <2>3, DeployedOk
  <2>6. IsTable(wasm') /\ (\A a \in DOMAIN wasm' : a # id => a \in DOMAIN wasm /\ wasm'[a] = wasm[a]) /\ wasm'[id] = d
    BY <2>2 DEF With, IsTable
  <2>7. HasRead(req'[h], wasm')
    BY <2>4 DEF HasRead
  <2>. QED  BY <1>0, <2>3, <2>4, <2>5, <2>6, <2>7, LedgerStep
<1>7. CASE PostWasmCall(h)
  <2>1. PICK c \in DOMAIN wasm, u, v \in Users, x \in Amounts : CallTransfer(h, c, u, v, x) \/ CallSetStorage(h, c, u, v, x)
    BY <1>7 DEF PostWasmCall
  <2>. PICK q : q = wasm[c]
    OBVIOUS
  <2>2. LedgerOk(q) /\ IsLedger(q) /\ x \in Nat
    BY <1>0, ServicesAssumption DEF LedgerOk
  <2>3. CASE CallTransfer(h, c, u, v, x)
    <3>. DEFINE n == [q EXCEPT !.calls = @ + 1]
    <3>1. wasm' = [wasm EXCEPT ![c] = n]
      BY <2>3 DEF CallTransfer
    <3>2. IsLedger(n) /\ n.tokens = q.tokens /\ n.supply = q.supply /\ n.edited = q.edited
      BY <2>2 DEF IsLedger, LedgerFields
    <3>. HIDE DEF n
    <3>3. LedgerOk(n)
      BY <2>2, <3>2 DEF LedgerOk
    <3>4. IsTable(wasm') /\ DOMAIN wasm' = DOMAIN wasm /\ (\A a \in DOMAIN wasm : a # c => wasm'[a] = wasm[a]) /\ wasm'[c] = n
      BY <3>1 DEF IsTable
    <3>. PICK user : user = <<u, v, q.tokens[u]>>
      OBVIOUS
    <3>. DEFINE r == Request("call", "write", c, user, x)
    <3>5. Begins(h, r)
      BY <2>3 DEF CallTransfer
    <3>6. IsRequest(r) /\ r.op = "call" /\ r.id = c /\ r.user = user /\ r.amt = x /\ r # NoRequest
      BY RequestIs
    <3>. HIDE DEF r
    <3>7. Rest(h) /\ req'[h] = r /\ \A g \in AllThreads : req[g] = NoRequest
      BY <1>0, <3>5, BeginsIs
    <3>8. HasRead(r, wasm')
      BY <2>2, <3>2, <3>4, <3>6 DEF HasRead
    <3>9. Moves(h)
      BY <3>6, <3>7 DEF Moves
    <3>. QED  BY <1>0, <3>3, <3>4, <3>7, <3>8, <3>9, LedgerStep
  <2>4. CASE CallSetStorage(h, c, u, v, x)
    <3>. DEFINE f == [q.tokens EXCEPT ![v] = x]
                p == [q EXCEPT !.calls = @ + 1]
                t == [p EXCEPT !.tokens = f]
                n == [t EXCEPT !.edited = TRUE]
    <3>0. f \in [Users -> Int]
      BY <2>2 DEF IsLedger
    <3>1. IsLedger(p) /\ p.tokens = q.tokens
      BY <2>2 DEF IsLedger, LedgerFields
    <3>2. wasm' = [wasm EXCEPT ![c] = n]
      BY <1>0, <2>2, <2>4, <3>1 DEF CallSetStorage
    <3>. HIDE DEF f, p
    <3>3. IsLedger(t)
      BY <3>0, <3>1 DEF IsLedger, LedgerFields
    <3>. HIDE DEF t
    <3>4. IsLedger(n) /\ n.edited
      BY <3>3 DEF IsLedger, LedgerFields
    <3>. HIDE DEF n
    <3>5. LedgerOk(n)
      BY <3>4 DEF LedgerOk
    <3>6. IsTable(wasm') /\ DOMAIN wasm' = DOMAIN wasm /\ (\A a \in DOMAIN wasm : a # c => wasm'[a] = wasm[a]) /\ wasm'[c] = n
      BY <3>2 DEF IsTable
    <3>7. Begins(h, Request("call", "save", c, "none", 0))
      BY <2>4 DEF CallSetStorage
    <3>8. Moves(h) /\ req'[h].op = "call" /\ req'[h].step = "save" /\ \A g \in AllThreads : req[g] = NoRequest
      BY <1>0, <3>7, MovesBegin, BeginsIs
    <3>9. HasRead(req'[h], wasm')
      BY <3>8 DEF HasRead
    <3>. QED  BY <1>0, <3>5, <3>6, <3>8, <3>9, LedgerStep
  <2>. QED  BY <2>1, <2>3, <2>4
<1>8. CASE CallWrite(h)
  <2>1. req[h].op = "call" /\ req[h].step = "write" /\ Goes(h, "save")
    BY <1>8 DEF CallWrite, At
  <2>2. \A g \in AllThreads : g # h => req[g] = NoRequest
    BY <1>1, <1>2, <2>1
  <2>3. PICK c \in DOMAIN wasm, u, v \in Users, x \in Nat : req[h].id = c /\ req[h].user = <<u, v, wasm[c].tokens[u]>> /\ req[h].amt = x
    BY <1>1, <1>2, <2>1 DEF HasRead
  <2>. PICK q : q = wasm[c]
    OBVIOUS
  <2>4. LedgerOk(q) /\ IsLedger(q) /\ q.tokens \in [Users -> Int]
    BY <1>0 DEF LedgerOk, IsLedger
  <2>. DEFINE f == TokensMoved(q.tokens, u, v, q.tokens[u], x)
              n == [q EXCEPT !.tokens = f]
  <2>5. f \in [Users -> Int] /\ SumFunction(f) = SumFunction(q.tokens)
    BY <2>4, TokensMovedSum
  <2>6. wasm' = [wasm EXCEPT ![c] = n]
    BY <1>8, <2>3 DEF CallWrite
  <2>. HIDE DEF f
  <2>7. IsLedger(n) /\ n.tokens = f /\ n.supply = q.supply /\ n.edited = q.edited
    BY <2>4, <2>5 DEF IsLedger, LedgerFields
  <2>. HIDE DEF n
  <2>8. LedgerOk(n)
    BY <2>4, <2>5, <2>7 DEF LedgerOk
  <2>9. IsTable(wasm') /\ DOMAIN wasm' = DOMAIN wasm /\ (\A a \in DOMAIN wasm : a # c => wasm'[a] = wasm[a]) /\ wasm'[c] = n
    BY <2>6 DEF IsTable
  <2>10. Moves(h) /\ req'[h].op = "call" /\ req'[h].step = "save"
    BY <1>0, <2>1, MovesOn
  <2>11. HasRead(req'[h], wasm')
    BY <2>10 DEF HasRead
  <2>. QED  BY <1>0, <2>2, <2>8, <2>9, <2>10, <2>11, LedgerStep
<1>9. CASE CallSave(h)
  <2>1. req[h].op = "call" /\ Ends(h) /\ wasm' = wasm
    BY <1>9 DEF CallSave, At
  <2>2. Moves(h) /\ req'[h] = NoRequest
    BY <1>0, <2>1, MovesEnd
  <2>. QED  BY <1>1, <1>2, <1>3, <2>1, <2>2
<1>. QED  BY <1>4, <1>5, <1>6, <1>7, <1>8, <1>9

\* TokensKept for every number of users, contracts and tokens (wasm_vm.py, deploy and the
\* transfer of call): the balance a transfer has read before it writes is the one it still
\* finds, so that its two writes make no tokens, also when a caller pays itself.
THEOREM TransfersMakeNoTokens == RestSpec => []TokensKept
<1>1. RestInit => TokensInv
  <2>. SUFFICES ASSUME RestInit PROVE TokensInv
    OBVIOUS
  <2>1. wasm = Nothing /\ req = [h \in AllThreads |-> NoRequest]
    BY DEF RestInit, ContractsInit, ServicesInit, AllThreads
  <2>2. ReqOk /\ OneAtATime /\ \A h \in AllThreads : req[h] = NoRequest
    BY <2>1 DEF ReqOk, OneAtATime
  <2>3. IsTable(Nothing) /\ DOMAIN Nothing = {}
    BY DEF IsTable, Nothing
  <2>. QED  BY <2>1, <2>2, <2>3 DEF TokensInv
<1>2. TokensInv /\ [RestNext]_restVars => TokensInv'
  <2>. SUFFICES ASSUME TokensInv, [RestNext]_restVars PROVE TokensInv'
    OBVIOUS
  <2>1. CASE ServiceStep /\ service = "wasm"
    <3>1. WasmNext /\ UNCHANGED <<mode, service>>
      BY <2>1 DEF ServiceStep
    <3>2. CASE mode = "serial"
      BY <2>1, <3>1, <3>2, TokensStep
    <3>3. CASE mode # "serial"
      BY <3>1, <3>3 DEF TokensInv
    <3>. QED  BY <3>2, <3>3
  <2>2. CASE ServiceStep /\ service # "wasm"
    BY <2>2 DEF ServiceStep, TokensInv
  <2>3. CASE Restart
    BY <2>3 DEF Restart, ServicesCrash, TokensInv
  <2>4. CASE UNCHANGED restVars
    <3>1. UNCHANGED <<mode, service, wasm, req>>
      BY <2>4 DEF restVars
    <3>. QED  BY <3>1 DEF TokensInv, ReqOk, OneAtATime
  <2>. QED  BY <2>1, <2>2, <2>3, <2>4 DEF RestNext
<1>3. TokensInv => TokensKept
  <2>1. DOMAIN Nothing = {}
    BY DEF Nothing
  <2>. QED  BY <2>1 DEF TokensInv, TokensKept, LedgerOk
<1>. QED  BY <1>1, <1>2, <1>3, PTL DEF RestSpec

-----------------------------------------------------------------------------
(* Balances on the side chain *)

DepositFields == {"from", "amount", "status"}

AreDeposits(f) ==
    /\ IsTable(f) /\ IsFiniteSet(DOMAIN f)
    /\ \A d \in DOMAIN f : /\ DOMAIN f[d] = DepositFields /\ f[d] = [k \in DepositFields |-> f[d][k]]
                           /\ f[d].amount \in Nat

Confirmed(f, u) == {d \in DOMAIN f : f[d].from = u /\ f[d].status = "confirmed"}
PaidIn(f, u) == SumFunctionOnSet([d \in DOMAIN f |-> f[d].amount], Confirmed(f, u))

\* A balance is what was paid in, and the transfers received less those sent.
LEMMA BalanceIs ==
    ASSUME NEW u
    PROVE  L2Balance(u) = PaidIn(deposits, u) + TxSum(l2blocks \o l2txs, u, "to") - TxSum(l2blocks \o l2txs, u, "from")
BY DEF L2Balance, PaidIn, Confirmed

LEMMA SumOnIsTotal == \A f, S : SumFunctionOnSet(f, S) = Total(f, S)
BY DEF SumFunctionOnSet, FoldFunctionOnSet, Total, MapThenSumSet

\* What deposits f pay in for u, as the total of any function with their amounts.
LEMMA PaidInIs ==
    ASSUME NEW f, AreDeposits(f), NEW u
    PROVE  IsFiniteSet(Confirmed(f, u)) /\ PaidIn(f, u) \in Nat
<1>. DEFINE S == Confirmed(f, u)
            b == [d \in DOMAIN f |-> f[d].amount]
<1>1. S \subseteq DOMAIN f /\ IsFiniteSet(S)
  BY FS_Subset DEF Confirmed, AreDeposits
<1>2. \A d \in S : b[d] = f[d].amount /\ b[d] \in Nat
  BY <1>1 DEF AreDeposits
<1>3. PaidIn(f, u) = Total(b, S)
  BY SumOnIsTotal DEF PaidIn
<1>. HIDE DEF S, b
<1>4. Total(b, S) \in Nat
  BY <1>1, <1>2, TotalNat
<1>. QED  BY <1>1, <1>3, <1>4 DEF S

LEMMA PaidInTotal ==
    ASSUME NEW f, AreDeposits(f), NEW u, NEW S, S = Confirmed(f, u), NEW a, \A d \in S : a[d] = f[d].amount
    PROVE  PaidIn(f, u) = Total(a, S)
<1>. DEFINE b == [d \in DOMAIN f |-> f[d].amount]
<1>1. S \subseteq DOMAIN f /\ IsFiniteSet(S)
  BY FS_Subset DEF Confirmed, AreDeposits
<1>2. \A d \in S : b[d] = f[d].amount /\ b[d] \in Int
  BY <1>1 DEF AreDeposits
<1>3. PaidIn(f, u) = Total(b, S)
  BY SumOnIsTotal DEF PaidIn
<1>. HIDE DEF b
<1>4. \A d \in S : a[d] = b[d] /\ b[d] \in Int
  BY <1>2
<1>5. Total(a, S) = Total(b, S)
  BY <1>1, <1>4, TotalSame
<1>. QED  BY <1>3, <1>5

\* A deposit that is new, or leaves, or changes in between.
LEMMA PaidInSame ==
    ASSUME NEW f, AreDeposits(f), NEW g, AreDeposits(g), NEW u, Confirmed(g, u) = Confirmed(f, u),
           \A d \in Confirmed(f, u) : g[d].amount = f[d].amount
    PROVE  PaidIn(g, u) = PaidIn(f, u)
<1>. DEFINE a == [d \in DOMAIN f |-> f[d].amount]
            S == Confirmed(f, u)
<1>1. \A d \in S : a[d] = f[d].amount
  BY DEF Confirmed
<1>. HIDE DEF a, S
<1>2. S = Confirmed(f, u) /\ S = Confirmed(g, u) /\ \A d \in S : a[d] = g[d].amount
  BY <1>1 DEF S
<1>3. PaidIn(f, u) = Total(a, S)
  BY <1>1, <1>2, PaidInTotal
<1>4. PaidIn(g, u) = Total(a, S)
  BY <1>2, PaidInTotal
<1>. QED  BY <1>3, <1>4

\* One confirmed deposit less takes its amount from what was paid in.
LEMMA PaidInLess ==
    ASSUME NEW f, AreDeposits(f), NEW g, AreDeposits(g), NEW u, NEW d, d \in Confirmed(f, u), Confirmed(g, u) = Confirmed(f, u) \ {d},
           \A c \in Confirmed(g, u) : g[c].amount = f[c].amount
    PROVE  PaidIn(g, u) = PaidIn(f, u) - f[d].amount
<1>. DEFINE a == [c \in DOMAIN f |-> f[c].amount]
            S == Confirmed(f, u)
            T == Confirmed(g, u)
<1>0. IsFiniteSet(S)
  BY PaidInIs
<1>1. \A c \in S : a[c] = f[c].amount /\ f[c].amount \in Nat
  BY DEF Confirmed, AreDeposits
<1>. HIDE DEF a, S, T
<1>2. S = Confirmed(f, u) /\ T = Confirmed(g, u) /\ T = S \ {d} /\ d \in S /\ \A c \in T : a[c] = g[c].amount
  BY <1>1 DEF S, T
<1>3. \A c \in S : a[c] = f[c].amount
  BY <1>1
<1>4. T = Confirmed(g, u) /\ \A c \in T : a[c] = g[c].amount
  BY <1>2
<1>5. PaidIn(f, u) = Total(a, S)
  BY <1>2, <1>3, PaidInTotal
<1>6. PaidIn(g, u) = Total(a, T)
  BY <1>4, PaidInTotal, Zenon
<1>7. \A c \in S : a[c] \in Int
  BY <1>1
<1>8. Total(a, S) = a[d] + Total(a, S \ {d})
  BY <1>0, <1>2, <1>7, TotalRemove
<1>9. Total(a, T) \in Int /\ a[d] = f[d].amount /\ a[d] \in Int
  <2>1. PaidIn(g, u) \in Nat
    BY PaidInIs
  <2>. QED  BY <1>1, <1>2, <1>6, <2>1
<1>. QED  BY <1>2, <1>5, <1>6, <1>8, <1>9

Part(txs, u, side) == [i \in 1..Len(txs) |-> IF txs[i][side] = u THEN txs[i].amount ELSE 0]

\* The transfers of one side as a total.
LEMMA TxSumIs ==
    ASSUME NEW txs \in Seq(Transfers), NEW u, NEW side \in {"from", "to"}
    PROVE  /\ TxSum(txs, u, side) = Total(Part(txs, u, side), 1..Len(txs)) /\ TxSum(txs, u, side) \in Nat
           /\ \A i \in 1..Len(txs) : Part(txs, u, side)[i] \in Nat
<1>. DEFINE f == Part(txs, u, side)
<1>1. DOMAIN txs = 1..Len(txs) /\ Len(txs) \in Nat /\ \A i \in 1..Len(txs) : txs[i] \in Transfers
  OBVIOUS
<1>2. \A i \in 1..Len(txs) : f[i] \in Nat
  BY <1>1, ServicesAssumption DEF Transfers, Part
<1>3. TxSum(txs, u, side) = SumFunction(f) /\ DOMAIN f = 1..Len(txs)
  BY <1>1 DEF TxSum, Part
<1>. HIDE DEF f
<1>4. TxSum(txs, u, side) = Total(f, 1..Len(txs))
  BY <1>3, SumIsTotal
<1>5. IsFiniteSet(1..Len(txs))
  BY <1>1, FS_Interval
<1>6. Total(f, 1..Len(txs)) \in Nat
  BY <1>2, <1>5, TotalNat
<1>. QED  BY <1>2, <1>4, <1>6 DEF f

\* One transfer more adds its amount to its own sides.
LEMMA TxSumAppend ==
    ASSUME NEW txs \in Seq(Transfers), NEW t \in Transfers, NEW u, NEW side \in {"from", "to"}
    PROVE  TxSum(Append(txs, t), u, side) = TxSum(txs, u, side) + (IF t[side] = u THEN t.amount ELSE 0)
<1>. DEFINE n == Len(txs)
            S == 1..n
            y == n + 1
            all == Append(txs, t)
            f == Part(txs, u, side)
            e == Part(all, u, side)
            x == IF t[side] = u THEN t.amount ELSE 0
<1>1. all \in Seq(Transfers) /\ Len(all) = n + 1 /\ n \in Nat /\ all[n + 1] = t /\ \A i \in 1..n : all[i] = txs[i]
  OBVIOUS
<1>2. TxSum(txs, u, side) = Total(f, S) /\ (\A i \in S : f[i] \in Nat) /\ TxSum(txs, u, side) \in Nat
  BY TxSumIs
<1>. HIDE DEF all
<1>3. TxSum(all, u, side) = Total(e, 1..Len(all)) /\ (\A i \in 1..Len(all) : e[i] \in Nat)
  BY <1>1, TxSumIs
<1>4. (\A i \in S : e[i] = f[i]) /\ e[y] = x /\ 1..Len(all) = S \cup {y} /\ y \notin S
  BY <1>1 DEF Part
<1>5. IsFiniteSet(S)
  BY <1>1, FS_Interval
<1>. HIDE DEF e, f, n, x, y, S
<1>6. (\A i \in S : e[i] \in Int) /\ e[y] \in Int
  BY <1>3, <1>4
<1>7. Total(e, S \cup {y}) = Total(e, S) + e[y]
  BY <1>4, <1>5, <1>6, TotalAdd
<1>8. \A i \in S : f[i] \in Int /\ e[i] = f[i]
  BY <1>2, <1>4
<1>9. Total(e, S) = Total(f, S)
  BY <1>5, <1>8, TotalSame
<1>10. TxSum(all, u, side) = TxSum(txs, u, side) + x
  BY <1>2, <1>3, <1>4, <1>7, <1>9
<1>. QED  BY <1>10 DEF all, x

-----------------------------------------------------------------------------
(* Solvency of the side chain *)

Solvent(f, txs) == \A u \in Users : PaidIn(f, u) + TxSum(txs, u, "to") - TxSum(txs, u, "from") >= 0

ExitFields == {"deposit", "user", "amount", "status", "due"}

\* Whoever has asked for an exit has left the deposit.
ExitsLeft(ex, f) ==
    /\ IsTable(ex)
    /\ \A e \in DOMAIN ex : DOMAIN ex[e] = ExitFields /\ ex[e].deposit \in DOMAIN f /\ f[ex[e].deposit].status # "confirmed"

\* What the running requests rely on: a deposit to save has an identifier of its own,
\* an exit to finalize is there.
Asks(r, f, ex, n) ==
    /\ r.op = "deposit" => r.id \in 1..n /\ r.id \notin DOMAIN f /\ r.amt \in Nat
    /\ r.op = "finalize" => r.id \in DOMAIN ex

PlasmaReqs ==
    /\ ReqOk /\ items \in Nat /\ DOMAIN deposits \subseteq 1..items
    /\ \A h \in AllThreads : Asks(req[h], deposits, exits, items)
    /\ \A g, h \in AllThreads : req[g].op = "deposit" /\ req[h].op = "deposit" /\ req[g].id = req[h].id => g = h

SideChain == AreDeposits(deposits) /\ ExitsLeft(exits, deposits) /\ Solvent(deposits, l2blocks \o l2txs)

\* The balances are sums over deposits and transfers, so the types of both are needed; a deposit that
\* is left must not count, and the identifiers of those under way must be free.
SolventInv ==
    /\ StoredInv /\ l2blocks \in Seq(Transfers) /\ SideChain
    /\ service = "plasma" => PlasmaReqs

\* What holds of the requests of the side chain.
LEMMA NothingAsked == \A f, ex, n : Asks(NoRequest, f, ex, n)
BY DEF Asks, NoRequest

\* The balances as sums, from the invariant.
LEMMA SolventIs ==
    ASSUME SolventInv
    PROVE  /\ \A u \in Users : L2Balance(u) = PaidIn(deposits, u) + TxSum(l2blocks \o l2txs, u, "to") - TxSum(l2blocks \o l2txs, u, "from")
           /\ l2blocks \o l2txs \in Seq(Transfers) /\ l2txs \in Seq(Transfers)
           /\ \A u \in Users : PaidIn(deposits, u) \in Nat /\ TxSum(l2blocks \o l2txs, u, "to") \in Nat /\ TxSum(l2blocks \o l2txs, u, "from") \in Nat
<1>1. l2txs \in Seq(Transfers) /\ l2blocks \in Seq(Transfers)
  BY DEF SolventInv, StoredInv, PlasmaStored
<1>2. l2blocks \o l2txs \in Seq(Transfers)
  BY <1>1
<1>. DEFINE all == l2blocks \o l2txs
<1>. HIDE DEF all
<1>3. all \in Seq(Transfers)
  BY <1>2 DEF all
<1>4. \A u \in Users : PaidIn(deposits, u) \in Nat /\ TxSum(all, u, "to") \in Nat /\ TxSum(all, u, "from") \in Nat
  BY <1>3, PaidInIs, TxSumIs DEF SolventInv, SideChain
<1>. QED  BY <1>1, <1>2, <1>4, BalanceIs DEF all

Marks(f, g, d, s) == g = [f EXCEPT ![d].status = s]

\* A change of status changes nothing else of a deposit.
LEMMA StatusChanges ==
    ASSUME NEW f, AreDeposits(f), NEW d \in DOMAIN f, NEW s, NEW g, Marks(f, g, d, s)
    PROVE  /\ AreDeposits(g) /\ DOMAIN g = DOMAIN f /\ \A c \in DOMAIN f : c # d => g[c] = f[c]
           /\ g[d].from = f[d].from /\ g[d].amount = f[d].amount /\ g[d].status = s
<1>. DEFINE r == f[d]
            n == [r EXCEPT !.status = s]
<1>1. DOMAIN r = DepositFields /\ r = [k \in DepositFields |-> r[k]] /\ r.amount \in Nat
  BY DEF AreDeposits
<1>2. g = [f EXCEPT ![d] = n]
  BY DEF Marks
<1>3. r.from = f[d].from /\ r.amount = f[d].amount
  OBVIOUS
<1>. HIDE DEF r
<1>4. DOMAIN n = DepositFields /\ n = [k \in DepositFields |-> n[k]] /\ n.amount = r.amount /\ n.from = r.from /\ n.status = s
  BY <1>1 DEF DepositFields
<1>. HIDE DEF n
<1>5. DOMAIN g = DOMAIN f /\ IsTable(g) /\ g[d] = n /\ \A c \in DOMAIN f : c # d => g[c] = f[c]
  BY <1>2 DEF IsTable
<1>6. AreDeposits(g)
  BY <1>1, <1>4, <1>5 DEF AreDeposits
<1>. QED  BY <1>3, <1>4, <1>5, <1>6

\* A deposit that is not counted, or is new, takes nothing from anybody's balance.
LEMMA BalancesGrow ==
    ASSUME NEW f, AreDeposits(f), NEW g, AreDeposits(g), NEW d,
           \A c \in DOMAIN f : c # d => g[c] = f[c], DOMAIN g = DOMAIN f \cup {d},
           d \in DOMAIN f => f[d].status # "confirmed", NEW u
    PROVE  PaidIn(f, u) <= PaidIn(g, u)
<1>0. PaidIn(f, u) \in Nat /\ PaidIn(g, u) \in Nat
  BY PaidInIs
<1>1. Confirmed(f, u) = Confirmed(g, u) \ {d} /\ \A c \in Confirmed(f, u) : f[c].amount = g[c].amount
  BY DEF Confirmed
<1>2. CASE d \in Confirmed(g, u)
  <2>1. PaidIn(f, u) = PaidIn(g, u) - g[d].amount
    BY <1>1, <1>2, PaidInLess
  <2>2. g[d].amount \in Nat
    BY DEF AreDeposits
  <2>. QED  BY <1>0, <2>1, <2>2
<1>3. CASE d \notin Confirmed(g, u)
  <2>1. Confirmed(f, u) = Confirmed(g, u)
    BY <1>1, <1>3
  <2>2. PaidIn(f, u) = PaidIn(g, u)
    BY <1>1, <2>1, PaidInSame
  <2>. QED  BY <1>0, <2>2
<1>. QED  BY <1>2, <1>3

\* Paying in more never makes anybody insolvent.
LEMMA SolventGrows ==
    ASSUME NEW f, AreDeposits(f), NEW g, AreDeposits(g), \A u \in Users : PaidIn(f, u) <= PaidIn(g, u),
           NEW txs \in Seq(Transfers), Solvent(f, txs)
    PROVE  Solvent(g, txs)
<1>1. \A u \in Users : PaidIn(f, u) \in Nat /\ PaidIn(g, u) \in Nat /\ TxSum(txs, u, "to") \in Nat /\ TxSum(txs, u, "from") \in Nat
  BY PaidInIs, TxSumIs
<1>. QED  BY <1>1 DEF Solvent

\* A deposit that is saved adds to one balance.
LEMMA SavedDeposit ==
    ASSUME SideChain, l2blocks \o l2txs \in Seq(Transfers), NEW d, d \notin DOMAIN deposits, NEW u, NEW x \in Nat,
           deposits' = With(deposits, d, [from |-> u, amount |-> x, status |-> "confirmed"]),
           UNCHANGED <<exits, l2txs, l2blocks>>
    PROVE  SideChain'
<1>. DEFINE r == [from |-> u, amount |-> x, status |-> "confirmed"]
<1>1. DOMAIN r = DepositFields /\ r = [k \in DepositFields |-> r[k]] /\ r.amount \in Nat
  BY DEF DepositFields
<1>2. deposits' = With(deposits, d, r)
  OBVIOUS
<1>. HIDE DEF r
<1>3. /\ DOMAIN deposits' = DOMAIN deposits \cup {d} /\ IsTable(deposits') /\ deposits'[d] = r
      /\ \A c \in DOMAIN deposits : c # d => deposits'[c] = deposits[c]
  BY <1>2 DEF With, IsTable
<1>4. IsFiniteSet(DOMAIN deposits \cup {d})
  BY FS_AddElement DEF SideChain, AreDeposits
<1>5. AreDeposits(deposits')
  BY <1>1, <1>3, <1>4 DEF SideChain, AreDeposits
<1>6. \A v : PaidIn(deposits, v) <= PaidIn(deposits', v)
  BY <1>3, <1>5, BalancesGrow DEF SideChain
<1>7. Solvent(deposits', l2blocks \o l2txs)
  BY <1>5, <1>6, SolventGrows DEF SideChain
<1>8. ExitsLeft(exits, deposits')
  BY <1>3 DEF SideChain, ExitsLeft
<1>. QED  BY <1>5, <1>7, <1>8 DEF SideChain

\* Paying an exit out: its deposit did not count any more.
LEMMA FinalizedExit ==
    ASSUME SideChain, l2blocks \o l2txs \in Seq(Transfers), NEW e \in DOMAIN exits,
           exits' = [exits EXCEPT ![e].status = "finalized"],
           deposits' = [deposits EXCEPT ![exits[e].deposit].status = "exited"],
           UNCHANGED <<l2txs, l2blocks>>
    PROVE  SideChain' /\ DOMAIN deposits' = DOMAIN deposits /\ DOMAIN exits' = DOMAIN exits
<1>. PICK d : d = exits[e].deposit
  OBVIOUS
<1>1. d \in DOMAIN deposits /\ deposits[d].status # "confirmed" /\ AreDeposits(deposits) /\ Marks(deposits, deposits', d, "exited")
  BY DEF SideChain, ExitsLeft, Marks
<1>2. /\ AreDeposits(deposits') /\ DOMAIN deposits' = DOMAIN deposits /\ \A c \in DOMAIN deposits : c # d => deposits'[c] = deposits[c]
      /\ deposits'[d].status = "exited"
  BY <1>1, StatusChanges
<1>3. DOMAIN deposits' = DOMAIN deposits \cup {d}
  BY <1>1, <1>2
<1>4. \A v : PaidIn(deposits, v) <= PaidIn(deposits', v)
  BY <1>1, <1>2, <1>3, BalancesGrow
<1>5. Solvent(deposits', l2blocks \o l2txs)
  BY <1>1, <1>2, <1>4, SolventGrows DEF SideChain
<1>6. DOMAIN exits' = DOMAIN exits /\ IsTable(exits') /\ (\A c \in DOMAIN exits : DOMAIN exits'[c] = DOMAIN exits[c] /\ (c # e => exits'[c] = exits[c]))
  BY DEF IsTable
<1>7. exits'[e].deposit = exits[e].deposit
  BY DEF SideChain, ExitsLeft, ExitFields
<1>8. ExitsLeft(exits', deposits')
  <2>1. \A c \in DOMAIN exits : exits'[c].deposit = exits[c].deposit
    BY <1>6, <1>7
  <2>. QED  BY <1>2, <1>6, <2>1 DEF SideChain, ExitsLeft
<1>. QED  BY <1>2, <1>5, <1>6, <1>8 DEF SideChain

\* An exit takes the deposit out of the balance, which must cover it.
LEMMA RequestedExit ==
    ASSUME SolventInv, NEW d, NEW u \in Users, RequestExit(d, u)
    PROVE  SideChain' /\ DOMAIN deposits' = DOMAIN deposits /\ DOMAIN exits \subseteq DOMAIN exits'
<1>1. /\ d \in DOMAIN deposits /\ deposits[d].status = "confirmed" /\ deposits[d].from = u
      /\ L2Balance(u) >= deposits[d].amount /\ deposits' = [deposits EXCEPT ![d].status = "exiting"] /\ UNCHANGED <<l2txs, l2blocks>>
  BY DEF RequestExit, DepositLeaves
<1>2. AreDeposits(deposits) /\ deposits[d].amount \in Nat /\ Marks(deposits, deposits', d, "exiting")
  BY <1>1 DEF SolventInv, SideChain, AreDeposits, Marks
<1>3. /\ AreDeposits(deposits') /\ DOMAIN deposits' = DOMAIN deposits /\ \A c \in DOMAIN deposits : c # d => deposits'[c] = deposits[c]
      /\ deposits'[d].status = "exiting" /\ deposits'[d].from = u
  BY <1>1, <1>2, StatusChanges
<1>. DEFINE all == l2blocks \o l2txs
<1>4. /\ all \in Seq(Transfers) /\ Solvent(deposits, all)
      /\ \A v \in Users : PaidIn(deposits, v) \in Nat /\ TxSum(all, v, "to") \in Nat /\ TxSum(all, v, "from") \in Nat
      /\ L2Balance(u) = PaidIn(deposits, u) + TxSum(all, u, "to") - TxSum(all, u, "from")
  BY SolventIs DEF SolventInv, SideChain
<1>. HIDE DEF all
<1>5. d \in Confirmed(deposits, u) /\ Confirmed(deposits', u) = Confirmed(deposits, u) \ {d}
      /\ \A c \in Confirmed(deposits', u) : deposits'[c].amount = deposits[c].amount
  BY <1>1, <1>3 DEF Confirmed
<1>6. PaidIn(deposits', u) = PaidIn(deposits, u) - deposits[d].amount
  BY <1>2, <1>3, <1>5, PaidInLess
<1>7. ASSUME NEW v \in Users, v # u PROVE PaidIn(deposits', v) = PaidIn(deposits, v)
  <2>1. Confirmed(deposits', v) = Confirmed(deposits, v) /\ \A c \in Confirmed(deposits, v) : deposits'[c].amount = deposits[c].amount
    BY <1>1, <1>3, <1>7 DEF Confirmed
  <2>. QED  BY <1>2, <1>3, <2>1, PaidInSame
<1>8. Solvent(deposits', all)
  <2>1. PaidIn(deposits', u) + TxSum(all, u, "to") - TxSum(all, u, "from") >= 0
    BY <1>1, <1>2, <1>4, <1>6
  <2>2. \A v \in Users : v # u => PaidIn(deposits', v) + TxSum(all, v, "to") - TxSum(all, v, "from") >= 0
    BY <1>4, <1>7 DEF Solvent
  <2>. QED  BY <2>1, <2>2 DEF Solvent
<1>9. PICK i, x : exits' = With(exits, i, x) /\ DOMAIN x = ExitFields /\ x.deposit = d
  BY DEF RequestExit, ExitFields
<1>10. /\ DOMAIN exits' = DOMAIN exits \cup {i} /\ IsTable(exits') /\ exits'[i] = x
       /\ \A c \in DOMAIN exits : c # i => exits'[c] = exits[c]
  BY <1>9 DEF With, IsTable
<1>11. \A c \in DOMAIN deposits : deposits[c].status # "confirmed" => deposits'[c].status # "confirmed"
  BY <1>1, <1>3
<1>12. ExitsLeft(exits', deposits')
  BY <1>1, <1>3, <1>9, <1>10, <1>11 DEF SolventInv, SideChain, ExitsLeft
<1>. QED  BY <1>1, <1>3, <1>8, <1>10, <1>12 DEF SideChain, all

LastApart(a, b, t) == a \o Append(b, t) = Append(a \o b, t)

\* The pending transactions follow those of the blocks.
LEMMA AppendLast ==
    ASSUME NEW S, NEW a \in Seq(S), NEW b \in Seq(S), NEW t \in S
    PROVE  LastApart(a, b, t)
<1>1. Append(b, t) \in Seq(S) /\ a \o b \in Seq(S)
  OBVIOUS
<1>2. Len(a \o Append(b, t)) = Len(Append(a \o b, t))
  OBVIOUS
<1>3. \A i \in 1..Len(a) + Len(b) + 1 : (a \o Append(b, t))[i] = Append(a \o b, t)[i]
  OBVIOUS
<1>4. a \o Append(b, t) \in Seq(S) /\ Append(a \o b, t) \in Seq(S) /\ Len(a \o Append(b, t)) = Len(a) + Len(b) + 1
  BY <1>1
<1>. QED  BY <1>2, <1>3, <1>4 DEF LastApart

\* A transfer: the sender has the amount, and only the sender pays.
LEMMA SentTransfer ==
    ASSUME SolventInv, NEW u \in Users, NEW v \in Users, NEW x \in Amounts, SubmitTransaction(u, v, x)
    PROVE  SideChain'
<1>. DEFINE t == [from |-> u, to |-> v, amount |-> x]
            all == l2blocks \o l2txs
<1>0. t \in Transfers /\ t["from"] = u /\ t["to"] = v /\ t.amount = x /\ x \in Nat
  BY ServicesAssumption DEF Transfers
<1>1. L2Balance(u) >= x /\ l2txs' = Append(l2txs, t) /\ UNCHANGED <<deposits, exits, l2blocks>>
  BY DEF SubmitTransaction, CanSend
<1>2. /\ all \in Seq(Transfers) /\ l2txs \in Seq(Transfers) /\ l2blocks \in Seq(Transfers) /\ Solvent(deposits, all)
      /\ \A w \in Users : PaidIn(deposits, w) \in Nat /\ TxSum(all, w, "to") \in Nat /\ TxSum(all, w, "from") \in Nat
      /\ L2Balance(u) = PaidIn(deposits, u) + TxSum(all, u, "to") - TxSum(all, u, "from")
  BY SolventIs DEF SolventInv, SideChain
<1>. HIDE DEF t
<1>3. l2blocks' \o l2txs' = Append(all, t)
  <2>1. l2blocks \in Seq(Transfers) /\ l2txs \in Seq(Transfers) /\ t \in Transfers
    BY <1>0, <1>2
  <2>2. LastApart(l2blocks, l2txs, t)
    BY <2>1, AppendLast
  <2>. QED  BY <1>1, <2>2 DEF LastApart
<1>. HIDE DEF all
<1>4. \A w : /\ TxSum(Append(all, t), w, "to") = TxSum(all, w, "to") + (IF v = w THEN x ELSE 0)
             /\ TxSum(Append(all, t), w, "from") = TxSum(all, w, "from") + (IF u = w THEN x ELSE 0)
  BY <1>0, <1>2, TxSumAppend
<1>5. Solvent(deposits, Append(all, t))
  <2>1. PaidIn(deposits, u) + TxSum(Append(all, t), u, "to") - TxSum(Append(all, t), u, "from") >= 0
    <3>1. TxSum(Append(all, t), u, "from") = TxSum(all, u, "from") + x
      BY <1>4
    <3>2. TxSum(Append(all, t), u, "to") >= TxSum(all, u, "to") /\ TxSum(Append(all, t), u, "to") \in Nat
      <4>1. CASE v = u
        <5>1. TxSum(Append(all, t), u, "to") = TxSum(all, u, "to") + x
          BY <1>4, <4>1
        <5>. QED  BY <1>0, <1>2, <5>1
      <4>2. CASE v # u
        <5>1. TxSum(Append(all, t), u, "to") = TxSum(all, u, "to") + 0
          BY <1>4, <4>2
        <5>. QED  BY <1>2, <5>1
      <4>. QED  BY <4>1, <4>2
    <3>3. /\ PaidIn(deposits, u) \in Nat /\ TxSum(all, u, "to") \in Nat /\ TxSum(all, u, "from") \in Nat
          /\ PaidIn(deposits, u) + TxSum(all, u, "to") - TxSum(all, u, "from") >= x
      BY <1>1, <1>2
    <3>. QED  BY <1>0, <3>1, <3>2, <3>3
  <2>2. ASSUME NEW w \in Users, w # u
        PROVE  PaidIn(deposits, w) + TxSum(Append(all, t), w, "to") - TxSum(Append(all, t), w, "from") >= 0
    <3>1. PaidIn(deposits, w) + TxSum(all, w, "to") - TxSum(all, w, "from") >= 0
      BY <1>2 DEF Solvent
    <3>2. TxSum(Append(all, t), w, "from") = TxSum(all, w, "from") /\ TxSum(Append(all, t), w, "to") >= TxSum(all, w, "to")
          /\ TxSum(Append(all, t), w, "to") \in Nat
      <4>1. TxSum(Append(all, t), w, "from") = TxSum(all, w, "from") + 0 /\ TxSum(all, w, "from") \in Nat
        BY <1>2, <1>4, <2>2
      <4>2. CASE v = w
        <5>1. TxSum(Append(all, t), w, "to") = TxSum(all, w, "to") + x
          BY <1>4, <4>2
        <5>. QED  BY <1>0, <1>2, <4>1, <5>1
      <4>3. CASE v # w
        <5>1. TxSum(Append(all, t), w, "to") = TxSum(all, w, "to") + 0
          BY <1>4, <4>3
        <5>. QED  BY <1>2, <4>1, <5>1
      <4>. QED  BY <4>2, <4>3
    <3>3. PaidIn(deposits, w) \in Nat /\ TxSum(all, w, "to") \in Nat /\ TxSum(all, w, "from") \in Nat
      BY <1>2
    <3>. QED  BY <3>1, <3>2, <3>3
  <2>. QED  BY <2>1, <2>2 DEF Solvent
<1>. QED  BY <1>1, <1>3, <1>5 DEF SolventInv, SideChain

\* The requests of the side chain.
LEMMA ReqsMove ==
    ASSUME PlasmaReqs, NEW h \in AllThreads, Moves(h), items' \in Nat, items <= items',
           DOMAIN exits \subseteq DOMAIN exits', DOMAIN deposits' \subseteq 1..items',
           \A g \in AllThreads : g # h /\ req[g].op = "deposit" => req[g].id \notin DOMAIN deposits',
           Asks(req'[h], deposits', exits', items'),
           req'[h].op = "deposit" => \A g \in AllThreads : g # h /\ req[g].op = "deposit" => req[g].id # req'[h].id
    PROVE  PlasmaReqs'
<1>1. \A g \in AllThreads : g # h => req'[g] = req[g]
  BY DEF Moves, Rest
<1>2. \A g \in AllThreads : Asks(req'[g], deposits', exits', items')
  <2>1. \A g \in AllThreads : g # h => Asks(req[g], deposits', exits', items')
    <3>1. \A i \in 1..items : i \in 1..items'
      BY DEF PlasmaReqs
    <3>. QED  BY <3>1 DEF PlasmaReqs, Asks
  <2>. QED  BY <1>1, <2>1
<1>3. ReqOk'
  BY ReqMoved DEF PlasmaReqs
<1>. QED  BY <1>1, <1>2, <1>3 DEF PlasmaReqs

LEMMA ReqsStay ==
    ASSUME PlasmaReqs, UNCHANGED <<req, items>>, DOMAIN exits \subseteq DOMAIN exits', DOMAIN deposits' = DOMAIN deposits
    PROVE  PlasmaReqs'
BY DEF PlasmaReqs, Asks, ReqOk

SideChainKept == SideChain' /\ PlasmaReqs' /\ l2blocks' \in Seq(Transfers)

\* Every step of the side chain keeps the balances.
LEMMA SideChainStep ==
    ASSUME SolventInv, PlasmaReqs, PlasmaNext
    PROVE  SideChainKept
<1>0. /\ SideChain /\ ReqOk /\ items \in Nat /\ DOMAIN deposits \subseteq 1..items /\ l2blocks \in Seq(Transfers)
      /\ l2txs \in Seq(Transfers) /\ l2blocks \o l2txs \in Seq(Transfers)
  BY SolventIs DEF SolventInv, PlasmaReqs
<1>1. ASSUME UNCHANGED <<deposits, exits, l2txs, l2blocks>> PROVE SideChain' /\ l2blocks' \in Seq(Transfers)
  BY <1>0, <1>1 DEF SideChain
<1>2. ASSUME NEW h \in Handlers, PostPlasmaDeposit(h) PROVE SideChainKept
  <2>. h \in AllThreads
    BY ThreadsAre
  <2>1. PICK u \in Users, x \in Amounts : Deposit(h, u, x)
    BY <1>2 DEF PostPlasmaDeposit
  <2>. PICK i : i = items + 1
    OBVIOUS
  <2>2. Begins(h, Request("deposit", "debit", i, u, x)) /\ items' = i /\ UNCHANGED <<deposits, exits, l2txs, l2blocks>>
    BY <2>1 DEF Deposit, NewItem, plasmaMem
  <2>. DEFINE r == Request("deposit", "debit", i, u, x)
  <2>3. IsRequest(r) /\ r.op = "deposit" /\ r.id = i /\ r.amt = x
    BY RequestIs
  <2>. HIDE DEF r
  <2>4. Rest(h) /\ req'[h] = r
    BY <1>0, <2>2, BeginsIs DEF r
  <2>5. i \in 1..items' /\ i \notin DOMAIN deposits' /\ x \in Nat /\ i \notin 1..items /\ items' \in Nat /\ items <= items'
        /\ DOMAIN deposits' \subseteq 1..items'
    BY <1>0, <2>2, ServicesAssumption
  <2>6. Asks(r, deposits', exits', items')
    BY <2>3, <2>5 DEF Asks
  <2>7. \A g \in AllThreads : req[g].op = "deposit" => req[g].id # i /\ req[g].id \notin DOMAIN deposits'
    BY <2>2, <2>5 DEF PlasmaReqs, Asks
  <2>8. DOMAIN exits \subseteq DOMAIN exits' /\ Moves(h)
    BY <2>2, <2>3, <2>4 DEF Moves
  <2>9. PlasmaReqs'
    BY <2>3, <2>4, <2>5, <2>6, <2>7, <2>8, ReqsMove
  <2>. QED  BY <1>1, <2>2, <2>9 DEF SideChainKept
<1>3. ASSUME NEW h \in Handlers, DepositDebit(h) PROVE SideChainKept
  <2>. h \in AllThreads
    BY ThreadsAre
  <2>1. req[h].op = "deposit" /\ Goes(h, "save") /\ UNCHANGED <<items, deposits, exits, l2txs, l2blocks>>
    BY <1>3 DEF DepositDebit, At, plasmaMem
  <2>. DEFINE q == req[h]
              r == Request(q.op, "save", q.id, q.user, q.amt)
  <2>2. IsRequest(q) /\ q.op = "deposit" /\ Asks(q, deposits, exits, items)
    BY <1>0, <2>1, AtIs DEF PlasmaReqs
  <2>3. Rest(h) /\ req'[h] = r
    BY <1>0, <2>1, <2>2, GoesIs
  <2>4. \A g \in AllThreads : g # h /\ req[g].op = "deposit" => req[g].id # q.id /\ req[g].id \notin DOMAIN deposits
    BY <2>1 DEF PlasmaReqs, Asks
  <2>. HIDE DEF q
  <2>5. IsRequest(r) /\ r.op = "deposit" /\ r.id = q.id /\ r.amt = q.amt
    BY <2>2, RequestIs
  <2>. HIDE DEF r
  <2>6. Asks(r, deposits, exits, items) /\ Moves(h)
    BY <2>2, <2>3, <2>5 DEF Asks, Moves
  <2>7. items' \in Nat /\ items <= items' /\ DOMAIN exits \subseteq DOMAIN exits' /\ DOMAIN deposits' \subseteq 1..items'
    BY <1>0, <2>1
  <2>8. PlasmaReqs'
    BY <2>1, <2>3, <2>4, <2>5, <2>6, <2>7, ReqsMove
  <2>. QED  BY <1>1, <2>1, <2>8 DEF SideChainKept
<1>4. ASSUME NEW h \in Handlers, DepositSave(h) PROVE SideChainKept
  <2>. h \in AllThreads
    BY ThreadsAre
  <2>. PICK d, u, x : d = req[h].id /\ u = req[h].user /\ x = req[h].amt
    OBVIOUS
  <2>1. /\ req[h].op = "deposit" /\ Ends(h) /\ UNCHANGED <<items, exits, l2txs, l2blocks>>
        /\ deposits' = With(deposits, d, [from |-> u, amount |-> x, status |-> "confirmed"])
    BY <1>4 DEF DepositSave, At
  <2>2. d \in 1..items /\ d \notin DOMAIN deposits /\ x \in Nat
    BY <2>1 DEF PlasmaReqs, Asks
  <2>3. SideChain'
    BY <1>0, <2>1, <2>2, SavedDeposit
  <2>4. Moves(h) /\ req'[h] = NoRequest
    BY <1>0, <2>1, MovesEnd
  <2>5. DOMAIN deposits' = DOMAIN deposits \cup {d}
    BY <2>1 DEF With
  <2>6. \A g \in AllThreads : g # h /\ req[g].op = "deposit" => req[g].id \notin DOMAIN deposits'
    BY <2>1, <2>5 DEF PlasmaReqs, Asks
  <2>7. items' \in Nat /\ items <= items' /\ DOMAIN exits \subseteq DOMAIN exits' /\ DOMAIN deposits' \subseteq 1..items'
    BY <1>0, <2>1, <2>2, <2>5
  <2>8. Asks(req'[h], deposits', exits', items') /\ req'[h].op # "deposit"
    BY <2>4, NothingAsked DEF NoRequest
  <2>9. PlasmaReqs'
    BY <2>4, <2>6, <2>7, <2>8, ReqsMove
  <2>. QED  BY <1>0, <2>1, <2>3, <2>9 DEF SideChainKept
<1>5. ASSUME NEW h \in AllThreads, NEW e, NEW force, FinalizeExit(h, e, force) PROVE SideChainKept
  <2>1. PICK u : /\ Begins(h, Request("finalize", "mark", e, u, 0)) /\ e \in DOMAIN exits
                 /\ UNCHANGED <<items, deposits, exits, l2txs, l2blocks>>
    BY <1>5 DEF FinalizeExit, plasmaMem
  <2>2. Moves(h) /\ req'[h].op = "finalize" /\ req'[h].id = e
    BY <1>0, <2>1, MovesBegin
  <2>3. Asks(req'[h], deposits', exits', items')
    BY <2>1, <2>2 DEF Asks
  <2>4. \A g \in AllThreads : req[g].op = "deposit" => req[g].id \notin DOMAIN deposits'
    BY <2>1 DEF PlasmaReqs, Asks
  <2>5. items' \in Nat /\ items <= items' /\ DOMAIN exits \subseteq DOMAIN exits' /\ DOMAIN deposits' \subseteq 1..items' /\ req'[h].op # "deposit"
    BY <1>0, <2>1, <2>2
  <2>6. PlasmaReqs'
    BY <2>2, <2>3, <2>4, <2>5, ReqsMove
  <2>. QED  BY <1>1, <2>1, <2>6 DEF SideChainKept
<1>6. ASSUME NEW h \in AllThreads, FinalizeMark(h) PROVE SideChainKept
  <2>. PICK e : e = req[h].id
    OBVIOUS
  <2>1. /\ req[h].op = "finalize" /\ Ends(h) /\ UNCHANGED <<items, l2txs, l2blocks>>
        /\ exits' = [exits EXCEPT ![e].status = "finalized"] /\ deposits' = [deposits EXCEPT ![exits[e].deposit].status = "exited"]
    BY <1>6 DEF FinalizeMark, At
  <2>2. e \in DOMAIN exits
    BY <2>1 DEF PlasmaReqs, Asks
  <2>3. SideChain' /\ DOMAIN deposits' = DOMAIN deposits /\ DOMAIN exits' = DOMAIN exits
    BY <1>0, <2>1, <2>2, FinalizedExit
  <2>4. Moves(h) /\ req'[h] = NoRequest
    BY <1>0, <2>1, MovesEnd
  <2>5. \A g \in AllThreads : req[g].op = "deposit" => req[g].id \notin DOMAIN deposits'
    BY <2>3 DEF PlasmaReqs, Asks
  <2>6. items' \in Nat /\ items <= items' /\ DOMAIN exits \subseteq DOMAIN exits' /\ DOMAIN deposits' \subseteq 1..items'
    BY <1>0, <2>1, <2>3
  <2>7. Asks(req'[h], deposits', exits', items') /\ req'[h].op # "deposit"
    BY <2>4, NothingAsked DEF NoRequest
  <2>8. PlasmaReqs'
    BY <2>4, <2>5, <2>6, <2>7, ReqsMove
  <2>. QED  BY <1>0, <2>1, <2>3, <2>8 DEF SideChainKept
<1>7. CASE PostPlasmaTx
  <2>1. PICK u, v \in Users, x \in Amounts : SubmitTransaction(u, v, x)
    BY <1>7 DEF PostPlasmaTx
  <2>2. SideChain'
    BY <2>1, SentTransfer
  <2>3. UNCHANGED <<req, items, deposits, exits, l2blocks>>
    BY <2>1 DEF SubmitTransaction
  <2>. QED  BY <1>0, <2>2, <2>3, ReqsStay DEF SideChainKept
<1>8. CASE PostPlasmaSubmitBlock
  <2>1. UNCHANGED <<req, items, deposits, exits>> /\ l2blocks' = l2blocks \o l2txs /\ l2txs' = <<>>
    BY <1>8 DEF PostPlasmaSubmitBlock, SubmitBlock
  <2>. DEFINE all == l2blocks \o l2txs
  <2>2. all \in Seq(Transfers) /\ Solvent(deposits, all)
    BY <1>0 DEF SideChain
  <2>. HIDE DEF all
  <2>3. all \o <<>> = all
    BY <2>2
  <2>4. l2blocks' \o l2txs' = all /\ l2blocks' = all
    BY <2>1, <2>3 DEF all
  <2>5. SideChain'
    BY <1>0, <2>1, <2>2, <2>4 DEF SideChain
  <2>. QED  BY <2>1, <2>2, <2>4, <2>5, ReqsStay DEF SideChainKept
<1>9. CASE PostPlasmaExit
  <2>1. PICK d \in DOMAIN deposits, u \in Users : RequestExit(d, u)
    BY <1>9 DEF PostPlasmaExit
  <2>2. SideChain' /\ DOMAIN deposits' = DOMAIN deposits /\ DOMAIN exits \subseteq DOMAIN exits'
    BY <2>1, RequestedExit
  <2>3. UNCHANGED <<req, items, l2blocks>>
    BY <2>1 DEF RequestExit
  <2>. QED  BY <1>0, <2>2, <2>3, ReqsStay DEF SideChainKept
<1>10. ASSUME NEW e \in DOMAIN exits, PeriodOver(e) PROVE SideChainKept
  <2>1. exits' = [exits EXCEPT ![e].due = TRUE] /\ UNCHANGED <<req, items, deposits, l2txs, l2blocks>>
    BY <1>10 DEF PeriodOver
  <2>2. DOMAIN exits' = DOMAIN exits /\ IsTable(exits') /\ (\A c \in DOMAIN exits : DOMAIN exits'[c] = DOMAIN exits[c] /\ (c # e => exits'[c] = exits[c]))
    BY <2>1 DEF IsTable
  <2>3. exits'[e].deposit = exits[e].deposit
    BY <1>0, <2>1 DEF SideChain, ExitsLeft, ExitFields
  <2>4. \A c \in DOMAIN exits : exits'[c].deposit = exits[c].deposit
    BY <2>2, <2>3
  <2>5. ExitsLeft(exits', deposits)
    BY <1>0, <2>2, <2>4 DEF SideChain, ExitsLeft
  <2>6. SideChain'
    BY <1>0, <2>1, <2>5 DEF SideChain
  <2>. QED  BY <1>0, <2>1, <2>2, <2>6, ReqsStay DEF SideChainKept
<1>. QED  BY <1>2, <1>3, <1>4, <1>5, <1>6, <1>7, <1>8, <1>9, <1>10, ThreadsAre DEF PlasmaNext, PostPlasmaFinalizeExit, MonitorFinalizes

\* The pending transactions are no more than their entry keeps.
PendingFits == Len(l2txs) <= KeptPending

\* L2Solvent for every number of users, deposits, threads and transfers (plasma.py,
\* submit_transaction, submit_block, request_exit, finalize_exit): as long as there are never
\* more pending transactions than the saved tail of them keeps, because a restart forgets
\* the others, and with them that their coins were spent.
THEOREM NobodyOverspends == RestSpec /\ []PendingFits => []L2Solvent
<1>1. RestInit => SolventInv
  <2>. SUFFICES ASSUME RestInit PROVE SolventInv
    OBVIOUS
  <2>1. /\ deposits = Nothing /\ exits = Nothing /\ l2txs = <<>> /\ l2blocks = <<>> /\ items = 0
        /\ req = [h \in AllThreads |-> NoRequest]
    BY DEF RestInit, PlasmaInit, ServicesInit, AllThreads
  <2>2. IsTable(Nothing) /\ DOMAIN Nothing = {}
    BY DEF IsTable, Nothing
  <2>3. ReqOk /\ \A h \in AllThreads : req[h] = NoRequest
    BY <2>1 DEF ReqOk
  <2>4. PlasmaReqs
    BY <2>1, <2>2, <2>3, NothingAsked DEF PlasmaReqs, NoRequest
  <2>5. AreDeposits(deposits) /\ ExitsLeft(exits, deposits)
    BY <2>1, <2>2, FS_EmptySet DEF AreDeposits, ExitsLeft
  <2>6. l2blocks \in Seq(Transfers) /\ l2blocks \o l2txs = <<>> /\ <<>> \in Seq(Transfers)
    BY <2>1
  <2>7. Solvent(deposits, <<>>)
    <3>1. \A u \in Users, side \in {"to", "from"} : TxSum(<<>>, u, side) = Total(Part(<<>>, u, side), {})
      <4>1. 1..Len(<<>>) = {}
        OBVIOUS
      <4>. QED  BY <2>6, <4>1, TxSumIs
    <3>2. \A u \in Users : TxSum(<<>>, u, "to") = 0 /\ TxSum(<<>>, u, "from") = 0
      BY <3>1, TotalEmpty
    <3>3. \A u \in Users : PaidIn(deposits, u) \in Nat
      BY <2>5, PaidInIs
    <3>. QED  BY <3>2, <3>3 DEF Solvent
  <2>. QED  BY <2>4, <2>5, <2>6, <2>7, StoredStart DEF SolventInv, SideChain
<1>2. SolventInv /\ PendingFits /\ [RestNext]_restVars => SolventInv'
  <2>. SUFFICES ASSUME SolventInv, PendingFits, [RestNext]_restVars PROVE SolventInv'
    OBVIOUS
  <2>0. StoredInv'
    BY StoredStep DEF SolventInv
  <2>1. CASE ServiceStep /\ service = "plasma"
    <3>1. PlasmaNext /\ service' = service /\ PlasmaReqs
      BY <2>1 DEF ServiceStep, SolventInv
    <3>2. SideChainKept
      BY <3>1, SideChainStep
    <3>. QED  BY <2>0, <3>1, <3>2 DEF SideChainKept, SolventInv
  <2>2. CASE ServiceStep /\ service # "plasma"
    <3>1. UNCHANGED <<plasmaMem, l2blocks, service>>
      BY <2>2 DEF ServiceStep
    <3>. QED  BY <2>0, <2>2, <3>1 DEF SolventInv, SideChain, plasmaMem
  <2>3. CASE Restart
    <3>1. /\ deposits' = depositDb /\ exits' = exitDb /\ l2txs' = l2txDb /\ UNCHANGED <<l2blocks, items, service>>
          /\ req' = [h \in DOMAIN req |-> NoRequest]
      BY <2>3 DEF Restart, PlasmaRestart, ServicesCrash
    <3>2. deposits = depositDb /\ exits = exitDb /\ l2txDb = l2txs
      BY SavedPendingIs DEF SolventInv, StoredInv, PlasmaStored, PendingFits
    <3>3. SideChain' /\ l2blocks' \in Seq(Transfers)
      BY <3>1, <3>2 DEF SolventInv, SideChain
    <3>4. service = "plasma" => ReqOk' /\ \A h \in AllThreads : req'[h] = NoRequest
      BY <3>1 DEF SolventInv, PlasmaReqs, ReqOk
    <3>5. service = "plasma" => PlasmaReqs'
      BY <3>1, <3>2, <3>4, NothingAsked DEF SolventInv, PlasmaReqs, NoRequest
    <3>. QED  BY <2>0, <3>1, <3>3, <3>5 DEF SolventInv
  <2>4. CASE UNCHANGED restVars
    <3>1. UNCHANGED <<plasmaMem, l2blocks, service, req, items>>
      BY <2>4 DEF restVars
    <3>2. PlasmaReqs => PlasmaReqs'
      BY <3>1 DEF PlasmaReqs, ReqOk, Asks, plasmaMem
    <3>. QED  BY <2>0, <3>1, <3>2 DEF SolventInv, SideChain, plasmaMem
  <2>. QED  BY <2>1, <2>2, <2>3, <2>4 DEF RestNext
<1>3. SolventInv => L2Solvent
  BY SolventIs DEF L2Solvent, SolventInv, SideChain, Solvent
<1>. QED  BY <1>1, <1>2, <1>3, PTL DEF RestSpec

-----------------------------------------------------------------------------
(* What a program of the MiniVM can store *)

IsSeq(s) == \E S : s \in Seq(S)

Kinds == {"pushed", "computed"}

LEMMA LeftIs ==
    ASSUME NEW sh \in Seq(Kinds), NEW n \in Nat
    PROVE  /\ Left(sh, n) \in Seq(Kinds) /\ Len(Left(sh, n)) = (IF Len(sh) < n THEN 0 ELSE Len(sh) - n)
           /\ \A m \in 1..Len(Left(sh, n)) : Left(sh, n)[m] = sh[m]
<1>. DEFINE l == IF Len(sh) < n THEN 0 ELSE Len(sh) - n
<1>1. l \in 0..Len(sh) /\ Len(sh) \in Nat
  OBVIOUS
<1>2. Left(sh, n) = SubSeq(sh, 1, l)
  BY DEF Left
<1>. HIDE DEF l
<1>3. SubSeq(sh, 1, l) \in Seq(Kinds) /\ Len(SubSeq(sh, 1, l)) = l /\ \A m \in 1..l : SubSeq(sh, 1, l)[m] = sh[m]
  BY <1>1
<1>. QED  BY <1>2, <1>3 DEF l

LEMMA PopsType == \A op : Pops(op) \in 0..2
BY DEF Pops

LEMMA ShapeType ==
    ASSUME NEW sh \in Seq(Kinds), NEW op
    PROVE  ShapeAfter(sh, op) \in Seq(Kinds)
<1>1. Left(sh, Pops(op)) \in Seq(Kinds)
  BY LeftIs, PopsType
<1>2. sh # <<>> => [sh EXCEPT ![Len(sh)] = "computed"] \in Seq(Kinds)
  BY DEF Kinds
<1>3. \A k \in Kinds : Append(Left(sh, Pops(op)), k) \in Seq(Kinds)
  BY <1>1
<1>. QED  BY <1>1, <1>2, <1>3 DEF ShapeAfter, Kinds

AreShapes(f, p, n) == f = [j \in 0..n |-> IF j = 0 THEN <<>> ELSE ShapeAfter(f[j - 1], p[j].op)]

LEMMA ShapesExist ==
    ASSUME NEW p, NEW n \in Nat
    PROVE  \E f : AreShapes(f, p, n)
<1>. DEFINE D == {m \in Nat : \E f : AreShapes(f, p, m)}
<1>1. 0 \in D
  <2>. DEFINE f == [j \in 0..0 |-> <<>>]
  <2>1. AreShapes(f, p, 0)
    BY DEF AreShapes
  <2>. QED  BY <2>1
<1>2. ASSUME NEW m \in Nat, m \in D PROVE m + 1 \in D
  <2>1. PICK f : AreShapes(f, p, m)
    BY <1>2
  <2>. DEFINE g == [j \in 0..(m + 1) |-> IF j = m + 1 THEN ShapeAfter(f[m], p[m + 1].op) ELSE f[j]]
  <2>2. ASSUME NEW j \in 0..(m + 1) PROVE g[j] = IF j = 0 THEN <<>> ELSE ShapeAfter(g[j - 1], p[j].op)
    <3>1. \A k \in 0..m : f[k] = IF k = 0 THEN <<>> ELSE ShapeAfter(f[k - 1], p[k].op)
      BY <2>1 DEF AreShapes
    <3>2. CASE j = m + 1
      BY <3>2
    <3>3. CASE j \in 0..m
      BY <3>1, <3>3
    <3>. QED  BY <3>2, <3>3
  <2>3. g = [j \in 0..(m + 1) |-> g[j]]
    OBVIOUS
  <2>. HIDE DEF g
  <2>4. AreShapes(g, p, m + 1)
    BY <2>2, <2>3 DEF AreShapes
  <2>. QED  BY <2>4
<1>. HIDE DEF D
<1>3. Nat \subseteq D
  BY <1>1, <1>2, NatSetInduction
<1>. QED  BY <1>3 DEF D

LEMMA ShapesAre ==
    ASSUME NEW p, IsSeq(p)
    PROVE  Shapes(p)[0] = <<>> /\ \A j \in 1..Len(p) : Shapes(p)[j] = ShapeAfter(Shapes(p)[j - 1], p[j].op)
<1>1. Shapes(p) = CHOOSE f : AreShapes(f, p, Len(p))
  BY DEF Shapes, AreShapes
<1>2. Len(p) \in Nat
  BY DEF IsSeq
<1>3. AreShapes(Shapes(p), p, Len(p))
  BY <1>1, <1>2, ShapesExist
<1>. DEFINE s == Shapes(p)
            n == Len(p)
<1>4. AreShapes(s, p, n) /\ n \in Nat
  BY <1>2, <1>3
<1>. HIDE DEF s, n
<1>5. \A j \in 0..n : s[j] = IF j = 0 THEN <<>> ELSE ShapeAfter(s[j - 1], p[j].op)
  BY <1>4 DEF AreShapes
<1>6. s[0] = <<>> /\ \A j \in 1..n : s[j] = ShapeAfter(s[j - 1], p[j].op)
  BY <1>4, <1>5
<1>. QED  BY <1>6 DEF s, n

\* The top of the stack is as the shape says: what it calls pushed is in K.
Fits(sh, st, K) ==
    /\ sh \in Seq(Kinds) /\ IsSeq(st) /\ Len(sh) <= Len(st)
    /\ \A m \in 1..Len(sh) : sh[m] = "pushed" => st[Len(st) - Len(sh) + m] \in K

LEMMA StackPops ==
    ASSUME NEW st, IsSeq(st), NEW n \in 0..Len(st)
    PROVE  /\ Len(st) \in Nat /\ IsSeq(SubSeq(st, 1, Len(st) - n)) /\ Len(SubSeq(st, 1, Len(st) - n)) = Len(st) - n
           /\ \A m \in 1..(Len(st) - n) : SubSeq(st, 1, Len(st) - n)[m] = st[m]
<1>1. PICK S : st \in Seq(S)
  BY DEF IsSeq
<1>. DEFINE k == Len(st) - n
<1>2. k \in 0..Len(st) /\ Len(st) \in Nat
  BY <1>1
<1>. HIDE DEF k
<1>3. SubSeq(st, 1, k) \in Seq(S) /\ Len(SubSeq(st, 1, k)) = k /\ \A m \in 1..k : SubSeq(st, 1, k)[m] = st[m]
  BY <1>1, <1>2
<1>. QED  BY <1>2, <1>3 DEF IsSeq, k

LEMMA StackPush ==
    ASSUME NEW st, IsSeq(st), NEW x
    PROVE  /\ IsSeq(Append(st, x)) /\ Len(Append(st, x)) = Len(st) + 1 /\ Len(st) \in Nat
           /\ Append(st, x)[Len(st) + 1] = x /\ \A m \in 1..Len(st) : Append(st, x)[m] = st[m]
<1>1. PICK S : st \in Seq(S)
  BY DEF IsSeq
<1>. DEFINE T == S \cup {x}
<1>2. st \in Seq(T) /\ x \in T
  BY <1>1
<1>. HIDE DEF T
<1>3. Append(st, x) \in Seq(T)
  BY <1>2
<1>4. IsSeq(Append(st, x))
  BY <1>3 DEF IsSeq
<1>. QED  BY <1>2, <1>3, <1>4

LEMMA FitsPop ==
    ASSUME NEW sh, NEW st, NEW K, Fits(sh, st, K), NEW n \in 0..Len(st), n \in Nat
    PROVE  Fits(Left(sh, n), SubSeq(st, 1, Len(st) - n), K)
<1>. DEFINE l == Left(sh, n)
            s == SubSeq(st, 1, Len(st) - n)
<1>1. sh \in Seq(Kinds) /\ IsSeq(st) /\ Len(sh) <= Len(st) /\ Len(sh) \in Nat
  BY DEF Fits
<1>2. IsSeq(s) /\ Len(s) = Len(st) - n /\ Len(st) \in Nat /\ \A m \in 1..(Len(st) - n) : s[m] = st[m]
  BY <1>1, StackPops
<1>3. l \in Seq(Kinds) /\ Len(l) = (IF Len(sh) < n THEN 0 ELSE Len(sh) - n) /\ \A m \in 1..Len(l) : l[m] = sh[m]
  BY <1>1, LeftIs
<1>. HIDE DEF l, s
<1>4. ASSUME NEW m \in 1..Len(l), l[m] = "pushed" PROVE s[Len(s) - Len(l) + m] \in K
  <2>1. Len(l) = Len(sh) - n /\ m \in 1..Len(sh) /\ sh[m] = "pushed"
    BY <1>1, <1>3, <1>4
  <2>2. Len(s) - Len(l) + m = Len(st) - Len(sh) + m /\ Len(s) - Len(l) + m \in 1..(Len(st) - n)
    <3>1. Len(s) = Len(st) - n /\ Len(l) = Len(sh) - n /\ Len(st) \in Nat /\ Len(sh) \in Nat /\ n \in Nat /\ m \in 1..Len(l)
          /\ Len(sh) <= Len(st)
      BY <1>1, <1>2, <2>1
    <3>. QED  BY <3>1
  <2>3. s[Len(s) - Len(l) + m] = st[Len(st) - Len(sh) + m]
    BY <1>2, <2>2
  <2>. QED  BY <2>1, <2>3 DEF Fits
<1>5. Len(l) <= Len(s)
  BY <1>1, <1>2, <1>3
<1>6. Fits(l, s, K)
  BY <1>2, <1>3, <1>4, <1>5 DEF Fits
<1>. QED  BY <1>6 DEF l, s

LEMMA FitsPush ==
    ASSUME NEW sh, NEW st, NEW K, Fits(sh, st, K), NEW kind \in Kinds, NEW x, kind = "pushed" => x \in K
    PROVE  Fits(Append(sh, kind), Append(st, x), K)
<1>. DEFINE l == Append(sh, kind)
            s == Append(st, x)
<1>1. sh \in Seq(Kinds) /\ IsSeq(st) /\ Len(sh) <= Len(st) /\ Len(sh) \in Nat
  BY DEF Fits
<1>2. IsSeq(s) /\ Len(s) = Len(st) + 1 /\ Len(st) \in Nat /\ s[Len(st) + 1] = x /\ \A m \in 1..Len(st) : s[m] = st[m]
  BY <1>1, StackPush
<1>3. l \in Seq(Kinds) /\ Len(l) = Len(sh) + 1 /\ l[Len(sh) + 1] = kind /\ \A m \in 1..Len(sh) : l[m] = sh[m]
  BY <1>1
<1>. HIDE DEF l, s
<1>4. ASSUME NEW m \in 1..Len(l), l[m] = "pushed" PROVE s[Len(s) - Len(l) + m] \in K
  <2>1. Len(s) - Len(l) + m = Len(st) - Len(sh) + m
    BY <1>1, <1>2, <1>3
  <2>2. CASE m = Len(sh) + 1
    <3>1. Len(st) - Len(sh) + m = Len(st) + 1
      BY <1>1, <1>2, <2>2
    <3>. QED  BY <1>2, <1>3, <1>4, <2>1, <2>2, <3>1
  <2>3. CASE m \in 1..Len(sh)
    <3>1. Len(st) - Len(sh) + m \in 1..Len(st)
      BY <1>1, <1>2, <2>3
    <3>2. st[Len(st) - Len(sh) + m] \in K
      BY <1>3, <1>4, <2>3 DEF Fits
    <3>. QED  BY <1>2, <2>1, <3>1, <3>2
  <2>. QED  BY <1>1, <1>3, <2>2, <2>3
<1>5. Len(l) <= Len(s)
  BY <1>1, <1>2, <1>3
<1>6. Fits(l, s, K)
  BY <1>2, <1>3, <1>4, <1>5 DEF Fits
<1>. QED  BY <1>6 DEF l, s

LEMMA FitsBump ==
    ASSUME NEW sh, NEW st, NEW K, Fits(sh, st, K), NEW x
    PROVE  LET count == IF st = <<>> THEN <<0>> ELSE st
           IN Fits(IF sh # <<>> THEN [sh EXCEPT ![Len(sh)] = "computed"] ELSE <<>>, [count EXCEPT ![Len(count)] = @ + x], K)
<1>. DEFINE count == IF st = <<>> THEN <<0>> ELSE st
            s == [count EXCEPT ![Len(count)] = @ + x]
            l == IF sh # <<>> THEN [sh EXCEPT ![Len(sh)] = "computed"] ELSE <<>>
<1>1. sh \in Seq(Kinds) /\ Len(sh) <= Len(st) /\ Len(sh) \in Nat
  BY DEF Fits
<1>2. PICK S : st \in Seq(S)
  BY DEF Fits, IsSeq
<1>. PICK y : y = count[Len(count)] + x
  OBVIOUS
<1>. PICK T : T = S \cup {0, y}
  OBVIOUS
<1>3. count \in Seq(T) /\ Len(count) \in Nat /\ count # <<>> /\ (st # <<>> => count = st)
  <2>1. st \in Seq(T) /\ <<0>> \in Seq(T) /\ <<0>> # <<>>
    BY <1>2
  <2>2. count \in Seq(T) /\ count # <<>> /\ (st # <<>> => count = st)
    BY <2>1
  <2>. HIDE DEF count
  <2>. QED  BY <2>2
<1>. HIDE DEF count
<1>4. s = [count EXCEPT ![Len(count)] = y]
  OBVIOUS
<1>5. s \in Seq(T) /\ Len(s) = Len(count) /\ \A m \in 1..(Len(count) - 1) : s[m] = count[m]
  <2>. HIDE DEF s
  <2>1. y \in T
    OBVIOUS
  <2>. QED  BY <1>3, <1>4, <2>1
<1>. HIDE DEF s
<1>6. CASE sh = <<>>
  <2>1. l = <<>> /\ <<>> \in Seq(Kinds) /\ Len(<<>>) = 0
    BY <1>6
  <2>. HIDE DEF l
  <2>2. Fits(l, s, K)
    BY <1>3, <1>5, <2>1 DEF Fits, IsSeq
  <2>. QED  BY <2>2 DEF l, s, count
<1>7. CASE sh # <<>>
  <2>1. l = [sh EXCEPT ![Len(sh)] = "computed"] /\ Len(sh) >= 1
    BY <1>1, <1>7
  <2>. HIDE DEF l
  <2>2. l \in Seq(Kinds) /\ Len(l) = Len(sh) /\ l[Len(sh)] = "computed" /\ \A m \in 1..(Len(sh) - 1) : l[m] = sh[m]
    BY <1>1, <2>1 DEF Kinds
  <2>3. count = st
    <3>1. st # <<>>
      BY <1>1, <2>1
    <3>. QED  BY <1>3, <3>1
  <2>4. ASSUME NEW m \in 1..Len(l), l[m] = "pushed" PROVE s[Len(s) - Len(l) + m] \in K
    <3>1. m # Len(sh) /\ m \in 1..(Len(sh) - 1) /\ sh[m] = "pushed"
      BY <1>1, <2>2, <2>4
    <3>2. Len(st) - Len(sh) + m \in 1..(Len(st) - 1) /\ Len(s) - Len(l) + m = Len(st) - Len(sh) + m
      BY <1>1, <1>3, <1>5, <2>2, <2>3, <3>1
    <3>3. st[Len(st) - Len(sh) + m] \in K
      BY <1>1, <3>1 DEF Fits
    <3>. QED  BY <1>5, <2>3, <3>2, <3>3
  <2>5. Fits(l, s, K)
    BY <1>1, <1>3, <1>5, <2>2, <2>3, <2>4 DEF Fits, IsSeq
  <2>. QED  BY <2>5 DEF l, s, count
<1>. QED  BY <1>6, <1>7

\* An instruction that does not raise leaves a stack of the shape it should.
LEMMA StackNext ==
    ASSUME NEW v, NEW i, Known(i.op), NEW sh, NEW K, Fits(sh, v.stack, K), Len(v.stack) >= Pops(i.op), i.op = "PUSH" => i.arg \in K
    PROVE  Fits(ShapeAfter(sh, i.op), Executed(v, i).stack, K)
<1>. DEFINE n == Pops(i.op)
            st == v.stack
            rest == SubSeq(st, 1, Len(st) - n)
<1>1. n \in Nat /\ n \in 0..Len(st)
  <2>1. n \in 0..2 /\ Len(st) \in Nat
    <3>1. IsSeq(st)
      BY DEF Fits
    <3>. QED  BY <3>1, PopsType DEF IsSeq
  <2>. QED  BY <2>1
<1>2. Fits(Left(sh, n), rest, K)
  <2>. HIDE DEF n, st
  <2>. QED  BY <1>1, FitsPop DEF st
<1>3. CASE i.op = "PUSH"
  <2>1. ShapeAfter(sh, i.op) = Append(Left(sh, n), "pushed")
    BY <1>3 DEF ShapeAfter
  <2>2. Executed(v, i).stack = Append(rest, i.arg)
    BY <1>3 DEF Executed, Binary
  <2>. HIDE DEF rest, n
  <2>. QED  BY <1>2, <1>3, <2>1, <2>2, FitsPush DEF Kinds
<1>4. CASE i.op \in Binary \cup {"LOAD"}
  <2>1. PICK x : Executed(v, i).stack = Append(rest, x)
    BY <1>4 DEF Executed, Binary
  <2>2. ShapeAfter(sh, i.op) = Append(Left(sh, n), "computed")
    BY <1>4 DEF ShapeAfter, Binary
  <2>. HIDE DEF rest, n
  <2>. QED  BY <1>2, <2>1, <2>2, FitsPush DEF Kinds
<1>5. CASE i.op \in {"INC", "DEC"}
  <2>. DEFINE count == IF st = <<>> THEN <<0>> ELSE st
              bump(x) == [count EXCEPT ![Len(count)] = @ + x]
              l == IF sh # <<>> THEN [sh EXCEPT ![Len(sh)] = "computed"] ELSE <<>>
  <2>1. Executed(v, i).stack = bump(1) \/ Executed(v, i).stack = bump(-1)
    BY <1>5 DEF Executed, Binary
  <2>2. ShapeAfter(sh, i.op) = l
    <3>1. n = 0
      BY <1>5 DEF Pops, Binary
    <3>2. sh = <<>> => Left(sh, 0) = <<>>
      BY DEF Left
    <3>. QED  BY <1>5, <3>1, <3>2 DEF ShapeAfter, Binary
  <2>3. Fits(sh, st, K)
    OBVIOUS
  <2>4. \A x : Fits(l, bump(x), K)
    <3>. HIDE DEF st
    <3>. QED  BY <2>3, FitsBump
  <2>. HIDE DEF l, bump
  <2>. QED  BY <2>1, <2>2, <2>4
<1>6. CASE i.op \notin {"PUSH", "LOAD", "INC", "DEC"} \cup Binary
  <2>1. Executed(v, i).stack = rest /\ ShapeAfter(sh, i.op) = Left(sh, n)
    BY <1>6 DEF Executed, ShapeAfter
  <2>. HIDE DEF rest, n
  <2>. QED  BY <1>2, <2>1
<1>. QED  BY <1>3, <1>4, <1>5, <1>6

-----------------------------------------------------------------------------
(* The machine while it runs a program *)

Full(args, p) == [j \in DOMAIN args |-> I("PUSH", args[j])] \o p \o <<I("STOP", 0)>>

\* c is a and then p.
Joined(c, a, p, S) ==
    /\ c \in Seq(S) /\ Len(c) = Len(a) + Len(p)
    /\ \A m \in 1..Len(a) : c[m] = a[m]
    /\ \A j \in 1..Len(p) : c[Len(a) + j] = p[j]

LEMMA ConcatIs == \A S : \A a, p \in Seq(S) : Joined(a \o p, a, p, S)
<1>. SUFFICES ASSUME NEW S, NEW a \in Seq(S), NEW p \in Seq(S) PROVE Joined(a \o p, a, p, S)
  OBVIOUS
<1>1. a \o p \in Seq(S) /\ Len(a \o p) = Len(a) + Len(p) /\ Len(a) \in Nat /\ Len(p) \in Nat
  OBVIOUS
<1>2. \A m \in 1..(Len(a) + Len(p)) : (a \o p)[m] = IF m <= Len(a) THEN a[m] ELSE p[m - Len(a)]
  OBVIOUS
<1>3. ASSUME NEW m \in 1..Len(a) PROVE (a \o p)[m] = a[m]
  BY <1>1, <1>2
<1>4. ASSUME NEW j \in 1..Len(p) PROVE (a \o p)[Len(a) + j] = p[j]
  <2>. DEFINE m == Len(a) + j
  <2>1. m \in 1..(Len(a) + Len(p)) /\ ~(m <= Len(a)) /\ m - Len(a) = j
    BY <1>1
  <2>. HIDE DEF m
  <2>2. (a \o p)[m] = p[m - Len(a)]
    BY <1>2, <2>1
  <2>. QED  BY <2>1, <2>2 DEF m
<1>. QED  BY <1>1, <1>3, <1>4 DEF Joined

IsFull(f, args, p) ==
    /\ Len(f) = Len(args) + Len(p) + 1 /\ Len(args) \in Nat /\ Len(p) \in Nat
    /\ \A m \in 1..Len(args) : f[m] = I("PUSH", args[m])
    /\ \A j \in 1..Len(p) : f[Len(args) + j] = p[j]
    /\ f[Len(args) + Len(p) + 1] = I("STOP", 0)

LEMMA FullIs ==
    ASSUME NEW args, NEW p, IsSeq(args), IsSeq(p)
    PROVE  IsFull(Full(args, p), args, p)
<1>. PICK A, B : args \in Seq(A) /\ p \in Seq(B)
  BY DEF IsSeq
<1>. DEFINE a == [j \in DOMAIN args |-> I("PUSH", args[j])]
            s == <<I("STOP", 0)>>
            T == B \cup {I("PUSH", args[j]) : j \in DOMAIN args} \cup {I("STOP", 0)}
<1>0. DOMAIN args = 1..Len(args) /\ Len(args) \in Nat /\ Len(p) \in Nat
  OBVIOUS
<1>1. a \in Seq(T) /\ p \in Seq(T) /\ I("STOP", 0) \in T
  <2>1. a = [j \in 1..Len(args) |-> I("PUSH", args[j])]
    BY <1>0
  <2>2. \A j \in 1..Len(args) : I("PUSH", args[j]) \in T
    BY <1>0
  <2>3. B \subseteq T /\ I("STOP", 0) \in T
    OBVIOUS
  <2>. HIDE DEF a, T
  <2>4. a \in [1..Len(args) -> T]
    BY <2>1, <2>2
  <2>5. a \in Seq(T)
    BY <1>0, <2>4
  <2>6. p \in Seq(T)
    BY <2>3
  <2>. QED  BY <2>3, <2>5, <2>6
<1>. HIDE DEF T
<1>2. Len(a) = Len(args) /\ \A m \in 1..Len(args) : a[m] = I("PUSH", args[m])
  <2>1. \A m \in 1..Len(args) : a[m] = I("PUSH", args[m])
    BY <1>0
  <2>2. DOMAIN a = 1..Len(args)
    BY <1>0
  <2>. HIDE DEF a
  <2>3. Len(a) \in Nat /\ DOMAIN a = 1..Len(a)
    BY <1>1
  <2>4. Len(a) = Len(args)
    BY <1>0, <2>2, <2>3
  <2>. QED  BY <2>1, <2>4
<1>3. s \in Seq(T) /\ Len(s) = 1 /\ s[1] = I("STOP", 0)
  BY <1>1
<1>4. Full(args, p) = (a \o p) \o s
  BY DEF Full
<1>. HIDE DEF a, s
<1>. PICK q : q = a \o p
  OBVIOUS
<1>. PICK f : f = q \o s
  OBVIOUS
<1>5. /\ q \in Seq(T) /\ Len(q) = Len(a) + Len(p)
      /\ (\A m \in 1..Len(a) : q[m] = a[m]) /\ \A j \in 1..Len(p) : q[Len(a) + j] = p[j]
  <2>1. Joined(q, a, p, T)
    BY <1>1, ConcatIs
  <2>. QED  BY <2>1 DEF Joined
<1>6. /\ Len(f) = Len(q) + Len(s)
      /\ (\A m \in 1..Len(q) : f[m] = q[m]) /\ \A j \in 1..Len(s) : f[Len(q) + j] = s[j]
  <2>1. Joined(f, q, s, T)
    BY <1>3, <1>5, ConcatIs
  <2>. QED  BY <2>1 DEF Joined
<1>7. f[Len(q) + 1] = s[1]
  BY <1>3, <1>6
<1>8. \A j \in 1..Len(p) : Len(args) + j \in 1..Len(q)
  BY <1>0, <1>2, <1>5
<1>9. \A m \in 1..Len(args) : m \in 1..Len(q)
  BY <1>0, <1>2, <1>5
<1>10. Len(f) = Len(args) + Len(p) + 1 /\ f[Len(args) + Len(p) + 1] = I("STOP", 0)
  BY <1>2, <1>3, <1>5, <1>6, <1>7
<1>11. (\A m \in 1..Len(args) : f[m] = I("PUSH", args[m])) /\ \A j \in 1..Len(p) : f[Len(args) + j] = p[j]
  BY <1>2, <1>5, <1>6, <1>8, <1>9
<1>12. Full(args, p) = f
  BY <1>4
<1>. QED  BY <1>0, <1>10, <1>11, <1>12 DEF IsFull

Own(s, p) == DOMAIN s \subseteq {Str(1)} \cup {Num(k) : k \in Pushed(p)}

\* The machine runs program p behind a arguments.
Machine(v, p, a) ==
    /\ v.pc \in Nat \ {0} /\ IsSeq(v.stack) /\ Own(v.storage, p)
    /\ v.running /\ Straight(p) /\ v.pc > a =>
          v.pc - 1 - a \in 0..Len(p) /\ Fits(Shapes(p)[v.pc - 1 - a], v.stack, Pushed(p))

\* An instruction of the program, or of what the call puts around it.
LEMMA MachineStep ==
    ASSUME NEW p, IsSeq(p), Straight(p) \/ NeverStores(p), NEW args, IsSeq(args), NEW v, Machine(v, p, Len(args)),
           v.running, v.pc <= Len(Full(args, p)), ~ Raises(v, Full(args, p)[v.pc], Len(Full(args, p)))
    PROVE  Machine(Executed(v, Full(args, p)[v.pc]), p, Len(args))
<1>. PICK a, n, size, i, w : /\ a = Len(args) /\ n = Len(p) /\ size = Len(Full(args, p))
                             /\ i = Full(args, p)[v.pc] /\ w = Executed(v, i)
  OBVIOUS
<1>1. a \in Nat /\ n \in Nat /\ size = a + n + 1 /\ v.pc \in 1..size /\ DOMAIN p = 1..n
  <2>1. a \in Nat /\ n \in Nat /\ size = a + n + 1
    BY FullIs DEF IsFull
  <2>2. v.pc \in Nat \ {0}
    BY DEF Machine
  <2>3. DOMAIN p = 1..n
    BY DEF IsSeq
  <2>. QED  BY <2>1, <2>2, <2>3
<1>2. /\ v.pc <= a => i = I("PUSH", args[v.pc])
      /\ v.pc = a + n + 1 => i = I("STOP", 0)
      /\ v.pc > a /\ v.pc # a + n + 1 => v.pc - a \in 1..n /\ i = p[v.pc - a]
  <2>0. /\ \A m \in 1..a : Full(args, p)[m] = I("PUSH", args[m])
        /\ \A j \in 1..n : Full(args, p)[a + j] = p[j]
        /\ Full(args, p)[a + n + 1] = I("STOP", 0)
    <3>1. IsFull(Full(args, p), args, p)
      BY FullIs
    <3>. QED  BY <3>1 DEF IsFull
  <2>1. ASSUME v.pc <= a PROVE i = I("PUSH", args[v.pc])
    <3>1. v.pc \in 1..a
      BY <1>1, <2>1
    <3>. QED  BY <2>0, <3>1
  <2>2. v.pc = a + n + 1 => i = I("STOP", 0)
    BY <2>0
  <2>3. ASSUME v.pc > a, v.pc # a + n + 1 PROVE v.pc - a \in 1..n /\ i = p[v.pc - a]
    <3>1. v.pc - a \in 1..n /\ a + (v.pc - a) = v.pc
      BY <1>1, <2>3
    <3>2. Full(args, p)[a + (v.pc - a)] = p[v.pc - a]
      BY <2>0, <3>1
    <3>. QED  BY <3>1, <3>2
  <2>. QED  BY <2>1, <2>2, <2>3
<1>3. IsSeq(v.stack) /\ Len(v.stack) \in Nat /\ Own(v.storage, p)
  BY DEF Machine, IsSeq
<1>4. Known(i.op) /\ Len(v.stack) >= Pops(i.op) /\ (Jumps(v, i.op) => Top(v, 1) \in 0..(size - 1))
  <2>1. Known(i.op) /\ ~ (Len(v.stack) < Pops(i.op)) /\ Pops(i.op) \in 0..2
    BY PopsType DEF Raises
  <2>2. Len(v.stack) >= Pops(i.op)
    BY <1>3, <2>1
  <2>. QED  BY <2>1, <2>2 DEF Raises
<1>5. /\ w.running <=> i.op # "STOP"
      /\ w.pc = (IF Jumps(v, i.op) THEN Top(v, 1) + 1 ELSE IF i.op = "STOP" THEN v.pc ELSE v.pc + 1)
      /\ w.storage = (IF i.op = "STORE" THEN With(v.storage, Num(Top(v, 2)), Top(v, 1)) ELSE v.storage)
  BY DEF Executed
<1>6. w.pc \in Nat \ {0}
  BY <1>1, <1>4, <1>5
<1>7. IsSeq(w.stack)
  <2>1. <<>> \in Seq(Kinds) /\ Len(<<>>) = 0
    OBVIOUS
  <2>2. Fits(<<>>, v.stack, {i.arg})
    BY <1>3, <2>1 DEF Fits
  <2>3. Fits(ShapeAfter(<<>>, i.op), w.stack, {i.arg})
    BY <1>4, <2>2, StackNext
  <2>. QED  BY <2>3 DEF Fits
<1>8. ASSUME Straight(p), v.pc > a, v.pc # a + n + 1
      PROVE  /\ v.pc - a \in 1..n /\ i = p[v.pc - a] /\ ~ Jumps(v, i.op)
             /\ Fits(Shapes(p)[v.pc - 1 - a], v.stack, Pushed(p))
             /\ w.running => Fits(Shapes(p)[v.pc - a], w.stack, Pushed(p))
  <2>. PICK j : j = v.pc - a
    OBVIOUS
  <2>1. j \in 1..n /\ i = p[j] /\ j - 1 = v.pc - 1 - a
    BY <1>1, <1>2, <1>8
  <2>2. Fits(Shapes(p)[j - 1], v.stack, Pushed(p))
    BY <1>8, <2>1 DEF Machine
  <2>3. i.op = "PUSH" => i.arg \in Pushed(p)
    BY <1>1, <2>1 DEF Pushed
  <2>4. Fits(ShapeAfter(Shapes(p)[j - 1], i.op), w.stack, Pushed(p))
    BY <1>4, <2>2, <2>3, StackNext
  <2>5. Shapes(p)[j] = ShapeAfter(Shapes(p)[j - 1], i.op)
    BY <2>1, ShapesAre
  <2>6. ~ Jumps(v, i.op)
    BY <1>1, <1>8, <2>1 DEF Straight, Jumps
  <2>. QED  BY <2>1, <2>2, <2>4, <2>5, <2>6
<1>9. Own(w.storage, p)
  <2>1. CASE i.op # "STORE"
    BY <1>3, <1>5, <2>1
  <2>2. CASE i.op = "STORE"
    <3>1. v.pc > a /\ v.pc # a + n + 1
      BY <1>1, <1>2, <2>2 DEF I
    <3>. PICK j : j = v.pc - a
      OBVIOUS
    <3>2. j \in 1..n /\ p[j].op = "STORE"
      BY <1>2, <2>2, <3>1
    <3>3. Straight(p)
      BY <1>1, <3>2 DEF NeverStores
    <3>. PICK sh : sh = Shapes(p)[j - 1]
      OBVIOUS
    <3>4. Fits(sh, v.stack, Pushed(p))
      <4>1. v.pc - 1 - a = j - 1
        BY <1>1
      <4>. QED  BY <1>8, <3>1, <3>3, <4>1
    <3>5. Len(sh) >= 2 /\ sh[Len(sh) - 1] = "pushed" /\ Len(sh) \in Nat
      BY <1>1, <3>2, <3>3, <3>4 DEF Straight, Fits
    <3>6. v.stack[Len(v.stack) - Len(sh) + (Len(sh) - 1)] \in Pushed(p)
      <4>1. Len(sh) - 1 \in 1..Len(sh)
        BY <3>5
      <4>. QED  BY <3>4, <3>5, <4>1 DEF Fits
    <3>7. Len(v.stack) - Len(sh) + (Len(sh) - 1) = Len(v.stack) + 1 - 2
      BY <1>3, <3>5
    <3>8. Top(v, 2) \in Pushed(p)
      BY <3>6, <3>7 DEF Top
    <3>9. DOMAIN w.storage = DOMAIN v.storage \cup {Num(Top(v, 2))}
      BY <1>5, <2>2 DEF With
    <3>. QED  BY <1>3, <3>8, <3>9 DEF Own
  <2>. QED  BY <2>1, <2>2
<1>10. ASSUME w.running, Straight(p), w.pc > a
       PROVE  w.pc - 1 - a \in 0..n /\ Fits(Shapes(p)[w.pc - 1 - a], w.stack, Pushed(p))
  <2>1. i.op # "STOP" /\ v.pc # a + n + 1
    BY <1>2, <1>5, <1>10 DEF I
  <2>2. CASE v.pc <= a
    <3>1. i.op = "PUSH"
      BY <1>2, <2>2 DEF I
    <3>2. w.pc = v.pc + 1
      BY <1>5, <3>1 DEF Jumps
    <3>3. w.pc - 1 - a = 0
      BY <1>1, <1>10, <2>2, <3>2
    <3>4. Fits(<<>>, w.stack, Pushed(p))
      <4>1. <<>> \in Seq(Kinds) /\ Len(<<>>) = 0
        OBVIOUS
      <4>2. Len(w.stack) \in Nat
        BY <1>7 DEF IsSeq
      <4>. QED  BY <1>7, <4>1, <4>2 DEF Fits
    <3>. QED  BY <1>1, <3>3, <3>4, ShapesAre
  <2>3. CASE v.pc > a
    <3>1. v.pc - a \in 1..n /\ ~ Jumps(v, i.op) /\ Fits(Shapes(p)[v.pc - a], w.stack, Pushed(p))
      BY <1>8, <1>10, <2>1, <2>3
    <3>2. w.pc - 1 - a = v.pc - a
      BY <1>1, <1>5, <2>1, <3>1
    <3>. QED  BY <1>1, <3>1, <3>2
  <2>. QED  BY <1>1, <2>2, <2>3
<1>11. Machine(w, p, a)
  BY <1>6, <1>7, <1>9, <1>10 DEF Machine
<1>. QED  BY <1>11

-----------------------------------------------------------------------------
(* The contracts and the call under way *)

IsContract(c) == c = [code |-> c.code, storage |-> c.storage, calls |-> c.calls]

OwnContracts ==
    /\ IsTable(minivm)
    /\ \A a \in DOMAIN minivm : /\ IsContract(minivm[a]) /\ minivm[a].code \in Programs
                               /\ Own(minivm[a].storage, minivm[a].code)

\* A call runs the program of its contract, and the machine is where this program brings it.
RunsOwn(r) ==
    /\ r.id \in DOMAIN minivm
    /\ \E args \in CallArgs : /\ r.user = Full(args, minivm[r.id].code)
                             /\ Machine(vm, minivm[r.id].code, Len(args))

Running(r) == r.op = "mini" /\ r.step = "run"

CallsAreOwn == \A h \in AllThreads : Running(req[h]) => RunsOwn(req[h])

LEMMA ProgramsAre ==
    ASSUME KeysArePushed
    PROVE  /\ \A p \in Programs : IsSeq(p) /\ (Straight(p) \/ NeverStores(p))
           /\ \A args \in CallArgs : IsSeq(args)
<1>. DEFINE S == [op : STRING, arg : Int]
<1>1. /\ \A p \in Programs : p \in Seq(S) /\ (Straight(p) \/ NeverStores(p))
      /\ \A args \in CallArgs : args \in Seq(Int)
  BY DEF KeysArePushed
<1>. HIDE DEF S
<1>. QED  BY <1>1 DEF IsSeq

LEMMA NothingRuns == ~ Running(NoRequest)
BY DEF Running, NoRequest

LEMMA OwnAlone ==
    ASSUME ReqOk, OneAtATime, NEW h \in AllThreads, Moves(h), \A g \in AllThreads : g # h => req[g] = NoRequest,
           OwnContracts', Running(req'[h]) => RunsOwn(req[h])'
    PROVE  ReqOk' /\ OneAtATime' /\ OwnContracts' /\ CallsAreOwn'
<1>1. OneAtATime' /\ \A g \in AllThreads : req'[g] # NoRequest => g = h
  BY AloneKept DEF Moves
<1>2. ASSUME NEW g \in AllThreads, Running(req'[g]) PROVE RunsOwn(req[g])'
  BY <1>1, <1>2, NothingRuns
<1>3. CallsAreOwn'
  BY <1>2 DEF CallsAreOwn
<1>. QED  BY <1>1, <1>3, ReqMoved

LEMMA OwnPut ==
    ASSUME OwnContracts, NEW a, NEW c, minivm' = With(minivm, a, c), IsContract(c), c.code \in Programs, Own(c.storage, c.code)
    PROVE  OwnContracts'
<1>1. DOMAIN minivm' = DOMAIN minivm \cup {a} /\ minivm'[a] = c /\ (\A b \in DOMAIN minivm : b # a => minivm'[b] = minivm[b])
      /\ IsTable(minivm')
  BY DEF With, IsTable
<1>. QED  BY <1>1 DEF OwnContracts

LEMMA OwnStep ==
    ASSUME KeysArePushed, ReqOk, OneAtATime, OwnContracts, CallsAreOwn, mode = "serial", MiniNext
    PROVE  ReqOk' /\ OneAtATime' /\ OwnContracts' /\ CallsAreOwn'
<1>. PICK h \in Handlers :
        PostMiniVmDeploy(h) \/ PostMiniVmCall(h) \/ VmStep(h) \/ VmRaises(h) \/ MiniReturns(h) \/ MiniSave(h)
  BY DEF MiniNext
<1>. h \in AllThreads
  BY ThreadsAre
<1>0. req[h].op = "mini" => \A g \in AllThreads : g # h => req[g] = NoRequest
  BY DEF OneAtATime, NoRequest
<1>1. CASE PostMiniVmDeploy(h)
  <2>1. PICK a \in MiniAddrs, p \in Programs, x \in {Nothing, [k \in {Str(1)} |-> 1]} : MiniDeploy(h, a, p, x)
    BY <1>1 DEF PostMiniVmDeploy
  <2>. PICK c : c = [code |-> p, storage |-> x, calls |-> 0]
    OBVIOUS
  <2>2. minivm' = With(minivm, a, c) /\ Begins(h, Request("mini", "save", a, ToRow(c), 0))
    BY <2>1 DEF MiniDeploy
  <2>. PICK row : row = ToRow(c)
    OBVIOUS
  <2>3. Moves(h) /\ req'[h].op = "mini" /\ req'[h].step = "save"
    BY <2>2, MovesBegin
  <2>4. \A g \in AllThreads : req[g] = NoRequest
    BY <2>2, BeginsIs
  <2>5. IsContract(c) /\ c.code \in Programs /\ Own(c.storage, c.code)
    <3>1. DOMAIN x \subseteq {Str(1)}
      BY DEF Nothing
    <3>. QED  BY <3>1 DEF IsContract, Own
  <2>6. OwnContracts'
    BY <2>2, <2>5, OwnPut
  <2>. QED  BY <2>3, <2>4, <2>6, OwnAlone DEF Running
<1>2. CASE PostMiniVmCall(h)
  <2>1. PICK a \in DOMAIN minivm, args \in CallArgs : MiniCall(h, a, args)
    BY <1>2 DEF PostMiniVmCall
  <2>. PICK p, user : p = minivm[a].code /\ user = Full(args, p)
    OBVIOUS
  <2>2. /\ vm' = [pc |-> 1, stack |-> <<>>, storage |-> minivm[a].storage, gas |-> 0, running |-> TRUE]
        /\ Begins(h, Request("mini", "run", a, user, 0)) /\ minivm' = minivm
    BY <2>1 DEF MiniCall, Restored, Full
  <2>. DEFINE r == Request("mini", "run", a, user, 0)
  <2>3. IsRequest(r) /\ r.id = a /\ r.user = user
    BY RequestIs
  <2>4. Begins(h, r)
    BY <2>2
  <2>. HIDE DEF r
  <2>5. Moves(h) /\ req'[h] = r /\ \A g \in AllThreads : req[g] = NoRequest
    BY <2>3, <2>4, BeginsIs DEF Moves
  <2>6. OwnContracts' /\ IsSeq(p) /\ IsSeq(args) /\ Own(minivm[a].storage, p)
    BY <2>2, ProgramsAre DEF OwnContracts
  <2>7. Machine(vm', p, Len(args))
    <3>1. /\ vm'.pc = 1 /\ vm'.stack = <<>> /\ vm'.storage = minivm[a].storage /\ Len(args) \in Nat /\ Len(p) \in Nat
          /\ <<>> \in Seq(Kinds) /\ Len(<<>>) = 0
      BY <2>2, <2>6 DEF IsSeq
    <3>2. IsSeq(vm'.stack) /\ Fits(<<>>, vm'.stack, Pushed(p))
      BY <3>1 DEF IsSeq, Fits
    <3>3. 1 > Len(args) => 1 - 1 - Len(args) = 0
      BY <3>1
    <3>4. Shapes(p)[0] = <<>>
      BY <2>6, ShapesAre
    <3>. QED  BY <2>6, <3>1, <3>2, <3>3, <3>4 DEF Machine
  <2>8. RunsOwn(req[h])'
    BY <2>2, <2>3, <2>5, <2>7 DEF RunsOwn
  <2>. QED  BY <2>5, <2>6, <2>8, OwnAlone
<1>3. CASE VmStep(h)
  <2>. PICK p, r : r = req[h] /\ p = minivm[r.id].code
    OBVIOUS
  <2>1. /\ Running(r) /\ vm.running /\ vm.pc <= Len(r.user) /\ ~ Raises(vm, r.user[vm.pc], Len(r.user))
        /\ vm' = Executed(vm, r.user[vm.pc]) /\ UNCHANGED <<req, minivm>>
    BY <1>3 DEF VmStep, Runs, At, Running
  <2>2. PICK args \in CallArgs : r.id \in DOMAIN minivm /\ r.user = Full(args, p) /\ Machine(vm, p, Len(args))
    BY <2>1 DEF CallsAreOwn, RunsOwn
  <2>3. IsSeq(p) /\ (Straight(p) \/ NeverStores(p)) /\ IsSeq(args)
    BY <2>2, ProgramsAre DEF OwnContracts
  <2>4. Machine(vm', p, Len(args))
    BY <2>1, <2>2, <2>3, MachineStep
  <2>5. RunsOwn(r)'
    BY <2>1, <2>2, <2>4 DEF RunsOwn
  <2>6. ASSUME NEW g \in AllThreads, Running(req'[g]) PROVE RunsOwn(req[g])'
    <3>1. g = h
      BY <1>0, <2>1, <2>6, NothingRuns DEF Running
    <3>. QED  BY <2>1, <2>5, <3>1
  <2>7. CallsAreOwn'
    BY <2>6 DEF CallsAreOwn
  <2>. QED  BY <2>1, <2>7 DEF ReqOk, OneAtATime, OwnContracts
<1>4. CASE VmRaises(h) \/ MiniSave(h)
  <2>1. req[h].op = "mini" /\ Ends(h) /\ minivm' = minivm
    BY <1>4 DEF VmRaises, Runs, MiniSave, At
  <2>2. Moves(h) /\ req'[h] = NoRequest
    BY <2>1, MovesEnd
  <2>3. OwnContracts'
    BY <2>1 DEF OwnContracts
  <2>. QED  BY <1>0, <2>1, <2>2, <2>3, NothingRuns, OwnAlone
<1>5. CASE MiniReturns(h)
  <2>. PICK a, old : a = req[h].id /\ old = minivm[a]
    OBVIOUS
  <2>. PICK c : c = [old EXCEPT !.storage = vm.storage, !.calls = @ + 1]
    OBVIOUS
  <2>. PICK row : row = ToRow(c)
    OBVIOUS
  <2>1. Running(req[h]) /\ minivm' = [minivm EXCEPT ![a] = c] /\ Becomes(h, Request("mini", "save", a, row, 0))
    BY <1>5 DEF MiniReturns, At, Running, Becomes
  <2>2. Moves(h) /\ req'[h].step = "save"
    BY <2>1, MovesTo
  <2>3. a \in DOMAIN minivm /\ Own(vm.storage, old.code)
    BY <2>1 DEF CallsAreOwn, RunsOwn, Machine
  <2>4. IsContract(old) /\ old.code \in Programs
    BY <2>3 DEF OwnContracts
  <2>5. IsContract(c) /\ c.code = old.code /\ c.storage = vm.storage
    BY <2>4 DEF IsContract
  <2>6. minivm' = With(minivm, a, c)
    BY <2>1, <2>3 DEF With, OwnContracts, IsTable
  <2>7. OwnContracts'
    BY <2>3, <2>4, <2>5, <2>6, OwnPut
  <2>8. req[h].op = "mini" /\ ~ Running(req'[h])
    BY <2>1, <2>2 DEF Running
  <2>. QED  BY <1>0, <2>2, <2>7, <2>8, OwnAlone
<1>. QED  BY <1>1, <1>2, <1>3, <1>4, <1>5

OwnInv ==
    mode = "serial" =>
        /\ service # "minivm" => minivm = Nothing
        /\ service = "minivm" => ReqOk /\ OneAtATime /\ OwnContracts /\ CallsAreOwn

\* StorageIsOwn for any number of contracts and calls, of any length (ContractManager.call,
\* MiniVM.execute): one request after another on the one machine, a contract's storage holds
\* no key of another contract, although a call that raises leaves the machine as it is.
\* For programs whose keys are constants, as Pushed(code) names no others.
THEOREM OwnStorage == ASSUME KeysArePushed PROVE RestSpec => []StorageIsOwn
<1>1. RestInit => OwnInv
  <2>. SUFFICES ASSUME RestInit PROVE OwnInv
    OBVIOUS
  <2>1. minivm = Nothing /\ req = [h \in AllThreads |-> NoRequest]
    BY DEF RestInit, MiniInit, ServicesInit, AllThreads
  <2>2. ReqOk /\ OneAtATime /\ CallsAreOwn
    BY <2>1, NothingRuns DEF ReqOk, OneAtATime, CallsAreOwn
  <2>3. IsTable(Nothing) /\ DOMAIN Nothing = {}
    BY DEF IsTable, Nothing
  <2>. QED  BY <2>1, <2>2, <2>3 DEF OwnInv, OwnContracts
<1>2. OwnInv /\ [RestNext]_restVars => OwnInv'
  <2>. SUFFICES ASSUME OwnInv, [RestNext]_restVars PROVE OwnInv'
    OBVIOUS
  <2>1. CASE ServiceStep
    <3>1. UNCHANGED <<mode, service>> /\ (service = "minivm" => MiniNext) /\ (service # "minivm" => minivm' = minivm)
      BY <2>1 DEF ServiceStep
    <3>. QED  BY <3>1, OwnStep DEF OwnInv
  <2>2. CASE Restart
    <3>1. mode' # "serial"
      BY <2>2 DEF Restart, ServicesCrash
    <3>. QED  BY <3>1 DEF OwnInv
  <2>3. CASE UNCHANGED restVars
    <3>1. UNCHANGED <<mode, service, req, minivm, vm>>
      BY <2>3 DEF restVars
    <3>. QED  BY <3>1 DEF OwnInv, ReqOk, OneAtATime, OwnContracts, CallsAreOwn, RunsOwn
  <2>. QED  BY <2>1, <2>2, <2>3 DEF RestNext
<1>3. OwnInv => StorageIsOwn
  <2>. SUFFICES ASSUME OwnInv, mode = "serial", NEW a \in DOMAIN minivm
               PROVE DOMAIN minivm[a].storage \subseteq {Str(1)} \cup {Num(k) : k \in Pushed(minivm[a].code)}
    BY DEF StorageIsOwn
  <2>1. DOMAIN Nothing = {}
    BY DEF Nothing
  <2>2. service = "minivm" /\ OwnContracts
    BY <2>1 DEF OwnInv
  <2>. QED  BY <2>2 DEF OwnContracts, Own
<1>. QED  BY <1>1, <1>2, <1>3, PTL DEF RestSpec
=============================================================================
