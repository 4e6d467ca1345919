------------------------------ MODULE Contracts ------------------------------
(***************************************************************************)
(* features/wasm_vm.py and features/ai_manager.py: contracts with a token    *)
(* ledger of their own, and agents, both created for a fee and kept in       *)
(* memory and in the database, without a lock.  No trade backend is ever     *)
(* given to the agent manager, so an agent only starts and stops.            *)
(***************************************************************************)
EXTENDS Services

CONSTANTS
    CreateFee,      \* DEPLOY_FEE and CREATE_FEE
    InitialSupply,  \* initialSupply of a contract's constructor
    MaxCalls        \* bound on the calls of a contract, which the code counts too

ASSUME ContractsAssumption == InitialSupply \in Nat /\ CreateFee \in Nat

VARIABLES
    wasm, wasmDb,   \* contracts with their storage, and wasm_contracts
    agents, agentDb \* status of the agents, and ai_agents

contractVars == <<bal, req, items, wasm, wasmDb, agents, agentDb>>

\* deploy with init_params runs the constructor; without them there are no tokens.
\* edited says whether the owner has written the storage directly.
Deployed(owner, supply) ==
    [owner |-> owner, supply |-> supply, tokens |-> [u \in Users |-> IF u = owner THEN supply ELSE 0],
     calls |-> 0, edited |-> FALSE]

-----------------------------------------------------------------------------
(* deploy, create_agent: the balance is looked at, then the fee is taken *)

Create(h, op, owner, supply) ==
    /\ bal[owner] >= CreateFee
    /\ NewItem /\ Begins(h, Request(op, "fee", items + 1, owner, supply))
    /\ UNCHANGED <<bal, wasm, wasmDb, agents, agentDb>>

ChargeFee(h) ==
    /\ req[h].op \in {"deploy", "agent"} /\ req[h].step = "fee"
    /\ UpdateBalance(req[h].user, -CreateFee)
    /\ Goes(h, "create")
    /\ UNCHANGED <<items, wasm, wasmDb, agents, agentDb>>

DeployCreate(h) ==
    /\ At(h, "deploy", "create")
    /\ wasm' = With(wasm, req[h].id, Deployed(req[h].user, req[h].amt))
    /\ req' = [req EXCEPT ![h] = Request("call", "save", @.id, "none", 0)]
    /\ UNCHANGED <<bal, items, wasmDb, agents, agentDb>>

AgentCreate(h) ==
    /\ At(h, "agent", "create")
    /\ agents' = With(agents, req[h].id, "active")
    /\ req' = [req EXCEPT ![h] = Request("agent", "save", @.id, "none", 0)]
    /\ UNCHANGED <<bal, items, wasm, wasmDb, agentDb>>

-----------------------------------------------------------------------------
(* call: transfer and setStorage; the other functions only read *)

\* transfer reads the caller's tokens, checks them, and then writes.
CallTransfer(h, c, caller, to, amount) ==
    /\ wasm[c].calls < MaxCalls /\ wasm[c].tokens[caller] >= amount
    /\ wasm' = [wasm EXCEPT ![c].calls = @ + 1]
    /\ Begins(h, Request("call", "write", c, <<caller, to, wasm[c].tokens[caller]>>, amount))
    /\ UNCHANGED <<bal, items, wasmDb, agents, agentDb>>

\* Mutant: both ends are computed from what was read first.
TokensMovedStale(tokens, caller, to, read, amount) ==
    [tokens EXCEPT ![caller] = read - amount, ![to] = tokens[to] + amount]

\* A caller who pays itself gets its tokens back.
TokensMoved(tokens, caller, to, read, amount) ==
    LET paid == [tokens EXCEPT ![caller] = read - amount]
    IN [paid EXCEPT ![to] = @ + amount]

CallWrite(h) ==
    /\ At(h, "call", "write")
    /\ LET u == req[h].user
       IN wasm' = [wasm EXCEPT ![req[h].id].tokens = TokensMoved(@, u[1], u[2], u[3], req[h].amt)]
    /\ Goes(h, "save")
    /\ UNCHANGED <<bal, items, wasmDb, agents, agentDb>>

\* Any key of the storage, a balance too.
CallSetStorage(h, c, caller, u, x) ==
    /\ wasm[c].calls < MaxCalls /\ caller = wasm[c].owner
    /\ wasm' = [wasm EXCEPT ![c].calls = @ + 1, ![c].tokens[u] = x, ![c].edited = TRUE]
    /\ Begins(h, Request("call", "save", c, "none", 0))
    /\ UNCHANGED <<bal, items, wasmDb, agents, agentDb>>

\* The contract is saved as it is in memory by then.
CallSave(h) ==
    /\ At(h, "call", "save")
    /\ wasmDb' = With(wasmDb, req[h].id, wasm[req[h].id])
    /\ Ends(h)
    /\ UNCHANGED <<bal, items, wasm, agents, agentDb>>

-----------------------------------------------------------------------------
(* deactivate, and the save of an agent *)

Deactivate(h, a) ==
    /\ agents[a] = "active"
    /\ agents' = [agents EXCEPT ![a] = "inactive"]
    /\ Begins(h, Request("agent", "save", a, "none", 0))
    /\ UNCHANGED <<bal, items, wasm, wasmDb, agentDb>>

\* Mutant: the row says what the agent was created with.
AgentRowActive(a) == "active"

AgentRow(a) == agents[a]

\* Database.save_ai_agent: of the columns only the status changes.
SaveAiAgent(a) == agentDb' = With(agentDb, a, AgentRow(a))

AgentSave(h) ==
    /\ At(h, "agent", "save")
    /\ SaveAiAgent(req[h].id)
    /\ Ends(h)
    /\ UNCHANGED <<bal, items, wasm, wasmDb, agents>>

-----------------------------------------------------------------------------
(* The REST endpoints *)

PostWasmDeploy(h) == \E u \in Users, s \in {0, InitialSupply} : Create(h, "deploy", u, s)

PostWasmCall(h) ==
    \E c \in DOMAIN wasm, u, v \in Users, x \in Amounts :
        CallTransfer(h, c, u, v, x) \/ CallSetStorage(h, c, u, v, x)

PostAiAgentCreate(h) == \E u \in Users : Create(h, "agent", u, 0)

PostAiAgentDeactivate(h) == \E a \in DOMAIN agents : Deactivate(h, a)

\* The manager reads the agents back; with as few as here its limit cuts none off.
GetAiAgents == agentDb

ContractsRestart ==
    /\ wasm' = wasmDb /\ agents' = GetAiAgents
    /\ UNCHANGED <<wasmDb, agentDb>>

ContractsInit == wasm = Nothing /\ wasmDb = Nothing /\ agents = Nothing /\ agentDb = Nothing

WasmNext ==
    \E h \in Handlers :
       \/ PostWasmDeploy(h) \/ ChargeFee(h) \/ DeployCreate(h)
       \/ PostWasmCall(h) \/ CallWrite(h) \/ CallSave(h)

AgentsNext ==
    \E h \in Handlers :
       PostAiAgentCreate(h) \/ ChargeFee(h) \/ AgentCreate(h) \/ PostAiAgentDeactivate(h) \/ AgentSave(h)

-----------------------------------------------------------------------------
(* Properties *)

\* One request after another, transfers inside a contract move its tokens and make
\* none, unless the owner writes the storage.
TokensKept ==
    mode = "serial" => \A c \in DOMAIN wasm : wasm[c].edited \/ SumFunction(wasm[c].tokens) = wasm[c].supply
=============================================================================
