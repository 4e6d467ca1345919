-------------------------------- MODULE Evm --------------------------------
(***************************************************************************)
(* evm_interpreter.py and execution/evm_adapter.py: one execution of byte    *)
(* code, with the calls, creations and destructions it makes.  The byte code *)
(* is arbitrary: a frame may take any instruction next.  What an instruction *)
(* computes is left out; what it charges, and what it writes to the accounts *)
(* table before the execution is over, is kept.  Storage is one cell.        *)
(***************************************************************************)
EXTENDS Integers, Sequences, SequencesExt, FiniteSets, FiniteSetsExt

CONSTANTS
    People,         \* addresses without code
    CodeAddrs,      \* addresses a contract can have
    FirstContract,  \* the one that has code at the start
    EvmFunds,       \* balance of every address at the start
    GasLimit,       \* config.evm_gas_limit
    OpGas, CallGas, CreateGas, DestroyGas,  \* GAS_COSTS of an ordinary instruction, a
                    \* call, a creation and a self-destruction
    Stipend,        \* CALL_STIPEND
    Cells,          \* what the storage of a contract can hold; 0 when it is new
    Sends,          \* values a call can carry
    MaxDepth,       \* bound: frames of an execution
    MaxSent         \* bound: value sent in a behaviour

ASSUME EvmAssumption ==
    /\ FirstContract \in CodeAddrs /\ IsFiniteSet(People \cup CodeAddrs)
    /\ EvmFunds \in Nat /\ GasLimit \in Nat /\ Stipend \in Nat /\ Sends \subseteq Nat
    /\ {OpGas, CallGas, CreateGas, DestroyGas} \subseteq Nat

VARIABLES
    world,      \* table accounts: balance, code, storage, and whether there is a row
    frames,     \* the running EVM objects, the innermost last
    sent        \* value sent along with calls and creations so far

evmVars == <<world, frames, sent>>

Account(bal, code, store, row) == [bal |-> bal, code |-> code, store |-> store, row |-> row]

\* kind: how the frame came to be; self, from: ctx.address and ctx.caller; to: the
\* account whose code runs; cap: what the caller forwarded.
Frame(kind, self, from, to, value, cap, store) ==
    [kind |-> kind, self |-> self, from |-> from, to |-> to, value |-> value, cap |-> cap,
     limit |-> IF cap = 0 THEN GasLimit ELSE cap, used |-> 0, store |-> store]

Depth == Len(frames)
Top == frames[Depth]
Running(cost) == Depth > 0 /\ Top.used + cost <= Top.limit

-----------------------------------------------------------------------------
(* The accounts table *)

\* update_balance of the one, then of the other: a debit stops at 0.
Moved(w, a, b, v) ==
    LET paid == [w EXCEPT ![a].bal = IF @ >= v THEN @ - v ELSE 0]
    IN IF v = 0 THEN w ELSE [paid EXCEPT ![b].bal = @ + v, ![b].row = TRUE]

\* update_account_storage changes nothing where there is no row.
StorageSaved(w, a, s) == [w EXCEPT ![a].store = IF w[a].row THEN s ELSE @]

\* save_account, then the value is moved there as well.
ContractSaved(w, a, from, v, s) == Moved([w EXCEPT ![a] = Account(v, TRUE, s, TRUE)], from, a, v)

\* Mutant: the contract that is gone keeps its balance.
SelfDestructedKeeps(w, a, b) ==
    [w EXCEPT ![b].bal = @ + w[a].bal, ![a].code = FALSE, ![a].store = 0]

\* _selfdestruct_contract
SelfDestructed(w, a, b) == [Moved(w, a, b, w[a].bal) EXCEPT ![a] = Account(0, FALSE, 0, TRUE)]

-----------------------------------------------------------------------------
(* Instructions *)

\* Any instruction that changes neither storage nor the flow between frames.
Op ==
    /\ Running(OpGas)
    /\ frames' = [frames EXCEPT ![Depth].used = @ + OpGas]
    /\ UNCHANGED <<world, sent>>

SStore(s) ==
    /\ Running(OpGas)
    /\ frames' = [frames EXCEPT ![Depth].used = @ + OpGas, ![Depth].store = s]
    /\ UNCHANGED <<world, sent>>

\* Mutant: the stipend comes on top of whatever is left.
ForwardedUncapped(left, asked, v) ==
    LET cap == (left * 63) \div 64
        base == IF asked = 0 \/ asked > cap THEN cap ELSE asked
    IN IF v > 0 THEN base + Stipend ELSE base

\* _call_gas_cap, and the stipend of a call with value.
Forwarded(left, asked, v) ==
    LET cap == (left * 63) \div 64
        base == IF asked = 0 \/ asked > cap THEN cap ELSE asked
    IN IF v > 0 THEN Min({left, base + Stipend}) ELSE base

\* CALL, CALLCODE, DELEGATECALL, STATICCALL: without code there is nothing to run.
Call(kind, to, v, asked) ==
    /\ Running(CallGas) /\ Depth < MaxDepth /\ sent + v <= MaxSent
    /\ kind \in {"delegatecall", "staticcall"} => v = 0
    /\ LET me == [Top EXCEPT !.used = @ + CallGas]
           cap == Forwarded(me.limit - me.used, asked, v)
           sub == CASE kind = "delegatecall" -> Frame(kind, me.self, me.from, to, 0, cap, world[me.self].store)
                  []   kind = "callcode" -> Frame(kind, me.self, me.self, to, v, cap, world[me.self].store)
                  []   OTHER -> Frame(kind, to, me.self, to, v, cap, world[to].store)
       IN frames' = [frames EXCEPT ![Depth] = me] \o (IF world[to].code THEN <<sub>> ELSE <<>>)
    /\ sent' = sent + v
    /\ UNCHANGED world

\* CREATE, CREATE2: the address is a hash of creator, block and code, or of the salt,
\* so it may be one that exists; the init code runs with the full gas limit.
Create(a, v) ==
    /\ Running(CreateGas) /\ Depth < MaxDepth /\ sent + v <= MaxSent
    /\ frames' = Append([frames EXCEPT ![Depth].used = @ + CreateGas],
                        Frame("create", a, Top.self, a, v, 0, 0))
    /\ sent' = sent + v
    /\ UNCHANGED world

-----------------------------------------------------------------------------
(* The end of a frame *)

\* An exception runs up to the nearest creation, whose creator goes on and is charged
\* nothing, or through the whole execution.
Unwound(fs) ==
    LET creations == {i \in DOMAIN fs : fs[i].kind = "create"}
    IN IF creations = {} THEN <<>> ELSE SubSeq(fs, 1, Max(creations) - 1)

\* What is on disk once f has ended.
Settled(w, f, reverted) ==
    CASE f.kind \in {"static", "staticcall"} -> w
    []   f.kind = "delegatecall" -> StorageSaved(w, f.self, f.store)
    []   f.kind = "callcode" /\ reverted -> StorageSaved(w, f.self, f.store)
    []   f.kind = "callcode" /\ ~reverted -> Moved(StorageSaved(w, f.self, f.store), f.self, f.to, f.value)
    []   f.kind \in {"transaction", "call"} /\ ~reverted -> Moved(StorageSaved(w, f.to, f.store), f.from, f.to, f.value)
    []   f.kind \in {"deploy", "create"} /\ ~reverted -> ContractSaved(w, f.self, f.from, f.value, f.store)
    []   OTHER -> w

\* What the caller is charged, and the storage it goes on with.
Resumed(caller, f) ==
    [caller EXCEPT
        !.used = @ + (IF f.kind = "create" THEN f.used ELSE Min({f.used, f.cap})),
        !.store = IF f.kind \in {"delegatecall", "callcode"} THEN f.store ELSE @]

Ended(w, f, reverted) ==
    /\ world' = Settled(w, f, reverted)
    /\ LET rest == Front(frames)
           caller == Resumed(Last(rest), f)
       IN frames' = IF rest = <<>> THEN <<>>
                    ELSE IF caller.used > caller.limit THEN Unwound(rest)
                    ELSE [rest EXCEPT ![Len(rest)] = caller]

\* STOP, RETURN or the end of the code; REVERT.
Stop(reverted) ==
    /\ Depth > 0 /\ Ended(world, Top, reverted)
    /\ UNCHANGED sent

SelfDestruct(b) ==
    /\ Running(DestroyGas)
    /\ Ended(SelfDestructed(world, Top.self, b), [Top EXCEPT !.used = @ + DestroyGas], FALSE)
    /\ UNCHANGED sent

\* Out of gas, stack underflow, a bad jump, an instruction that is not supported.
Raise ==
    /\ Depth > 0 /\ frames' = Unwound(frames)
    /\ UNCHANGED <<world, sent>>

-----------------------------------------------------------------------------
(* The adapter *)

\* deploy_contract: the address is a hash of deployer and salt; byte code the
\* interpreter does not know is refused before.
DeployContract(who, a, v) ==
    /\ frames = <<>> /\ sent + v <= MaxSent
    /\ frames' = <<Frame("deploy", a, who, a, v, 0, 0)>>
    /\ sent' = sent + v
    /\ UNCHANGED world

CallContract(who, a, v) ==
    /\ frames = <<>> /\ sent + v <= MaxSent /\ world[a].code
    /\ frames' = <<Frame("transaction", a, who, a, v, 0, world[a].store)>>
    /\ sent' = sent + v
    /\ UNCHANGED world

\* static_call, estimate_gas: the frame's own storage is not saved.
StaticCall(a) ==
    /\ frames = <<>> /\ world[a].code
    /\ frames' = <<Frame("static", a, a, a, 0, 0, world[a].store)>>
    /\ UNCHANGED <<world, sent>>

PostContractDeploy == \E u \in People, a \in CodeAddrs, v \in Sends : DeployContract(u, a, v)

PostContractCall == \E u \in People, a \in CodeAddrs, v \in Sends : CallContract(u, a, v)

EthCall == \E a \in CodeAddrs : StaticCall(a)

EvmInit ==
    /\ world = [a \in People \cup CodeAddrs |->
                    Account(EvmFunds, a = FirstContract, 0, a \notin CodeAddrs \/ a = FirstContract)]
    /\ frames = <<>> /\ sent = 0

Instruction ==
    \/ Op \/ Raise
    \/ \E s \in Cells : SStore(s)
    \/ \E k \in {"call", "callcode", "delegatecall", "staticcall"}, a \in CodeAddrs, v \in Sends, g \in {0, 1} :
          Call(k, a, v, g)
    \/ \E a \in CodeAddrs, v \in Sends : Create(a, v)
    \/ \E r \in BOOLEAN : Stop(r)
    \/ \E b \in People \cup CodeAddrs : SelfDestruct(b)

EvmNext == PostContractDeploy \/ PostContractCall \/ EthCall \/ Instruction

-----------------------------------------------------------------------------
(* Properties *)

\* evm_interpreter.py: what a call forwarded still fits into the caller's gas while the
\* callee runs, so that a call that comes back never exhausts the caller.
ForwardedGasFits ==
    \A i \in 1..(Depth - 1) :
        frames[i + 1].kind # "create" => frames[i].used + frames[i + 1].cap <= frames[i].limit

\* evm_adapter.py: balances grow only by values that were sent along, whatever is
\* destroyed, created again or reverted in between; without value nothing is made.
MadeOnlyByValue ==
    MapThenSumSet(LAMBDA a : world[a].bal, DOMAIN world) <= EvmFunds * Cardinality(DOMAIN world) + 2 * sent
=============================================================================
