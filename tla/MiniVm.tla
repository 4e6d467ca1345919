------------------------------- MODULE MiniVm -------------------------------
(***************************************************************************)
(* execution/vm.py and execution/contract_manager.py: a stack machine and    *)
(* the contracts it runs.  All threads of the REST server share the one      *)
(* machine of the manager, without a lock; an instruction is a step.  STORE   *)
(* stands for its aliases SSTORE and MSTORE, LOAD for SLOAD and MLOAD.        *)
(***************************************************************************)
EXTENDS Services

CONSTANTS
    MiniAddrs,      \* addresses of contracts
    Programs,       \* the programs that are deployed: instructions with an argument
    CallArgs,       \* arguments of a call
    VmGas,          \* MiniVM.gas_limit
    MaxRuns         \* bound on the calls of a contract

VARIABLES
    vm,             \* ContractManager.vm: pc, stack, storage, gas, running
    minivm,         \* ContractManager.contracts
    minivmDb        \* minivm_contracts

miniVars == <<bal, req, items, vm, minivm, minivmDb>>

\* Keys of a storage are numbers for the machine; what JSON has read are strings.
Num(k) == <<"number", k>>
Str(k) == <<"string", k>>

I(op, arg) == [op |-> op, arg |-> arg]

-----------------------------------------------------------------------------
(* MiniVM *)

Binary == {"ADD", "SUB", "MUL", "DIV", "EQ", "LT", "GT"}

GasCost(op) ==
    CASE op \in {"PUSH", "POP", "INC", "DEC"} -> 2
    []   op \in {"ADD", "SUB", "EQ", "LT", "GT"} -> 3
    []   op \in {"MUL", "DIV"} -> 5
    []   op \in {"STORE", "LOAD"} -> 20
    []   op = "STOP" -> 0
    []   OTHER -> 1

Pops(op) ==
    CASE op \in Binary \cup {"STORE", "JUMPI"} -> 2
    []   op \in {"POP", "LOAD", "JUMP"} -> 1
    []   OTHER -> 0

Flag(p) == IF p THEN 1 ELSE 0

\* Division rounds down, by zero it gives zero.
Result(op, a, b) ==
    CASE op = "ADD" -> a + b
    []   op = "SUB" -> a - b
    []   op = "MUL" -> a * b
    []   op = "DIV" -> IF b = 0 THEN 0 ELSE IF b > 0 THEN a \div b ELSE (-a) \div (-b)
    []   op = "EQ" -> Flag(a = b)
    []   op = "LT" -> Flag(a < b)
    []   op = "GT" -> Flag(a > b)

Known(op) == op \in Binary \cup {"PUSH", "POP", "STORE", "LOAD", "INC", "DEC", "JUMP", "JUMPI", "STOP"}

Top(v, i) == v.stack[Len(v.stack) + 1 - i]
Jumps(v, op) == op = "JUMP" \/ (op = "JUMPI" /\ Top(v, 2) # 0)

\* An exception: out of gas, a stack too short, a jump out of the code, no such opcode.
Raises(v, i, size) ==
    \/ ~Known(i.op) \/ v.gas + GasCost(i.op) > VmGas \/ Len(v.stack) < Pops(i.op)
    \/ Len(v.stack) >= Pops(i.op) /\ Jumps(v, i.op) /\ Top(v, 1) \notin 0..(size - 1)

Executed(v, i) ==
    LET rest == SubSeq(v.stack, 1, Len(v.stack) - Pops(i.op))
        count == IF v.stack = <<>> THEN <<0>> ELSE v.stack
        bump(x) == [count EXCEPT ![Len(count)] = @ + x]
    IN [gas |-> v.gas + GasCost(i.op),
        running |-> i.op # "STOP",
        pc |-> IF Jumps(v, i.op) THEN Top(v, 1) + 1 ELSE IF i.op = "STOP" THEN v.pc ELSE v.pc + 1,
        storage |-> IF i.op = "STORE" THEN With(v.storage, Num(Top(v, 2)), Top(v, 1)) ELSE v.storage,
        stack |-> CASE i.op = "PUSH" -> Append(rest, i.arg)
                  []   i.op \in Binary -> Append(rest, Result(i.op, Top(v, 2), Top(v, 1)))
                  []   i.op = "LOAD" -> Append(rest, IF Num(Top(v, 1)) \in DOMAIN v.storage
                                                     THEN v.storage[Num(Top(v, 1))] ELSE 0)
                  []   i.op = "INC" -> bump(1)
                  []   i.op = "DEC" -> bump(-1)
                  []   OTHER -> rest]

-----------------------------------------------------------------------------
(* save_minivm_contract, load_minivm_contracts *)

\* JSON has string keys only; of two that become the same the later one stays, and
\* the machine's numbers come after what was loaded.
ToRow(c) ==
    [c EXCEPT !.storage =
        [k \in {x[2] : x \in DOMAIN c.storage} |->
            IF Num(k) \in DOMAIN c.storage THEN c.storage[Num(k)] ELSE c.storage[Str(k)]]]

\* After a restart the machine, which looks for numbers, finds none of the old keys.
FromRow(row) == [row EXCEPT !.storage = [x \in {Str(k) : k \in DOMAIN row.storage} |-> row.storage[x[2]]]]

-----------------------------------------------------------------------------
(* ContractManager *)

\* initial comes out of the body of a request: its keys are strings.
MiniDeploy(h, a, code, initial) ==
    /\ a \notin DOMAIN minivm
    /\ LET c == [code |-> code, storage |-> initial, calls |-> 0]
       IN /\ minivm' = With(minivm, a, c)
          /\ Begins(h, Request("mini", "save", a, ToRow(c), 0))
    /\ UNCHANGED <<bal, items, vm, minivmDb>>

\* Mutant: the contract's storage is put on top of what the machine holds.
RestoredOnto(a) == [k \in DOMAIN vm.storage \cup DOMAIN minivm[a].storage |->
                       IF k \in DOMAIN minivm[a].storage THEN minivm[a].storage[k] ELSE vm.storage[k]]

Restored(a) == minivm[a].storage

\* The arguments are pushed by instructions in front of the program, so that its
\* jumps land that much earlier.
MiniCall(h, a, args) ==
    /\ a \in DOMAIN minivm /\ minivm[a].calls < MaxRuns
    /\ vm' = [pc |-> 1, stack |-> <<>>, storage |-> Restored(a), gas |-> 0, running |-> TRUE]
    /\ Begins(h, Request("mini", "run", a,
           [j \in DOMAIN args |-> I("PUSH", args[j])] \o minivm[a].code \o <<I("STOP", 0)>>, 0))
    /\ UNCHANGED <<bal, items, minivm, minivmDb>>

Runs(h) == At(h, "mini", "run") /\ vm.running /\ vm.pc <= Len(req[h].user)

VmStep(h) ==
    LET i == req[h].user[vm.pc]
    IN /\ Runs(h) /\ ~Raises(vm, i, Len(req[h].user))
       /\ vm' = Executed(vm, i)
       /\ UNCHANGED <<bal, req, items, minivm, minivmDb>>

\* The exception ends the request; the machine keeps what it has.
VmRaises(h) ==
    /\ Runs(h) /\ Raises(vm, req[h].user[vm.pc], Len(req[h].user))
    /\ Ends(h)
    /\ UNCHANGED <<bal, items, vm, minivm, minivmDb>>

\* The end of execute: the machine's storage becomes the contract's.
MiniReturns(h) ==
    /\ At(h, "mini", "run") /\ ~Runs(h)
    /\ LET a == req[h].id
           c == [minivm[a] EXCEPT !.storage = vm.storage, !.calls = @ + 1]
       IN /\ minivm' = [minivm EXCEPT ![a] = c]
          /\ req' = [req EXCEPT ![h] = Request("mini", "save", a, ToRow(c), 0)]
    /\ UNCHANGED <<bal, items, vm, minivmDb>>

\* _persist hands over the contract as it was when it was called.
MiniSave(h) ==
    /\ At(h, "mini", "save")
    /\ minivmDb' = With(minivmDb, req[h].id, req[h].user)
    /\ Ends(h)
    /\ UNCHANGED <<bal, items, vm, minivm>>

-----------------------------------------------------------------------------

PostMiniVmDeploy(h) ==
    \E a \in MiniAddrs, p \in Programs, x \in {Nothing, [k \in {Str(1)} |-> 1]} : MiniDeploy(h, a, p, x)

PostMiniVmCall(h) == \E a \in DOMAIN minivm, args \in CallArgs : MiniCall(h, a, args)

EmptyVm == [pc |-> 1, stack |-> <<>>, storage |-> Nothing, gas |-> 0, running |-> TRUE]

MiniInit == vm = EmptyVm /\ minivm = Nothing /\ minivmDb = Nothing

MiniRestart ==
    /\ vm' = EmptyVm
    /\ minivm' = [a \in DOMAIN minivmDb |-> FromRow(minivmDb[a])]
    /\ UNCHANGED minivmDb

MiniNext ==
    \E h \in Handlers :
        PostMiniVmDeploy(h) \/ PostMiniVmCall(h) \/ VmStep(h) \/ VmRaises(h) \/ MiniReturns(h) \/ MiniSave(h)

-----------------------------------------------------------------------------
(* Properties *)

Pushed(code) == {code[i].arg : i \in {j \in DOMAIN code : code[j].op = "PUSH"}}

\* One request after another, a contract's storage holds only what it was deployed
\* with and what its own program can have written, although every contract runs on
\* the same machine and a call may end in an exception halfway.
StorageIsOwn ==
    mode = "serial" => \A a \in DOMAIN minivm : DOMAIN minivm[a].storage \subseteq {Str(1)} \cup {Num(k) : k \in Pushed(minivm[a].code)}

\* What the top of the stack holds before each instruction of a program without jumps,
\* as far as the program itself has filled it: constants and values it has computed.
Left(sh, n) == SubSeq(sh, 1, IF Len(sh) < n THEN 0 ELSE Len(sh) - n)

ShapeAfter(sh, op) ==
    LET rest == Left(sh, Pops(op))
    IN IF op = "PUSH" THEN Append(rest, "pushed")
       ELSE IF op \in Binary \cup {"LOAD"} THEN Append(rest, "computed")
       ELSE IF op \in {"INC", "DEC"} /\ sh # <<>> THEN [sh EXCEPT ![Len(sh)] = "computed"]
       ELSE rest

Shapes(p) ==
    LET f[j \in 0..Len(p)] == IF j = 0 THEN <<>> ELSE ShapeAfter(f[j - 1], p[j].op)
    IN f

Straight(p) ==
    /\ \A j \in DOMAIN p : p[j].op \notin {"JUMP", "JUMPI"}
    /\ \A j \in DOMAIN p : p[j].op = "STORE" =>
          Len(Shapes(p)[j - 1]) >= 2 /\ Shapes(p)[j - 1][Len(Shapes(p)[j - 1]) - 1] = "pushed"

NeverStores(p) == \A j \in DOMAIN p : p[j].op # "STORE"

\* The programs that StorageIsOwn is about: they store nothing, or have no jump and store
\* at keys that they pushed.  A key that is computed, or an argument, is in no Pushed(code).
KeysArePushed ==
    /\ \A p \in Programs : p \in Seq([op : STRING, arg : Int]) /\ (Straight(p) \/ NeverStores(p))
    /\ CallArgs \subseteq Seq(Int)
=============================================================================
