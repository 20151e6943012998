------------------------ MODULE SmartContractEngine ------------------------
(***************************************************************************)
(* class SmartContractEngine (src/core/smart_contract_engine.cpp): the     *)
(* contracts by their addresses, and the calls of one thread.              *)
(***************************************************************************)
EXTENDS Naturals, Sequences

CONSTANTS
    Bytecodes,  \* texts, as sequences of words; the empty text is among them
    Owners,     \* texts too
    Methods,    \* custom methods
    StateKeys,
    StateValues,
    MaxCalls    \* bound: calls that deploy or update

VARIABLES
    contracts,  \* address -> [bytecode, storage, owner, isActive]
    returned,   \* what the last call did, and what it returned
    log         \* history: the calls that deployed or updated

engineVars == <<contracts, returned, log>>

Init ==
    /\ contracts = <<>>
    /\ returned = <<"began">>
    /\ log = <<>>

\* SHA-256 is taken to be injective: the address is the text that it digests,
\* the owner's name right behind the bytecode.
Address(bytecode, owner) == bytecode \o owner

Addresses == {Address(bytecode, owner) : bytecode \in Bytecodes, owner \in Owners}

Opcodes == {"PUSH", "POP", "ADD", "SUB", "MUL", "DIV", "STORE", "LOAD", "CALL", "RETURN"}

Words(text) == {text[i] : i \in DOMAIN text}

\* parseOpcodes, declared nowhere, must skip the name of the constructor: every
\* contract has one and it is no opcode.
validateOpcodes(bytecode) == Words(bytecode) \ {"CONSTRUCTOR"} \subseteq Opcodes

validateContract(bytecode) ==
    /\ bytecode # <<>>
    /\ "CONSTRUCTOR" \in Words(bytecode)
    /\ validateOpcodes(bytecode)

\* Declared only.
isContractActive(address) ==
    /\ address \in DOMAIN contracts
    /\ contracts[address].isActive

Set(address, state) ==
    [a \in DOMAIN contracts \cup {address} |-> IF a = address THEN state ELSE contracts[a]]

NoStorage == <<>>

-----------------------------------------------------------------------------
Throws ==
    /\ returned' = <<"threw">>
    /\ UNCHANGED <<contracts, log>>

\* A contract that is deployed again keeps what it has stored.
deployContractDefect(bytecode, owner) ==
    LET address == Address(bytecode, owner)
    IN  IF ~validateContract(bytecode)
        THEN Throws
        ELSE /\ Len(log) < MaxCalls
             /\ contracts' = Set(address,
                  [bytecode |-> bytecode, owner |-> owner, isActive |-> TRUE,
                   storage |-> IF address \in DOMAIN contracts
                               THEN contracts[address].storage
                               ELSE NoStorage])
             /\ returned' = <<"deployed", address>>
             /\ log' = Append(log, [call |-> "deploy", address |-> address])

\* What was deployed at the address before is replaced, storage included.
deployContract(bytecode, owner) ==
    LET address == Address(bytecode, owner)
    IN  IF ~validateContract(bytecode)
        THEN Throws
        ELSE /\ Len(log) < MaxCalls
             /\ contracts' = Set(address,
                  [bytecode |-> bytecode, owner |-> owner, isActive |-> TRUE,
                   storage |-> NoStorage])
             /\ returned' = <<"deployed", address>>
             /\ log' = Append(log, [call |-> "deploy", address |-> address])

\* The number of parameters of the standard functions.
Arity == [transfer |-> 3, balanceOf |-> 1, approve |-> 3]

\* validateMethodCall is declared only and may refuse any call.  A standard
\* function given a wrong number of parameters throws, which is caught.  A custom
\* method runs the operations that parseBytecode returns: none.
executeContract(address, method, params) ==
    IF ~isContractActive(address)
    THEN Throws
    ELSE \E validMethodCall \in BOOLEAN :
           IF ~validMethodCall
           THEN Throws
           ELSE /\ returned' = <<"answered", method \in DOMAIN Arity => params = Arity[method]>>
                /\ UNCHANGED <<contracts, log>>

updateContractState(address, key, value) ==
    IF ~isContractActive(address)
    THEN returned' = <<"answered", FALSE>> /\ UNCHANGED <<contracts, log>>
    ELSE /\ Len(log) < MaxCalls
         /\ contracts' = [contracts EXCEPT ![address].storage =
              [k \in DOMAIN @ \cup {key} |-> IF k = key THEN value ELSE @[k]]]
         /\ returned' = <<"answered", TRUE>>
         /\ log' = Append(log, [call |-> "update", address |-> address,
                                key |-> key, value |-> value])

getContractState(address, key) ==
    IF isContractActive(address) /\ key \in DOMAIN contracts[address].storage
    THEN /\ returned' = <<"read", contracts[address].storage[key]>>
         /\ UNCHANGED <<contracts, log>>
    ELSE Throws

Next ==
    \/ \E bytecode \in Bytecodes, owner \in Owners : deployContract(bytecode, owner)
    \/ \E address \in Addresses, method \in Methods \cup DOMAIN Arity, params \in 1..3 :
         executeContract(address, method, params)
    \/ \E address \in Addresses, key \in StateKeys, value \in StateValues :
         updateContractState(address, key, value)
    \/ \E address \in Addresses, key \in StateKeys : getContractState(address, key)

-----------------------------------------------------------------------------
\* The position of the last call in the log that concerns key at address.
Last(address, key) ==
    LET concerns == {i \in DOMAIN log :
          /\ log[i].address = address
          /\ log[i].call = "deploy" \/ log[i].key = key}
    IN  CHOOSE i \in concerns \cup {0} : \A j \in concerns : j <= i

\* A contract stores what was last written since it was last deployed, no more
\* and no less: calls of its methods, the other contracts, refused calls and
\* deployments elsewhere leave it alone, and a deployment at its address, by
\* whoever shares it, empties it.
StorageIsLastWritten ==
    \A address \in Addresses : \A key \in StateKeys :
        LET i == Last(address, key)
            stored == address \in DOMAIN contracts /\ key \in DOMAIN contracts[address].storage
        IN  /\ address \in DOMAIN contracts <=> i # 0
            /\ stored <=> i # 0 /\ log[i].call = "update"
            /\ stored => contracts[address].storage[key] = log[i].value
=============================================================================
