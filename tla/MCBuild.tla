------------------------------- MODULE MCBuild -------------------------------
(* A small tree of contracts for Build: a contract that overloads a function  *)
(* and embeds a library, what it imports, an interface and a library.         *)
EXTENDS Build

Func(name, constant, inputs, outputs) ==
    [type |-> "function", name |-> <<name>>, constant |-> constant,
     inputs |-> inputs, outputs |-> outputs]
Event == [type |-> "event", name |-> <<"log">>, constant |-> FALSE, inputs |-> <<>>,
          outputs |-> <<>>]
GetController == Func("getController", TRUE, <<>>, <<"address">>)

Contract(abi) == [abi |-> abi, bytecode |-> TRUE]
Abstract(abi) == [abi |-> abi, bytecode |-> FALSE]

AugurAbi == <<Event, Func("create", FALSE, <<"address">>, <<>>),
              Func("create", FALSE, <<"address", "bytes32">>, <<>>), GetController>>
NewAbi == <<Func("create", FALSE, <<"bytes32">>, <<"bool">>), GetController>>
\* Its functions are create, and create_ that is not constant.
ClashAbi == <<Func("create", TRUE, <<>>, <<>>),
              [Func("create", FALSE, <<>>, <<>>) EXCEPT !.name = LocalName(<<"create">>)]>>
OddAbi == <<Func("create", FALSE, <<"tuple">>, <<>>)>>

Augur(contract, warns) ==
    [contracts |-> [c \in {"AugurLite", "Embedded"} |->
                        IF c = "AugurLite" THEN contract ELSE Contract(<<>>)],
     imports   |-> {"Controlled.sol", "IAugurLite.sol", "libraries/SafeMath.sol"},
     warns     |-> warns]

Single(name, contract) ==
    [contracts |-> [c \in {name} |-> contract], imports |-> {}, warns |-> FALSE]

MCContractOf ==
    [f \in {"AugurLite.sol", "Controlled.sol", "IAugurLite.sol", "libraries/SafeMath.sol"} |->
        CASE f = "AugurLite.sol"      -> "AugurLite"
          [] f = "Controlled.sol"     -> "Controlled"
          [] f = "IAugurLite.sol"     -> "IAugurLite"
          [] f = "libraries/SafeMath.sol" -> "SafeMath"]

MCFileOrder == <<"AugurLite.sol", "Controlled.sol", "IAugurLite.sol", "libraries/SafeMath.sol">>

\* Versions of AugurLite.sol: as it was, with a type the generator does not
\* know, abstract and with a warning, and with create_ beside create.
MCContent ==
    [f \in AllFiles |->
        CASE f = "AugurLite.sol"      -> <<Augur(Contract(AugurAbi), FALSE),
                                           Augur(Contract(OddAbi), FALSE),
                                           Augur(Abstract(NewAbi), TRUE),
                                           Augur(Contract(ClashAbi), FALSE)>>
          [] f = "Controlled.sol"     -> <<Single("Controlled", Contract(<<GetController>>))>>
          [] f = "IAugurLite.sol"     -> <<Single("IAugurLite", Abstract(NewAbi))>>
          [] f = "libraries/SafeMath.sol" -> <<Single("SafeMath", Contract(<<>>))>>]

MCLibraries == {"libraries/SafeMath.sol"}
MCAbstractNames == {"IAugurLite"}
MCKnownTypes == {"address", "bytes32", "bool"}
MCEditable == {"AugurLite.sol", "Controlled.sol"}

=============================================================================
