----------------------------- MODULE Interfaces -----------------------------
(***************************************************************************)
(* What the build makes of the compiler's output: which contracts it keeps *)
(* (ContractCompiler), the map the deployer uploads from (Contracts), and  *)
(* the TypeScript class it generates for each contract                     *)
(* (ContractInterfaceGenerator).                                           *)
(*                                                                         *)
(* The compiler's output maps every source file to the contracts of the    *)
(* flattened file, the imported ones included: a name to an ABI (a         *)
(* sequence of entries) and whether there is bytecode.  <<"f">> is the     *)
(* name f, and <<n, "_">> the name n with an underscore behind it: the     *)
(* local method of the function n, or a function of that name.             *)
(***************************************************************************)
EXTENDS Naturals, Sequences, Functions

CONSTANTS
    FileOrder,      \* the source files, in the order of the compiler's output
    ContractOf,     \* the contract a file is named after
    Libraries,      \* the files under libraries/
    AbstractNames,  \* the names that begin with I or Base and a capital
    KnownTypes      \* the types getTsTypeFromPrimitive has a case for

AllFiles == DOMAIN ContractOf

ASSUME InterfacesParameters ==
    /\ FileOrder \in Seq(AllFiles) /\ Range(FileOrder) = AllFiles
    /\ Libraries \subseteq AllFiles
    /\ \A f, g \in AllFiles : ContractOf[f] = ContractOf[g] => f = g
    /\ "Controlled.sol" \in AllFiles /\ ContractOf["Controlled.sol"] = "Controlled"

-----------------------------------------------------------------------------
(* ContractCompiler *)

\* The files whose contract is kept: not an interface, and a library only if it
\* is the Delegator (or a Map).  Contracts a file merely imports or embeds are
\* not named after it.
Kept(output) ==
    {f \in DOMAIN output :
        /\ ContractOf[f] \in DOMAIN output[f] \ AbstractNames
        /\ f \in Libraries => ContractOf[f] \in {"Delegator", "Map"}}

filterCompilerOutput(output) == [f \in Kept(output) |-> output[f][ContractOf[f]]]

\* filterCompilerOutput throws for a contract that lacks a method.
FilterThrows(output) == \E f \in Kept(output) : ~output[f][ContractOf[f]].bytecode

\* The deployer's map from names to contracts; has and get answer for its domain.
Contracts(contracts) ==
    [c \in {ContractOf[f] : f \in DOMAIN contracts} |->
        contracts[CHOOSE f \in DOMAIN contracts : ContractOf[f] = c]]

\* The ABIs by the contracts' names.
generateAbiOutput(contracts) ==
    [c \in DOMAIN Contracts(contracts) |-> Contracts(contracts)[c].abi]

-----------------------------------------------------------------------------
(* ContractInterfaceGenerator *)

\* Where an ABI has its functions.
FunctionsOf(abi) == {k \in 1 .. Len(abi) : abi[k].type = "function"}

\* A fault to check against: overloaded functions get a method each.
EveryFunction(abi) == {abi[k] : k \in FunctionsOf(abi)}

\* The functions of an ABI, the first of every name: TypeScript has no overloading.
MethodFunctions(abi) ==
    {abi[k] : k \in {i \in FunctionsOf(abi) :
                       \A j \in FunctionsOf(abi) : j < i => abi[j].name # abi[i].name}}

\* The name of a local method is the function's with _ behind it.
LocalName(name) == <<name, "_">>

\* A local method for every function, a remote one too unless the function is
\* constant.
Method(f, local) ==
    [name |-> IF local THEN LocalName(f.name) ELSE f.name, local |-> local, abi |-> f]

\* A fault to check against: only constant functions can be called locally.
LocalIfConstant(abi) == {Method(f, f.constant) : f \in MethodFunctions(abi)}

Methods(abi) ==
    {Method(f, TRUE) : f \in MethodFunctions(abi)}
        \cup {Method(f, FALSE) : f \in {g \in MethodFunctions(abi) : ~g.constant}}

\* A parameter or the first result of a type without a case makes it throw.
TypesThrow(abi) ==
    \E f \in MethodFunctions(abi) :
        \/ \E t \in Range(f.inputs) : t \notin KnownTypes
        \/ f.outputs # <<>> /\ Head(f.outputs) \notin KnownTypes

contractInterfaceTemplate(name, abi) ==
    [name    |-> name,
     extends |-> IF name # "Controlled" /\ \E f \in MethodFunctions(abi) : f.name = <<"getController">>
                 THEN "Controlled" ELSE "Contract",
     methods |-> Methods(abi)]

\* The generated classes by their place in the file: Controlled first, as others
\* inherit from it, then every contract with an ABI in the order of the files.
Classes(contracts) ==
    LET classOf(f) == contractInterfaceTemplate(ContractOf[f], contracts[f].abi)
        others == {i \in DOMAIN FileOrder :
                      /\ FileOrder[i] \in DOMAIN contracts \ {"Controlled.sol"}
                      /\ contracts[FileOrder[i]].abi # <<>>}
    IN  [i \in {0} \cup others |->
            classOf(IF i = 0 THEN "Controlled.sol" ELSE FileOrder[i])]

GeneratorThrows(contracts) ==
    \/ "Controlled.sol" \notin DOMAIN contracts
    \/ \E f \in DOMAIN contracts : TypesThrow(contracts[f].abi)

-----------------------------------------------------------------------------

\* The class another one extends is declared before it.
BaseDeclared(classes, i) ==
    classes[i].extends = "Controlled" =>
        \E j \in DOMAIN classes : j < i /\ classes[j].name = "Controlled"

\* What tsc asks of the classes alone: no method twice, no base too late.  (Types
\* and the names of parameters, that options or abi may clash with, are left out.)
ClassesCompile(classes) ==
    \A i \in DOMAIN classes :
        /\ \A m, n \in classes[i].methods : m.name = n.name => m = n
        /\ BaseDeclared(classes, i)

\* The local method of f and the remote one of f_ have one name.
UnderscoreClash(m, n) ==
    m.local /\ ~n.local /\ n.abi.name = LocalName(m.abi.name)

\* The only methods of one name that a class has come from an ABI with a function
\* and another one that is named like it, with _ behind, and not constant.
OnlyUnderscoresClash(classes) ==
    \A i \in DOMAIN classes :
        /\ \A m, n \in classes[i].methods : m.name = n.name =>
               m = n \/ UnderscoreClash(m, n) \/ UnderscoreClash(n, m)
        /\ BaseDeclared(classes, i)

\* Whatever the deployer can upload it can also call: every function name of
\* every contract with an ABI has a local method, with the ABI of one of them.
ClassesCover(classes, contracts) ==
    \A f \in DOMAIN contracts :
        LET abi == contracts[f].abi
        IN  \A k \in FunctionsOf(abi) :
                \E i \in DOMAIN classes : \E m \in classes[i].methods :
                    /\ classes[i].name = ContractOf[f]
                    /\ m.local /\ m.name = LocalName(abi[k].name)
                    /\ \E j \in FunctionsOf(abi) : m.abi = abi[j]

=============================================================================
