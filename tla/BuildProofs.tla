----------------------------- MODULE BuildProofs -----------------------------
(***************************************************************************)
(* The build beside a developer, proved for any sources, any changes of    *)
(* them and any number of scripts, crashes and killed flatteners.          *)
(***************************************************************************)
EXTENDS Build, WellFoundedInduction, TLAPS

(* What is generated *)

LEMMA LeastPosition ==
    ASSUME NEW T \in SUBSET Nat, T # {}
    PROVE  \E n \in T : \A m \in T : n <= m
<1>1. PICK n \in T : \A m \in T : ~ (<<m, n>> \in OpToRel(<, Nat))
  BY NatLessThanWellFounded, WFMin
<1>2. \A m \in T : ~ (m < n)
  BY <1>1 DEF OpToRel
<1> QED
  BY <1>2

\* Every name of a function has a method's function, and one only.
LEMMA OneOfEachName ==
    ASSUME NEW abi, NEW f \in MethodFunctions(abi), NEW g \in MethodFunctions(abi),
           f.name = g.name
    PROVE  f = g
BY DEF MethodFunctions, FunctionsOf

LEMMA EveryNameIsKept ==
    ASSUME NEW abi, NEW k \in FunctionsOf(abi)
    PROVE  \E j \in FunctionsOf(abi) : /\ abi[j].name = abi[k].name
                                       /\ abi[j] \in MethodFunctions(abi)
<1> DEFINE T == {j \in FunctionsOf(abi) : abi[j].name = abi[k].name}
<1>1. T \in SUBSET Nat /\ k \in T
  BY DEF FunctionsOf
<1>2. PICK j \in T : \A i \in T : j <= i
  <2> HIDE DEF T
  <2> QED
    BY <1>1, LeastPosition
<1>3. ASSUME NEW i \in FunctionsOf(abi), i < j
      PROVE  abi[i].name # abi[j].name
  <2>1. i \in Nat /\ j \in Nat /\ ~ (j <= i)
    BY <1>3 DEF FunctionsOf
  <2> QED
    BY <1>2, <2>1
<1> QED
  BY <1>2, <1>3 DEF MethodFunctions

\* Two methods of one class that have one name are the local method of a function
\* and the remote one of the function with _ behind.
LEMMA MethodsApart ==
    ASSUME NEW abi, NEW m \in Methods(abi), NEW n \in Methods(abi), m.name = n.name
    PROVE  m = n \/ UnderscoreClash(m, n) \/ UnderscoreClash(n, m)
<1>1. ASSUME NEW x \in Methods(abi)
      PROVE  \E f \in MethodFunctions(abi), local \in BOOLEAN :
                 /\ x = Method(f, local) /\ x.local = local /\ x.abi = f
                 /\ x.name = IF local THEN LocalName(f.name) ELSE f.name
  <2>1. CASE \E f \in MethodFunctions(abi) : x = Method(f, TRUE)
    <3>1. PICK f \in MethodFunctions(abi) : x = Method(f, TRUE)
      BY <2>1
    <3>2. x.local = TRUE /\ x.abi = f /\ x.name = LocalName(f.name)
      BY <3>1 DEF Method
    <3> WITNESS f \in MethodFunctions(abi), TRUE \in BOOLEAN
    <3> QED
      BY <3>1, <3>2
  <2>2. CASE \E f \in MethodFunctions(abi) : x = Method(f, FALSE)
    <3>1. PICK f \in MethodFunctions(abi) : x = Method(f, FALSE)
      BY <2>2
    <3>2. x.local = FALSE /\ x.abi = f /\ x.name = f.name
      BY <3>1 DEF Method
    <3> WITNESS f \in MethodFunctions(abi), FALSE \in BOOLEAN
    <3> QED
      BY <3>1, <3>2
  <2> QED
    BY <1>1, <2>1, <2>2 DEF Methods
<1>2. PICK f \in MethodFunctions(abi), l \in BOOLEAN :
          /\ m = Method(f, l) /\ m.local = l /\ m.abi = f
          /\ m.name = IF l THEN LocalName(f.name) ELSE f.name
  BY <1>1
<1>3. PICK g \in MethodFunctions(abi), k \in BOOLEAN :
          /\ n = Method(g, k) /\ n.local = k /\ n.abi = g
          /\ n.name = IF k THEN LocalName(g.name) ELSE g.name
  BY <1>1
<1>4. CASE l = k
  <2>1. CASE l
    <3>1. <<f.name, "_">> = <<g.name, "_">>
      BY <1>2, <1>3, <1>4, <2>1 DEF LocalName
    <3> QED
      BY <1>2, <1>3, <1>4, <2>1, <3>1, OneOfEachName
  <2>2. CASE ~l
    BY <1>2, <1>3, <1>4, <2>2, OneOfEachName
  <2> QED
    BY <2>1, <2>2
<1>5. CASE l /\ ~k
  BY <1>2, <1>3, <1>5 DEF UnderscoreClash
<1>6. CASE ~l /\ k
  BY <1>2, <1>3, <1>6 DEF UnderscoreClash
<1> QED
  BY <1>4, <1>5, <1>6

\* Where the classes are, and what they are.
LEMMA ClassAt ==
    ASSUME NEW contracts
    PROVE  /\ 0 \in DOMAIN Classes(contracts) /\ DOMAIN Classes(contracts) \subseteq Nat
           /\ Classes(contracts)[0].name = "Controlled"
           /\ Classes(contracts)[0].methods = Methods(contracts["Controlled.sol"].abi)
           /\ Classes(contracts)[0].extends # "Controlled"
           /\ \A i \in DOMAIN Classes(contracts) \ {0} :
                  /\ Classes(contracts)[i].name = ContractOf[FileOrder[i]]
                  /\ Classes(contracts)[i].methods = Methods(contracts[FileOrder[i]].abi)
           /\ \A i \in DOMAIN FileOrder :
                  /\ FileOrder[i] \in DOMAIN contracts \ {"Controlled.sol"}
                  /\ contracts[FileOrder[i]].abi # <<>>
                  => i \in DOMAIN Classes(contracts) \ {0}
<1>1. DOMAIN FileOrder \subseteq Nat \ {0}
  BY InterfacesParameters
<1> QED
  BY <1>1, InterfacesParameters DEF Classes, contractInterfaceTemplate

\* What is generated has no other clash, whatever the contracts.
LEMMA ClassesClashOnlySo ==
    ASSUME NEW contracts
    PROVE  OnlyUnderscoresClash(Classes(contracts))
<1>1. /\ 0 \in DOMAIN Classes(contracts) /\ DOMAIN Classes(contracts) \subseteq Nat
      /\ Classes(contracts)[0].name = "Controlled"
      /\ Classes(contracts)[0].extends # "Controlled"
  BY ClassAt
<1>2. ASSUME NEW i \in DOMAIN Classes(contracts)
      PROVE  \E abi : Classes(contracts)[i].methods = Methods(abi)
  <2>1. i = 0 => Classes(contracts)[i].methods = Methods(contracts["Controlled.sol"].abi)
    BY ClassAt
  <2>2. i # 0 => Classes(contracts)[i].methods = Methods(contracts[FileOrder[i]].abi)
    BY ClassAt
  <2> QED
    BY <2>1, <2>2
<1>3. ASSUME NEW i \in DOMAIN Classes(contracts), NEW m \in Classes(contracts)[i].methods,
             NEW n \in Classes(contracts)[i].methods, m.name = n.name
      PROVE  m = n \/ UnderscoreClash(m, n) \/ UnderscoreClash(n, m)
  <2>1. PICK abi : Classes(contracts)[i].methods = Methods(abi)
    BY <1>2
  <2> QED
    BY <1>3, <2>1, MethodsApart
<1>4. ASSUME NEW i \in DOMAIN Classes(contracts), Classes(contracts)[i].extends = "Controlled"
      PROVE  \E j \in DOMAIN Classes(contracts) :
                 j < i /\ Classes(contracts)[j].name = "Controlled"
  <2>1. i \in Nat /\ i # 0
    BY <1>1, <1>4
  <2>2. 0 < i
    BY <2>1
  <2> QED
    BY <1>1, <2>2
<1> QED
  BY <1>3, <1>4 DEF OnlyUnderscoresClash, BaseDeclared

\* And it covers the contracts of the source files that it was generated from.
LEMMA ClassesCoverContracts ==
    ASSUME NEW contracts, DOMAIN contracts \subseteq AllFiles
    PROVE  ClassesCover(Classes(contracts), contracts)
<1> SUFFICES ASSUME NEW f \in DOMAIN contracts, NEW k \in FunctionsOf(contracts[f].abi)
             PROVE  \E i \in DOMAIN Classes(contracts) :
                        \E m \in Classes(contracts)[i].methods :
                            /\ Classes(contracts)[i].name = ContractOf[f]
                            /\ m.local /\ m.name = LocalName(contracts[f].abi[k].name)
                            /\ \E j \in FunctionsOf(contracts[f].abi) :
                                   m.abi = contracts[f].abi[j]
  BY DEF ClassesCover
<1> DEFINE abi == contracts[f].abi
<1>1. abi # <<>>
  BY DEF FunctionsOf
<1>2. PICK i \in DOMAIN Classes(contracts) :
          /\ Classes(contracts)[i].name = ContractOf[f]
          /\ Classes(contracts)[i].methods = Methods(contracts[f].abi)
  <2>1. CASE f = "Controlled.sol"
    BY <2>1, ClassAt, InterfacesParameters
  <2>2. CASE f # "Controlled.sol"
    <3>1. PICK i \in DOMAIN FileOrder : FileOrder[i] = f
      BY InterfacesParameters DEF Range
    <3> QED
      BY <1>1, <2>2, <3>1, ClassAt
  <2> QED
    BY <2>1, <2>2
<1>3. PICK j \in FunctionsOf(abi) : /\ abi[j].name = abi[k].name
                                    /\ abi[j] \in MethodFunctions(abi)
  BY EveryNameIsKept
<1>4. Method(abi[j], TRUE) \in Methods(abi)
  BY <1>3 DEF Methods
<1>5. /\ Method(abi[j], TRUE).local /\ Method(abi[j], TRUE).name = LocalName(abi[k].name)
      /\ Method(abi[j], TRUE).abi = abi[j]
  BY <1>3 DEF Method
<1> QED
  BY <1>2, <1>4, <1>5

-----------------------------------------------------------------------------
(* Who changes what *)

LEMMA ScriptFacts ==
    /\ Head(<<"source", "contracts", "interfaces">>) = "source"
    /\ Tail(<<"source", "contracts", "interfaces">>) = <<"contracts", "interfaces">>
    /\ Head(<<"contracts", "interfaces">>) = "contracts"
    /\ Tail(<<"contracts", "interfaces">>) = <<"interfaces">>
    /\ Head(<<"interfaces">>) = "interfaces" /\ Tail(<<"interfaces">>) = <<>>
    /\ Head(<<"deploy">>) = "deploy" /\ Tail(<<"deploy">>) = <<>>
OBVIOUS

LEMMA ChangesOfContracts ==
    Next => \/ UNCHANGED contractsFile
            \/ OpenContracts
            \/ WriteContracts
BY DEF Next, Program, Tsc, Stat, Scan, ReadCache, List, Solc, OpenAbi, WriteAbi, Return,
   Generate, WriteInterfaces, Flatten, Start, FlattenKilled, Remove, Edit, Tick, Crash,
   Change, diskVars

LEMMA ChangesOfAbi ==
    Next => \/ UNCHANGED abiFile
            \/ OpenAbi
            \/ WriteAbi
BY DEF Next, Program, Tsc, Stat, Scan, ReadCache, List, Solc, OpenContracts,
   WriteContracts, Return, Generate, WriteInterfaces, Flatten, Start, FlattenKilled,
   Remove, Edit, Tick, Crash, Change, diskVars

LEMMA ChangesOfSources ==
    Next => \/ UNCHANGED sources
            \/ \E f \in Editable :
                   Remove(f) \/ \E v \in DOMAIN Content[f], time \in 0 .. clock : Edit(f, v, time)
BY DEF Next, Program, Tsc, Stat, Scan, ReadCache, List, Solc, OpenContracts,
   WriteContracts, OpenAbi, WriteAbi, Return, Generate, WriteInterfaces, Flatten, Start,
   FlattenKilled, Tick, Crash, Goto

LEMMA ChangesOfClock ==
    Next => \/ UNCHANGED clock
            \/ Tick
BY DEF Next, Program, Tsc, Stat, Scan, ReadCache, List, Solc, OpenContracts,
   WriteContracts, OpenAbi, WriteAbi, Return, Generate, WriteInterfaces, Flatten, Start,
   FlattenKilled, Remove, Edit, Change, Crash, Goto

LEMMA ChangesOfInterfaces ==
    Next => \/ UNCHANGED interfacesFile
            \/ Generate
            \/ WriteInterfaces
BY DEF Next, Program, Tsc, Stat, Scan, ReadCache, List, Solc, OpenContracts,
   WriteContracts, OpenAbi, WriteAbi, Return, Flatten, Start, FlattenKilled, Remove, Edit,
   Tick, Crash, Change, diskVars

LEMMA ChangesOfFiles ==
    Next => \/ UNCHANGED <<files, filePaths>>
            \/ files' = <<>> /\ (filePaths' = {} \/ List)
            \/ \E f \in AllFiles : (Flatten(f) /\ ~ProgramThrows) \/ FlattenKilled(f)
BY DEF Next, Program, Tsc, Stat, Scan, ReadCache, List, Solc, OpenContracts,
   WriteContracts, OpenAbi, WriteAbi, Return, Generate, WriteInterfaces, Flatten, Start,
   Remove, Edit, Change, Tick, Crash, localVars, ProgramThrows, ProgramEnds, Forget

-----------------------------------------------------------------------------
(* Types *)

LEMMA ClockStays ==
    ASSUME TypeOK, Next
    PROVE  clock' \in 1 .. MaxClock /\ clock <= clock'
BY ChangesOfClock, BuildParameters DEF TypeOK, Tick

LEMMA SourcesStay ==
    ASSUME TypeOK, Types, Next
    PROVE  /\ DOMAIN sources' \subseteq AllFiles
           /\ \A f \in DOMAIN sources' : sources'[f].mtime \in 0 .. clock'
<1>1. CASE UNCHANGED sources
  BY <1>1, ClockStays DEF TypeOK, Types
<1>2. ASSUME NEW f \in Editable, Remove(f)
      PROVE  /\ DOMAIN sources' \subseteq AllFiles
             /\ \A g \in DOMAIN sources' : sources'[g].mtime \in 0 .. clock'
  BY <1>2 DEF TypeOK, Types, Remove, Change
<1>3. ASSUME NEW f \in Editable, NEW v \in DOMAIN Content[f], NEW time \in 0 .. clock,
             Edit(f, v, time)
      PROVE  /\ DOMAIN sources' \subseteq AllFiles
             /\ \A g \in DOMAIN sources' : sources'[g].mtime \in 0 .. clock'
  BY <1>3, BuildParameters DEF TypeOK, Types, Edit, Change
<1> QED
  BY <1>1, <1>2, <1>3, ChangesOfSources

LEMMA DiskStays ==
    ASSUME TypeOK, Next
    PROVE  /\ {contractsFile.state, abiFile.state, interfacesFile.state}'
                  \subseteq {"none", "torn", "whole"}
           /\ {contractsFile.mtime, abiFile.mtime, interfacesFile.mtime}' \subseteq 0 .. clock'
<1>1. /\ contractsFile.state' \in {"none", "torn", "whole"}
      /\ contractsFile.mtime' \in 0 .. clock'
  BY ClockStays, ChangesOfContracts DEF TypeOK, OpenContracts, WriteContracts, File
<1>2. /\ abiFile.state' \in {"none", "torn", "whole"}
      /\ abiFile.mtime' \in 0 .. clock'
  BY ClockStays, ChangesOfAbi DEF TypeOK, OpenAbi, WriteAbi, File
<1>3. /\ interfacesFile.state' \in {"none", "torn", "whole"}
      /\ interfacesFile.mtime' \in 0 .. clock'
  <2>1. CASE UNCHANGED interfacesFile
    BY <2>1, ClockStays DEF TypeOK
  <2>2. CASE Generate
    BY <2>2, ClockStays DEF TypeOK, Generate, Goto, File
  <2>3. CASE WriteInterfaces
    BY <2>3, ClockStays DEF TypeOK, WriteInterfaces, File
  <2> QED
    BY <2>1, <2>2, <2>3, ChangesOfInterfaces
<1> QED
  BY <1>1, <1>2, <1>3

\* A program ends, or it goes on; scripts start and are killed.
LEMMA Moves ==
    ASSUME TypeOK, Types, Next
    PROVE  \/ script # <<>> /\ (ProgramEnds(TRUE) \/ ProgramEnds(FALSE))
           \/ \E s \in Scripts : Start(s)
           \/ Crash
           \/ /\ script # <<>> /\ ~At("source") /\ pc' \in Labels \ {"idle", "start"}
              /\ pc' = "writeInterfaces" => At("interfaces")
              /\ UNCHANGED <<script, builds, undisturbed>>
           \/ UNCHANGED <<script, pc>> /\ (UNCHANGED builds \/ builds' = 0)
<1>1. At("contracts") \in BOOLEAN
  BY DEF At
<1> QED
  BY <1>1 DEF TypeOK, Types, At, Labels, Next, Program, Tsc, Stat, Scan, ReadCache, List,
     Solc, OpenContracts, WriteContracts, OpenAbi, WriteAbi, Return, Generate,
     WriteInterfaces, Flatten, Start, FlattenKilled, Remove, Edit, Change, Tick, Crash,
     ProgramThrows, Goto, AfterCatch, AfterContracts, historyVars

\* A program runs from its start on, and a script is one of those there are or a
\* rest of the build.
LEMMA ScriptStays ==
    ASSUME TypeOK, Types, Next
    PROVE  /\ script' \in Scripts \cup {<<"contracts", "interfaces">>, <<>>}
           /\ pc' \in Labels /\ (pc' = "idle" <=> script' = <<>>)
           /\ (pc \notin {"idle", "start"} => ~At("source"))'
           /\ (pc = "writeInterfaces" => At("interfaces"))'
<1> DEFINE all == Scripts \cup {<<"contracts", "interfaces">>, <<>>}
<1>1. CASE script # <<>> /\ (ProgramEnds(TRUE) \/ ProgramEnds(FALSE))
  <2>1. Tail(script) \in all /\ <<>> \in all
    BY <1>1, ScriptFacts DEF TypeOK, Scripts
  <2> HIDE DEF all
  <2>2. script' \in all /\ pc' = IF script' = <<>> THEN "idle" ELSE "start"
    BY <1>1, <2>1 DEF ProgramEnds
  <2> QED
    BY <2>2 DEF Labels, all
<1>2. CASE \E s \in Scripts : Start(s)
  BY <1>2 DEF Start, Scripts, Labels
<1>3. CASE Crash
  BY <1>3 DEF Crash, Labels
<1>4. CASE /\ script # <<>> /\ ~At("source") /\ pc' \in Labels \ {"idle", "start"}
           /\ pc' = "writeInterfaces" => At("interfaces")
           /\ UNCHANGED script
  BY <1>4 DEF TypeOK, At
<1>5. CASE UNCHANGED <<script, pc>>
  BY <1>5 DEF TypeOK, Types, At
<1> QED
  BY <1>1, <1>2, <1>3, <1>4, <1>5, Moves

LEMMA BuildsStay ==
    ASSUME TypeOK, Types, Next
    PROVE  builds' \in 0 .. 2
<1>1. builds \in {0, 1, 2}
  BY DEF TypeOK
<1>2. CASE ProgramEnds(TRUE)
  BY <1>1, <1>2 DEF ProgramEnds
<1>3. CASE ProgramEnds(FALSE)
  BY <1>3 DEF ProgramEnds
<1>4. CASE Crash \/ \E s \in Scripts : Start(s)
  BY <1>1, <1>4 DEF Start, Crash
<1>5. CASE UNCHANGED builds \/ builds' = 0
  BY <1>1, <1>5
<1> QED
  BY <1>2, <1>3, <1>4, <1>5, Moves

LEMMA FilesStay ==
    ASSUME TypeOK, Types, Next
    PROVE  /\ DOMAIN files' \subseteq filePaths'
           /\ files' = [f \in DOMAIN files' |-> files'[f]]
<1>1. CASE UNCHANGED <<files, filePaths>>
  BY <1>1 DEF TypeOK, Types
<1>2. CASE files' = <<>> /\ (filePaths' = {} \/ List)
  BY <1>2
<1>3. ASSUME NEW f \in AllFiles, Flatten(f), ~ProgramThrows
      PROVE  /\ DOMAIN files' \subseteq filePaths'
             /\ files' = [g \in DOMAIN files' |-> files'[g]]
  BY <1>3 DEF TypeOK, Flatten, Pending
<1>4. ASSUME NEW f \in AllFiles, FlattenKilled(f)
      PROVE  /\ DOMAIN files' \subseteq filePaths'
             /\ files' = [g \in DOMAIN files' |-> files'[g]]
  BY <1>4 DEF TypeOK, FlattenKilled, Pending
<1> QED
  BY <1>1, <1>2, <1>3, <1>4, ChangesOfFiles

LEMMA FilesComplete ==
    ASSUME TypeOK, Types, Next,
           pc' \in {"openContracts", "writeContracts", "openAbi", "writeAbi"}
    PROVE  DOMAIN files' = filePaths'
<1>1. \/ /\ UNCHANGED <<files, filePaths>>
         /\ pc \in {"openContracts", "writeContracts", "openAbi"}
      \/ UNCHANGED <<files, filePaths, pc>>
      \/ Solc /\ UNCHANGED <<files, filePaths>>
  BY DEF TypeOK, Next, Program, Tsc, Stat, Scan, ReadCache, List, Solc, OpenContracts,
     WriteContracts, OpenAbi, WriteAbi, Return, Generate, WriteInterfaces, Flatten, Start,
     FlattenKilled, Remove, Edit, Change, Tick, Crash, ProgramThrows, ProgramEnds, Goto,
     AfterCatch, AfterContracts, localVars
<1> QED
  BY <1>1 DEF TypeOK, Solc, Pending

LEMMA TypesStay ==
    ASSUME TypeOK, Types, Next
    PROVE  TypeOK' /\ Types'
<1>1. TypeOK'
  BY ClockStays, SourcesStay, DiskStays, ScriptStays, FilesStay, FilesComplete, BuildsStay
  DEF TypeOK
<1>2. Types'
  BY SourcesStay, ScriptStays, FilesStay DEF Types
<1> QED
  BY <1>1, <1>2

-----------------------------------------------------------------------------
(* The output files *)

LEMMA ResultOnDiskStays ==
    ASSUME TypeOK, Types, ResultOnDisk, Next
    PROVE  ResultOnDisk'
<1>1. CASE UNCHANGED contractsFile /\ pc \in Written /\ UNCHANGED result
  BY <1>1 DEF ResultOnDisk
<1>2. CASE pc' \notin Written
  BY <1>2 DEF ResultOnDisk
<1>3. CASE ReadCache /\ UNCHANGED contractsFile
  BY <1>3 DEF ReadCache, CanParse, Goto, AfterCatch, ResultOnDisk, Written
<1>4. CASE WriteContracts
  BY <1>4 DEF WriteContracts, File, Whole, ResultOnDisk, localVars
<1> QED
  BY <1>1, <1>2, <1>3, <1>4 DEF TypeOK, Written, Next, Program, Tsc, Stat, Scan, ReadCache,
     List, Solc, OpenContracts, WriteContracts, OpenAbi, WriteAbi, Return, Generate,
     WriteInterfaces, Flatten, Start, FlattenKilled, Remove, Edit, Change, Tick, Crash,
     ProgramThrows, ProgramEnds, Goto, AfterCatch, AfterContracts, localVars, diskVars

LEMMA AbiStays ==
    ASSUME TypeOK, Types, ResultOnDisk, AbiInStep, Next
    PROVE  AbiInStep'
<1>1. CASE WriteAbi
  BY <1>1 DEF WriteAbi, File, Whole, AbiInStep, ResultOnDisk, Written, localVars
<1>2. CASE OpenContracts
  BY <1>2 DEF OpenContracts, File, Whole, AbiInStep
<1>3. CASE WriteContracts
  BY <1>3 DEF WriteContracts, Goto, AfterContracts, AbiInStep
<1>4. CASE OpenAbi
  BY <1>4 DEF OpenAbi, Goto, AbiInStep
<1>5. CASE Crash
  BY <1>5 DEF Crash, diskVars, AbiInStep, Whole
<1>6. CASE UNCHANGED <<contractsFile, abiFile, abiLost>> /\ pc \notin {"openAbi", "writeAbi"}
  BY <1>6 DEF AbiInStep, Whole
<1>7. CASE UNCHANGED <<contractsFile, abiFile, abiLost, pc>>
  BY <1>7 DEF AbiInStep, Whole
<1> QED
  BY <1>1, <1>2, <1>3, <1>4, <1>5, <1>6, <1>7 DEF TypeOK, Next, Program, Tsc, Stat, Scan,
     ReadCache, List, Solc, OpenContracts, WriteContracts, OpenAbi, WriteAbi, Return,
     Generate, WriteInterfaces, Flatten, Start, FlattenKilled, Remove, Edit, Change, Tick,
     Crash, diskVars, historyVars

-----------------------------------------------------------------------------
(* What a compilation has read *)

LEMMA AllFlattened ==
    ASSUME TypeOK, Types, FilesAreCurrent, pc = "flatten", changed = {}, ~cut,
           DOMAIN files = filePaths
    PROVE  files = FlattenedAll(sources) /\ \A f \in DOMAIN sources : CanFlatten(sources, f)
<1>1. /\ DOMAIN files = DOMAIN sources
      /\ \A f \in DOMAIN files : CanFlatten(sources, f) /\ files[f] = Flattened(sources, f)
  BY DEF FilesAreCurrent
<1>2. files = [f \in DOMAIN files |-> files[f]]
  BY DEF Types
<1> QED
  BY <1>1, <1>2 DEF FlattenedAll

LEMMA FilesStayCurrent ==
    ASSUME TypeOK, Types, FilesAreCurrent, Next
    PROVE  FilesAreCurrent'
<1>1. CASE List
  BY <1>1 DEF List, Goto, FilesAreCurrent
<1>2. ASSUME NEW f \in AllFiles, Flatten(f), ~ProgramThrows
      PROVE  FilesAreCurrent'
  <2>1. /\ pc = "flatten" /\ pc' = "flatten" /\ f \in DOMAIN sources /\ CanFlatten(sources, f)
        /\ files' = [g \in DOMAIN files \cup {f} |->
                        IF g = f THEN Flattened(sources, f) ELSE files[g]]
        /\ UNCHANGED <<sources, filePaths, changed, cut>>
    BY <1>2 DEF Flatten, Goto
  <2> QED
    BY <2>1 DEF FilesAreCurrent
<1>3. CASE \E f \in AllFiles : FlattenKilled(f)
  BY <1>3 DEF FlattenKilled, FilesAreCurrent
<1>4. CASE Solc
  <2>1. CASE Refused(files)
    BY <1>4, <2>1 DEF Solc, ProgramThrows, ProgramEnds, FilesAreCurrent
  <2>2. CASE ~Refused(files) /\ changed = {} /\ ~cut
    <3>1. /\ pc = "flatten" /\ DOMAIN files = filePaths
          /\ result' = filterCompilerOutput(SolcOutput(files))
          /\ pc' = "openContracts" /\ sources' = sources
      BY <1>4, <2>2 DEF Solc, Pending, TypeOK, Goto
    <3>2. files = FlattenedAll(sources) /\ \A f \in DOMAIN sources : CanFlatten(sources, f)
      BY <2>2, <3>1, AllFlattened
    <3>3. Compilable(sources) /\ result' = Compiled(sources)
      BY <2>2, <3>1, <3>2 DEF Compilable, Compiled
    <3> QED
      BY <3>1, <3>3 DEF FilesAreCurrent, ResultIsCurrent
  <2>3. CASE ~ (changed = {} /\ ~cut)
    BY <1>4, <2>3 DEF Solc, FilesAreCurrent
  <2> QED
    BY <2>1, <2>2, <2>3
<1>5. CASE /\ UNCHANGED <<sources, result, changed, cut>>
           /\ pc \in {"openContracts", "writeContracts"}
           /\ pc' # "flatten"
  BY <1>5 DEF FilesAreCurrent, ResultIsCurrent
<1>6. CASE pc' \notin {"flatten", "openContracts", "writeContracts"}
  BY <1>6 DEF FilesAreCurrent
<1>7. CASE UNCHANGED <<sources, filePaths, files, result, changed, cut, pc>>
  BY <1>7 DEF FilesAreCurrent, ResultIsCurrent
<1>8. CASE \E f \in AllFiles : changed' = changed \cup {f}
  BY <1>8 DEF FilesAreCurrent
<1> QED
  BY <1>1, <1>2, <1>3, <1>4, <1>5, <1>6, <1>7, <1>8, BuildParameters
  DEF Next, Program, Tsc, Stat, Scan, ReadCache, List, Solc, OpenContracts, WriteContracts,
      OpenAbi, WriteAbi, Return, Generate, WriteInterfaces, Flatten, Start, FlattenKilled,
      Remove, Edit, Change, Tick, Crash, ProgramThrows, ProgramEnds, Goto, AfterCatch,
      AfterContracts, localVars, historyVars

-----------------------------------------------------------------------------
(* The cache *)

LEMMA CacheStaysCurrent ==
    ASSUME TypeOK, Types, ResultOnDisk, FilesAreCurrent, CacheIsCurrent, Next
    PROVE  CacheIsCurrent'
<1>1. ASSUME NEW f \in AllFiles, NEW v, NEW time \in 0 .. clock, Edit(f, v, time)
      PROVE  CacheIsCurrent'
  <2>1. /\ sources'[f].mtime = time /\ f \in DOMAIN sources' /\ changed' # {}
        /\ misled' = (misled \/ time < contractsFile.mtime)
        /\ UNCHANGED <<contractsFile, lastCompiledTimestamp, pc>>
    BY <1>1 DEF Edit, Change, diskVars, localVars
  <2>2. Older' => misled'
    BY <2>1 DEF Older, TypeOK
  <2> QED
    BY <2>1, <2>2 DEF CacheIsCurrent
<1>2. ASSUME NEW f \in AllFiles, Remove(f)
      PROVE  CacheIsCurrent'
  BY <1>2 DEF Remove, Change, diskVars, localVars, CacheIsCurrent
<1>3. CASE WriteContracts
  <2>1. /\ pc = "writeContracts" /\ pc' = "openAbi" /\ contractsFile'.mtime = clock
        /\ contractsFile'.data = result
        /\ misled' = (cut \/ \E f \in changed :
                                 f \notin DOMAIN sources \/ sources[f].mtime < clock)
        /\ UNCHANGED <<sources, result, changed, cut>>
    BY <1>3 DEF WriteContracts, File, Goto, AfterContracts, localVars
  <2>2. changed = {} /\ ~cut => Compilable(sources) /\ result = Compiled(sources)
    BY <2>1 DEF FilesAreCurrent, ResultIsCurrent
  <2>3. Older' /\ ~misled' => changed = {} /\ ~cut
    <3>1. ASSUME Older', ~misled', NEW f \in changed PROVE FALSE
      <4>1. f \in DOMAIN sources /\ ~ (sources[f].mtime < clock)
        BY <2>1, <3>1
      <4>2. sources[f].mtime < clock
        BY <2>1, <3>1, <4>1 DEF Older
      <4> QED
        BY <4>1, <4>2
    <3> QED
      BY <2>1, <3>1
  <2> QED
    BY <2>1, <2>2, <2>3 DEF CacheIsCurrent, ResultIsCurrent
<1>4. CASE OpenContracts
  BY <1>4 DEF OpenContracts, Goto, File, Whole, CacheIsCurrent, Written
<1>5. CASE Stat
  BY <1>5 DEF Stat, Goto, diskVars, CacheIsCurrent, Older, Whole, Written
<1>6. CASE Scan
  <2>1. /\ pc = "scan" /\ pc' \in {"readCache", "list"}
        /\ pc' = "readCache" => UncachedFiles = {}
        /\ UNCHANGED <<sources, contractsFile, misled>>
    BY <1>6 DEF Scan, Goto, diskVars
  <2>2. UncachedFiles = {} => Older
    BY <2>1 DEF UncachedFiles, CacheIsCurrent, Older
  <2> QED
    BY <2>1, <2>2 DEF CacheIsCurrent, Older, Whole, Written
<1>7. CASE ReadCache
  BY <1>7 DEF ReadCache, CanParse, Goto, AfterCatch, diskVars, CacheIsCurrent, Older,
     Whole, Written, ResultIsCurrent
<1>8. CASE /\ UNCHANGED <<sources, contractsFile, result, changed, misled>>
           /\ pc \in Written \/ pc' \notin Written
           /\ pc' \notin {"scan", "readCache"}
  BY <1>8 DEF CacheIsCurrent, Older, Whole, ResultIsCurrent
<1>9. CASE /\ UNCHANGED <<sources, contractsFile, changed, misled>>
           /\ pc' \notin Written \cup {"scan", "readCache"}
  BY <1>9 DEF CacheIsCurrent, Older, Whole, ResultIsCurrent
<1>10. CASE UNCHANGED <<sources, contractsFile, lastCompiledTimestamp, result, changed,
                        misled, pc>>
  BY <1>10 DEF CacheIsCurrent, Older, Whole, ResultIsCurrent
<1>11. CASE List
  BY <1>11 DEF List, Goto, diskVars, CacheIsCurrent, Older, Whole, ResultIsCurrent, Written
<1>12. CASE \E f \in Editable :
               Remove(f) \/ \E v \in DOMAIN Content[f], time \in 0 .. clock : Edit(f, v, time)
  BY <1>1, <1>2, <1>12, BuildParameters
<1> QED
  BY <1>3, <1>4, <1>5, <1>6, <1>7, <1>8, <1>9, <1>10, <1>11, <1>12
  DEF Next, Program, Tsc, Stat, Scan, ReadCache, List, Solc, OpenContracts, WriteContracts,
      OpenAbi, WriteAbi, Return, Generate, WriteInterfaces, Flatten, Start, FlattenKilled,
      Tick, Crash, ProgramThrows, ProgramEnds, Goto, AfterCatch,
      AfterContracts, localVars, diskVars, historyVars, Written

\* Nothing changes under a script that is undisturbed, nor between two builds.
LEMMA NothingChangedStays ==
    ASSUME TypeOK, Types, CacheIsCurrent, NothingChanged, Next
    PROVE  NothingChanged'
<1>1. CASE \E f \in AllFiles : Change(f)
  BY <1>1 DEF Change, NothingChanged
<1>2. CASE Scan \/ List
  BY <1>2 DEF Scan, List, Goto, NothingChanged, Written
<1>3. CASE ReadCache
  BY <1>3 DEF ReadCache, Goto, AfterCatch, NothingChanged, CacheIsCurrent, AfterScan,
     Written, Older, diskVars
<1>4. CASE WriteContracts
  BY <1>4 DEF WriteContracts, Goto, AfterContracts, NothingChanged, AfterScan, Written
<1>5. CASE pc' \notin AfterScan
  BY <1>5 DEF NothingChanged, AfterScan
<1>6. CASE \E f \in AllFiles : FlattenKilled(f)
  BY <1>6 DEF FlattenKilled, NothingChanged
<1>7. CASE /\ UNCHANGED <<sources, contractsFile, changed, cut, misled, undisturbed, builds>>
           /\ pc \in AfterScan
           /\ pc' \in Written <=> pc \in Written
           /\ pc' \in {"flatten", "openContracts", "writeContracts"} =>
                  pc \in {"flatten", "openContracts", "writeContracts"}
  BY <1>7 DEF NothingChanged, Older
<1>8. CASE OpenContracts
  BY <1>8 DEF OpenContracts, Goto, NothingChanged, Written, AfterScan
<1> QED
  BY <1>1, <1>2, <1>3, <1>4, <1>5, <1>6, <1>7, <1>8, BuildParameters
  DEF Next, Program, Tsc, Stat, Scan, ReadCache, List, Solc, OpenContracts, WriteContracts,
      OpenAbi, WriteAbi, Return, Generate, WriteInterfaces, Flatten, Start, FlattenKilled,
      Remove, Edit, Change, Tick, Crash, ProgramThrows, ProgramEnds, Goto, AfterCatch,
      AfterContracts, localVars, diskVars, historyVars, Written, AfterScan

-----------------------------------------------------------------------------
(* The generated code *)

LEMMA GeneratedStays ==
    ASSUME GeneratedClashes, Next
    PROVE  GeneratedClashes'
<1>1. CASE UNCHANGED interfacesFile
  BY <1>1 DEF GeneratedClashes, Whole
<1>2. CASE Generate /\ ~ UNCHANGED interfacesFile
  BY <1>2 DEF Generate, File, Whole, GeneratedClashes
<1>3. CASE WriteInterfaces
  BY <1>3, ClassesClashOnlySo DEF WriteInterfaces, File, GeneratedClashes
<1> QED
  BY <1>1, <1>2, <1>3, ChangesOfInterfaces

\* A build that generates: the second of two has run the JavaScript of the first.
LEMMA WriteInterfacesInStep ==
    ASSUME TypeOK, Types, ResultOnDisk, CacheIsCurrent, NothingChanged, BuildsInStep,
           WriteInterfaces, builds' > 0
    PROVE  Stuck' \/ InterfacesAreCurrent'
<1>1. /\ pc = "writeInterfaces" /\ At("interfaces") /\ undisturbed
      /\ builds' = 2 => builds > 0
      /\ script' = <<>> /\ pc' = "idle"
      /\ interfacesFile'.state = "whole" /\ interfacesFile'.data = Classes(result)
      /\ UNCHANGED <<sources, contractsFile, javascript, misled>>
  <2>1. /\ pc = "writeInterfaces" /\ ProgramEnds(TRUE)
        /\ interfacesFile'.state = "whole" /\ interfacesFile'.data = Classes(result)
        /\ UNCHANGED <<sources, contractsFile, javascript, misled>>
    BY DEF WriteInterfaces, File
  <2>2. At("interfaces")
    BY <2>1 DEF Types
  <2>3. undisturbed /\ script' = <<>> /\ pc' = "idle"
    <3>1. script = <<"interfaces">>
      BY <2>2, ScriptFacts DEF At, TypeOK, Scripts
    <3>2. undisturbed
      BY <2>1, <2>2 DEF ProgramEnds
    <3> QED
      BY <2>1, <3>1, <3>2, ScriptFacts DEF ProgramEnds
  <2>4. builds' = 2 => builds > 0
    BY <2>1, <2>2 DEF ProgramEnds, TypeOK
  <2> QED
    BY <2>1, <2>2, <2>3, <2>4
<1>2. CASE misled
  <2>1. Older /\ Whole(contractsFile)
    BY <1>1, <1>2 DEF NothingChanged, ResultOnDisk, Written
  <2> QED
    BY <1>1, <1>2, <2>1 DEF Stuck, Older, Whole
<1>3. CASE ~misled
  <2>1. ResultIsCurrent
    BY <1>1, <1>3 DEF NothingChanged, CacheIsCurrent, AfterScan, Written
  <2>2. builds' = 2 => javascript = Classes(Compiled(sources))
    BY <1>1, <1>3 DEF BuildsInStep, Stuck, InterfacesAreCurrent
  <2> QED
    BY <1>1, <2>1, <2>2 DEF InterfacesAreCurrent, ResultIsCurrent, Whole, At
<1> QED
  BY <1>2, <1>3

\* As long as the builds count, the sources do not change, and a script that runs
\* undisturbed was undisturbed before.
LEMMA BuildsGoOn ==
    ASSUME TypeOK, Types, Next, ~ WriteInterfaces, builds' > 0
    PROVE  /\ builds' = builds /\ UNCHANGED sources
           /\ undisturbed' /\ (At("contracts") \/ At("interfaces"))' =>
                  undisturbed /\ (Tsc \/ At("contracts") \/ At("interfaces"))
<1>1. CASE Tsc \/ Return \/ Generate \/ Solc \/ \E f \in AllFiles : Flatten(f)
  <2>1. \/ (ProgramEnds(TRUE) /\ ~At("interfaces")) \/ ProgramEnds(FALSE)
        \/ UNCHANGED <<script, builds, undisturbed>>
    BY <1>1 DEF Tsc, Return, Generate, Solc, Flatten, ProgramThrows, Goto, At
  <2>2. UNCHANGED sources
    BY <1>1 DEF Tsc, Return, Generate, Solc, Flatten, Goto
  <2>3. CASE ProgramEnds(TRUE) /\ ~At("interfaces")
    <3>1. builds' = builds /\ (undisturbed' => undisturbed) /\ script' = Tail(script)
      BY <2>3 DEF ProgramEnds
    <3>2. (At("contracts") \/ At("interfaces"))' => Tsc \/ At("contracts")
      BY <1>1, <3>1, ScriptFacts DEF At, TypeOK, Scripts, Types, Return, Generate, Solc,
         Flatten
    <3> QED
      BY <2>2, <3>1, <3>2
  <2>4. ~ ProgramEnds(FALSE)
    BY DEF ProgramEnds
  <2>5. CASE UNCHANGED <<script, builds, undisturbed>>
    BY <2>2, <2>5 DEF At
  <2> QED
    BY <2>1, <2>3, <2>4, <2>5
<1>2. CASE \E s \in Scripts : Start(s)
  BY <1>2, ScriptFacts DEF Start, Scripts, At
<1>3. CASE Crash \/ \E f \in AllFiles : Change(f)
  BY <1>3 DEF Crash, Change
<1>4. CASE /\ UNCHANGED <<sources, script, builds>>
           /\ undisturbed' => undisturbed
  BY <1>4 DEF At
<1>5. CASE \/ Stat \/ Scan \/ ReadCache \/ List \/ OpenContracts \/ WriteContracts
           \/ OpenAbi \/ WriteAbi \/ Tick
  <2>1. UNCHANGED <<sources, script, builds, undisturbed>>
    BY <1>5 DEF Stat, Scan, ReadCache, List, OpenContracts, WriteContracts, OpenAbi,
       WriteAbi, Tick, Goto, historyVars
  <2> QED
    BY <1>4, <2>1
<1>7. CASE \E f \in AllFiles : FlattenKilled(f)
  BY <1>4, <1>7 DEF FlattenKilled
<1>6. CASE \E f \in Editable :
              Remove(f) \/ \E v \in DOMAIN Content[f], time \in 0 .. clock : Edit(f, v, time)
  BY <1>3, <1>6, BuildParameters DEF Remove, Edit
<1> QED
  BY <1>1, <1>2, <1>3, <1>5, <1>6, <1>7 DEF Next, Program

LEMMA StuckStays ==
    ASSUME TypeOK, Types, CacheIsCurrent, Stuck, Next, ~ WriteInterfaces, builds' > 0
    PROVE  Stuck'
<1>1. CASE Scan
  <2>1. UncachedFiles = {}
    BY <1>1 DEF Scan, UncachedFiles, Stuck, Older, CacheIsCurrent
  <2> QED
    BY <1>1, <2>1 DEF Scan, Goto, diskVars, Stuck, Older, Whole
<1>2. CASE ReadCache
  BY <1>2 DEF ReadCache, CanParse, Goto, diskVars, Stuck, Older, Whole
<1>3. CASE Stat
  BY <1>3 DEF Stat, Goto, diskVars, Stuck, Older, Whole
<1>4. CASE \/ UNCHANGED <<sources, contractsFile, misled, pc>>
           \/ /\ UNCHANGED <<sources, contractsFile, misled>>
              /\ pc' \in {"idle", "start", "writeInterfaces"}
  BY <1>4 DEF Stuck, Older, Whole
<1>5. CASE \/ \E s \in Scripts : Start(s)
           \/ Tick
  BY <1>4, <1>5 DEF Start, Tick, diskVars, historyVars
<1>6. ~ Crash /\ \A f \in AllFiles : ~ Remove(f) /\ \A v, time : ~ Edit(f, v, time)
  BY DEF Crash, Remove, Edit, Change
<1>7. \A f \in AllFiles : ~ FlattenKilled(f)
  BY DEF FlattenKilled, Stuck
<1>8. CASE Tsc \/ Return \/ Generate
  <2>1. UNCHANGED <<sources, contractsFile, misled>>
    BY <1>8 DEF Tsc, Return, Generate, Goto, diskVars
  <2>2. pc' \in {"idle", "start"} \/ pc' = "writeInterfaces"
    BY <1>8 DEF Tsc, Return, Generate, ProgramThrows, ProgramEnds, Goto
  <2> QED
    BY <1>4, <2>1, <2>2
<1>9. CASE \/ List \/ Solc \/ OpenContracts \/ WriteContracts \/ OpenAbi \/ WriteAbi
           \/ \E f \in AllFiles : Flatten(f)
  BY <1>9 DEF List, Solc, OpenContracts, WriteContracts, OpenAbi, WriteAbi, Flatten, Stuck
<1> QED
  BY <1>1, <1>2, <1>3, <1>5, <1>6, <1>7, <1>8, <1>9, BuildParameters DEF Next, Program

LEMMA InterfacesStayCurrent ==
    ASSUME TypeOK, Types, InterfacesAreCurrent, Next, ~ WriteInterfaces, builds' > 0
    PROVE  InterfacesAreCurrent'
<1>1. builds' = builds /\ UNCHANGED sources
  BY BuildsGoOn
<1>2. ASSUME pc' # "writeInterfaces" PROVE pc # "writeInterfaces" /\ UNCHANGED interfacesFile
  <2>1. ~ (Generate /\ ~ UNCHANGED interfacesFile)
    BY <1>2 DEF Generate, Goto
  <2>2. UNCHANGED interfacesFile
    BY <2>1, ChangesOfInterfaces
  <2>3. pc # "writeInterfaces"
    <3>1. ~ Crash
      BY DEF Crash
    <3>2. pc' = pc \/ Program \/ \E s \in Scripts : Start(s)
      BY <3>1 DEF Next, FlattenKilled, Remove, Edit, Change, Tick
    <3> QED
      BY <1>2, <3>2 DEF TypeOK, Start, Program, Tsc, Stat, Scan, ReadCache, List, Solc,
         OpenContracts, WriteContracts, OpenAbi, WriteAbi, Return, Generate, Flatten
  <2> QED
    BY <2>2, <2>3
<1>3. UNCHANGED javascript \/ (javascript' = interfacesFile.data /\ pc = "start")
  BY DEF Next, Program, Tsc, Stat, Scan, ReadCache, List, Solc, OpenContracts,
     WriteContracts, OpenAbi, WriteAbi, Return, Generate, WriteInterfaces, Flatten, Start,
     FlattenKilled, Remove, Edit, Change, Tick, Crash, ProgramThrows, ProgramEnds, Goto,
     diskVars
<1>4. Tsc => javascript' = interfacesFile.data /\ pc = "start"
  BY DEF Tsc, ProgramEnds
<1> QED
  BY <1>1, <1>2, <1>3, <1>4, BuildsGoOn DEF InterfacesAreCurrent, Whole

LEMMA BuildsStayInStep ==
    ASSUME TypeOK, Types, ResultOnDisk, CacheIsCurrent, NothingChanged, BuildsInStep, Next,
           builds' > 0
    PROVE  Stuck' \/ InterfacesAreCurrent'
<1>1. CASE WriteInterfaces
  BY <1>1, WriteInterfacesInStep
<1>2. CASE ~ WriteInterfaces
  <2>1. builds > 0
    BY <1>2, BuildsGoOn
  <2> QED
    BY <1>2, <2>1, StuckStays, InterfacesStayCurrent DEF BuildsInStep
<1> QED
  BY <1>1, <1>2

-----------------------------------------------------------------------------
(* The invariant and what follows from it *)

\* The scripts begin with the checked in ContractInterfaces.ts and no output.
LEMMA Initial == Init => IInv
<1> SUFFICES ASSUME Init PROVE IInv
  OBVIOUS
<1>1. TypeOK
  BY BuildParameters DEF Init, TypeOK, Labels, Scripts
<1>2. Types
  <2>1. DOMAIN <<>> = {} /\ <<>> = [f \in {} |-> files[f]]
    OBVIOUS
  <2> QED
    BY <2>1 DEF Init, Types
<1>3. ResultOnDisk /\ FilesAreCurrent /\ NothingChanged /\ BuildsInStep
  BY DEF Init, ResultOnDisk, FilesAreCurrent, NothingChanged, BuildsInStep, Written,
     AfterScan
<1>4. AbiInStep /\ CacheIsCurrent
  BY DEF Init, AbiInStep, CacheIsCurrent, Whole, Written
<1>5. GeneratedClashes
  BY ClassesClashOnlySo DEF Init, GeneratedClashes
<1> QED
  BY <1>1, <1>2, <1>3, <1>4, <1>5 DEF IInv

\* Every step of a program, of the developer and of the environment keeps it.
LEMMA Inductive == IInv /\ [Next]_vars => IInv'
<1> SUFFICES ASSUME IInv, [Next]_vars PROVE IInv'
  OBVIOUS
<1> USE DEF IInv
<1>1. CASE Next
  <2>1. TypeOK' /\ Types'
    BY <1>1, TypesStay
  <2>2. ResultOnDisk' /\ AbiInStep'
    BY <1>1, ResultOnDiskStays, AbiStays
  <2>3. FilesAreCurrent' /\ CacheIsCurrent' /\ NothingChanged'
    BY <1>1, FilesStayCurrent, CacheStaysCurrent, NothingChangedStays
  <2>4. BuildsInStep'
    BY <1>1, BuildsStayInStep DEF BuildsInStep
  <2>5. GeneratedClashes'
    BY <1>1, GeneratedStays
  <2> QED
    BY <2>1, <2>2, <2>3, <2>4, <2>5
<1>2. CASE UNCHANGED vars
  BY <1>2 DEF vars, diskVars, localVars, countVars, historyVars, TypeOK, Types, At,
     ResultOnDisk, Whole, AbiInStep, FilesAreCurrent, ResultIsCurrent, CacheIsCurrent,
     Older, NothingChanged, BuildsInStep, InterfacesAreCurrent, Stuck, GeneratedClashes
<1> QED
  BY <1>1, <1>2

\* The invariant of the build: what the running program has read, what the files hold and
\* what was changed since (IInv).
THEOREM BuildInvariant == Spec => []IInv
BY Initial, Inductive, PTL DEF Spec

\* Whoever compiles gets what contracts.json holds (ReturnedIsOnDisk).
THEOREM ReturnedIsWritten == Spec => []ReturnedIsOnDisk
<1>1. IInv => ReturnedIsOnDisk
  BY DEF IInv, ResultOnDisk, ReturnedIsOnDisk, Written
<1> QED
  BY <1>1, BuildInvariant, PTL

\* The cache is believed only when it is right (CompiledIsCurrent): the comparison of
\* times in compileContracts misses no change but those that misled stands for.
THEOREM CacheIsHonest == Spec => []CompiledIsCurrent
<1>1. IInv => CompiledIsCurrent
  BY DEF IInv, CacheIsCurrent, ResultIsCurrent, CompiledIsCurrent, Written
<1> QED
  BY <1>1, BuildInvariant, PTL

\* abi.json has the ABIs of contracts.json, unless a crash came between (AbiInStep).
THEOREM AbisAreWritten == Spec => []AbiInStep
<1>1. IInv => AbiInStep
  BY DEF IInv
<1> QED
  BY <1>1, BuildInvariant, PTL

\* Of all the clashes of method names that would keep the generated TypeScript from
\* compiling, only that of a function with one named like it and _ behind is possible
\* (GeneratedClashes), and every base class comes before the classes that extend it.
THEOREM OnlyUnderscoresEverClash == Spec => []GeneratedClashes
<1>1. IInv => GeneratedClashes
  BY DEF IInv
<1> QED
  BY <1>1, BuildInvariant, PTL

\* After two undisturbed builds the deployer can call every contract that it uploads
\* (DeployerKnowsItsContracts).
THEOREM DeployerIsUpToDate == Spec => []DeployerKnowsItsContracts
<1>1. ASSUME IInv, pc = "returned", At("deploy"), builds = 2, ~misled
      PROVE  ClassesCover(javascript, result)
  <2>1. ResultIsCurrent
    BY <1>1 DEF IInv, NothingChanged, CacheIsCurrent, AfterScan, Written
  <2>2. javascript = Classes(Compiled(sources))
    BY <1>1 DEF IInv, BuildsInStep, Stuck, InterfacesAreCurrent
  <2>3. DOMAIN result \subseteq AllFiles
    BY <1>1, <2>1 DEF IInv, TypeOK, ResultIsCurrent, Compiled, filterCompilerOutput, Kept,
       SolcOutput, FlattenedAll
  <2> QED
    BY <2>1, <2>2, <2>3, ClassesCoverContracts DEF ResultIsCurrent
<1>2. IInv => DeployerKnowsItsContracts
  BY <1>1 DEF DeployerKnowsItsContracts
<1> QED
  BY <1>2, BuildInvariant, PTL

\* Programs and files have their types (TypeOK).
THEOREM TypeCorrect == Spec => []TypeOK
<1>1. IInv => TypeOK
  BY DEF IInv
<1> QED
  BY <1>1, BuildInvariant, PTL

=============================================================================
