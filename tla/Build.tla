-------------------------------- MODULE Build --------------------------------
(***************************************************************************)
(* The build of package.json and compileAndDeploy, run one after the other *)
(* beside a developer who changes the sources: ContractCompiler's cache    *)
(* and its two output files, the generated ContractInterfaces.ts and the   *)
(* JavaScript that tsc makes of it.                                        *)
(*                                                                         *)
(* There is a step for every await; files of one listing are flattened     *)
(* concurrently, each at its own time.  A file is torn from the moment     *)
(* writeFile truncates it until its content is written.  The scan for      *)
(* uncached files is one step: it finds none only if there was none when   *)
(* it began.  The flattener's copies in contracts_flattener, which nothing *)
(* reads, are left out.                                                    *)
(***************************************************************************)
EXTENDS Interfaces

CONSTANTS
    Content,        \* of a file, by version: contracts, imports, whether solc warns
    Editable,       \* the files the developer changes
    MaxClock,       \* bound: ticks of the clock of the file system
    MaxRuns,        \* bound: scripts that are started
    MaxEdits,       \* bound: changes of the sources
    MaxMishaps      \* bound: crashes, and flatteners killed by a signal

ASSUME BuildParameters ==
    /\ DOMAIN Content = AllFiles /\ Editable \subseteq AllFiles
    /\ MaxClock \in Nat \ {0} /\ {MaxRuns, MaxEdits, MaxMishaps} \subseteq Nat

\* npm run build, its last program alone, and compileAndDeploy.
Scripts == {<<"source", "contracts", "interfaces">>, <<"interfaces">>, <<"deploy">>}

VARIABLES
    clock,
    sources,            \* the files there are: version and mtime
    contractsFile,      \* contractOutputPath: contracts.json
    abiFile,            \* abiOutputPath: abi.json
    interfacesFile,     \* contractInterfacesOutputPath: ContractInterfaces.ts
    javascript,         \* what tsc made of ContractInterfaces.ts
    script,             \* the programs to run, the first one running
    pc,                 \* what the program does next
    lastCompiledTimestamp, filePaths, files, result,  \* its local variables
    runs, edits, mishaps,
    changed,            \* history: sources changed since they were scanned or listed
    cut,                \* history: a flattener of this compilation was killed
    misled,             \* history: the cache does not know of all changes
    abiLost,            \* history: a crash kept abi.json from being written
    undisturbed,        \* history: nothing went wrong or changed in this script
    builds              \* history: undisturbed builds in a row, up to two

diskVars == <<contractsFile, abiFile, interfacesFile, javascript>>
localVars == <<lastCompiledTimestamp, filePaths, files, result>>
countVars == <<runs, edits, mishaps>>
historyVars == <<changed, cut, misled, abiLost, undisturbed, builds>>
vars == <<clock, sources, diskVars, script, pc, localVars, countVars, historyVars>>

-----------------------------------------------------------------------------
(* The compiler *)

File(state, data) == [state |-> state, data |-> data, mtime |-> clock]
Whole(file) == file.state = "whole"

\* What the sources of a tree are compiled from.
ContentOf(tree, f) == Content[f][tree[f].version]

CanFlatten(tree, f) == {f} \cup ContentOf(tree, f).imports \subseteq DOMAIN tree

\* A flattened file holds its contracts and those of what it imports.
Flattened(tree, f) ==
    LET all == {f} \cup ContentOf(tree, f).imports
        contracts(g) == ContentOf(tree, g).contracts
        defining(c) == CHOOSE g \in all : c \in DOMAIN contracts(g)
    IN  [contracts |-> [c \in UNION {DOMAIN contracts(g) : g \in all} |->
                           contracts(defining(c))[c]],
         warns     |-> \E g \in all : ContentOf(tree, g).warns]

\* What is left when the flattener is killed: imports come first.
CutShort(tree, f) ==
    LET whole == Flattened(tree, f)
    IN  [whole EXCEPT !.contracts =
            Restrict(@, DOMAIN @ \ DOMAIN ContentOf(tree, f).contracts)]

SolcWarns(flattened) == \E f \in DOMAIN flattened : flattened[f].warns
SolcOutput(flattened) == [f \in DOMAIN flattened |-> flattened[f].contracts]

\* solc is not satisfied, or a contract is abstract.
Refused(flattened) == SolcWarns(flattened) \/ FilterThrows(SolcOutput(flattened))

\* What a compilation of a tree gives, if nothing goes wrong.
FlattenedAll(tree) == [f \in DOMAIN tree |-> Flattened(tree, f)]
Compilable(tree) == /\ \A f \in DOMAIN tree : CanFlatten(tree, f)
                    /\ ~Refused(FlattenedAll(tree))
Compiled(tree) == filterCompilerOutput(SolcOutput(FlattenedAll(tree)))

Init ==
    /\ clock = 1
    /\ sources = [f \in AllFiles |-> [version |-> 1, mtime |-> 0]]
    /\ contractsFile = [state |-> "none", data |-> <<>>, mtime |-> 0]
    /\ abiFile = [state |-> "none", data |-> <<>>, mtime |-> 0]
    /\ interfacesFile = [state |-> "whole", data |-> Classes(Compiled(sources)), mtime |-> 0]
    /\ javascript = <<>>
    /\ script = <<>> /\ pc = "idle"
    /\ lastCompiledTimestamp = 0 /\ filePaths = {} /\ files = <<>> /\ result = <<>>
    /\ runs = 0 /\ edits = 0 /\ mishaps = 0
    /\ changed = {} /\ cut = FALSE /\ misled = FALSE /\ abiLost = FALSE
    /\ undisturbed = TRUE /\ builds = 0

-----------------------------------------------------------------------------
(* Scripts and programs *)

At(program) == script # <<>> /\ Head(script) = program

Forget == /\ lastCompiledTimestamp' = 0 /\ filePaths' = {}
          /\ files' = <<>> /\ result' = <<>>

\* A program ends: with && the next one runs if it succeeded.
ProgramEnds(succeeded) ==
    /\ script' = IF succeeded THEN Tail(script) ELSE <<>>
    /\ pc' = IF script' = <<>> THEN "idle" ELSE "start"
    /\ Forget
    /\ undisturbed' = (undisturbed /\ succeeded)
    /\ builds' = IF ~succeeded THEN 0
                 ELSE IF ~At("interfaces") THEN builds
                 ELSE IF ~undisturbed THEN 0
                 ELSE IF builds = 2 THEN 2 ELSE builds + 1

\* compileContracts ends with process.exit() after an error as well, and the
\* next program of the build runs; generateContractInterfaces ends with 1.
ProgramThrows == ProgramEnds(At("contracts"))

Start(s) ==
    /\ script = <<>> /\ runs < MaxRuns
    /\ runs' = runs + 1
    /\ script' = s /\ pc' = "start"
    /\ undisturbed' = (s # <<"interfaces">>)
    /\ UNCHANGED <<clock, sources, diskVars, localVars, edits, mishaps, changed, cut,
                   misled, abiLost, builds>>

\* build:source.  tsc writes what it makes of ContractInterfaces.ts whatever it
\* finds there, and fails if the file or its classes are broken.  It checks the
\* other sources against them too, which may fail at any time.
Tsc ==
    /\ At("source") /\ pc = "start"
    /\ javascript' = interfacesFile.data
    /\ \E succeeded \in BOOLEAN :
           /\ succeeded => Whole(interfacesFile) /\ ClassesCompile(interfacesFile.data)
           /\ ProgramEnds(succeeded)
    /\ UNCHANGED <<clock, sources, contractsFile, abiFile, interfacesFile, countVars,
                   changed, cut, misled, abiLost>>

Goto(label) ==
    /\ pc' = label
    /\ UNCHANGED <<clock, sources, script, countVars, undisturbed, builds>>

-----------------------------------------------------------------------------
(* compileContracts *)

Stat ==
    /\ script # <<>> /\ ~At("source") /\ pc = "start"
    /\ lastCompiledTimestamp' = contractsFile.mtime
    /\ Goto(IF contractsFile.state = "none" THEN "list" ELSE "scan")
    /\ UNCHANGED <<diskVars, filePaths, files, result, changed, cut, misled, abiLost>>

\* A fault to check against: a source as old as the output is taken for cached.
UncachedNewer == {f \in DOMAIN sources : sources[f].mtime > lastCompiledTimestamp}

UncachedFiles == {f \in DOMAIN sources : ~(sources[f].mtime < lastCompiledTimestamp)}

Scan ==
    /\ pc = "scan"
    /\ Goto(IF UncachedFiles = {} THEN "readCache" ELSE "list")
    /\ changed' = {}
    /\ UNCHANGED <<diskVars, localVars, cut, misled, abiLost>>

\* A fault to check against: a torn file is read as if it were empty.
ReadsAnything == TRUE

\* JSON.parse throws at a torn file, inside the try.
CanParse == Whole(contractsFile)

\* A fault to check against: the file is looked at again.
LooksAgain == "start"

\* The catch block falls through to the compilation.
AfterCatch == "list"

ReadCache ==
    /\ pc = "readCache"
    /\ IF CanParse THEN result' = contractsFile.data /\ Goto("returned")
                   ELSE UNCHANGED result /\ Goto(AfterCatch)
    /\ UNCHANGED <<diskVars, lastCompiledTimestamp, filePaths, files, changed, cut,
                   misled, abiLost>>

List ==
    /\ pc = "list"
    /\ filePaths' = DOMAIN sources /\ files' = <<>>
    /\ changed' = {} /\ cut' = FALSE
    /\ Goto("flatten")
    /\ UNCHANGED <<diskVars, lastCompiledTimestamp, result, misled, abiLost>>

\* A fault to check against: the first flattened file is enough.
PendingUntilFirst == IF DOMAIN files = {} THEN filePaths ELSE {}

\* solc waits for all files of the listing.
Pending == filePaths \ DOMAIN files

\* A file that is gone, or imports one that is, rejects and compileContracts throws.
Flatten(f) ==
    /\ pc = "flatten" /\ f \in Pending
    /\ IF f \in DOMAIN sources /\ CanFlatten(sources, f)
       THEN /\ files' = [g \in DOMAIN files \cup {f} |->
                            IF g = f THEN Flattened(sources, f) ELSE files[g]]
            /\ Goto("flatten")
            /\ UNCHANGED <<lastCompiledTimestamp, filePaths, result>>
       ELSE /\ ProgramThrows
            /\ UNCHANGED <<clock, sources, countVars>>
    /\ UNCHANGED <<diskVars, changed, cut, misled, abiLost>>

\* The flattener is killed by a signal: its code is null, which is not greater
\* than 0, and what it printed so far is taken for the file.
FlattenKilled(f) ==
    /\ pc = "flatten" /\ f \in Pending /\ f \in DOMAIN sources /\ CanFlatten(sources, f)
    /\ mishaps < MaxMishaps
    /\ mishaps' = mishaps + 1
    /\ files' = [g \in DOMAIN files \cup {f} |-> IF g = f THEN CutShort(sources, f) ELSE files[g]]
    /\ cut' = TRUE /\ undisturbed' = FALSE
    /\ UNCHANGED <<clock, sources, diskVars, script, pc, lastCompiledTimestamp, filePaths,
                   result, runs, edits, changed, misled, abiLost, builds>>

Solc ==
    /\ pc = "flatten" /\ Pending = {}
    /\ IF Refused(files)
       THEN ProgramThrows /\ UNCHANGED <<clock, sources, countVars>>
       ELSE /\ result' = filterCompilerOutput(SolcOutput(files))
            /\ Goto("openContracts")
            /\ UNCHANGED <<lastCompiledTimestamp, filePaths, files>>
    /\ UNCHANGED <<diskVars, changed, cut, misled, abiLost>>

OpenContracts ==
    /\ pc = "openContracts"
    /\ contractsFile' = File("torn", <<>>)
    /\ Goto("writeContracts")
    /\ UNCHANGED <<abiFile, interfacesFile, javascript, localVars, changed, cut, misled,
                   abiLost>>

\* A fault to check against: abi.json is written once.
AbiWrittenOnce == IF abiFile.state = "none" THEN "openAbi" ELSE "returned"

AfterContracts == "openAbi"

\* The cache will miss the changes that are older than what it holds.
WriteContracts ==
    /\ pc = "writeContracts"
    /\ contractsFile' = File("whole", result)
    /\ misled' = (cut \/ \E f \in changed :
                             f \notin DOMAIN sources \/ sources[f].mtime < clock)
    /\ Goto(AfterContracts)
    /\ UNCHANGED <<abiFile, interfacesFile, javascript, localVars, changed, cut, abiLost>>

OpenAbi ==
    /\ pc = "openAbi"
    /\ abiFile' = File("torn", <<>>)
    /\ Goto("writeAbi")
    /\ UNCHANGED <<contractsFile, interfacesFile, javascript, localVars, changed, cut,
                   misled, abiLost>>

WriteAbi ==
    /\ pc = "writeAbi"
    /\ abiFile' = File("whole", generateAbiOutput(result))
    /\ abiLost' = FALSE
    /\ Goto("returned")
    /\ UNCHANGED <<contractsFile, interfacesFile, javascript, localVars, changed, cut,
                   misled>>

-----------------------------------------------------------------------------
(* What the programs do with the result *)

\* compileContracts is done; compileAndDeploy goes on as module Deployment says.
Return ==
    /\ pc = "returned" /\ (At("contracts") \/ At("deploy"))
    /\ ProgramEnds(TRUE)
    /\ UNCHANGED <<clock, sources, diskVars, countVars, changed, cut, misled, abiLost>>

Generate ==
    /\ pc = "returned" /\ At("interfaces")
    /\ IF GeneratorThrows(result)
       THEN /\ ProgramThrows
            /\ UNCHANGED <<clock, sources, countVars, interfacesFile>>
       ELSE /\ interfacesFile' = File("torn", <<>>)
            /\ Goto("writeInterfaces")
            /\ UNCHANGED localVars
    /\ UNCHANGED <<contractsFile, abiFile, javascript, changed, cut, misled, abiLost>>

WriteInterfaces ==
    /\ pc = "writeInterfaces"
    /\ interfacesFile' = File("whole", Classes(result))
    /\ ProgramEnds(TRUE)
    /\ UNCHANGED <<clock, sources, contractsFile, abiFile, javascript, countVars, changed,
                   cut, misled, abiLost>>

-----------------------------------------------------------------------------
(* The environment *)

Tick ==
    /\ clock < MaxClock
    /\ clock' = clock + 1
    /\ UNCHANGED <<sources, diskVars, script, pc, localVars, countVars, historyVars>>

Change(f) ==
    /\ edits < MaxEdits
    /\ edits' = edits + 1
    /\ changed' = changed \cup {f}
    /\ undisturbed' = FALSE /\ builds' = 0
    /\ UNCHANGED <<clock, diskVars, script, pc, localVars, runs, mishaps, cut, abiLost>>

\* A file is written now, or put in place with the time it had elsewhere: one
\* that is older than contracts.json the cache does not see.
Edit(f, v, time) ==
    /\ f \in DOMAIN sources => sources[f].version # v
    /\ sources' = [g \in DOMAIN sources \cup {f} |->
                      IF g = f THEN [version |-> v, mtime |-> time] ELSE sources[g]]
    /\ misled' = (misled \/ time < contractsFile.mtime)
    /\ Change(f)

Remove(f) ==
    /\ f \in DOMAIN sources
    /\ sources' = [g \in DOMAIN sources \ {f} |-> sources[g]]
    /\ misled' = TRUE
    /\ Change(f)

\* The process is killed, and the script with it.
Crash ==
    /\ script # <<>> /\ mishaps < MaxMishaps
    /\ mishaps' = mishaps + 1
    /\ script' = <<>> /\ pc' = "idle" /\ Forget
    /\ abiLost' = (abiLost \/ pc \in {"openAbi", "writeAbi"})
    /\ undisturbed' = FALSE /\ builds' = 0
    /\ UNCHANGED <<clock, sources, diskVars, runs, edits, changed, cut, misled>>

Program ==
    \/ Tsc \/ Stat \/ Scan \/ ReadCache \/ List \/ Solc
    \/ OpenContracts \/ WriteContracts \/ OpenAbi \/ WriteAbi
    \/ Return \/ Generate \/ WriteInterfaces
    \/ \E f \in AllFiles : Flatten(f)

Next ==
    \/ Program
    \/ \E s \in Scripts : Start(s)
    \/ \E f \in AllFiles : FlattenKilled(f)
    \/ \E f \in Editable :
           \/ Remove(f)
           \/ \E v \in DOMAIN Content[f], time \in 0 .. clock : Edit(f, v, time)
    \/ Tick \/ Crash

Spec == Init /\ [][Next]_vars

\* A running program goes on: its files, its child processes and its own code.
FairSpec == Spec /\ WF_vars(Program)

-----------------------------------------------------------------------------

Labels == {"idle", "start", "scan", "readCache", "list", "flatten", "openContracts",
           "writeContracts", "openAbi", "writeAbi", "returned", "writeInterfaces"}

\* Files and program counters have their types, a process without a program has
\* no script, and nothing is written before every file that was listed is read.
TypeOK ==
    /\ clock \in 1 .. MaxClock
    /\ DOMAIN sources \subseteq AllFiles
    /\ {contractsFile.state, abiFile.state, interfacesFile.state}
           \subseteq {"none", "torn", "whole"}
    /\ {contractsFile.mtime, abiFile.mtime, interfacesFile.mtime} \subseteq 0 .. clock
    /\ script \in Scripts \cup {<<"contracts", "interfaces">>, <<>>}
    /\ pc \in Labels /\ (pc = "idle" <=> script = <<>>)
    /\ DOMAIN files \subseteq filePaths
    /\ pc \in {"openContracts", "writeContracts", "openAbi", "writeAbi"} =>
           DOMAIN files = filePaths
    /\ builds \in 0 .. 2

\* The cache is believed only when it is right.  Whoever compiles gets the
\* contracts of the present sources, unless those were removed, were replaced by
\* files older than the cache, were changed under a compilation whose output is
\* newer, or lost a flattener to a signal.
CompiledIsCurrent ==
    pc = "returned" /\ changed = {} /\ ~misled =>
        Compilable(sources) /\ result = Compiled(sources)

\* Whoever compiles gets what is on disk, in one piece.
ReturnedIsOnDisk ==
    pc = "returned" => Whole(contractsFile) /\ contractsFile.data = result

\* abi.json has the ABIs of contracts.json whenever no compilation is between
\* the two, or crashed there.
AbiInStep ==
    Whole(contractsFile) /\ pc \notin {"openAbi", "writeAbi"} /\ ~abiLost
    => Whole(abiFile) /\ abiFile.data = generateAbiOutput(contractsFile.data)

\* Overloads and embedded contracts never give a generated class two methods of
\* one name, nor a class before its base.  A function f beside a function f_ that
\* is not constant does: the generator does not look at names it made itself.
GeneratedClashes == Whole(interfacesFile) => OnlyUnderscoresClash(interfacesFile.data)

\* The deployer runs the JavaScript of the build before last: after two
\* undisturbed builds, but not after one, it can call what it uploads.
DeployerKnowsItsContracts ==
    pc = "returned" /\ At("deploy") /\ builds = 2 /\ ~misled
    => ClassesCover(javascript, result)

\* Every script ends, whatever the developer does meanwhile.
ScriptsEnd == script # <<>> ~> script = <<>>

(* The invariant that the proofs rest on *)

Types ==
    /\ \A f \in DOMAIN sources : sources[f].mtime \in 0 .. clock
    /\ files = [f \in DOMAIN files |-> files[f]]
    /\ pc \notin {"idle", "start"} => ~At("source")
    /\ pc = "writeInterfaces" => At("interfaces")

\* Where compileContracts has its result, and contracts.json with it.
Written == {"openAbi", "writeAbi", "returned", "writeInterfaces"}
AfterScan == {"readCache", "flatten", "openContracts", "writeContracts"} \cup Written

ResultOnDisk == pc \in Written => Whole(contractsFile) /\ contractsFile.data = result

ResultIsCurrent == Compilable(sources) /\ result = Compiled(sources)

\* What a compilation has read of the sources is what there is.
FilesAreCurrent ==
    changed = {} /\ ~cut =>
        /\ pc = "flatten" => /\ filePaths = DOMAIN sources
                             /\ \A f \in DOMAIN files : /\ CanFlatten(sources, f)
                                                        /\ files[f] = Flattened(sources, f)
        /\ pc \in {"openContracts", "writeContracts"} => ResultIsCurrent

\* A cache that is newer than all sources is right.
Older == \A f \in DOMAIN sources : sources[f].mtime < contractsFile.mtime

CacheIsCurrent ==
    /\ Whole(contractsFile) /\ Older /\ ~misled =>
           Compilable(sources) /\ contractsFile.data = Compiled(sources)
    /\ pc = "scan" => lastCompiledTimestamp = contractsFile.mtime
    /\ pc = "readCache" /\ changed = {} => Older
    /\ pc \in Written /\ changed = {} /\ ~misled => ResultIsCurrent

\* Nothing has changed under an undisturbed script, or since the last builds.
NothingChanged ==
    /\ (undisturbed \/ builds > 0) /\ pc \in AfterScan => changed = {}
    /\ undisturbed /\ pc \in {"flatten", "openContracts", "writeContracts"} => ~cut
    /\ undisturbed /\ pc \in Written => ~misled \/ Older

\* Two builds bring the sources to the generated code and to the JavaScript.
InterfacesAreCurrent ==
    /\ Compilable(sources)
    /\ pc # "writeInterfaces" =>
           Whole(interfacesFile) /\ interfacesFile.data = Classes(Compiled(sources))
    /\ builds = 2 \/ (undisturbed /\ (At("contracts") \/ At("interfaces"))) =>
           javascript = Classes(Compiled(sources))

\* Or the cache is taken for right for good, though it was misled.
Stuck ==
    /\ misled /\ Older /\ Whole(contractsFile)
    /\ pc \in {"idle", "start", "scan", "readCache", "returned", "writeInterfaces"}

BuildsInStep == builds > 0 => Stuck \/ InterfacesAreCurrent

IInv ==
    /\ TypeOK /\ Types /\ ResultOnDisk /\ AbiInStep
    /\ FilesAreCurrent /\ CacheIsCurrent /\ NothingChanged /\ BuildsInStep
    /\ GeneratedClashes

=============================================================================
