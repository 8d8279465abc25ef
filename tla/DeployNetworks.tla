--------------------------- MODULE DeployNetworks ---------------------------
(***************************************************************************)
(* deployNetworks and deployContracts: processes that deploy to a list of  *)
(* networks, one after the other, and publish what they deployed in two    *)
(* files that all networks and processes share.  What deploy() does before *)
(* it has a genesis universe is module Deployment; here it succeeds or     *)
(* throws.  Others use a deployment as soon as it is on its chain.         *)
(***************************************************************************)
EXTENDS Integers, Sequences, Functions

CONSTANTS
    Processes,
    Requests,       \* the lists of network names deployNetworks may be given
    Environments,   \* createGenesisUniverse, tokenGiven and PRODUCTION ("unset", ...)
    networks,       \* the table of networks: isProduction, hasKey, and the net id
    MaxRuns,        \* bound: processes that are started
    MaxDeployments, \* bound: deployments; more than the requests can ask for
    MaxOthers       \* bound: universes of others

ASSUME NetworksParameters ==
    /\ "kovan" \in DOMAIN networks
    /\ \A n \in DOMAIN networks : {networks[n].isProduction, networks[n].hasKey} \subseteq BOOLEAN
    /\ \A e \in Environments : e.production \in {"unset", "true", "false"}
    /\ {MaxRuns, MaxDeployments, MaxOthers} \subseteq Nat
    /\ Requests \subseteq Seq(STRING)

\* deployContracts has one network, the default.
deployContracts == <<"kovan">>

NetIds == {networks[n].id : n \in DOMAIN networks}

VARIABLES
    queue,          \* networks a process has still to deploy to, the current one first
    environment,    \* of a process: what DeployerConfiguration.create reads
    pc,             \* what a process does next
    deployment,     \* its current deployment: 0 if it has none
    universeAddress,\* the answer of createUniverse_: 0 if there is none
    json,           \* what it is about to write
    universes,      \* of every deployment: who created its universes, in order
    blocks,         \* upload-block-numbers.json: the deployment by net id
    addresses,      \* addresses.json: deployment and universe by net id
    runs,
    others,         \* number of universes that others created
    overlapped,     \* history: two processes were at the files at once
    interrupted,    \* history: a process stopped while it was at the files
    lost,           \* history: a process stopped while it wrote addresses.json
    published       \* history: what was last published for every net id

processVars == <<queue, environment, deployment, universeAddress, json>>
fileVars == <<blocks, addresses>>
historyVars == <<overlapped, interrupted, lost, published>>
vars == <<processVars, pc, universes, fileVars, runs, others, historyVars>>

Nothing == <<>>
Unset == CHOOSE e \in Environments : TRUE
Absent == [state |-> "absent", map |-> Nothing]
Torn == [state |-> "torn", map |-> Nothing]
Written(map) == [state |-> "whole", map |-> map]

With(map, id, entry) == [i \in DOMAIN map \cup {id} |-> IF i = id THEN entry ELSE map[i]]

Network(p) == networks[Head(queue[p])]
isProduction(p) ==
    IF environment[p].production = "unset" THEN Network(p).isProduction
                                           ELSE environment[p].production = "true"

AtFiles == {"openBlocks", "writeBlocks", "readAddresses", "openAddresses", "writeAddresses"}

Init ==
    /\ queue = [p \in Processes |-> <<>>]
    /\ environment = [p \in Processes |-> Unset]
    /\ pc = [p \in Processes |-> "idle"]
    /\ deployment = [p \in Processes |-> 0]
    /\ universeAddress = [p \in Processes |-> 0]
    /\ json = [p \in Processes |-> Nothing]
    /\ universes = <<>>
    /\ blocks = Absent /\ addresses = Absent
    /\ runs = 0 /\ others = 0
    /\ overlapped = FALSE /\ interrupted = FALSE /\ lost = FALSE
    /\ published = Nothing

-----------------------------------------------------------------------------
(* A process *)

\* NetworkConfiguration.create throws for a name without entry or key.
CreateThrows(n) == n \notin DOMAIN networks \/ ~networks[n].hasKey

Goto(p, label) == pc' = [pc EXCEPT ![p] = label]

\* All network configurations are made before anything is deployed; a process
\* that is given no network has nothing to do.
Start(p, request, env) ==
    /\ pc[p] = "idle" /\ runs < MaxRuns
    /\ request # <<>>
    /\ runs' = runs + 1
    /\ \A i \in DOMAIN request : ~CreateThrows(request[i])
    /\ queue' = [queue EXCEPT ![p] = request]
    /\ environment' = [environment EXCEPT ![p] = env]
    /\ Goto(p, "configure")
    /\ UNCHANGED <<deployment, universeAddress, json, universes, fileVars,
                   others, historyVars>>

\* The process ends, and with it what it knew.
Ends(p) ==
    /\ Goto(p, "idle")
    /\ queue' = [queue EXCEPT ![p] = <<>>]
    /\ deployment' = [deployment EXCEPT ![p] = 0]
    /\ universeAddress' = [universeAddress EXCEPT ![p] = 0]
    /\ json' = [json EXCEPT ![p] = Nothing]
    /\ environment' = [environment EXCEPT ![p] = Unset]

\* A request fails and deployToNetwork throws, or the process is killed.
Stops(p) ==
    /\ pc[p] # "idle"
    /\ Ends(p)
    /\ interrupted' = (interrupted \/ pc[p] \in AtFiles)
    /\ lost' = (lost \/ pc[p] = "writeAddresses")
    /\ UNCHANGED <<universes, fileVars, runs, others, overlapped, published>>

\* DeployerConfiguration.create, with the production flag of the network: it
\* throws, with the networks before this one deployed, if production has to
\* make a genesis universe and is given no token.
Configure(p) ==
    /\ pc[p] = "configure"
    /\ IF isProduction(p) /\ environment[p].createGenesisUniverse
             /\ ~environment[p].tokenGiven
       THEN Ends(p)
       ELSE Goto(p, "upload") /\ UNCHANGED processVars
    /\ UNCHANGED <<universes, fileVars, runs, others, historyVars>>

\* createGenesisUniverse wants the address of TestNetDenominationToken, which
\* production does not upload.
HasToken(p) == ~isProduction(p)

\* deploy() up to the whitelist, all of it on the chain now.
Upload(p) ==
    /\ pc[p] = "upload" /\ Len(universes) < MaxDeployments
    /\ universes' = Append(universes, <<>>)
    /\ IF ~environment[p].createGenesisUniverse
       THEN /\ deployment' = [deployment EXCEPT ![p] = Len(universes')]
            /\ Goto(p, "readBlocks")
            /\ UNCHANGED <<queue, environment, universeAddress, json>>
       ELSE IF HasToken(p)
       THEN /\ deployment' = [deployment EXCEPT ![p] = Len(universes')]
            /\ Goto(p, "predict")
            /\ UNCHANGED <<queue, environment, universeAddress, json>>
       ELSE Ends(p)
    /\ UNCHANGED <<fileVars, runs, others, historyVars>>

\* A fault to check against: the universe after the next one.
AddressAfterNext(d) == Len(universes[d]) + 2

\* The eth_call createUniverse_: what the factory would create now.
AddressOfNext(d) == Len(universes[d]) + 1

Predict(p) ==
    /\ pc[p] = "predict"
    /\ universeAddress' = [universeAddress EXCEPT ![p] = AddressOfNext(deployment[p])]
    /\ Goto(p, "create")
    /\ UNCHANGED <<queue, environment, deployment, json, universes, fileVars, runs, others,
                   historyVars>>

createUniverse(d, creator) == universes' = [universes EXCEPT ![d] = Append(@, creator)]

Create(p) ==
    /\ pc[p] = "create"
    /\ createUniverse(deployment[p], "us")
    /\ Goto(p, "check")
    /\ UNCHANGED <<processVars, fileVars, runs, others, historyVars>>

\* Others create universes wherever they like; those that matter are the ones in
\* a deployment that is not finished.
OthersCreate(d) ==
    /\ \E p \in Processes : deployment[p] = d /\ pc[p] \in {"create", "check"}
    /\ others < MaxOthers
    /\ others' = others + 1
    /\ createUniverse(d, "others")
    /\ UNCHANGED <<processVars, pc, fileVars, runs, historyVars>>

\* Any universe has the name createGenesisUniverse looks for.
Check(p) ==
    /\ pc[p] = "check"
    /\ IF universeAddress[p] \in DOMAIN universes[deployment[p]]
       THEN Goto(p, "readBlocks") /\ UNCHANGED processVars
       ELSE Ends(p)
    /\ UNCHANGED <<universes, fileVars, runs, others, historyVars>>

-----------------------------------------------------------------------------
(* The two files *)

\* A fault to check against: the file is written anew.
NewMap(file) == Nothing

OldMap(file) == file.map

\* A fault to check against: the entry is stored under the name of the network.
NameOfNetwork(p) == Head(queue[p])

\* net_version, which networks on one node share.
netId(p) == Network(p).id

\* The file is read if it exists, and the entry of the network replaced.
\* JSON.parse throws at what a process left that stopped while writing.
ReadFile(p, label, file, entry, next) ==
    /\ pc[p] = label
    /\ IF file = Torn
       THEN Ends(p)
       ELSE /\ json' = [json EXCEPT ![p] = With(OldMap(file), netId(p), entry)]
            /\ Goto(p, next)
            /\ UNCHANGED <<queue, environment, deployment, universeAddress>>
    /\ overlapped' = (overlapped \/ \E q \in Processes \ {p} : pc[q] \in AtFiles)
    /\ UNCHANGED <<universes, fileVars, runs, others, lost, published>>

\* A fault to check against: the block number is asked for when it is written.
LatestBlock(p) == Len(universes)

\* deploy() asks for the block number before it uploads anything.
BlockNumber(p) == deployment[p]

\* A fault to check against: a file that is being written is waited for.
ReadBlocksWhenWhole(p) ==
    /\ blocks # Torn
    /\ ReadFile(p, "readBlocks", blocks, BlockNumber(p), "openBlocks")
    /\ UNCHANGED interrupted

ReadBlocks(p) ==
    /\ ReadFile(p, "readBlocks", blocks, BlockNumber(p), "openBlocks")
    /\ UNCHANGED interrupted

\* The addresses of a network: of its contracts and of its universe.
Published(p) == [deployment |-> deployment[p], universe |-> universeAddress[p]]

\* The process that throws here has published its block, and not its addresses.
ReadAddresses(p) ==
    /\ ReadFile(p, "readAddresses", addresses, Published(p), "openAddresses")
    /\ interrupted' = (interrupted \/ addresses = Torn)

OpenBlocks(p) ==
    /\ pc[p] = "openBlocks"
    /\ blocks' = Torn
    /\ Goto(p, "writeBlocks")
    /\ UNCHANGED <<processVars, universes, addresses, runs, others, historyVars>>

WriteBlocks(p) ==
    /\ pc[p] = "writeBlocks"
    /\ blocks' = Written(json[p])
    /\ json' = [json EXCEPT ![p] = Nothing]
    /\ Goto(p, "readAddresses")
    /\ UNCHANGED <<queue, environment, deployment, universeAddress, universes, addresses,
                   runs, others, historyVars>>

OpenAddresses(p) ==
    /\ pc[p] = "openAddresses"
    /\ addresses' = Torn
    /\ Goto(p, "writeAddresses")
    /\ UNCHANGED <<processVars, universes, blocks, runs, others, historyVars>>

OtherNetworks(s) == Tail(s)

\* The network is done: the next one, or the end.
WriteAddresses(p) ==
    /\ pc[p] = "writeAddresses"
    /\ addresses' = Written(json[p])
    /\ published' = With(published, netId(p), Published(p))
    /\ IF OtherNetworks(queue[p]) = <<>>
       THEN Ends(p)
       ELSE /\ queue' = [queue EXCEPT ![p] = OtherNetworks(@)]
            /\ deployment' = [deployment EXCEPT ![p] = 0]
            /\ universeAddress' = [universeAddress EXCEPT ![p] = 0]
            /\ json' = [json EXCEPT ![p] = Nothing]
            /\ Goto(p, "configure")
            /\ UNCHANGED environment
    /\ UNCHANGED <<universes, blocks, runs, others, overlapped, interrupted, lost>>

Step(p) ==
    \/ Configure(p) \/ Upload(p) \/ Predict(p) \/ Create(p) \/ Check(p)
    \/ ReadBlocks(p) \/ OpenBlocks(p) \/ WriteBlocks(p)
    \/ ReadAddresses(p) \/ OpenAddresses(p) \/ WriteAddresses(p)

Next ==
    \/ \E p \in Processes :
           \/ Step(p) \/ Stops(p)
           \/ \E r \in Requests \cup {deployContracts}, e \in Environments : Start(p, r, e)
    \/ \E d \in DOMAIN universes : OthersCreate(d)

Spec == Init /\ [][Next]_vars

\* The node answers, and the process goes on.
FairSpec == Spec /\ \A p \in Processes : WF_vars(Step(p))

-----------------------------------------------------------------------------

\* A process is idle when it has no networks left, is at the files only with a
\* deployment, and the files know networks by their id.
TypeOK ==
    /\ \A p \in Processes :
           /\ pc[p] = "idle" <=> queue[p] = <<>>
           /\ deployment[p] \in 0 .. Len(universes)
           /\ pc[p] \in AtFiles => deployment[p] # 0
    /\ {blocks.state, addresses.state} \subseteq {"absent", "torn", "whole"}
    /\ DOMAIN blocks.map \cup DOMAIN addresses.map \subseteq NetIds
    /\ runs \in 0 .. MaxRuns

\* An address that is not 0 and that of a universe of the deployment: of the
\* deployer's, or of others' that stand right before it.
IsUniverse(chains, entry) ==
    LET k == entry.universe
        of == chains[entry.deployment]
    IN  k # 0 => /\ entry.deployment \in DOMAIN chains
                 /\ k \in DOMAIN of
                 /\ \E j \in k .. Len(of) :
                        of[j] = "us" /\ \A i \in k .. j - 1 : of[i] = "others"

\* The address published as the universe of a deployment is that of a universe:
\* the deployer's, or one that others created between its prediction and the
\* creation of the deployer's.
PublishedUniverseExists ==
    \A id \in DOMAIN addresses.map : IsUniverse(universes, addresses.map[id])

\* The files speak of the same deployments.
Agree(blockMap, addressMap) ==
    /\ DOMAIN blockMap = DOMAIN addressMap
    /\ \A id \in DOMAIN blockMap : blockMap[id] = addressMap[id].deployment

\* As long as processes take turns and none stops in between, both files speak
\* of the same deployment to every network.
FilesAgree ==
    ~overlapped /\ ~interrupted /\ (\A p \in Processes : pc[p] \notin AtFiles)
    => Agree(blocks.map, addresses.map)

\* addresses.json after what was published for the networks.
OnFile(map) == IF map = Nothing THEN Absent ELSE Written(map)

\* addresses.json has of every network what its last finished deployment published,
\* whatever else was deployed or failed since, though every process writes the whole
\* file.  It is empty while it is written, and stays so for good, the entries of all
\* networks lost, if the process stops then: no later one writes it without them.
\* Processes that are at the files at once may lose each other's entries.
EntriesStay ==
    ~overlapped =>
        addresses = IF lost \/ \E p \in Processes : pc[p] = "writeAddresses"
                    THEN Torn ELSE OnFile(published)

\* Every run of a process ends, with its networks deployed or with an error.
RunsEnd == \A p \in Processes : pc[p] # "idle" ~> pc[p] = "idle"

(* The invariant that the proofs rest on *)

BeforeDeployment == {"idle", "configure", "upload"}
AfterCreation == {"check", "readBlocks"} \cup AtFiles

Types ==
    /\ queue \in [Processes -> Seq(DOMAIN networks)]
    /\ pc \in [Processes -> BeforeDeployment \cup {"predict", "create"} \cup AfterCreation]
    /\ deployment \in [Processes -> Nat]
    /\ universeAddress \in [Processes -> Nat]
    /\ DOMAIN json = Processes
    /\ \A p \in Processes : DOMAIN json[p] \subseteq NetIds
    /\ universes \in Seq(Seq({"us", "others"}))

\* A process has a deployment from Upload on, and nobody else has the same one.
OwnDeployments ==
    /\ \A p \in Processes :
           pc[p] \in BeforeDeployment <=> deployment[p] = 0
    /\ \A p \in Processes :
           pc[p] \in BeforeDeployment => universeAddress[p] = 0
    /\ \A p, q \in Processes : deployment[p] = deployment[q] => p = q \/ deployment[p] = 0

\* From the predicted address on there are only universes of others.
Foreseen(of, k) ==
    /\ k \in 1 .. Len(of) + 1
    /\ \A i \in k .. Len(of) : of[i] = "others"

\* What a process is about to write or will publish is a universe.
KnowsUniverses(p) ==
    /\ pc[p] = "create" => Foreseen(universes[deployment[p]], universeAddress[p])
    /\ pc[p] \in AfterCreation => IsUniverse(universes, Published(p))
    /\ pc[p] \in {"openAddresses", "writeAddresses"} =>
           \A id \in DOMAIN json[p] : IsUniverse(universes, json[p][id])

UniversesKnown == PublishedUniverseExists /\ \A p \in Processes : KnowsUniverses(p)

\* The blocks of a process that has not written its addresses yet.
OneAhead(p, blockMap) ==
    /\ DOMAIN blockMap = DOMAIN addresses.map \cup {netId(p)}
    /\ \A id \in DOMAIN blockMap :
           blockMap[id] = IF id = netId(p) THEN deployment[p] ELSE addresses.map[id].deployment

\* As long as processes take turns and none stops in between, one that is at
\* the files is ahead of one of them in a way that it makes good.
FilesInStep ==
    ~overlapped /\ ~interrupted =>
        /\ (\A p \in Processes : pc[p] \notin AtFiles) => Agree(blocks.map, addresses.map)
        /\ \A p \in Processes :
               /\ pc[p] \in {"openBlocks", "writeBlocks"} => OneAhead(p, json[p])
               /\ pc[p] = "readAddresses" => OneAhead(p, blocks.map)
               /\ pc[p] \in {"openAddresses", "writeAddresses"} => Agree(blocks.map, json[p])

\* One process at a time is at the files, and changes one entry.
OneAtATime ==
    /\ EntriesStay
    /\ ~overlapped =>
           /\ \A p, q \in Processes : pc[p] \in AtFiles /\ pc[q] \in AtFiles => p = q
           /\ \A p \in Processes : pc[p] \in {"openAddresses", "writeAddresses"} =>
                  ~lost /\ json[p] = With(published, netId(p), Published(p))

IInv == TypeOK /\ Types /\ OwnDeployments /\ UniversesKnown /\ FilesInStep /\ OneAtATime

=============================================================================
