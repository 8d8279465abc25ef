------------------------ MODULE DeployNetworksProofs ------------------------
(***************************************************************************)
(* What processes that deploy to networks publish, proved for any number   *)
(* of processes, networks, requests and universes: the address of a        *)
(* universe that exists, in files that agree and keep the entries of the   *)
(* other networks as long as processes take turns and none stops there.    *)
(***************************************************************************)
EXTENDS DeployNetworks, TLAPS, SequenceTheorems

\* A process that runs has a network, whose id the files may have.
LEMMA RunningHasNetwork ==
    ASSUME TypeOK, Types, NEW p \in Processes, pc[p] # "idle"
    PROVE  /\ queue[p] \in Seq(DOMAIN networks)
           /\ Head(queue[p]) \in DOMAIN networks
           /\ Tail(queue[p]) \in Seq(DOMAIN networks)
           /\ netId(p) \in NetIds
<1>1. queue[p] \in Seq(DOMAIN networks) /\ queue[p] # <<>>
  BY DEF TypeOK, Types
<1>2. Head(queue[p]) \in DOMAIN networks /\ Tail(queue[p]) \in Seq(DOMAIN networks)
  BY <1>1, HeadTailProperties
<1> QED
  BY <1>1, <1>2 DEF netId, Network, NetIds

-----------------------------------------------------------------------------
(* Types *)

Runs(p) == pc[p] # "idle"

\* The part of the types that is about processes and what is on the chains.
ProcessTypes ==
    /\ Types
    /\ \A p \in Processes :
           /\ pc[p] = "idle" <=> queue[p] = <<>>
           /\ deployment[p] \in 0 .. Len(universes)
           /\ pc[p] \in AtFiles => deployment[p] # 0

LEMMA EndsTypes ==
    ASSUME ProcessTypes, NEW p \in Processes, Ends(p),
           universes' \in Seq(Seq({"us", "others"})), Len(universes') >= Len(universes)
    PROVE  ProcessTypes'
<1>1. <<>> \in Seq(DOMAIN networks) /\ DOMAIN Nothing = {}
  BY EmptySeq DEF Nothing
<1>2. Len(universes) \in Nat /\ Len(universes') \in Nat
  BY LenProperties DEF ProcessTypes, Types
<1>3. /\ queue' \in [Processes -> Seq(DOMAIN networks)]
      /\ pc' \in [Processes -> BeforeDeployment \cup {"predict", "create"} \cup AfterCreation]
      /\ deployment' \in [Processes -> Nat]
      /\ universeAddress' \in [Processes -> Nat]
      /\ DOMAIN json' = Processes
      /\ \A q \in Processes : DOMAIN json'[q] \subseteq NetIds
  BY <1>1 DEF ProcessTypes, Types, Ends, Goto, BeforeDeployment
<1>4. ASSUME NEW q \in Processes
      PROVE  /\ pc'[q] = "idle" <=> queue'[q] = <<>>
             /\ deployment'[q] \in 0 .. Len(universes')
             /\ pc'[q] \in AtFiles => deployment'[q] # 0
  BY <1>2 DEF ProcessTypes, Types, Ends, Goto, AtFiles
<1> QED
  BY <1>3, <1>4 DEF ProcessTypes, Types

\* A process that goes on to some step, with its networks.
LEMMA GotoTypes ==
    ASSUME ProcessTypes, NEW p \in Processes, Runs(p), UNCHANGED queue,
           NEW label \in {"upload", "predict", "create"} \cup AfterCreation, Goto(p, label),
           deployment' \in [Processes -> Nat], universeAddress' \in [Processes -> Nat],
           DOMAIN json' = Processes, \A q \in Processes : DOMAIN json'[q] \subseteq NetIds,
           universes' \in Seq(Seq({"us", "others"})), Len(universes') >= Len(universes),
           \A q \in Processes \ {p} : deployment'[q] = deployment[q],
           deployment'[p] \in 0 .. Len(universes'),
           label \in AtFiles => deployment'[p] # 0
    PROVE  ProcessTypes'
<1>1. Len(universes) \in Nat /\ Len(universes') \in Nat
  BY LenProperties DEF ProcessTypes, Types
<1>2. pc' \in [Processes -> BeforeDeployment \cup {"predict", "create"} \cup AfterCreation]
  BY DEF ProcessTypes, Types, Goto, BeforeDeployment
<1>3. ASSUME NEW q \in Processes
      PROVE  /\ pc'[q] = "idle" <=> queue'[q] = <<>>
             /\ deployment'[q] \in 0 .. Len(universes')
             /\ pc'[q] \in AtFiles => deployment'[q] # 0
  BY <1>1 DEF ProcessTypes, Types, Runs, Goto, AtFiles, AfterCreation
<1> QED
  BY <1>2, <1>3 DEF ProcessTypes, Types

\* What is read from a file and replaced has the networks' ids.
LEMMA WithIds ==
    ASSUME NEW map, DOMAIN map \subseteq NetIds, NEW id \in NetIds, NEW entry
    PROVE  DOMAIN With(map, id, entry) \subseteq NetIds
BY DEF With

LEMMA ReadFileTypes ==
    ASSUME TypeOK, ProcessTypes, NEW p \in Processes, NEW label, NEW file, NEW entry,
           NEW next \in {"openBlocks", "openAddresses"}, label # "idle",
           ReadFile(p, label, file, entry, next),
           deployment[p] # 0, DOMAIN file.map \subseteq NetIds
    PROVE  ProcessTypes'
<1>1. Len(universes) \in Nat /\ pc[p] # "idle" /\ UNCHANGED universes
  BY LenProperties DEF ProcessTypes, Types, ReadFile
<1>2. CASE Ends(p)
  BY <1>1, <1>2, EndsTypes DEF ProcessTypes, Types
<1>3. CASE ~Ends(p)
  <2>1. /\ json' = [json EXCEPT ![p] = With(OldMap(file), netId(p), entry)]
        /\ Goto(p, next) /\ UNCHANGED <<queue, deployment, universeAddress>>
    BY <1>3 DEF ReadFile
  <2>2. netId(p) \in NetIds
    BY <1>1, RunningHasNetwork DEF ProcessTypes
  <2>3. DOMAIN With(OldMap(file), netId(p), entry) \subseteq NetIds
    BY <2>2, WithIds DEF OldMap
  <2>4. DOMAIN json' = Processes /\ \A q \in Processes : DOMAIN json'[q] \subseteq NetIds
    BY <2>1, <2>3 DEF ProcessTypes, Types
  <2>5. next \in {"upload", "predict", "create"} \cup AfterCreation
    BY DEF AfterCreation, AtFiles
  <2>6. /\ deployment' \in [Processes -> Nat] /\ universeAddress' \in [Processes -> Nat]
        /\ universes' \in Seq(Seq({"us", "others"})) /\ Len(universes') >= Len(universes)
        /\ deployment'[p] \in 0 .. Len(universes') /\ deployment'[p] # 0
        /\ Runs(p) /\ UNCHANGED queue
        /\ \A q \in Processes \ {p} : deployment'[q] = deployment[q]
    BY <1>1, <2>1 DEF ProcessTypes, Types, Runs
  <2> QED
    BY <2>1, <2>4, <2>5, <2>6, GotoTypes
<1> QED
  BY <1>2, <1>3

\* The chains only get longer.
LEMMA UploadTypes ==
    ASSUME TypeOK, ProcessTypes, NEW p \in Processes, Upload(p)
    PROVE  ProcessTypes'
<1>1. /\ universes \in Seq(Seq({"us", "others"})) /\ Len(universes) \in Nat
      /\ <<>> \in Seq({"us", "others"})
  BY LenProperties, EmptySeq DEF ProcessTypes, Types
<1>2. universes' \in Seq(Seq({"us", "others"})) /\ Len(universes') = Len(universes) + 1
  BY <1>1, AppendProperties DEF Upload
<1>3. CASE Ends(p)
  BY <1>1, <1>2, <1>3, EndsTypes
<1>4. CASE ~Ends(p)
  <2>1. /\ deployment' = [deployment EXCEPT ![p] = Len(universes')]
        /\ \E label \in {"predict", "readBlocks"} : Goto(p, label)
        /\ UNCHANGED <<queue, universeAddress, json>> /\ Runs(p)
    BY <1>4 DEF Upload, Runs
  <2>2. PICK label \in {"predict", "readBlocks"} : Goto(p, label)
    BY <2>1
  <2>3. label \in {"upload", "predict", "create"} \cup AfterCreation
    BY DEF AfterCreation
  <2>4. /\ deployment' \in [Processes -> Nat] /\ universeAddress' \in [Processes -> Nat]
        /\ DOMAIN json' = Processes /\ \A q \in Processes : DOMAIN json'[q] \subseteq NetIds
        /\ deployment'[p] \in 0 .. Len(universes')
        /\ Len(universes') >= Len(universes) /\ deployment'[p] # 0
        /\ \A q \in Processes \ {p} : deployment'[q] = deployment[q]
    BY <1>1, <1>2, <2>1 DEF ProcessTypes, Types
  <2> QED
    BY <1>2, <2>1, <2>2, <2>3, <2>4, GotoTypes
<1> QED
  BY <1>3, <1>4

\* createUniverse appends to a deployment's universes.
LEMMA CreatedTypes ==
    ASSUME ProcessTypes, NEW d \in DOMAIN universes, NEW creator \in {"us", "others"},
           createUniverse(d, creator)
    PROVE  /\ universes' \in Seq(Seq({"us", "others"}))
           /\ Len(universes') = Len(universes)
           /\ DOMAIN universes' = DOMAIN universes
           /\ Len(universes[d]) \in Nat
           /\ Len(universes'[d]) = Len(universes[d]) + 1
           /\ \A i \in 1 .. Len(universes[d]) : universes'[d][i] = universes[d][i]
           /\ universes'[d][Len(universes[d]) + 1] = creator
           /\ \A e \in DOMAIN universes \ {d} : universes'[e] = universes[e]
<1>1. universes \in Seq(Seq({"us", "others"})) /\ DOMAIN universes = 1 .. Len(universes)
  BY LenProperties DEF ProcessTypes, Types
<1>2. universes[d] \in Seq({"us", "others"}) /\ Len(universes[d]) \in Nat
  BY <1>1, ElementOfSeq, LenProperties
<1> DEFINE more == Append(universes[d], creator)
<1>3. /\ more \in Seq({"us", "others"}) /\ Len(more) = Len(universes[d]) + 1
      /\ \A i \in 1 .. Len(universes[d]) : more[i] = universes[d][i]
      /\ more[Len(universes[d]) + 1] = creator
  BY <1>2, AppendProperties
<1>4. universes' = [universes EXCEPT ![d] = more]
  BY DEF createUniverse
<1> HIDE DEF more
<1>5. /\ universes' \in Seq(Seq({"us", "others"})) /\ Len(universes') = Len(universes)
      /\ \A j \in 1 .. Len(universes) : universes'[j] = IF j = d THEN more ELSE universes[j]
  BY <1>1, <1>3, <1>4, ExceptSeq
<1>6. DOMAIN universes' = 1 .. Len(universes')
  BY <1>5, LenProperties
<1> QED
  BY <1>1, <1>2, <1>3, <1>5, <1>6

\* A step within a deployment: the answer of a request, a universe, a write.
LEMMA MovesTypes ==
    ASSUME TypeOK, ProcessTypes, NEW p \in Processes,
           Predict(p) \/ Create(p) \/ OpenBlocks(p) \/ WriteBlocks(p) \/ OpenAddresses(p),
           OwnDeployments
    PROVE  ProcessTypes'
<1>1. /\ Len(universes) \in Nat /\ universes \in Seq(Seq({"us", "others"}))
      /\ DOMAIN universes = 1 .. Len(universes)
      /\ DOMAIN Nothing = {}
      /\ deployment[p] \in 1 .. Len(universes)
  <2>1. deployment[p] # 0
    BY DEF OwnDeployments, BeforeDeployment, Predict, Create, OpenBlocks, WriteBlocks,
       OpenAddresses
  <2> QED
    BY <2>1, LenProperties DEF ProcessTypes, Types, Nothing
<1>2. PICK label \in {"create", "check", "writeBlocks", "readAddresses", "writeAddresses"} :
        /\ Goto(p, label) /\ Runs(p) /\ UNCHANGED <<queue, deployment>>
  BY DEF Predict, Create, OpenBlocks, WriteBlocks, OpenAddresses, Runs, processVars
<1>3. label \in {"upload", "predict", "create"} \cup AfterCreation
  BY DEF AfterCreation, AtFiles
<1>4. /\ universeAddress' \in [Processes -> Nat]
      /\ DOMAIN json' = Processes /\ \A q \in Processes : DOMAIN json'[q] \subseteq NetIds
  <2>1. CASE Predict(p)
    <3>1. AddressOfNext(deployment[p]) \in Nat
      BY <1>1, ElementOfSeq, LenProperties DEF AddressOfNext
    <3> QED
      BY <2>1, <3>1 DEF Predict, ProcessTypes, Types
  <2>2. CASE WriteBlocks(p)
    BY <1>1, <2>2 DEF WriteBlocks, ProcessTypes, Types
  <2>3. CASE Create(p) \/ OpenBlocks(p) \/ OpenAddresses(p)
    BY <2>3 DEF Create, OpenBlocks, OpenAddresses, processVars, ProcessTypes, Types
  <2> QED
    BY <2>1, <2>2, <2>3
<1>5. /\ universes' \in Seq(Seq({"us", "others"})) /\ Len(universes') >= Len(universes)
      /\ Len(universes') = Len(universes)
  <2>1. CASE Create(p)
    BY <1>1, <2>1, CreatedTypes DEF Create
  <2>2. CASE ~Create(p)
    BY <1>1, <2>2 DEF Predict, OpenBlocks, WriteBlocks, OpenAddresses
  <2> QED
    BY <2>1, <2>2
<1>6. /\ deployment' \in [Processes -> Nat] /\ deployment'[p] \in 0 .. Len(universes')
      /\ deployment'[p] # 0 /\ \A q \in Processes \ {p} : deployment'[q] = deployment[q]
  BY <1>1, <1>2, <1>5 DEF ProcessTypes, Types
<1> QED
  BY <1>2, <1>3, <1>4, <1>5, <1>6, GotoTypes

LEMMA StartTypes ==
    ASSUME TypeOK, ProcessTypes, NEW p \in Processes,
           NEW r \in Requests \cup {deployContracts}, NEW e \in Environments, Start(p, r, e)
    PROVE  ProcessTypes'
<1>1. r # <<>>
  BY DEF Start
<1>2. r \in Seq(DOMAIN networks)
  <2>1. CASE r = deployContracts
    <3>1. "kovan" \in DOMAIN networks
      BY NetworksParameters
    <3> QED
      BY <2>1, <3>1 DEF deployContracts
  <2>2. CASE r \in Requests
    <3>1. r \in Seq(STRING)
      BY <2>2, NetworksParameters
    <3>2. /\ r \in [1 .. Len(r) -> STRING] /\ Len(r) \in Nat
          /\ \A i \in 1 .. Len(r) : r[i] \in DOMAIN networks
      BY <3>1, LenProperties DEF Start, CreateThrows
    <3> QED
      BY <3>2
  <2> QED
    BY <2>1, <2>2
<1>3. /\ queue' = [queue EXCEPT ![p] = r]
      /\ pc' = [pc EXCEPT ![p] = "configure"]
      /\ UNCHANGED <<deployment, universeAddress, json, universes>>
  BY DEF Start, Goto
<1>4. /\ queue' \in [Processes -> Seq(DOMAIN networks)]
      /\ pc' \in [Processes -> BeforeDeployment \cup {"predict", "create"} \cup AfterCreation]
  BY <1>2, <1>3 DEF ProcessTypes, Types, BeforeDeployment
<1>5. ASSUME NEW q \in Processes
      PROVE  /\ pc'[q] = "idle" <=> queue'[q] = <<>>
             /\ deployment'[q] \in 0 .. Len(universes')
             /\ pc'[q] \in AtFiles => deployment'[q] # 0
  BY <1>1, <1>3 DEF ProcessTypes, Types, AtFiles
<1> QED
  BY <1>3, <1>4, <1>5 DEF ProcessTypes, Types

LEMMA WriteAddressesTypes ==
    ASSUME TypeOK, ProcessTypes, NEW p \in Processes, WriteAddresses(p)
    PROVE  ProcessTypes'
<1>1. Len(universes) \in Nat /\ pc[p] # "idle" /\ UNCHANGED universes /\ DOMAIN Nothing = {}
  BY LenProperties DEF ProcessTypes, Types, WriteAddresses, Nothing
<1>2. CASE Ends(p)
  BY <1>1, <1>2, EndsTypes DEF ProcessTypes, Types
<1>3. CASE ~Ends(p)
  <2>1. /\ Tail(queue[p]) # <<>> /\ queue' = [queue EXCEPT ![p] = Tail(queue[p])]
        /\ deployment' = [deployment EXCEPT ![p] = 0]
        /\ universeAddress' = [universeAddress EXCEPT ![p] = 0]
        /\ json' = [json EXCEPT ![p] = Nothing]
        /\ pc' = [pc EXCEPT ![p] = "configure"]
    BY <1>3 DEF WriteAddresses, OtherNetworks, Goto
  <2>2. Tail(queue[p]) \in Seq(DOMAIN networks)
    BY <1>1, RunningHasNetwork DEF ProcessTypes
  <2>3. Types'
    BY <1>1, <2>1, <2>2 DEF ProcessTypes, Types, BeforeDeployment
  <2>4. ASSUME NEW q \in Processes
        PROVE  /\ pc'[q] = "idle" <=> queue'[q] = <<>>
               /\ deployment'[q] \in 0 .. Len(universes')
               /\ pc'[q] \in AtFiles => deployment'[q] # 0
    BY <1>1, <2>1 DEF ProcessTypes, Types, AtFiles
  <2> QED
    BY <2>3, <2>4 DEF ProcessTypes
<1> QED
  BY <1>2, <1>3

LEMMA ConfigureCheckTypes ==
    ASSUME TypeOK, ProcessTypes, OwnDeployments, NEW p \in Processes,
           Configure(p) \/ Check(p)
    PROVE  ProcessTypes'
<1>1. Len(universes) \in Nat /\ pc[p] # "idle" /\ UNCHANGED universes
  BY LenProperties DEF ProcessTypes, Types, Configure, Check
<1>2. CASE Ends(p)
  BY <1>1, <1>2, EndsTypes DEF ProcessTypes, Types
<1>3. CASE ~Ends(p)
  <2>1. PICK label \in {"upload", "readBlocks"} : Goto(p, label) /\ UNCHANGED processVars
    BY <1>3 DEF Configure, Check
  <2>2. label \in {"upload", "predict", "create"} \cup AfterCreation /\ label \notin AtFiles
    BY DEF AfterCreation, AtFiles
  <2>3. /\ UNCHANGED <<queue, deployment, universeAddress, json, universes>>
        /\ deployment' \in [Processes -> Nat] /\ universeAddress' \in [Processes -> Nat]
        /\ DOMAIN json' = Processes /\ \A q \in Processes : DOMAIN json'[q] \subseteq NetIds
        /\ deployment'[p] \in 0 .. Len(universes')
        /\ \A q \in Processes \ {p} : deployment'[q] = deployment[q]
        /\ universes' \in Seq(Seq({"us", "others"})) /\ Len(universes') >= Len(universes)
        /\ Runs(p)
    BY <1>1, <2>1 DEF processVars, ProcessTypes, Types, Runs
  <2> QED
    BY <2>1, <2>2, <2>3, GotoTypes
<1> QED
  BY <1>2, <1>3

LEMMA NextProcessTypes ==
    ASSUME TypeOK, ProcessTypes, OwnDeployments, [Next]_vars
    PROVE  ProcessTypes'
<1>1. ASSUME UNCHANGED <<queue, pc, deployment, universeAddress, json>>,
             universes' \in Seq(Seq({"us", "others"})), Len(universes') = Len(universes)
      PROVE  ProcessTypes'
  BY <1>1 DEF ProcessTypes, Types
<1>2. ASSUME NEW p \in Processes, Stops(p) PROVE ProcessTypes'
  <2>1. Len(universes) \in Nat /\ UNCHANGED universes /\ Ends(p)
    BY <1>2, LenProperties DEF ProcessTypes, Types, Stops
  <2> QED
    BY <2>1, EndsTypes DEF ProcessTypes, Types
<1>3. ASSUME NEW p \in Processes, ReadBlocks(p) \/ ReadAddresses(p) PROVE ProcessTypes'
  <2>1. deployment[p] # 0
    BY <1>3 DEF OwnDeployments, BeforeDeployment, ReadBlocks, ReadAddresses, ReadFile
  <2>2. DOMAIN blocks.map \subseteq NetIds /\ DOMAIN addresses.map \subseteq NetIds
    BY DEF TypeOK
  <2> QED
    BY <1>3, <2>1, <2>2, ReadFileTypes DEF ReadBlocks, ReadAddresses
<1>4. ASSUME NEW d \in DOMAIN universes, OthersCreate(d) PROVE ProcessTypes'
  BY <1>1, <1>4, CreatedTypes DEF OthersCreate, processVars
<1>5. CASE UNCHANGED vars
  BY <1>1, <1>5 DEF vars, processVars, ProcessTypes, Types
<1> QED
  BY <1>2, <1>3, <1>4, <1>5, StartTypes, ConfigureCheckTypes, UploadTypes, MovesTypes,
     WriteAddressesTypes DEF Next, Step

\* The two files.
FileTypes ==
    /\ {blocks.state, addresses.state} \subseteq {"absent", "torn", "whole"}
    /\ DOMAIN blocks.map \cup DOMAIN addresses.map \subseteq NetIds
    /\ runs \in 0 .. MaxRuns

LEMMA NextFileTypes ==
    ASSUME TypeOK, Types, [Next]_vars
    PROVE  FileTypes'
<1>1. /\ Torn.state = "torn" /\ DOMAIN Torn.map = {}
      /\ \A map : Written(map).state = "whole" /\ Written(map).map = map
  BY DEF Torn, Written, Nothing
<1>2. ASSUME NEW p \in Processes, WriteBlocks(p) \/ WriteAddresses(p) PROVE FileTypes'
  <2>1. DOMAIN json[p] \subseteq NetIds
    BY DEF Types
  <2> QED
    BY <1>1, <1>2, <2>1 DEF WriteBlocks, WriteAddresses, TypeOK, FileTypes
<1>3. ASSUME NEW p \in Processes, OpenBlocks(p) \/ OpenAddresses(p) PROVE FileTypes'
  BY <1>1, <1>3 DEF OpenBlocks, OpenAddresses, TypeOK, FileTypes
<1>4. ASSUME UNCHANGED <<blocks, addresses>>, runs' \in 0 .. MaxRuns PROVE FileTypes'
  BY <1>4 DEF TypeOK, FileTypes
<1>5. ASSUME NEW p \in Processes, NEW r, NEW e, Start(p, r, e) PROVE FileTypes'
  <2>1. runs \in Nat /\ MaxRuns \in Nat /\ runs < MaxRuns /\ runs' = runs + 1
    BY <1>5, NetworksParameters DEF TypeOK, Start
  <2> QED
    BY <1>4, <1>5, <2>1 DEF Start, fileVars
<1>6. ASSUME UNCHANGED <<blocks, addresses, runs>> PROVE FileTypes'
  BY <1>4, <1>6 DEF TypeOK
<1>7. ASSUME NEW p \in Processes,
             \/ Stops(p) \/ Configure(p) \/ Upload(p) \/ Predict(p) \/ Create(p) \/ Check(p)
             \/ ReadBlocks(p) \/ ReadAddresses(p)
      PROVE  UNCHANGED <<blocks, addresses, runs>>
  BY <1>7 DEF Stops, Configure, Upload, Predict, Create, Check, ReadBlocks, ReadAddresses,
     ReadFile, fileVars
<1>8. ASSUME NEW d, OthersCreate(d) PROVE UNCHANGED <<blocks, addresses, runs>>
  BY <1>8 DEF OthersCreate, fileVars
<1>9. UNCHANGED vars => UNCHANGED <<blocks, addresses, runs>>
  BY DEF vars, fileVars
<1> QED
  BY <1>2, <1>3, <1>5, <1>6, <1>7, <1>8, <1>9 DEF Next, Step

LEMMA TypesParts == TypeOK /\ Types <=> ProcessTypes /\ FileTypes
BY DEF TypeOK, ProcessTypes, FileTypes

-----------------------------------------------------------------------------
(* Deployments have one owner *)

\* A step of p, of which its deployment is as it was, new or given up.
LEMMA OwnAfter ==
    ASSUME OwnDeployments, NEW p \in Processes,
           \A q \in Processes \ {p} : /\ pc'[q] = pc[q] /\ deployment'[q] = deployment[q]
                                      /\ universeAddress'[q] = universeAddress[q],
           pc'[p] \in BeforeDeployment <=> deployment'[p] = 0,
           pc'[p] \in BeforeDeployment => universeAddress'[p] = 0,
           \/ deployment'[p] = deployment[p]
           \/ deployment'[p] = 0
           \/ \A q \in Processes : deployment[q] # deployment'[p]
    PROVE  OwnDeployments'
<1>1. ASSUME NEW q \in Processes
      PROVE  /\ pc'[q] \in BeforeDeployment <=> deployment'[q] = 0
             /\ pc'[q] \in BeforeDeployment => universeAddress'[q] = 0
  BY DEF OwnDeployments
<1>2. ASSUME NEW q \in Processes, NEW r \in Processes, deployment'[q] = deployment'[r]
      PROVE  q = r \/ deployment'[q] = 0
  BY <1>2 DEF OwnDeployments
<1> QED
  BY <1>1, <1>2 DEF OwnDeployments, BeforeDeployment

LEMMA OwnAfterEnd ==
    ASSUME Types, OwnDeployments, NEW p \in Processes, Ends(p)
    PROVE  OwnDeployments'
<1>1. /\ pc'[p] = "idle" /\ deployment'[p] = 0 /\ universeAddress'[p] = 0
      /\ \A q \in Processes \ {p} : /\ pc'[q] = pc[q] /\ deployment'[q] = deployment[q]
                                    /\ universeAddress'[q] = universeAddress[q]
  BY DEF Ends, Goto, Types
<1> QED
  BY <1>1, OwnAfter DEF BeforeDeployment

LEMMA NextOwn ==
    ASSUME TypeOK, Types, OwnDeployments, [Next]_vars
    PROVE  OwnDeployments'
<1>1. \A p \in Processes : deployment[p] \in Nat /\ deployment[p] \in 0 .. Len(universes)
  BY DEF TypeOK, Types
<1>2. ASSUME NEW p \in Processes, Ends(p) PROVE OwnDeployments'
  BY <1>2, OwnAfterEnd
<1>3. ASSUME NEW p \in Processes, NEW r, NEW e, Start(p, r, e) PROVE OwnDeployments'
  <2>1. pc[p] = "idle" /\ deployment[p] = 0 /\ universeAddress[p] = 0
    BY <1>3 DEF Start, OwnDeployments, BeforeDeployment
  <2>2. /\ pc'[p] = "configure" /\ deployment'[p] = 0 /\ universeAddress'[p] = 0
        /\ \A q \in Processes \ {p} : /\ pc'[q] = pc[q] /\ deployment'[q] = deployment[q]
                                      /\ universeAddress'[q] = universeAddress[q]
    BY <1>3, <2>1 DEF Start, Goto, Types
  <2> QED
    BY <2>2, OwnAfter DEF BeforeDeployment
<1>4. ASSUME NEW p \in Processes, Configure(p), ~Ends(p) PROVE OwnDeployments'
  <2>1. pc[p] = "configure" /\ deployment[p] = 0 /\ universeAddress[p] = 0
    BY <1>4 DEF Configure, OwnDeployments, BeforeDeployment
  <2>2. /\ pc'[p] = "upload" /\ deployment'[p] = 0 /\ universeAddress'[p] = 0
        /\ \A q \in Processes \ {p} : /\ pc'[q] = pc[q] /\ deployment'[q] = deployment[q]
                                      /\ universeAddress'[q] = universeAddress[q]
    BY <1>4, <2>1 DEF Configure, Goto, Types, processVars
  <2> QED
    BY <2>2, OwnAfter DEF BeforeDeployment
<1>5. ASSUME NEW p \in Processes, Upload(p), ~Ends(p) PROVE OwnDeployments'
  <2>1. Len(universes') = Len(universes) + 1 /\ Len(universes) \in Nat
    BY <1>5, LenProperties, EmptySeq, AppendProperties DEF Upload, Types
  <2>2. /\ pc'[p] \in {"predict", "readBlocks"} /\ deployment'[p] = Len(universes')
        /\ \A q \in Processes \ {p} : /\ pc'[q] = pc[q] /\ deployment'[q] = deployment[q]
                                      /\ universeAddress'[q] = universeAddress[q]
    BY <1>5 DEF Upload, Goto, Types
  <2>3. \A q \in Processes : deployment[q] # deployment'[p]
    BY <1>1, <2>1, <2>2
  <2>4. pc'[p] \notin BeforeDeployment /\ deployment'[p] # 0
    BY <2>1, <2>2 DEF BeforeDeployment
  <2> QED
    BY <2>2, <2>3, <2>4, OwnAfter
<1>6. ASSUME NEW p \in Processes, pc[p] \notin BeforeDeployment,
             NEW label \in {"create"} \cup AfterCreation, Goto(p, label),
             UNCHANGED deployment,
             \A q \in Processes \ {p} : universeAddress'[q] = universeAddress[q]
      PROVE  OwnDeployments'
  <2>1. /\ pc'[p] \notin BeforeDeployment /\ deployment'[p] # 0
        /\ \A q \in Processes \ {p} : /\ pc'[q] = pc[q] /\ deployment'[q] = deployment[q]
                                      /\ universeAddress'[q] = universeAddress[q]
    BY <1>6 DEF Goto, Types, OwnDeployments, AfterCreation, AtFiles, BeforeDeployment
  <2> QED
    BY <1>6, <2>1, OwnAfter
<1>7. ASSUME NEW p \in Processes,
             \/ Predict(p) \/ Create(p) \/ OpenBlocks(p) \/ WriteBlocks(p) \/ OpenAddresses(p)
             \/ (Check(p) \/ ReadBlocks(p) \/ ReadAddresses(p)) /\ ~Ends(p)
      PROVE  OwnDeployments'
  <2>1. pc[p] \notin BeforeDeployment
    BY <1>7 DEF Predict, Create, Check, ReadBlocks, ReadAddresses, ReadFile, OpenBlocks,
       WriteBlocks, OpenAddresses, BeforeDeployment
  <2>2. \E label \in {"create"} \cup AfterCreation : Goto(p, label)
    BY <1>7 DEF Predict, Create, Check, ReadBlocks, ReadAddresses, ReadFile, OpenBlocks,
       WriteBlocks, OpenAddresses, AfterCreation, AtFiles
  <2>3. /\ UNCHANGED deployment
        /\ \A q \in Processes \ {p} : universeAddress'[q] = universeAddress[q]
    BY <1>7 DEF Predict, Create, Check, ReadBlocks, ReadAddresses, ReadFile, OpenBlocks,
       WriteBlocks, OpenAddresses, processVars, Types
  <2> QED
    BY <1>6, <2>1, <2>2, <2>3
<1>8. ASSUME NEW p \in Processes, WriteAddresses(p), ~Ends(p) PROVE OwnDeployments'
  <2>1. /\ pc'[p] = "configure" /\ deployment'[p] = 0 /\ universeAddress'[p] = 0
        /\ \A q \in Processes \ {p} : /\ pc'[q] = pc[q] /\ deployment'[q] = deployment[q]
                                      /\ universeAddress'[q] = universeAddress[q]
    BY <1>8 DEF WriteAddresses, Goto, Types
  <2> QED
    BY <2>1, OwnAfter DEF BeforeDeployment
<1>9. ASSUME UNCHANGED <<pc, deployment, universeAddress>> PROVE OwnDeployments'
  BY <1>9 DEF OwnDeployments
<1>10. (\E d \in DOMAIN universes : OthersCreate(d)) \/ UNCHANGED vars
         => UNCHANGED <<pc, deployment, universeAddress>>
  BY DEF OthersCreate, vars, processVars
<1>11. \A p \in Processes : Stops(p) => Ends(p)
  BY DEF Stops
<1> QED
  BY <1>2, <1>3, <1>4, <1>5, <1>7, <1>8, <1>9, <1>10, <1>11 DEF Next, Step

Ownership == TypeOK /\ Types /\ OwnDeployments

LEMMA InitOwnership == Init => Ownership
<1> SUFFICES ASSUME Init PROVE Ownership
  OBVIOUS
<1>1. /\ <<>> \in Seq(DOMAIN networks) /\ <<>> \in Seq(Seq({"us", "others"}))
      /\ Len(universes) = 0 /\ DOMAIN Nothing = {}
  BY EmptySeq DEF Init, Nothing
<1>2. Types
  BY <1>1 DEF Init, Types, BeforeDeployment
<1>3. OwnDeployments
  BY DEF Init, OwnDeployments, BeforeDeployment
<1>4. TypeOK
  BY <1>1, NetworksParameters DEF Init, TypeOK, AtFiles, Absent
<1> QED
  BY <1>2, <1>3, <1>4 DEF Ownership

LEMMA NextOwnership == Ownership /\ [Next]_vars => Ownership'
<1> SUFFICES ASSUME Ownership, [Next]_vars PROVE Ownership'
  OBVIOUS
<1>1. TypeOK /\ Types /\ OwnDeployments /\ ProcessTypes
  BY TypesParts DEF Ownership
<1>2. ProcessTypes' /\ FileTypes' /\ OwnDeployments'
  BY <1>1, NextProcessTypes, NextFileTypes, NextOwn
<1> QED
  BY <1>2 DEF Ownership, TypeOK, ProcessTypes, FileTypes

\* A process is idle exactly when it has no networks left, is at the files only
\* with a deployment, and no two processes publish the same deployment.
THEOREM TypeCorrect == Spec => []TypeOK
<1>1. Ownership => TypeOK
  BY DEF Ownership
<1> QED
  BY <1>1, InitOwnership, NextOwnership, PTL DEF Spec

-----------------------------------------------------------------------------
(* Universes *)

Creators == {"us", "others"}

\* Universes stay where they are, and new ones come after them.
Grows(chains, later) ==
    /\ DOMAIN chains \subseteq DOMAIN later
    /\ \A d \in DOMAIN chains :
           /\ Len(chains[d]) <= Len(later[d])
           /\ \A i \in 1 .. Len(chains[d]) : later[d][i] = chains[d][i]

\* The steps that use a chain.
LEMMA ChainSteps ==
    ASSUME [Next]_vars
    PROVE  \/ UNCHANGED universes
           \/ \E p \in Processes : Upload(p) \/ Create(p)
           \/ \E d \in DOMAIN universes : OthersCreate(d)
<1>1. ASSUME NEW p \in Processes,
             \/ Stops(p) \/ Configure(p) \/ Predict(p) \/ Check(p)
             \/ ReadBlocks(p) \/ OpenBlocks(p) \/ WriteBlocks(p)
             \/ ReadAddresses(p) \/ OpenAddresses(p) \/ WriteAddresses(p)
             \/ \E r, e : Start(p, r, e)
      PROVE  UNCHANGED universes
  BY <1>1 DEF Stops, Configure, Predict, Check, ReadBlocks, ReadAddresses, ReadFile,
     OpenBlocks, WriteBlocks, OpenAddresses, WriteAddresses, Start
<1>2. UNCHANGED vars => UNCHANGED universes
  BY DEF vars
<1> QED
  BY <1>1, <1>2 DEF Next, Step

LEMMA NextGrows ==
    ASSUME TypeOK, Types, OwnDeployments, [Next]_vars
    PROVE  Grows(universes, universes')
<1>1. /\ universes \in Seq(Seq(Creators)) /\ DOMAIN universes = 1 .. Len(universes)
      /\ Len(universes) \in Nat
      /\ \A d \in DOMAIN universes : Len(universes[d]) \in Nat
  BY LenProperties, ElementOfSeq DEF Types, Creators
<1>2. CASE UNCHANGED universes
  BY <1>1, <1>2 DEF Grows
<1>3. ASSUME NEW p \in Processes, Upload(p) PROVE Grows(universes, universes')
  <2>1. <<>> \in Seq(Creators) /\ universes' = Append(universes, <<>>)
    BY <1>3, EmptySeq DEF Upload
  <2>2. /\ universes' \in Seq(Seq(Creators)) /\ Len(universes') = Len(universes) + 1
        /\ \A d \in 1 .. Len(universes) : universes'[d] = universes[d]
    BY <1>1, <2>1, AppendProperties
  <2>3. DOMAIN universes' = 1 .. Len(universes')
    BY <2>2, LenProperties
  <2> QED
    BY <1>1, <2>2, <2>3 DEF Grows
<1>4. ASSUME NEW d \in DOMAIN universes, NEW creator \in Creators, createUniverse(d, creator)
      PROVE  Grows(universes, universes')
  <2>1. /\ DOMAIN universes' = DOMAIN universes
        /\ Len(universes'[d]) = Len(universes[d]) + 1
        /\ \A i \in 1 .. Len(universes[d]) : universes'[d][i] = universes[d][i]
        /\ \A e \in DOMAIN universes \ {d} : universes'[e] = universes[e]
    BY <1>4, CreatedTypes, TypesParts DEF Creators
  <2>2. ASSUME NEW e \in DOMAIN universes
        PROVE  /\ Len(universes[e]) <= Len(universes'[e])
               /\ \A i \in 1 .. Len(universes[e]) : universes'[e][i] = universes[e][i]
    <3>1. CASE e = d
      BY <1>1, <2>1, <3>1
    <3>2. CASE e # d
      <4>1. universes'[e] = universes[e] /\ Len(universes[e]) \in Nat
        BY <1>1, <2>1, <3>2
      <4> QED
        BY <4>1
    <3> QED
      BY <3>1, <3>2
  <2> QED
    BY <2>1, <2>2 DEF Grows
<1>5. ASSUME NEW p \in Processes, Create(p) PROVE Grows(universes, universes')
  <2>1. deployment[p] \in 1 .. Len(universes)
    BY <1>5 DEF Create, OwnDeployments, BeforeDeployment, TypeOK
  <2> QED
    BY <1>1, <1>4, <1>5, <2>1 DEF Create, Creators
<1>6. ASSUME NEW d \in DOMAIN universes, OthersCreate(d) PROVE Grows(universes, universes')
  BY <1>4, <1>6 DEF OthersCreate, Creators
<1> QED
  BY <1>2, <1>3, <1>5, <1>6, ChainSteps

\* What was a universe stays one.
LEMMA StaysUniverse ==
    ASSUME NEW chains \in Seq(Seq(Creators)), NEW later \in Seq(Seq(Creators)),
           Grows(chains, later), NEW entry, IsUniverse(chains, entry)
    PROVE  IsUniverse(later, entry)
<1> DEFINE k == entry.universe
           d == entry.deployment
<1> SUFFICES ASSUME k # 0
             PROVE  /\ d \in DOMAIN later
                    /\ k \in DOMAIN later[d]
                    /\ \E j \in k .. Len(later[d]) :
                           later[d][j] = "us" /\ \A i \in k .. j - 1 : later[d][i] = "others"
  BY DEF IsUniverse
<1>1. /\ d \in DOMAIN chains /\ k \in DOMAIN chains[d]
      /\ \E j \in k .. Len(chains[d]) :
             chains[d][j] = "us" /\ \A i \in k .. j - 1 : chains[d][i] = "others"
  BY DEF IsUniverse
<1>2. d \in DOMAIN later /\ chains[d] \in Seq(Creators) /\ later[d] \in Seq(Creators)
  <2>1. /\ DOMAIN chains = 1 .. Len(chains) /\ DOMAIN later = 1 .. Len(later)
        /\ d \in DOMAIN later
    BY <1>1, LenProperties DEF Grows
  <2> QED
    BY <1>1, <2>1, ElementOfSeq
<1>3. /\ DOMAIN chains[d] = 1 .. Len(chains[d]) /\ DOMAIN later[d] = 1 .. Len(later[d])
      /\ Len(chains[d]) \in Nat /\ Len(later[d]) \in Nat
  BY <1>2, LenProperties
<1>4. /\ Len(chains[d]) <= Len(later[d])
      /\ \A i \in 1 .. Len(chains[d]) : later[d][i] = chains[d][i]
  BY <1>1 DEF Grows
<1> HIDE DEF k, d
<1>5. PICK j \in k .. Len(chains[d]) :
        chains[d][j] = "us" /\ \A i \in k .. j - 1 : chains[d][i] = "others"
  BY <1>1
<1>6. j \in k .. Len(later[d]) /\ later[d][j] = "us" /\ k \in 1 .. Len(later[d])
  BY <1>1, <1>3, <1>4, <1>5
<1>7. ASSUME NEW i \in k .. j - 1 PROVE later[d][i] = "others"
  <2>1. i \in 1 .. Len(chains[d])
    BY <1>1, <1>3, <1>5
  <2>2. chains[d][i] = "others"
    BY <1>5
  <2> QED
    BY <1>4, <2>1, <2>2
<1> QED
  BY <1>2, <1>3, <1>6, <1>7

\* A process that keeps its step and what it knows, while chains grow; before it
\* creates its own universe, only others may create one in its deployment.
LEMMA KnowsStill ==
    ASSUME Types, Types', Grows(universes, universes'),
           NEW q \in Processes, KnowsUniverses(q),
           pc'[q] = pc[q], deployment'[q] = deployment[q],
           universeAddress'[q] = universeAddress[q], json'[q] = json[q],
           pc[q] = "create" =>
               Foreseen(universes'[deployment[q]], universeAddress[q])
    PROVE  KnowsUniverses(q)'
<1>1. universes \in Seq(Seq(Creators)) /\ universes' \in Seq(Seq(Creators))
  BY DEF Types, Creators
<1>2. ASSUME NEW entry, IsUniverse(universes, entry) PROVE IsUniverse(universes', entry)
  BY <1>1, <1>2, StaysUniverse
<1>3. Published(q)' = Published(q)
  BY DEF Published
<1>4. pc'[q] = "create" => Foreseen(universes'[deployment'[q]], universeAddress'[q])
  OBVIOUS
<1>5. pc'[q] \in AfterCreation => IsUniverse(universes', Published(q)')
  BY <1>2, <1>3 DEF KnowsUniverses
<1>6. pc'[q] \in {"openAddresses", "writeAddresses"} =>
           \A id \in DOMAIN json'[q] : IsUniverse(universes', json'[q][id])
  BY <1>2 DEF KnowsUniverses
<1> QED
  BY <1>4, <1>5, <1>6 DEF KnowsUniverses

\* The universes of a deployment until its owner creates one.
LEMMA ForeseenStill ==
    ASSUME TypeOK, Types, OwnDeployments, [Next]_vars, NEW q \in Processes,
           pc[q] = "create", pc'[q] = "create",
           Foreseen(universes[deployment[q]], universeAddress[q])
    PROVE  Foreseen(universes'[deployment[q]], universeAddress[q])
<1> DEFINE d == deployment[q]
<1>1. /\ DOMAIN universes = 1 .. Len(universes) /\ Len(universes) \in Nat
      /\ d \in DOMAIN universes /\ d # 0
      /\ Len(universes[d]) \in Nat /\ universes \in Seq(Seq(Creators))
  <2>1. /\ DOMAIN universes = 1 .. Len(universes) /\ Len(universes) \in Nat
        /\ universes \in Seq(Seq(Creators))
    BY LenProperties DEF Types, Creators
  <2>2. d \in 0 .. Len(universes) /\ d # 0
    BY DEF TypeOK, OwnDeployments, BeforeDeployment
  <2>3. d \in 1 .. Len(universes)
    BY <2>1, <2>2
  <2>4. universes[d] \in Seq(Creators)
    BY <2>1, <2>3, ElementOfSeq
  <2> QED
    BY <2>1, <2>2, <2>3, <2>4, LenProperties
<1> HIDE DEF d
<1>2. CASE universes'[d] = universes[d]
  BY <1>2 DEF d
<1>3. CASE \E e \in DOMAIN universes : OthersCreate(e)
  <2>1. PICK e \in DOMAIN universes : createUniverse(e, "others")
    BY <1>3 DEF OthersCreate
  <2>2. CASE e = d
    <3>1. /\ Len(universes'[d]) = Len(universes[d]) + 1
          /\ \A i \in 1 .. Len(universes[d]) : universes'[d][i] = universes[d][i]
          /\ universes'[d][Len(universes[d]) + 1] = "others"
      BY <2>1, <2>2, CreatedTypes, TypesParts
    <3>2. /\ universeAddress[q] \in 1 .. Len(universes[d]) + 1
          /\ \A i \in universeAddress[q] .. Len(universes[d]) : universes[d][i] = "others"
      BY DEF Foreseen, d
    <3>3. ASSUME NEW i \in universeAddress[q] .. Len(universes'[d])
          PROVE  universes'[d][i] = "others"
      <4>1. i \in Nat /\ (i <= Len(universes[d]) \/ i = Len(universes[d]) + 1)
        BY <1>1, <3>1, <3>2
      <4>2. CASE i = Len(universes[d]) + 1
        BY <3>1, <4>2
      <4>3. CASE i <= Len(universes[d])
        <5>1. i \in universeAddress[q] .. Len(universes[d]) /\ i \in 1 .. Len(universes[d])
          BY <1>1, <3>2, <4>1, <4>3
        <5> QED
          BY <3>1, <3>2, <5>1
      <4> QED
        BY <4>1, <4>2, <4>3
    <3> QED
      BY <1>1, <3>1, <3>2, <3>3 DEF Foreseen, d
  <2>3. CASE e # d
    BY <1>1, <1>2, <2>1, <2>3, CreatedTypes, TypesParts
  <2> QED
    BY <2>2, <2>3
<1>4. CASE \E p \in Processes : Create(p)
  <2>1. PICK p \in Processes : Create(p)
    BY <1>4
  <2>2. p # q
    BY <2>1 DEF Create, Goto, Types
  <2>3. deployment[p] # d
    BY <1>1, <2>2 DEF OwnDeployments, d
  <2>4. createUniverse(deployment[p], "us")
    BY <2>1 DEF Create
  <2>5. universes'[d] = universes[d]
    BY <1>1, <2>3, <2>4 DEF createUniverse
  <2> QED
    BY <1>2, <2>5
<1>5. CASE \E p \in Processes : Upload(p)
  <2>1. universes' = Append(universes, <<>>) /\ <<>> \in Seq(Creators)
    BY <1>5, EmptySeq DEF Upload
  <2>2. universes'[d] = universes[d]
    BY <1>1, <2>1, AppendProperties
  <2> QED
    BY <1>2, <2>2
<1>6. CASE UNCHANGED universes
  BY <1>2, <1>6
<1> QED
  BY <1>3, <1>4, <1>5, <1>6, ChainSteps

\* The deployer's universe is created at the predicted address, or after those
\* that others created meanwhile.
LEMMA CreateKnows ==
    ASSUME TypeOK, Types, OwnDeployments, NEW p \in Processes, KnowsUniverses(p), Create(p)
    PROVE  KnowsUniverses(p)'
<1> DEFINE d == deployment[p]
           k == universeAddress[p]
           n == Len(universes[d])
<1>1. /\ d \in DOMAIN universes /\ createUniverse(d, "us")
      /\ k \in 1 .. n + 1 /\ \A i \in k .. n : universes[d][i] = "others"
  <2>1. d \in 0 .. Len(universes) /\ d # 0 /\ DOMAIN universes = 1 .. Len(universes)
        /\ Len(universes) \in Nat
    BY LenProperties DEF Create, TypeOK, Types, OwnDeployments, BeforeDeployment
  <2> QED
    BY <2>1 DEF Create, KnowsUniverses, Foreseen
<1>2. /\ n \in Nat /\ Len(universes'[d]) = n + 1 /\ DOMAIN universes' = DOMAIN universes
      /\ \A i \in 1 .. n : universes'[d][i] = universes[d][i]
      /\ universes'[d][n + 1] = "us"
      /\ universes' \in Seq(Seq(Creators))
  BY <1>1, CreatedTypes, TypesParts DEF Creators
<1>3. DOMAIN universes'[d] = 1 .. n + 1
  <2>1. DOMAIN universes' = 1 .. Len(universes')
    BY <1>2, LenProperties
  <2>2. universes'[d] \in Seq(Creators)
    BY <1>1, <1>2, <2>1, ElementOfSeq
  <2> QED
    BY <1>2, <2>2, LenProperties
<1>4. /\ pc' = [pc EXCEPT ![p] = "check"] /\ pc'[p] = "check"
      /\ Published(p)' = [deployment |-> d, universe |-> k]
  BY DEF Create, Goto, Types, processVars, Published
<1> HIDE DEF d, k, n
<1>5. \A i \in k .. n : universes'[d][i] = "others"
  BY <1>1, <1>2
<1>6. IsUniverse(universes', [deployment |-> d, universe |-> k])
  <2>1. n + 1 \in k .. Len(universes'[d]) /\ (n + 1) - 1 = n /\ k \in DOMAIN universes'[d]
    BY <1>1, <1>2, <1>3
  <2>2. /\ d \in DOMAIN universes' /\ k \in DOMAIN universes'[d]
        /\ \E j \in k .. Len(universes'[d]) :
               universes'[d][j] = "us" /\ \A i \in k .. j - 1 : universes'[d][i] = "others"
    BY <1>1, <1>2, <1>5, <2>1
  <2> QED
    BY <2>2 DEF IsUniverse
<1> QED
  BY <1>4, <1>6 DEF KnowsUniverses

\* Of the entries a process is about to write, one is its own and the others were
\* published before.
LEMMA ReadKnows ==
    ASSUME Types, PublishedUniverseExists, NEW p \in Processes, KnowsUniverses(p),
           ReadAddresses(p), ~Ends(p)
    PROVE  KnowsUniverses(p)'
<1>1. /\ pc[p] = "readAddresses" /\ UNCHANGED <<universes, deployment, universeAddress>>
      /\ json' = [json EXCEPT ![p] = With(addresses.map, netId(p), Published(p))]
      /\ pc'[p] = "openAddresses"
  BY DEF ReadAddresses, ReadFile, Goto, Types, OldMap
<1>2. Published(p)' = Published(p) /\ IsUniverse(universes, Published(p))
  BY <1>1 DEF Published, KnowsUniverses, AfterCreation, AtFiles
<1>3. json'[p] = With(addresses.map, netId(p), Published(p))
  BY <1>1 DEF Types
<1>4. ASSUME NEW id \in DOMAIN json'[p] PROVE IsUniverse(universes, json'[p][id])
  BY <1>2, <1>3 DEF With, PublishedUniverseExists
<1> QED
  BY <1>1, <1>2, <1>4 DEF KnowsUniverses

LEMMA StepKnows ==
    ASSUME TypeOK, Types, Types', OwnDeployments, UniversesKnown, NEW p \in Processes,
           Step(p) \/ Stops(p) \/ (\E r, e : Start(p, r, e))
    PROVE  KnowsUniverses(p)'
<1>1. KnowsUniverses(p) /\ PublishedUniverseExists
  BY DEF UniversesKnown
<1>2. ASSUME pc'[p] \in BeforeDeployment \cup {"predict"} PROVE KnowsUniverses(p)'
  BY <1>2 DEF KnowsUniverses, BeforeDeployment, AfterCreation, AtFiles
<1>3. CASE Ends(p) \/ Configure(p) \/ WriteAddresses(p) \/ (\E r, e : Start(p, r, e))
  BY <1>2, <1>3 DEF Ends, Configure, WriteAddresses, Start, Goto, Types, BeforeDeployment
<1>4. CASE Upload(p) /\ ~Ends(p)
  <2>1. pc'[p] = "predict" \/ (pc'[p] = "readBlocks" /\ universeAddress'[p] = 0)
    BY <1>4 DEF Upload, Goto, Types, OwnDeployments, BeforeDeployment
  <2>2. CASE universeAddress'[p] = 0 /\ pc'[p] = "readBlocks"
    <3>1. IsUniverse(universes', Published(p)')
      BY <2>2 DEF IsUniverse, Published
    <3> QED
      BY <2>2, <3>1 DEF KnowsUniverses
  <2> QED
    BY <1>2, <2>1, <2>2
<1>5. CASE Predict(p)
  <2>1. deployment[p] \in 1 .. Len(universes) /\ universes \in Seq(Seq(Creators))
        /\ Len(universes) \in Nat
    <3>1. deployment[p] \in 0 .. Len(universes) /\ deployment[p] # 0
      BY <1>5 DEF Predict, TypeOK, OwnDeployments, BeforeDeployment
    <3> QED
      BY <3>1, LenProperties DEF Types, Creators
  <2>2. Len(universes[deployment[p]]) \in Nat
    BY <2>1, ElementOfSeq, LenProperties
  <2>3. /\ universeAddress'[p] = Len(universes[deployment[p]]) + 1 /\ pc'[p] = "create"
        /\ UNCHANGED <<universes, deployment>>
    BY <1>5 DEF Predict, AddressOfNext, Goto, Types
  <2>4. Foreseen(universes'[deployment'[p]], universeAddress'[p])
    BY <2>2, <2>3 DEF Foreseen
  <2> QED
    BY <2>3, <2>4 DEF KnowsUniverses, AfterCreation, AtFiles
<1>6. CASE ((Check(p) \/ ReadBlocks(p)) /\ ~Ends(p)) \/ OpenBlocks(p) \/ WriteBlocks(p)
  <2>1. /\ pc[p] \in AfterCreation
        /\ pc'[p] \in {"readBlocks", "openBlocks", "writeBlocks", "readAddresses"}
        /\ UNCHANGED <<universes, deployment, universeAddress>>
    BY <1>6 DEF Check, ReadBlocks, ReadFile, OpenBlocks, WriteBlocks, Goto, Types,
       AfterCreation, AtFiles, processVars
  <2> QED
    BY <1>1, <2>1 DEF KnowsUniverses, Published
<1>7. CASE OpenAddresses(p)
  <2>1. /\ pc[p] = "openAddresses" /\ pc'[p] = "writeAddresses" /\ pc[p] \in AfterCreation
        /\ UNCHANGED <<universes, deployment, universeAddress, json>>
    BY <1>7 DEF OpenAddresses, Goto, Types, AfterCreation, AtFiles, processVars
  <2> QED
    BY <1>1, <2>1 DEF KnowsUniverses, Published
<1>8. Stops(p) => Ends(p)
  BY DEF Stops
<1> QED
  BY <1>1, <1>3, <1>4, <1>5, <1>6, <1>7, <1>8, CreateKnows, ReadKnows DEF Step

\* A step of a process leaves the others where they are.
LEMMA OthersStay ==
    ASSUME Types, NEW p \in Processes, Step(p) \/ Stops(p) \/ (\E r, e : Start(p, r, e)),
           NEW q \in Processes \ {p}
    PROVE  /\ pc'[q] = pc[q] /\ deployment'[q] = deployment[q] /\ queue'[q] = queue[q]
           /\ universeAddress'[q] = universeAddress[q] /\ json'[q] = json[q]
<1>1. CASE Ends(p)
  BY <1>1 DEF Ends, Goto, Types
<1>2. CASE ~Ends(p)
  BY <1>2 DEF Step, Stops, Start, Configure, Upload, Predict, Create, Check, ReadBlocks,
     ReadAddresses, ReadFile, OpenBlocks, WriteBlocks, OpenAddresses, WriteAddresses,
     Goto, Types, processVars
<1> QED
  BY <1>1, <1>2

\* Only two steps change addresses.json.
LEMMA AddressSteps ==
    ASSUME [Next]_vars
    PROVE  \/ UNCHANGED <<addresses, published>>
           \/ \E p \in Processes : OpenAddresses(p) \/ WriteAddresses(p)
<1>1. ASSUME NEW p \in Processes,
             \/ Stops(p) \/ Configure(p) \/ Upload(p) \/ Predict(p) \/ Create(p) \/ Check(p)
             \/ ReadBlocks(p) \/ OpenBlocks(p) \/ WriteBlocks(p) \/ ReadAddresses(p)
             \/ \E r, e : Start(p, r, e)
      PROVE  UNCHANGED <<addresses, published>>
  BY <1>1 DEF Stops, Configure, Upload, Predict, Create, Check, ReadBlocks, ReadAddresses,
     ReadFile, OpenBlocks, WriteBlocks, Start, fileVars, historyVars
<1>2. ASSUME NEW d, OthersCreate(d) PROVE UNCHANGED <<addresses, published>>
  BY <1>2 DEF OthersCreate, fileVars, historyVars
<1>3. UNCHANGED vars => UNCHANGED <<addresses, published>>
  BY DEF vars, fileVars, historyVars
<1> QED
  BY <1>1, <1>2, <1>3 DEF Next, Step

LEMMA NextKnown ==
    ASSUME Ownership, Ownership', UniversesKnown, [Next]_vars
    PROVE  UniversesKnown'
<1>1. /\ TypeOK /\ Types /\ Types' /\ OwnDeployments /\ PublishedUniverseExists
      /\ \A p \in Processes : KnowsUniverses(p)
  BY DEF Ownership, UniversesKnown
<1>2. Grows(universes, universes')
  BY <1>1, NextGrows
<1>3. ASSUME NEW q \in Processes,
             pc'[q] = pc[q], deployment'[q] = deployment[q],
             universeAddress'[q] = universeAddress[q], json'[q] = json[q]
      PROVE  KnowsUniverses(q)'
  <2>1. pc[q] = "create" => Foreseen(universes'[deployment[q]], universeAddress[q])
    BY <1>1, <1>3, ForeseenStill DEF KnowsUniverses
  <2> QED
    BY <1>1, <1>2, <1>3, <2>1, KnowsStill
<1>4. ASSUME NEW q \in Processes PROVE KnowsUniverses(q)'
  <2>1. CASE Step(q) \/ Stops(q) \/ (\E r, e : Start(q, r, e))
    BY <1>1, <2>1, StepKnows
  <2>2. CASE \E p \in Processes \ {q} : Step(p) \/ Stops(p) \/ (\E r, e : Start(p, r, e))
    BY <1>1, <1>3, <2>2, OthersStay
  <2>3. CASE (\E d \in DOMAIN universes : OthersCreate(d)) \/ UNCHANGED vars
    BY <1>3, <2>3 DEF OthersCreate, vars, processVars
  <2> QED
    BY <2>1, <2>2, <2>3 DEF Next
<1>5. PublishedUniverseExists'
  <2>1. ASSUME NEW entry, IsUniverse(universes, entry) PROVE IsUniverse(universes', entry)
    BY <1>1, <1>2, <2>1, StaysUniverse DEF Types, Creators
  <2>2. CASE UNCHANGED addresses
    BY <1>1, <2>1, <2>2 DEF PublishedUniverseExists
  <2>3. CASE \E p \in Processes : OpenAddresses(p)
    <3>1. addresses' = Torn /\ DOMAIN Torn.map = {}
      BY <2>3 DEF OpenAddresses, Torn, Nothing
    <3> QED
      BY <3>1 DEF PublishedUniverseExists
  <2>4. ASSUME NEW p \in Processes, WriteAddresses(p) PROVE PublishedUniverseExists'
    <3>1. addresses'.map = json[p] /\ pc[p] = "writeAddresses"
      BY <2>4 DEF WriteAddresses, Written
    <3>2. \A id \in DOMAIN json[p] : IsUniverse(universes', json[p][id])
      BY <1>1, <2>1, <3>1 DEF KnowsUniverses
    <3> QED
      BY <3>1, <3>2 DEF PublishedUniverseExists
  <2> QED
    BY <2>2, <2>3, <2>4, AddressSteps
<1> QED
  BY <1>4, <1>5 DEF UniversesKnown

\* Whatever others create on the chains meanwhile, and whichever process stops or
\* overtakes another: a universe address in addresses.json is that of a universe,
\* the deployer's or one right before it.
THEOREM PublishedExists == Spec => []PublishedUniverseExists
<1>1. Init => Ownership /\ UniversesKnown
  <2>1. ASSUME Init PROVE UniversesKnown
    <3>1. addresses.map = <<>> /\ DOMAIN Nothing = {} /\ \A p \in Processes : pc[p] = "idle"
      BY <2>1 DEF Init, Absent, Nothing
    <3> QED
      BY <3>1 DEF UniversesKnown, PublishedUniverseExists, KnowsUniverses, AfterCreation,
         AtFiles
  <2> QED
    BY <2>1, InitOwnership
<1>2. Ownership /\ UniversesKnown /\ [Next]_vars => (Ownership /\ UniversesKnown)'
  BY NextOwnership, NextKnown
<1>3. UniversesKnown => PublishedUniverseExists
  BY DEF UniversesKnown
<1> QED
  BY <1>1, <1>2, <1>3, PTL DEF Spec

-----------------------------------------------------------------------------
(* The two files *)

Does(p) == Step(p) \/ Stops(p) \/ (\E r, e : Start(p, r, e))

\* Steps away from the files, and the only way to them.
LEMMA AwayFromFiles ==
    ASSUME Types, NEW p \in Processes, Does(p), pc[p] \notin AtFiles
    PROVE  /\ UNCHANGED <<blocks, addresses, published>> /\ (interrupted => interrupted')
           /\ lost' <=> lost
           /\ \/ pc'[p] \notin AtFiles
              \/ ReadBlocks(p) /\ pc'[p] = "openBlocks"
<1>1. ~(OpenBlocks(p) \/ WriteBlocks(p) \/ ReadAddresses(p) \/ OpenAddresses(p)
          \/ WriteAddresses(p))
  BY DEF OpenBlocks, WriteBlocks, ReadAddresses, ReadFile, OpenAddresses, WriteAddresses,
     AtFiles
<1>2. CASE Configure(p) \/ Upload(p) \/ Predict(p) \/ Create(p) \/ Check(p)
  BY <1>2 DEF Configure, Upload, Predict, Create, Check, Ends, Goto, Types, AtFiles,
     fileVars, historyVars
<1>3. CASE Stops(p)
  <2>1. UNCHANGED <<blocks, addresses, published>> /\ pc'[p] = "idle"
    BY <1>3 DEF Stops, Ends, Goto, Types, fileVars
  <2>2. interrupted' = (interrupted \/ pc[p] \in AtFiles)
    BY <1>3 DEF Stops
  <2>3. interrupted => interrupted'
    BY <2>2, Zenon
  <2>4. lost' = (lost \/ pc[p] = "writeAddresses") /\ pc[p] # "writeAddresses"
    BY <1>3 DEF Stops, AtFiles
  <2>5. lost' <=> lost
    BY <2>4, Zenon
  <2> QED
    BY <2>1, <2>3, <2>5 DEF AtFiles
<1>5. CASE \E r, e : Start(p, r, e)
  BY <1>5 DEF Start, Goto, Types, AtFiles, fileVars, historyVars
<1>4. CASE ReadBlocks(p)
  BY <1>4 DEF ReadBlocks, ReadFile, Ends, Goto, Types, AtFiles, fileVars
<1> QED
  BY <1>1, <1>2, <1>3, <1>4, <1>5 DEF Does, Step

\* An overlap is not forgotten, and noticed by who reads a file.
LEMMA OverlapNoticed ==
    ASSUME [Next]_vars, ~overlapped'
    PROVE  /\ ~overlapped
           /\ \A p \in Processes : ReadBlocks(p) \/ ReadAddresses(p) =>
                  \A q \in Processes \ {p} : pc[q] \notin AtFiles
<1>1. ASSUME NEW p \in Processes, ReadBlocks(p) \/ ReadAddresses(p)
      PROVE  ~overlapped /\ \A q \in Processes \ {p} : pc[q] \notin AtFiles
  BY <1>1 DEF ReadBlocks, ReadAddresses, ReadFile
<1>2. ASSUME NEW p \in Processes,
             \/ Stops(p) \/ Configure(p) \/ Upload(p) \/ Predict(p) \/ Create(p) \/ Check(p)
             \/ OpenBlocks(p) \/ WriteBlocks(p) \/ OpenAddresses(p) \/ WriteAddresses(p)
             \/ \E r, e : Start(p, r, e)
      PROVE  UNCHANGED overlapped
  BY <1>2 DEF Stops, Configure, Upload, Predict, Create, Check, OpenBlocks, WriteBlocks,
     OpenAddresses, WriteAddresses, Start, historyVars
<1>3. (\E d \in DOMAIN universes : OthersCreate(d)) \/ UNCHANGED vars => UNCHANGED overlapped
  BY DEF OthersCreate, vars, historyVars
<1>4. ~overlapped
  BY <1>1, <1>2, <1>3 DEF Next, Step
<1> QED
  BY <1>1, <1>4

\* What the steps at the files do to them.
LEMMA AtFilesSteps ==
    ASSUME Types, NEW p \in Processes, Does(p), pc[p] \in AtFiles
    PROVE  \/ /\ pc'[p] = "idle" /\ UNCHANGED <<blocks, addresses, published>>
              /\ interrupted' /\ (lost' <=> (lost \/ pc[p] = "writeAddresses"))
           \/ /\ pc[p] = "openBlocks" /\ pc'[p] = "writeBlocks"
              /\ UNCHANGED <<addresses, lost, published, json, deployment, queue>>
           \/ /\ pc[p] = "writeBlocks" /\ pc'[p] = "readAddresses"
              /\ blocks'.map = json[p]
              /\ UNCHANGED <<addresses, lost, published, deployment, queue>>
           \/ /\ pc[p] = "readAddresses" /\ pc'[p] = "openAddresses"
              /\ ReadAddresses(p) /\ addresses # Torn
              /\ json'[p] = With(addresses.map, netId(p), Published(p))
              /\ UNCHANGED <<blocks, addresses, lost, published, deployment, queue,
                             universeAddress>>
           \/ /\ pc[p] = "openAddresses" /\ pc'[p] = "writeAddresses"
              /\ addresses' = Torn
              /\ UNCHANGED <<blocks, lost, published, json, deployment, queue,
                             universeAddress>>
           \/ /\ pc[p] = "writeAddresses" /\ pc'[p] \in {"idle", "configure"}
              /\ addresses' = Written(json[p])
              /\ published' = With(published, netId(p), Published(p))
              /\ UNCHANGED <<blocks, lost>>
<1>1. CASE Stops(p)
  <2>1. /\ pc'[p] = "idle" /\ UNCHANGED <<blocks, addresses, published>>
        /\ interrupted' = (interrupted \/ pc[p] \in AtFiles)
        /\ lost' = (lost \/ pc[p] = "writeAddresses")
    BY <1>1 DEF Stops, Ends, Goto, Types, fileVars
  <2>2. interrupted' /\ (lost' <=> (lost \/ pc[p] = "writeAddresses"))
    BY <2>1, Zenon
  <2> QED
    BY <2>1, <2>2
<1>2. CASE OpenBlocks(p)
  BY <1>2 DEF OpenBlocks, Goto, Types, processVars, historyVars
<1>3. CASE WriteBlocks(p)
  BY <1>3 DEF WriteBlocks, Goto, Types, Written, historyVars
<1>4. CASE ReadAddresses(p)
  <2>1. CASE addresses = Torn
    BY <1>4, <2>1 DEF ReadAddresses, ReadFile, Ends, Goto, Types, fileVars
  <2>2. CASE addresses # Torn
    BY <1>4, <2>2 DEF ReadAddresses, ReadFile, Goto, Types, fileVars, OldMap
  <2> QED
    BY <2>1, <2>2
<1>5. CASE OpenAddresses(p)
  BY <1>5 DEF OpenAddresses, Goto, Types, processVars, historyVars
<1>6. CASE WriteAddresses(p)
  BY <1>6 DEF WriteAddresses, Ends, Goto, Types
<1>7. ~(\/ Configure(p) \/ Upload(p) \/ Predict(p) \/ Create(p) \/ Check(p) \/ ReadBlocks(p)
         \/ \E r, e : Start(p, r, e))
  BY DEF Configure, Upload, Predict, Create, Check, ReadBlocks, ReadFile, Start, AtFiles
<1> QED
  BY <1>1, <1>2, <1>3, <1>4, <1>5, <1>6, <1>7 DEF Does, Step

\* Steps of nobody in particular.
LEMMA NobodyAtFiles ==
    ASSUME [Next]_vars, ~(\E p \in Processes : Does(p))
    PROVE  UNCHANGED <<blocks, addresses, published, interrupted, lost, pc, json, deployment,
                    queue, universeAddress>>
<1>1. \A d : OthersCreate(d) =>
        UNCHANGED <<blocks, addresses, published, interrupted, lost, pc, json, deployment,
                    queue, universeAddress>>
  BY DEF OthersCreate, fileVars, historyVars, processVars
<1>2. UNCHANGED vars =>
        UNCHANGED <<blocks, addresses, published, interrupted, lost, pc, json, deployment,
                    queue, universeAddress>>
  BY DEF vars, fileVars, historyVars, processVars
<1> QED
  BY <1>1, <1>2 DEF Next, Does

\* While processes take turns, those that do not act now are away from the files
\* of the one that does, or the files are not touched.
LEMMA TakingTurns ==
    ASSUME Types, OneAtATime, [Next]_vars, ~overlapped', NEW p \in Processes, Does(p),
           NEW q \in Processes \ {p}, pc'[q] \in AtFiles
    PROVE  /\ pc[p] \notin AtFiles /\ pc'[p] \notin AtFiles /\ pc[q] \in AtFiles
           /\ UNCHANGED <<blocks, addresses, published>> /\ (interrupted => interrupted')
           /\ lost' <=> lost
           /\ universeAddress'[q] = universeAddress[q]
           /\ json'[q] = json[q] /\ deployment'[q] = deployment[q] /\ queue'[q] = queue[q]
           /\ pc'[q] = pc[q]
<1>1. /\ pc'[q] = pc[q] /\ json'[q] = json[q] /\ deployment'[q] = deployment[q]
      /\ queue'[q] = queue[q] /\ universeAddress'[q] = universeAddress[q]
  BY OthersStay DEF Does
<1>2. pc[p] \notin AtFiles
  BY <1>1, OverlapNoticed DEF OneAtATime
<1>3. ~ReadBlocks(p)
  BY <1>1, OverlapNoticed
<1> QED
  BY <1>1, <1>2, <1>3, AwayFromFiles

\* A file that has an entry.
LEMMA WithOnFile ==
    ASSUME NEW map, NEW id, NEW entry
    PROVE  OnFile(With(map, id, entry)) = Written(With(map, id, entry))
<1>1. id \in DOMAIN With(map, id, entry) /\ DOMAIN Nothing = {}
  BY DEF With, Nothing
<1> QED
  BY <1>1 DEF OnFile

\* A file that is not torn has the map it was written with.
LEMMA OnFileMap ==
    ASSUME NEW map
    PROVE  OnFile(map).map = map /\ OnFile(map) # Torn
BY DEF OnFile, Absent, Written, Torn

\* The network of a process that stays with it.
LEMMA SameNetwork ==
    ASSUME NEW q \in Processes, queue'[q] = queue[q]
    PROVE  netId(q)' = netId(q)
BY DEF netId, Network

\* A process that is about to write addresses.json has read what was published.
Carries(p) ==
    pc[p] \in {"openAddresses", "writeAddresses"} =>
        ~lost /\ json[p] = With(published, netId(p), Published(p))

Writes(p) == pc[p] = "writeAddresses"

LEMMA OneByOne ==
    ASSUME Types, OneAtATime, [Next]_vars, ~overlapped', NEW q \in Processes,
           NEW r \in Processes, pc'[q] \in AtFiles, pc'[r] \in AtFiles, q # r
    PROVE  FALSE
<1>1. ~overlapped /\ ~(pc[q] \in AtFiles /\ pc[r] \in AtFiles)
  BY OverlapNoticed DEF OneAtATime
<1>2. \A p \in Processes : Does(p) => pc[q] \in AtFiles /\ pc[r] \in AtFiles
  <2>1. ASSUME NEW p \in Processes, Does(p), p # q, p # r
        PROVE  pc[q] \in AtFiles /\ pc[r] \in AtFiles
    BY <2>1, TakingTurns
  <2>2. ASSUME NEW p \in Processes, Does(p), p = q \/ p = r PROVE FALSE
    BY <2>2, TakingTurns
  <2> QED
    BY <2>1, <2>2
<1>3. (\E p \in Processes : Does(p)) \/ pc' = pc
  BY NobodyAtFiles
<1> QED
  BY <1>1, <1>2, <1>3

\* The one process at the files, and what it does to addresses.json.
LEMMA WriterStep ==
    ASSUME Types, EntriesStay, ~overlapped, NEW p \in Processes, Does(p),
           pc[p] \in AtFiles, Carries(p), \A q \in Processes \ {p} : ~Writes(q)
    PROVE  /\ Carries(p)'
           /\ addresses' = IF lost' \/ Writes(p)' THEN Torn ELSE OnFile(published')
<1>1. addresses = IF lost \/ Writes(p) THEN Torn ELSE OnFile(published)
  BY DEF EntriesStay, Writes
<1>2. CASE /\ pc'[p] = "idle" /\ UNCHANGED <<addresses, published>>
           /\ lost' <=> (lost \/ pc[p] = "writeAddresses")
  BY <1>1, <1>2 DEF Carries, Writes
<1>3. CASE /\ pc[p] \in {"openBlocks", "writeBlocks"}
           /\ pc'[p] \in {"writeBlocks", "readAddresses"}
           /\ UNCHANGED <<addresses, lost, published>>
  BY <1>1, <1>3 DEF Carries, Writes
<1>4. CASE /\ pc[p] = "readAddresses" /\ pc'[p] = "openAddresses" /\ addresses # Torn
           /\ json'[p] = With(addresses.map, netId(p), Published(p))
           /\ UNCHANGED <<addresses, lost, published, deployment, queue, universeAddress>>
  <2>1. ~lost /\ addresses = OnFile(published) /\ addresses.map = published
    BY <1>1, <1>4, OnFileMap DEF Writes
  <2>2. netId(p)' = netId(p) /\ Published(p)' = Published(p)
    BY <1>4 DEF netId, Network, Published
  <2> QED
    BY <1>4, <2>1, <2>2 DEF Carries, Writes
<1>5. CASE /\ pc[p] = "openAddresses" /\ pc'[p] = "writeAddresses" /\ addresses' = Torn
           /\ UNCHANGED <<lost, published, json, deployment, queue, universeAddress>>
  <2>1. netId(p)' = netId(p) /\ Published(p)' = Published(p)
    BY <1>5 DEF netId, Network, Published
  <2> QED
    BY <1>5, <2>1 DEF Carries, Writes
<1>6. CASE /\ pc[p] = "writeAddresses" /\ pc'[p] \in {"idle", "configure"}
           /\ addresses' = Written(json[p])
           /\ published' = With(published, netId(p), Published(p))
           /\ UNCHANGED lost
  <2>1. ~lost /\ json[p] = With(published, netId(p), Published(p))
    BY <1>6 DEF Carries
  <2>2. addresses' = OnFile(published')
    BY <1>6, <2>1, WithOnFile
  <2> QED
    BY <1>6, <2>1, <2>2 DEF Carries, Writes
<1> QED
  BY <1>2, <1>3, <1>4, <1>5, <1>6, AtFilesSteps

LEMMA NextOneAtATime ==
    ASSUME Types, OneAtATime, [Next]_vars
    PROVE  OneAtATime'
<1> SUFFICES ASSUME ~overlapped'
             PROVE  /\ addresses' = IF lost' \/ \E p \in Processes : Writes(p)'
                                    THEN Torn ELSE OnFile(published')
                    /\ \A p \in Processes : Carries(p)'
  BY OneByOne DEF OneAtATime, EntriesStay, Carries, Writes
<1>1. /\ ~overlapped /\ EntriesStay /\ \A p \in Processes : Carries(p)
      /\ \A p, q \in Processes : pc[p] \in AtFiles /\ pc[q] \in AtFiles => p = q
      /\ addresses = IF lost \/ \E p \in Processes : Writes(p)
                     THEN Torn ELSE OnFile(published)
  BY OverlapNoticed DEF OneAtATime, EntriesStay, Carries, Writes
<1>2. ASSUME NEW q \in Processes, pc'[q] = pc[q], json'[q] = json[q],
             deployment'[q] = deployment[q], queue'[q] = queue[q],
             universeAddress'[q] = universeAddress[q], UNCHANGED published, lost' <=> lost
      PROVE  Carries(q)'
  <2>1. netId(q)' = netId(q) /\ Published(q)' = Published(q)
    BY <1>2 DEF netId, Network, Published
  <2> QED
    BY <1>1, <1>2, <2>1 DEF Carries
<1>3. ASSUME NEW p \in Processes, Does(p), pc[p] \notin AtFiles
      PROVE  /\ addresses' = IF lost' \/ \E q \in Processes : Writes(q)'
                             THEN Torn ELSE OnFile(published')
             /\ \A q \in Processes : Carries(q)'
  <2>1. /\ UNCHANGED <<addresses, published>> /\ (lost' <=> lost)
        /\ pc'[p] \notin {"openAddresses", "writeAddresses"}
    BY <1>3, AwayFromFiles DEF AtFiles
  <2>2. \A q \in Processes \ {p} : pc'[q] = pc[q] /\ Carries(q)'
    BY <1>2, <1>3, <2>1, OthersStay DEF Does
  <2>3. Carries(p)' /\ ~Writes(p)' /\ ~Writes(p)
    BY <1>3, <2>1 DEF Carries, Writes, AtFiles
  <2>4. (\E q \in Processes : Writes(q)') <=> (\E q \in Processes : Writes(q))
    BY <2>2, <2>3 DEF Writes
  <2> QED
    BY <1>1, <2>1, <2>2, <2>3, <2>4
<1>4. ASSUME NEW p \in Processes, Does(p), pc[p] \in AtFiles
      PROVE  /\ addresses' = IF lost' \/ \E q \in Processes : Writes(q)'
                             THEN Torn ELSE OnFile(published')
             /\ \A q \in Processes : Carries(q)'
  <2>1. \A q \in Processes \ {p} : pc[q] \notin AtFiles /\ pc'[q] = pc[q]
    BY <1>1, <1>4, OthersStay DEF Does
  <2>2. \A q \in Processes \ {p} : ~Writes(q) /\ ~Writes(q)' /\ Carries(q)'
    BY <2>1 DEF Writes, Carries, AtFiles
  <2>3. /\ Carries(p)'
        /\ addresses' = IF lost' \/ Writes(p)' THEN Torn ELSE OnFile(published')
    BY <1>1, <1>4, <2>2, WriterStep
  <2> QED
    BY <2>2, <2>3
<1>5. CASE ~(\E p \in Processes : Does(p))
  <2>1. UNCHANGED <<addresses, published, lost, pc, json, deployment, queue, universeAddress>>
    BY <1>5, NobodyAtFiles
  <2> QED
    BY <1>1, <1>2, <2>1 DEF Writes
<1> QED
  BY <1>3, <1>4, <1>5

LEMMA InitOneAtATime == Init => OneAtATime
BY DEF Init, OneAtATime, EntriesStay, OnFile, Absent, AtFiles

\* While processes take turns at the files, addresses.json keeps what was published
\* for every network, though every process writes the whole file; it is empty only
\* while it is written, or for good, after a process was stopped then (EntriesStay).
THEOREM EntriesKept == Spec => []EntriesStay
<1>1. Ownership => Types
  BY DEF Ownership
<1>2. Init => Ownership /\ OneAtATime
  BY InitOwnership, InitOneAtATime
<1>3. Ownership /\ OneAtATime /\ [Next]_vars => (Ownership /\ OneAtATime)'
  BY <1>1, NextOwnership, NextOneAtATime
<1>4. OneAtATime => EntriesStay
  BY DEF OneAtATime
<1> QED
  BY <1>2, <1>3, <1>4, PTL DEF Spec

\* What FilesInStep says of one process.
InStep(p) ==
    /\ pc[p] \in {"openBlocks", "writeBlocks"} => OneAhead(p, json[p])
    /\ pc[p] = "readAddresses" => OneAhead(p, blocks.map)
    /\ pc[p] \in {"openAddresses", "writeAddresses"} => Agree(blocks.map, json[p])

LEMMA InStepStill ==
    ASSUME NEW q \in Processes, InStep(q), pc'[q] = pc[q], json'[q] = json[q],
           deployment'[q] = deployment[q], queue'[q] = queue[q],
           UNCHANGED <<blocks, addresses>>
    PROVE  InStep(q)'
<1>1. netId(q)' = netId(q)
  BY SameNetwork
<1> QED
  BY <1>1 DEF InStep, OneAhead, Agree

\* The entry of a network is replaced in one file, then in the other.
LEMMA WithIsAhead ==
    ASSUME NEW q \in Processes, Agree(blocks.map, addresses.map)
    PROVE  OneAhead(q, With(blocks.map, netId(q), deployment[q]))
BY DEF Agree, OneAhead, With

LEMMA AheadIsMadeGood ==
    ASSUME NEW q \in Processes, OneAhead(q, blocks.map)
    PROVE  Agree(blocks.map, With(addresses.map, netId(q), Published(q)))
BY DEF Agree, OneAhead, With, Published

LEMMA NextInStep ==
    ASSUME Types, OneAtATime, FilesInStep, [Next]_vars
    PROVE  FilesInStep'
<1> SUFFICES ASSUME ~overlapped', ~interrupted'
             PROVE  /\ (\A p \in Processes : pc'[p] \notin AtFiles) =>
                           Agree(blocks.map, addresses.map)'
                    /\ \A p \in Processes : InStep(p)'
  BY DEF FilesInStep, InStep
<1>1. ~overlapped
  BY OverlapNoticed
<1>2. ~interrupted
  <2>1. ASSUME NEW p \in Processes, Does(p) PROVE interrupted => interrupted'
    BY <2>1 DEF Does, Step, Stops, Start, Configure, Upload, Predict, Create, Check,
       ReadBlocks, ReadAddresses, OpenBlocks, WriteBlocks, OpenAddresses, WriteAddresses,
       historyVars
  <2> QED
    BY <2>1, NobodyAtFiles
<1>3. /\ (\A p \in Processes : pc[p] \notin AtFiles) => Agree(blocks.map, addresses.map)
      /\ \A p \in Processes : InStep(p)
  BY <1>1, <1>2 DEF FilesInStep, InStep
<1>4. ASSUME NEW q \in Processes, pc'[q] \notin AtFiles PROVE InStep(q)'
  BY <1>4 DEF InStep, AtFiles
<1>5. ASSUME NEW p \in Processes, Does(p), NEW q \in Processes \ {p} PROVE InStep(q)'
  <2>1. CASE pc'[q] \in AtFiles
    BY <1>3, <1>5, <2>1, TakingTurns, InStepStill
  <2> QED
    BY <1>4, <2>1
<1>6. ASSUME NEW p \in Processes, Does(p), pc[p] \notin AtFiles
      PROVE  /\ InStep(p)'
             /\ (\A q \in Processes : pc'[q] \notin AtFiles) =>
                    Agree(blocks.map, addresses.map)'
  <2>1. UNCHANGED <<blocks, addresses>> /\ \A q \in Processes \ {p} : pc'[q] = pc[q]
    BY <1>6, AwayFromFiles, OthersStay DEF Does
  <2>2. CASE pc'[p] \notin AtFiles
    BY <1>3, <1>4, <1>6, <2>1, <2>2 DEF Agree
  <2>3. CASE ReadBlocks(p) /\ pc'[p] = "openBlocks"
    <3>1. Agree(blocks.map, addresses.map)
      BY <1>3, <1>6, <2>3, OverlapNoticed
    <3>2. /\ json'[p] = With(blocks.map, netId(p), deployment[p])
          /\ UNCHANGED <<deployment, queue>>
      BY <2>3 DEF ReadBlocks, ReadFile, Ends, Goto, Types, OldMap, BlockNumber
    <3>3. OneAhead(p, json'[p])
      BY <3>1, <3>2, WithIsAhead
    <3>4. OneAhead(p, json[p])'
      BY <2>1, <3>2, <3>3, SameNetwork DEF OneAhead
    <3> QED
      BY <2>3, <3>4 DEF InStep, AtFiles
  <2> QED
    BY <1>6, <2>2, <2>3, AwayFromFiles
<1>7. ASSUME NEW p \in Processes, Does(p), pc[p] \in AtFiles
      PROVE  /\ InStep(p)'
             /\ (\A q \in Processes : pc'[q] \notin AtFiles) =>
                    Agree(blocks.map, addresses.map)'
  <2>1. CASE /\ pc[p] = "openBlocks" /\ pc'[p] = "writeBlocks"
             /\ UNCHANGED <<addresses, published, json, deployment, queue>>
    <3>1. OneAhead(p, json[p])'
      BY <1>3, <2>1, SameNetwork DEF InStep, OneAhead
    <3> QED
      BY <2>1, <3>1 DEF InStep, AtFiles
  <2>2. CASE /\ pc[p] = "writeBlocks" /\ pc'[p] = "readAddresses"
             /\ blocks'.map = json[p]
             /\ UNCHANGED <<addresses, published, deployment, queue>>
    <3>1. OneAhead(p, blocks.map)'
      BY <1>3, <2>2, SameNetwork DEF InStep, OneAhead
    <3> QED
      BY <2>2, <3>1 DEF InStep, AtFiles
  <2>3. CASE /\ pc[p] = "readAddresses" /\ pc'[p] = "openAddresses"
             /\ json'[p] = With(addresses.map, netId(p), Published(p))
             /\ UNCHANGED blocks
    <3>1. Agree(blocks.map, json'[p])
      BY <1>3, <2>3, AheadIsMadeGood DEF InStep
    <3> QED
      BY <2>3, <3>1 DEF InStep, Agree, AtFiles
  <2>4. CASE /\ pc[p] = "openAddresses" /\ pc'[p] = "writeAddresses"
             /\ UNCHANGED <<blocks, json>>
    BY <1>3, <2>4 DEF InStep, Agree, AtFiles
  <2>5. CASE /\ pc[p] = "writeAddresses" /\ pc'[p] \in {"idle", "configure"}
             /\ addresses' = Written(json[p]) /\ UNCHANGED blocks
    <3>1. Agree(blocks.map, addresses.map)'
      BY <1>3, <2>5 DEF InStep, Agree, Written
    <3> QED
      BY <1>4, <2>5, <3>1 DEF AtFiles
  <2> QED
    BY <1>7, <2>1, <2>2, <2>3, <2>4, <2>5, AtFilesSteps
<1>8. CASE \E p \in Processes : Does(p)
  BY <1>5, <1>6, <1>7, <1>8
<1>9. CASE ~(\E p \in Processes : Does(p))
  <2>1. UNCHANGED <<blocks, addresses, pc, json, deployment, queue>>
    BY <1>9, NobodyAtFiles
  <2> QED
    BY <1>3, <2>1, InStepStill DEF Agree
<1> QED
  BY <1>8, <1>9

LEMMA InitInStep == Init => FilesInStep
BY DEF Init, FilesInStep, Absent, AtFiles, Agree, Nothing

\* However many networks share the two files: as long as processes take turns and
\* none stops between its two writes, upload-block-numbers.json and addresses.json
\* speak of the same deployments.
THEOREM FilesInAgreement == Spec => []FilesAgree
<1>1. Init => Ownership /\ OneAtATime /\ FilesInStep
  BY InitOwnership, InitOneAtATime, InitInStep
<1>2. Ownership => Types
  BY DEF Ownership
<1>3. Ownership /\ OneAtATime /\ FilesInStep /\ [Next]_vars
        => (Ownership /\ OneAtATime /\ FilesInStep)'
  BY <1>2, NextOwnership, NextOneAtATime, NextInStep
<1>4. FilesInStep => FilesAgree
  BY DEF FilesInStep, FilesAgree
<1> QED
  BY <1>1, <1>3, <1>4, PTL DEF Spec

=============================================================================
