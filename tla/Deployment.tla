----------------------------- MODULE Deployment -----------------------------
(***************************************************************************)
(* One run of ContractDeployer.deploy: the asynchronous tasks it starts,   *)
(* the transactions they send one after the other, and what the            *)
(* transactions do to the Controller and to the uploaded contracts.        *)
(*                                                                         *)
(* Nonces order the transactions of the deployer's account, so the node    *)
(* mines them in the order in which the tasks took their nonces (module    *)
(* AccountManager); the estimate that precedes each runs on the latest     *)
(* block.  A task that is rejected has thrown.  The deployer owns the      *)
(* Controller: deploy throws before it sends anything if it does not.      *)
(***************************************************************************)
EXTENDS Naturals, Sequences

CONSTANTS
    Uploads,                \* names of the compiled contracts upload handles
    controllerGiven,        \* configuration.controllerAddress is set, to the
                            \* Controller of an earlier deployment
    isProduction,           \* configuration.isProduction
    TimeModes,              \* what configuration.useNormalTime may be: USE_NORMAL_TIME,
                            \* or FALSE of createWithControlledTime
    createGenesisUniverse,  \* configuration.createGenesisUniverse
    exitsWhenSettled,       \* compileAndDeploy.ts: process.exit() after deploy
    MaxPool,                \* bound: unmined transactions of the account
    MaxFailures             \* bound: requests to the node that fail

TradingContracts == {"ClaimTradingProceeds", "CompleteSets"}
contractsToInitialize == TradingContracts \cup {"Time"}
Token == "TestNetDenominationToken"
TokenTarget == "TestNetDenominationTokenTarget"

ASSUME DeploymentParameters ==
    /\ contractsToInitialize \subseteq Uploads
    /\ {"AugurLite", TokenTarget} \cap Uploads = {}
    /\ {controllerGiven, isProduction, createGenesisUniverse, exitsWhenSettled}
           \subseteq BOOLEAN
    /\ TimeModes \subseteq BOOLEAN
    /\ MaxPool \in Nat \ {0} /\ MaxFailures \in Nat

\* The contracts that upload does not return from at once.
Uploaded == IF isProduction THEN Uploads \ {Token} ELSE Uploads

Names == Uploads \cup {"AugurLite", TokenTarget}

VARIABLES
    useNormalTime,  \* configuration.useNormalTime
    stage,          \* what deploy() awaits
    status,         \* of every task
    sent,           \* number of a task's transactions that were mined
    pool,           \* tasks whose transactions are unmined, in nonce order
    registry,       \* Controller.registry: who registered a name
    controllerOf,   \* the controller of a contract that is Controlled
    whitelist,      \* Controller.whitelist
    universe,       \* the genesis universe exists
    failures,       \* requests to the node that failed
    running         \* the process has not exited

chainVars == <<registry, controllerOf, whitelist, universe>>
taskVars == <<status, sent, pool>>
vars == <<useNormalTime, stage, taskVars, chainVars, failures, running>>

-----------------------------------------------------------------------------
(* Tasks and their transactions *)

Task(s, c) == [stage |-> s, of |-> c]

\* The tasks that deploy() starts in a stage.
TasksOf(s) ==
    CASE s = "controller" -> IF controllerGiven THEN {} ELSE {Task(s, "Controller")}
      [] s = "augurLite"  -> {Task(s, "AugurLite")}
      [] s = "upload"     -> {Task(s, c) : c \in Uploaded}
      [] s = "init"       -> {Task(s, c) : c \in contractsToInitialize}
      [] s = "whitelist"  -> {Task(s, c) : c \in TradingContracts}
      [] s = "time"       -> {Task(s, "Time")}
      [] s = "universe"   -> {Task(s, "Universe")}
      [] OTHER            -> {}

Stages == {"controller", "augurLite", "upload", "init", "whitelist", "time",
           "universe", "blocksFile", "addressesFile", "deployed", "failed"}

Tasks == UNION {TasksOf(s) : s \in Stages}

Send(op, c) == [op |-> op, of |-> c]

\* A fault to check against: the upload is not registered.
UploadOnly(name) == <<Send("construct", name)>>

UploadAndAdd(name) == <<Send("construct", name), Send("register", name)>>

whitelistContract(c) == <<Send("addToWhitelist", c)>>

\* The timestamp that setTimestamp gets is the one just read.
resetTimeControlled == <<Send("setTimestamp", "Time")>>

\* The transactions of a task, each sent when the one before it is mined.  An
\* upload is never skipped: getContractDetails_ answers two values, and
\* shouldSkipUploadingContract compares the hash of the bytecode with a third.
Plan(t) ==
    CASE t.stage = "controller" -> <<Send("construct", "Controller")>>
      [] t.stage = "augurLite"  -> <<Send("construct", "AugurLite"),
                                     Send("setController", "AugurLite"),
                                     Send("register", "AugurLite")>>
      [] t.stage = "upload"     -> IF t.of = Token
                                   THEN UploadAndAdd(TokenTarget) \o UploadAndAdd(Token)
                                   ELSE UploadAndAdd(t.of)
      [] t.stage = "init"       -> <<Send("setController", t.of)>>
      [] t.stage = "whitelist"  -> whitelistContract(t.of)
      [] t.stage = "time"       -> resetTimeControlled
      [] t.stage = "universe"   -> <<Send("createUniverse", t.of)>>

Pending(t) == Plan(t)[sent[t] + 1]

\* A nonce that was taken for a transaction the node never received.
Gap == Task("none", "nobody")

\* A fault to check against: a name may be registered again.
AcceptsAgain(tx) == TRUE

\* What the contracts require of a transaction.  An address without code,
\* such as the deployer's own or that of an unregistered name, cannot be called.
Accepts(tx) ==
    CASE tx.op = "register"       -> registry[tx.of] = "nobody"
      [] tx.op = "setController"  -> controllerOf[tx.of] = "deployer"
      [] tx.op = "setTimestamp"   -> /\ controllerOf["Time"] = "Controller"
                                     /\ controllerOf["AugurLite"] = "Controller"
                                     /\ registry["AugurLite"] = "us"
                                     /\ registry["Time"] = "us"
      [] tx.op = "createUniverse" -> /\ controllerOf["AugurLite"] = "Controller"
                                     /\ \A n \in {"UniverseFactory", "Universe"} :
                                            n \in Names /\ registry[n] # "nobody"
      [] OTHER                    -> TRUE

\* What a transaction changes; a constructor makes its sender the controller.
Execute(tx) ==
    /\ registry' = IF tx.op = "register" THEN [registry EXCEPT ![tx.of] = "us"]
                                         ELSE registry
    /\ controllerOf' =
           CASE tx.op = "setController" -> [controllerOf EXCEPT ![tx.of] = "Controller"]
             [] tx.op = "construct" /\ tx.of \in DOMAIN controllerOf
                                        -> [controllerOf EXCEPT ![tx.of] = "deployer"]
             [] OTHER                   -> controllerOf
    /\ whitelist' = IF tx.op = "addToWhitelist" THEN whitelist \cup {tx.of} ELSE whitelist
    /\ universe' = (universe \/ tx.op = "createUniverse")

-----------------------------------------------------------------------------

\* The DeployerConfiguration constructor: production runs on real time.
NormalTime == isProduction \/ useNormalTime

Init ==
    /\ useNormalTime \in TimeModes
    /\ stage = "controller"
    /\ status = [t \in Tasks |-> IF t \in TasksOf("controller") THEN "ready" ELSE "off"]
    /\ sent = [t \in Tasks |-> 0]
    /\ pool = <<>>
    /\ registry = [n \in Names |-> IF controllerGiven THEN "others" ELSE "nobody"]
    /\ controllerOf = [c \in contractsToInitialize \cup {"AugurLite"} |-> "nobody"]
    /\ whitelist = {}
    /\ universe = FALSE
    /\ failures = 0
    /\ running = TRUE

\* The estimate of a task's next transaction succeeds and its nonce is taken.
Submit(t) ==
    /\ running /\ status[t] = "ready" /\ Len(pool) < MaxPool
    /\ Accepts(Pending(t))
    /\ pool' = Append(pool, t)
    /\ status' = [status EXCEPT ![t] = "sent"]
    /\ UNCHANGED <<stage, sent, chainVars, failures, running, useNormalTime>>

\* The estimate is refused: remoteCall and construct throw.
EstimateRefused(t) ==
    /\ running /\ status[t] = "ready"
    /\ ~Accepts(Pending(t))
    /\ status' = [status EXCEPT ![t] = "failed"]
    /\ UNCHANGED <<stage, sent, pool, chainVars, failures, running, useNormalTime>>

\* The node mines the transaction of the smallest nonce, and its receipt comes
\* back, unless the task has thrown already; a transaction that reverts by now
\* makes it throw.
Mine ==
    /\ pool # <<>> /\ Head(pool) # Gap
    /\ LET t == Head(pool)
       IN  /\ pool' = Tail(pool)
           /\ IF Accepts(Pending(t))
              THEN /\ Execute(Pending(t))
                   /\ sent' = [sent EXCEPT ![t] = @ + 1]
                   /\ status' = [status EXCEPT ![t] =
                          IF @ = "failed" THEN "failed"
                          ELSE IF sent[t] + 1 = Len(Plan(t)) THEN "done" ELSE "ready"]
              ELSE /\ status' = [status EXCEPT ![t] = "failed"]
                   /\ UNCHANGED <<sent, chainVars>>
    /\ UNCHANGED <<stage, failures, running, useNormalTime>>

\* What a task reads before its transaction tells whether it is needed:
\* getController_ of initializeContract, whitelist_ of whitelistTradingContracts.
Needless(t) ==
    IF t.stage = "init" THEN controllerOf[t.of] = "Controller" ELSE t.of \in whitelist

\* A fault to check against: the answer is read the wrong way round.
Needed(t) == ~Needless(t)

Skips(t) == Needless(t)

Read(t) ==
    /\ running /\ status[t] = "reading"
    /\ status' = [status EXCEPT ![t] = IF Skips(t) THEN "done" ELSE "ready"]
    /\ UNCHANGED <<stage, sent, pool, chainVars, failures, running, useNormalTime>>

\* A request of a task to the node fails and the task throws: a read or the
\* estimate, or a poll for the receipt of a transaction that is mined all the
\* same.  The read of the whitelist is deploy's own: it throws without waiting for
\* what it started.
RequestFails(t) ==
    /\ running /\ status[t] \in {"reading", "ready", "sent"} /\ failures < MaxFailures
    /\ failures' = failures + 1
    /\ status' = [status EXCEPT ![t] = "failed"]
    /\ stage' = IF t.stage = "whitelist" /\ status[t] = "reading" THEN "failed" ELSE stage
    /\ UNCHANGED <<sent, pool, chainVars, running, useNormalTime>>

\* The same between the nonce and the node, which now waits for the nonce.
SendFails(t) ==
    /\ running /\ status[t] = "ready" /\ Len(pool) < MaxPool
    /\ failures < MaxFailures
    /\ Accepts(Pending(t))
    /\ failures' = failures + 1
    /\ pool' = Append(pool, Gap)
    /\ status' = [status EXCEPT ![t] = "failed"]
    /\ UNCHANGED <<stage, sent, chainVars, running, useNormalTime>>

-----------------------------------------------------------------------------
(* deploy() itself *)

NextStage ==
    CASE stage = "controller"    -> "augurLite"
      [] stage = "augurLite"     -> "upload"
      [] stage = "upload"        -> "init"
      [] stage = "init"          -> "whitelist"
      [] stage = "whitelist"     -> IF ~NormalTime THEN "time"
                                    ELSE IF createGenesisUniverse THEN "universe"
                                    ELSE "blocksFile"
      [] stage = "time"          -> IF createGenesisUniverse THEN "universe"
                                    ELSE "blocksFile"
      [] stage = "universe"      -> "blocksFile"
      [] stage = "blocksFile"    -> "addressesFile"
      [] stage = "addressesFile" -> "deployed"

Settled(t) == status[t] \in {"done", "failed"}

\* A fault to check against: deploy waits for tasks that will never be done.
AwaitsSuccess(s) == s = "init" \/ \A t \in TasksOf(s) : status[t] = "done"

\* resolveAll awaits every promise before it throws the first error, but
\* initializeAllContracts does not await resolveAll.
Awaited(s) == s = "init" \/ \A t \in TasksOf(s) : Settled(t)

\* A fault to check against: resolveAll forgets the errors of its promises.
NoError(s) == FALSE

Throws(s) == s # "init" /\ \E t \in TasksOf(s) : status[t] = "failed"

\* getContract throws for a contract that was not uploaded.
HasContract(c) == c \in Uploaded

\* The genesis universe needs its token.
CanStart(s) == s = "universe" => HasContract(Token)

Proceed ==
    /\ running /\ stage \notin {"deployed", "failed"} /\ Awaited(stage)
    /\ IF Throws(stage) \/ ~CanStart(NextStage)
       THEN stage' = "failed" /\ UNCHANGED status
       ELSE /\ stage' = NextStage
            /\ status' = [t \in Tasks |->
                   IF t \notin TasksOf(NextStage) THEN status[t]
                   ELSE IF NextStage \in {"init", "whitelist"} THEN "reading" ELSE "ready"]
    /\ UNCHANGED <<sent, pool, chainVars, failures, running, useNormalTime>>

\* A request of deploy itself fails: owner_ of the Controller (or getBlockNumber
\* before it; where deploy uploads a Controller, that is like a failure of its
\* estimate), getTypeName_ of the new universe, or net_version before one of the
\* two files is written.
DeployFails ==
    /\ running /\ stage \in {"controller", "universe", "blocksFile", "addressesFile"}
    /\ \A t \in TasksOf(stage) : status[t] = "done"
    /\ failures < MaxFailures
    /\ failures' = failures + 1
    /\ stage' = "failed"
    /\ UNCHANGED <<taskVars, chainVars, running, useNormalTime>>

\* compileAndDeploy exits as soon as deploy returns or throws, whatever it has
\* started; what was sent is mined all the same.
Exit ==
    /\ exitsWhenSettled /\ running /\ stage \in {"deployed", "failed"}
    /\ running' = FALSE
    /\ UNCHANGED <<stage, taskVars, chainVars, failures, useNormalTime>>

TaskStep(t) == Submit(t) \/ EstimateRefused(t) \/ Read(t)

Next ==
    \/ \E t \in Tasks : TaskStep(t) \/ RequestFails(t) \/ SendFails(t)
    \/ Mine \/ Proceed \/ DeployFails \/ Exit

Spec == Init /\ [][Next]_vars

\* Requests are answered, transactions are mined and the process goes on; a
\* failure is never owed.
Fairness ==
    /\ WF_vars(Mine) /\ WF_vars(Proceed)
    /\ \A t \in Tasks : WF_vars(TaskStep(t))

FairSpec == Spec /\ Fairness

-----------------------------------------------------------------------------

\* Every variable has its type, and a task that waits for a transaction is in the
\* pool; others there have thrown since they sent one.
TypeOK ==
    /\ useNormalTime \in TimeModes
    /\ stage \in Stages
    /\ status \in [Tasks -> {"off", "reading", "ready", "sent", "done", "failed"}]
    /\ sent \in [Tasks -> 0 .. 4]
    /\ registry \in [Names -> {"nobody", "us", "others"}]
    /\ controllerOf \in [contractsToInitialize \cup {"AugurLite"}
                            -> {"nobody", "deployer", "Controller"}]
    /\ whitelist \subseteq TradingContracts
    /\ universe \in BOOLEAN /\ running \in BOOLEAN
    /\ failures \in 0 .. MaxFailures
    /\ \A t \in Tasks :
           /\ status[t] = "sent" => \E i \in DOMAIN pool : pool[i] = t
           /\ (\E i \in DOMAIN pool : pool[i] = t) => status[t] \in {"sent", "failed"}

\* As long as no request fails no step of the deployment throws: no estimate is
\* refused, no transaction reverts and no address is missing when it is needed,
\* whatever the order in which the node answers the concurrent uploads.
DeploySucceeds == failures = 0 => stage # "failed"

\* That holds on real time.
DeploySucceedsOnRealTime == NormalTime => DeploySucceeds

\* When the addresses are published the contracts behind them are registered
\* and may trade, and the genesis universe exists, whatever failed before.
PublishedIsComplete ==
    stage = "deployed" =>
        /\ \A n \in Uploaded \cup {"AugurLite"} : registry[n] = "us"
        /\ TradingContracts \subseteq whitelist
        /\ createGenesisUniverse => universe

\* CompleteSets and ClaimTradingProceeds are let at the users' tokens, and the
\* genesis universe is opened, only when every contract of the protocol is in the
\* registry.  (The Controller's constructor whitelists the deployer's account too,
\* before there is anything to trade, and any later universe is others'.)
OpenedAfterUpload ==
    whitelist # {} \/ universe => \A n \in Uploaded : registry[n] = "us"

\* The invariant of the state between two steps.
DeployInv == TypeOK /\ OpenedAfterUpload

\* Every deployment comes to an end, unless a transaction was lost after it
\* took its nonce: the receipts of the later ones are then polled for ever.
DeployEnds == <>(stage \in {"deployed", "failed"} \/ \E i \in DOMAIN pool : pool[i] = Gap)

Initialized == \A c \in contractsToInitialize : controllerOf[c] = "Controller"

\* Although nothing awaits them, the contracts have their controller in the end
\* if no request fails and the process lives on.
InitializedInTheEnd == <>(failures > 0 \/ ~running \/ Initialized)

-----------------------------------------------------------------------------
(* The invariant that the proofs rest on *)

Rank(s) ==
    CASE s = "controller" -> 1  [] s = "augurLite"  -> 2
      [] s = "upload"     -> 3  [] s = "init"       -> 4
      [] s = "whitelist"  -> 5  [] s = "time"       -> 6
      [] s = "universe"   -> 7  [] s = "blocksFile" -> 8
      [] s = "addressesFile" -> 9
      [] OTHER            -> 10

\* Every task is once in the pool while its transaction is unmined.
PoolIsSent ==
    /\ pool \in Seq(Tasks \cup {Gap})
    /\ \A i, j \in DOMAIN pool : pool[i] = pool[j] => i = j \/ pool[i] = Gap

\* How far a task is: one is done when all its transactions were mined.
Progress ==
    \A t \in Tasks :
        /\ sent[t] \in 0 .. Len(Plan(t))
        /\ status[t] \in {"off", "reading"} => sent[t] = 0
        /\ status[t] = "ready" \/ (\E i \in DOMAIN pool : pool[i] = t) =>
               sent[t] < Len(Plan(t))
        /\ status[t] = "done" => sent[t] = Len(Plan(t))

\* Of the stages that deploy awaits, none starts before those before it are done.
Awaiting == {"controller", "augurLite", "upload", "whitelist"}

InOrder ==
    /\ \A t, u \in Tasks :
           status[t] # "off" /\ u.stage \in Awaiting /\ Rank(u.stage) < Rank(t.stage) =>
               status[u] = "done"
    /\ stage # "failed" => \A t \in Tasks :
           /\ Rank(stage) < Rank(t.stage) => status[t] = "off"
           /\ Rank(t.stage) < Rank(stage) =>
                  \/ status[t] = "done"
                  \/ t.stage \in {"init", "time"}
                  \/ t.stage = "universe" /\ ~createGenesisUniverse
    /\ \A t \in Tasks : /\ t.stage = "time" /\ status[t] # "off" => ~NormalTime
                        /\ t.stage = "universe" /\ status[t] # "off" => createGenesisUniverse
                        /\ status[t] = "reading" => t.stage \in {"init", "whitelist"}

\* The chain is what the mined transactions made of it.
Owner(n) ==
    CASE n = "AugurLite" -> Task("augurLite", n)
      [] n = TokenTarget -> Task("upload", Token)
      [] OTHER           -> Task("upload", n)

Index(n) == CASE n = "AugurLite" -> 3 [] n = Token -> 4 [] OTHER -> 2

Registered(n) == Owner(n) \in Tasks /\ sent[Owner(n)] >= Index(n)

ChainIsSent ==
    /\ \A n \in Names :
           registry[n] = IF Registered(n) THEN "us"
                         ELSE IF controllerGiven THEN "others" ELSE "nobody"
    /\ \A c \in contractsToInitialize :
           controllerOf[c] = IF sent[Task("upload", c)] = 0 THEN "nobody"
                             ELSE IF sent[Task("init", c)] = 0 THEN "deployer"
                             ELSE "Controller"
    /\ LET n == sent[Task("augurLite", "AugurLite")]
       IN  controllerOf["AugurLite"] = IF n = 0 THEN "nobody"
                                       ELSE IF n = 1 THEN "deployer" ELSE "Controller"
    /\ whitelist = {c \in TradingContracts : sent[Task("whitelist", c)] = 1}
    /\ universe <=> sent[Task("universe", "Universe")] = 1

IInv == TypeOK /\ PoolIsSent /\ Progress /\ InOrder /\ ChainIsSent

\* Nothing throws in a first deployment on real time, unless a request fails.
NothingThrows ==
    ~controllerGiven /\ NormalTime /\ failures = 0 =>
        stage # "failed" /\ \A t \in Tasks : status[t] # "failed"

=============================================================================
