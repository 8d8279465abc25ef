-------------------------- MODULE DeploymentProofs --------------------------
(***************************************************************************)
(* One deployment, proved for any contracts, any configuration and any     *)
(* order in which the node answers: nothing is opened before the upload is *)
(* complete, what is published is complete, and a first deployment on real *)
(* time throws only if a request fails.                                    *)
(***************************************************************************)
EXTENDS Deployment, TLAPS, SequenceTheorems

\* The tasks there are.
LEMMA TaskCases ==
    ASSUME NEW t \in Tasks
    PROVE  \/ t = Task("controller", "Controller") /\ ~controllerGiven
           \/ t = Task("augurLite", "AugurLite")
           \/ \E c \in Uploaded : t = Task("upload", c)
           \/ \E c \in contractsToInitialize : t = Task("init", c)
           \/ \E c \in TradingContracts : t = Task("whitelist", c)
           \/ t = Task("time", "Time")
           \/ t = Task("universe", "Universe")
<1>1. PICK s \in Stages : t \in TasksOf(s)
  BY DEF Tasks
<1> QED
  BY <1>1 DEF TasksOf, Stages

LEMMA TasksAre ==
    /\ ~controllerGiven => Task("controller", "Controller") \in Tasks
    /\ Task("augurLite", "AugurLite") \in Tasks
    /\ \A c \in Uploaded : Task("upload", c) \in Tasks
    /\ \A c \in contractsToInitialize : Task("init", c) \in Tasks
    /\ \A c \in TradingContracts : Task("whitelist", c) \in Tasks
    /\ Task("time", "Time") \in Tasks
    /\ Task("universe", "Universe") \in Tasks
<1>1. ASSUME NEW s \in Stages, NEW t \in TasksOf(s) PROVE t \in Tasks
  BY <1>1 DEF Tasks
<1>2. /\ ~controllerGiven => Task("controller", "Controller") \in TasksOf("controller")
      /\ Task("augurLite", "AugurLite") \in TasksOf("augurLite")
      /\ \A c \in Uploaded : Task("upload", c) \in TasksOf("upload")
      /\ \A c \in contractsToInitialize : Task("init", c) \in TasksOf("init")
      /\ \A c \in TradingContracts : Task("whitelist", c) \in TasksOf("whitelist")
      /\ Task("time", "Time") \in TasksOf("time")
      /\ Task("universe", "Universe") \in TasksOf("universe")
  BY DEF TasksOf
<1> QED
  BY <1>1, <1>2 DEF Stages

\* A stage has the tasks that name it.
LEMMA TasksOfStage ==
    ASSUME NEW t \in Tasks, NEW s
    PROVE  t \in TasksOf(s) <=> t.stage = s
<1>1. t \in TasksOf(t.stage)
  BY TaskCases DEF TasksOf, Task
<1>2. t \in TasksOf(s) => t.stage = s
  BY DEF TasksOf, Task
<1> QED
  BY <1>1, <1>2

LEMMA TasksOfTasks == \A s \in Stages : TasksOf(s) \subseteq Tasks
BY DEF Tasks

LEMMA GapIsNoTask == Gap \notin Tasks
<1>1. Gap.stage = "none"
  BY DEF Gap, Task
<1> QED
  BY <1>1, TaskCases DEF Task

\* The names and contracts do not get into each other's way.
LEMMA NamesApart ==
    /\ contractsToInitialize \subseteq Uploaded /\ TradingContracts \subseteq contractsToInitialize
    /\ "Time" \in contractsToInitialize
    /\ "AugurLite" \notin Uploaded /\ TokenTarget \notin Uploaded
    /\ Token \notin contractsToInitialize /\ "AugurLite" \notin contractsToInitialize
    /\ Uploaded \subseteq Uploads /\ Uploads \subseteq Names
BY DeploymentParameters DEF contractsToInitialize, TradingContracts, Uploaded, Token,
   TokenTarget, Names

\* The transactions of a task.
LEMMA PlanIs ==
    /\ Plan(Task("controller", "Controller")) = <<Send("construct", "Controller")>>
    /\ Plan(Task("augurLite", "AugurLite"))
         = <<Send("construct", "AugurLite"), Send("setController", "AugurLite"),
             Send("register", "AugurLite")>>
    /\ Plan(Task("upload", Token))
         = <<Send("construct", TokenTarget), Send("register", TokenTarget),
             Send("construct", Token), Send("register", Token)>>
    /\ \A c \in Uploaded \ {Token} :
           Plan(Task("upload", c)) = <<Send("construct", c), Send("register", c)>>
    /\ \A c : Plan(Task("init", c)) = <<Send("setController", c)>>
    /\ \A c : Plan(Task("whitelist", c)) = <<Send("addToWhitelist", c)>>
    /\ Plan(Task("time", "Time")) = <<Send("setTimestamp", "Time")>>
    /\ Plan(Task("universe", "Universe")) = <<Send("createUniverse", "Universe")>>
<1>1. ASSUME NEW a, NEW b, NEW c, NEW d PROVE <<a, b>> \o <<c, d>> = <<a, b, c, d>>
  <2> DEFINE s == <<a, b>>
             t == <<c, d>>
             all == <<a, b, c, d>>
  <2>1. s \in Seq({a, b, c, d}) /\ t \in Seq({a, b, c, d}) /\ all \in Seq({a, b, c, d})
    OBVIOUS
  <2>2. Len(s) = 2 /\ Len(t) = 2 /\ Len(all) = 4
    OBVIOUS
  <2>3. s[1] = a /\ s[2] = b /\ t[1] = c /\ t[2] = d
        /\ all[1] = a /\ all[2] = b /\ all[3] = c /\ all[4] = d
    OBVIOUS
  <2> HIDE DEF s, t, all
  <2>4. /\ s \o t \in Seq({a, b, c, d}) /\ Len(s \o t) = 4
        /\ \A i \in 1 .. 4 : (s \o t)[i] = IF i <= 2 THEN s[i] ELSE t[i - 2]
    <3>1. /\ s \o t \in Seq({a, b, c, d}) /\ Len(s \o t) = Len(s) + Len(t)
          /\ \A i \in 1 .. Len(s) + Len(t) :
                 (s \o t)[i] = IF i <= Len(s) THEN s[i] ELSE t[i - Len(s)]
      BY <2>1, ConcatProperties
    <3>2. Len(s) + Len(t) = 4
      BY <2>2
    <3> QED
      BY <2>2, <3>1, <3>2
  <2>5. \A i \in 1 .. 4 : (s \o t)[i] = all[i]
    BY <2>3, <2>4
  <2>6. s \o t = all
    BY <2>1, <2>2, <2>4, <2>5, SeqEqual
  <2> QED
    BY <2>6 DEF s, t, all
<1>2. Plan(Task("upload", Token)) = UploadAndAdd(TokenTarget) \o UploadAndAdd(Token)
  BY DEF Plan, Task
<1> QED
  BY <1>1, <1>2 DEF Plan, Task, UploadAndAdd, whitelistContract, resetTimeControlled


LEMMA PlanLength ==
    /\ Len(Plan(Task("controller", "Controller"))) = 1
    /\ Len(Plan(Task("augurLite", "AugurLite"))) = 3
    /\ Len(Plan(Task("upload", Token))) = 4
    /\ \A c \in Uploaded \ {Token} : Len(Plan(Task("upload", c))) = 2
    /\ \A c : Len(Plan(Task("init", c))) = 1
    /\ \A c : Len(Plan(Task("whitelist", c))) = 1
    /\ Len(Plan(Task("time", "Time"))) = 1
    /\ Len(Plan(Task("universe", "Universe"))) = 1
BY PlanIs

LEMMA PlanAt ==
    /\ Plan(Task("controller", "Controller"))[1] = Send("construct", "Controller")
    /\ Plan(Task("augurLite", "AugurLite"))[1] = Send("construct", "AugurLite")
    /\ Plan(Task("augurLite", "AugurLite"))[2] = Send("setController", "AugurLite")
    /\ Plan(Task("augurLite", "AugurLite"))[3] = Send("register", "AugurLite")
    /\ Plan(Task("upload", Token))[1] = Send("construct", TokenTarget)
    /\ Plan(Task("upload", Token))[2] = Send("register", TokenTarget)
    /\ Plan(Task("upload", Token))[3] = Send("construct", Token)
    /\ Plan(Task("upload", Token))[4] = Send("register", Token)
    /\ \A c \in Uploaded \ {Token} : /\ Plan(Task("upload", c))[1] = Send("construct", c)
                                     /\ Plan(Task("upload", c))[2] = Send("register", c)
    /\ \A c : Plan(Task("init", c))[1] = Send("setController", c)
    /\ \A c : Plan(Task("whitelist", c))[1] = Send("addToWhitelist", c)
    /\ Plan(Task("time", "Time"))[1] = Send("setTimestamp", "Time")
    /\ Plan(Task("universe", "Universe"))[1] = Send("createUniverse", "Universe")
BY PlanIs

LEMMA PlanLengths == \A t \in Tasks : Len(Plan(t)) \in 1 .. 4
BY TaskCases, PlanLength

\* Which transaction of which task does what.
LEMMA TransactionOf ==
    ASSUME NEW t \in Tasks, NEW k \in 0 .. Len(Plan(t)) - 1
    PROVE  LET tx == Plan(t)[k + 1]
           IN  /\ tx = Send(tx.op, tx.of)
               /\ tx.op = "register" => tx.of \in Names
               /\ tx.op = "setController" => tx.of \in contractsToInitialize \cup {"AugurLite"}
               /\ \A n \in Names :
                      tx = Send("register", n) <=> Owner(n) = t /\ Index(n) = k + 1
               /\ \A c \in contractsToInitialize :
                      /\ tx = Send("construct", c) <=> t = Task("upload", c) /\ k = 0
                      /\ tx = Send("setController", c) <=> t = Task("init", c) /\ k = 0
               /\ tx = Send("construct", "AugurLite") <=> t.stage = "augurLite" /\ k = 0
               /\ tx = Send("setController", "AugurLite") <=> t.stage = "augurLite" /\ k = 1
               /\ \A c : tx = Send("addToWhitelist", c) <=> t = Task("whitelist", c) /\ k = 0
               /\ tx.op = "createUniverse" <=> t.stage = "universe" /\ k = 0
               /\ tx.op = "setTimestamp" <=> t.stage = "time" /\ k = 0
<1>1. CASE t = Task("controller", "Controller")
  <2>1. k = 0 /\ Plan(t)[1] = Send("construct", "Controller")
    <3>1. Len(Plan(t)) = 1
      BY <1>1, PlanLength
    <3>2. k = 0
      BY <3>1
    <3>3. Plan(t)[1] = Send("construct", "Controller")
      BY <1>1, PlanAt
    <3> QED
      BY <3>2, <3>3
  <2>2. "Controller" \notin contractsToInitialize
    BY DEF contractsToInitialize, TradingContracts
  <2> QED
    BY <1>1, <2>1, <2>2 DEF Owner, Index, Send, Task
<1>2. CASE t = Task("augurLite", "AugurLite")
  <2>1. /\ k \in {0, 1, 2} /\ Plan(t)[1] = Send("construct", "AugurLite")
        /\ Plan(t)[2] = Send("setController", "AugurLite")
        /\ Plan(t)[3] = Send("register", "AugurLite")
    <3>1. Len(Plan(t)) = 3
      BY <1>2, PlanLength
    <3>2. k \in {0, 1, 2}
      BY <3>1
    <3>3. /\ Plan(t)[1] = Send("construct", "AugurLite")
          /\ Plan(t)[2] = Send("setController", "AugurLite")
          /\ Plan(t)[3] = Send("register", "AugurLite")
      BY <1>2, PlanAt
    <3> QED
      BY <3>2, <3>3
  <2>2. "AugurLite" \in Names /\ "AugurLite" \notin contractsToInitialize
    BY NamesApart DEF Names
  <2>3. /\ t.stage = "augurLite"
        /\ \A s, c : t = Task(s, c) => s = "augurLite"
        /\ \A n : Owner(n) = t <=> n = "AugurLite"
        /\ Index("AugurLite") = 3
    <3>1. t.stage = "augurLite" /\ \A s, c : t = Task(s, c) => s = "augurLite"
      BY <1>2 DEF Task
    <3>2. \A n : Owner(n) = t => n = "AugurLite"
      BY <1>2, <3>1 DEF Owner
    <3>3. Owner("AugurLite") = t /\ Index("AugurLite") = 3
      BY <1>2 DEF Owner, Index, Token, TokenTarget
    <3> QED
      BY <3>1, <3>2, <3>3
  <2>4. CASE k = 0
    BY <2>1, <2>2, <2>3, <2>4 DEF Send
  <2>5. CASE k = 1
    BY <2>1, <2>2, <2>3, <2>5 DEF Send
  <2>6. CASE k = 2
    BY <2>1, <2>2, <2>3, <2>6 DEF Send
  <2> QED
    BY <2>1, <2>4, <2>5, <2>6
<1>3. CASE t = Task("upload", Token) /\ Token \in Uploaded
  <2>1. /\ k \in {0, 1, 2, 3} /\ Plan(t)[1] = Send("construct", TokenTarget)
        /\ Plan(t)[2] = Send("register", TokenTarget)
        /\ Plan(t)[3] = Send("construct", Token) /\ Plan(t)[4] = Send("register", Token)
    <3>1. Len(Plan(t)) = 4
      BY <1>3, PlanLength
    <3>2. k \in {0, 1, 2, 3}
      BY <3>1
    <3>3. /\ Plan(t)[1] = Send("construct", TokenTarget)
          /\ Plan(t)[2] = Send("register", TokenTarget)
          /\ Plan(t)[3] = Send("construct", Token) /\ Plan(t)[4] = Send("register", Token)
      BY <1>3, PlanAt
    <3> QED
      BY <3>2, <3>3
  <2>2. /\ Token \in Names /\ TokenTarget \in Names /\ Token # TokenTarget
        /\ Token # "AugurLite" /\ TokenTarget # "AugurLite"
        /\ TokenTarget \notin contractsToInitialize
    BY <1>3, NamesApart DEF Names, Token, TokenTarget, contractsToInitialize, TradingContracts
  <2> QED
    BY <1>3, <2>1, <2>2, NamesApart DEF Owner, Index, Send, Task
<1>4. CASE \E c \in Uploaded \ {Token} : t = Task("upload", c)
  <2>1. PICK c \in Uploaded \ {Token} : t = Task("upload", c)
    BY <1>4
  <2>2. /\ k \in {0, 1} /\ Plan(t)[1] = Send("construct", c) /\ Plan(t)[2] = Send("register", c)
    <3>1. Len(Plan(t)) = 2
      BY <2>1, PlanLength
    <3>2. k \in {0, 1}
      BY <3>1
    <3>3. Plan(t)[1] = Send("construct", c) /\ Plan(t)[2] = Send("register", c)
      BY <2>1, PlanAt
    <3> QED
      BY <3>2, <3>3
  <2>3. c \in Names /\ c # "AugurLite" /\ c # TokenTarget /\ c # Token
        /\ Owner(c) = t /\ Index(c) = 2
    BY <2>1, NamesApart DEF Owner, Index
  <2>4. \A n \in Names : n # c => Owner(n) # t \/ Index(n) > 2
    BY <2>1, <2>3 DEF Owner, Index, Task
  <2> QED
    BY <2>1, <2>2, <2>3, <2>4 DEF Send, Task
<1>5. CASE \E c \in contractsToInitialize : t = Task("init", c)
  <2>1. PICK c \in contractsToInitialize : t = Task("init", c)
    BY <1>5
  <2>2. k = 0 /\ Plan(t)[1] = Send("setController", c)
    <3>1. Len(Plan(t)) = 1
      BY <2>1, PlanLength
    <3>2. k = 0
      BY <3>1
    <3>3. Plan(t)[1] = Send("setController", c)
      BY <2>1, PlanAt
    <3> QED
      BY <3>2, <3>3
  <2> QED
    BY <2>1, <2>2, NamesApart DEF Owner, Index, Send, Task
<1>6. CASE \E c \in TradingContracts : t = Task("whitelist", c)
  <2>1. PICK c \in TradingContracts : t = Task("whitelist", c)
    BY <1>6
  <2>2. k = 0 /\ Plan(t)[1] = Send("addToWhitelist", c)
    <3>1. Len(Plan(t)) = 1
      BY <2>1, PlanLength
    <3>2. k = 0
      BY <3>1
    <3>3. Plan(t)[1] = Send("addToWhitelist", c)
      BY <2>1, PlanAt
    <3> QED
      BY <3>2, <3>3
  <2> QED
    BY <2>1, <2>2 DEF Owner, Index, Send, Task
<1>7. CASE t = Task("time", "Time")
  <2>1. k = 0 /\ Plan(t)[1] = Send("setTimestamp", "Time")
    <3>1. Len(Plan(t)) = 1
      BY <1>7, PlanLength
    <3>2. k = 0
      BY <3>1
    <3>3. Plan(t)[1] = Send("setTimestamp", "Time")
      BY <1>7, PlanAt
    <3> QED
      BY <3>2, <3>3
  <2> QED
    BY <1>7, <2>1 DEF Owner, Index, Send, Task
<1>8. CASE t = Task("universe", "Universe")
  <2>1. k = 0 /\ Plan(t)[1] = Send("createUniverse", "Universe")
    <3>1. Len(Plan(t)) = 1
      BY <1>8, PlanLength
    <3>2. k = 0
      BY <3>1
    <3>3. Plan(t)[1] = Send("createUniverse", "Universe")
      BY <1>8, PlanAt
    <3> QED
      BY <3>2, <3>3
  <2> QED
    BY <1>8, <2>1 DEF Owner, Index, Send, Task
<1> QED
  BY <1>1, <1>2, <1>3, <1>4, <1>5, <1>6, <1>7, <1>8, TaskCases

-----------------------------------------------------------------------------
(* The chain *)

Controlled == contractsToInitialize \cup {"AugurLite"}

\* A transaction by what it does to a name, a contract, a trader or the universe.
LEMMA ExecuteFacts ==
    ASSUME TypeOK, NEW tx, tx = Send(tx.op, tx.of), Execute(tx),
           tx.op = "register" => tx.of \in Names,
           tx.op = "setController" => tx.of \in Controlled
    PROVE  /\ registry' \in [Names -> {"nobody", "us", "others"}]
           /\ \A n \in Names :
                  registry'[n] = IF tx = Send("register", n) THEN "us" ELSE registry[n]
           /\ controllerOf' \in [Controlled -> {"nobody", "deployer", "Controller"}]
           /\ \A c \in Controlled :
                  controllerOf'[c] = IF tx = Send("setController", c) THEN "Controller"
                                     ELSE IF tx = Send("construct", c) THEN "deployer"
                                     ELSE controllerOf[c]
           /\ \A c : c \in whitelist' <=> c \in whitelist \/ tx = Send("addToWhitelist", c)
           /\ universe' \in BOOLEAN
           /\ universe' <=> universe \/ tx.op = "createUniverse"
<1>1. \A op, c : tx = Send(op, c) <=> tx.op = op /\ tx.of = c
  BY DEF Send
<1>2. /\ registry' \in [Names -> {"nobody", "us", "others"}]
      /\ \A n \in Names :
             registry'[n] = IF tx.op = "register" /\ tx.of = n THEN "us" ELSE registry[n]
  BY DEF Execute, TypeOK
<1>3. controllerOf \in [Controlled -> {"nobody", "deployer", "Controller"}]
  BY DEF TypeOK, Controlled
<1>0. /\ \A c : c \in whitelist' <=> c \in whitelist \/ tx = Send("addToWhitelist", c)
      /\ universe' \in BOOLEAN /\ (universe' <=> universe \/ tx.op = "createUniverse")
  <2>1. whitelist' = IF tx.op = "addToWhitelist" THEN whitelist \cup {tx.of} ELSE whitelist
    BY DEF Execute
  <2>2. universe' = (universe \/ tx.op = "createUniverse") /\ universe \in BOOLEAN
    BY DEF Execute, TypeOK
  <2>3. \A c : c \in whitelist' <=> c \in whitelist \/ tx = Send("addToWhitelist", c)
    BY <1>1, <2>1
  <2>4. universe' \in BOOLEAN /\ (universe' <=> universe \/ tx.op = "createUniverse")
    BY <2>2, Zenon
  <2> QED
    BY <2>3, <2>4
<1>4. CASE tx.op = "setController"
  <2>1. controllerOf' = [controllerOf EXCEPT ![tx.of] = "Controller"]
    BY <1>4 DEF Execute
  <2> QED
    BY <1>0, <1>1, <1>2, <1>3, <1>4, <2>1
<1>5. CASE tx.op = "construct"
  <2>1. controllerOf' = IF tx.of \in DOMAIN controllerOf
                        THEN [controllerOf EXCEPT ![tx.of] = "deployer"] ELSE controllerOf
    BY <1>5 DEF Execute
  <2>2. /\ controllerOf' \in [Controlled -> {"nobody", "deployer", "Controller"}]
        /\ \A c \in Controlled : controllerOf'[c] = IF tx.of = c THEN "deployer"
                                                                 ELSE controllerOf[c]
    BY <1>3, <2>1
  <2> QED
    BY <1>0, <1>1, <1>2, <1>5, <2>2
<1>6. CASE tx.op \notin {"setController", "construct"}
  <2>1. controllerOf' = controllerOf
    BY <1>6 DEF Execute
  <2> QED
    BY <1>0, <1>1, <1>2, <1>3, <1>6, <2>1
<1> QED
  BY <1>4, <1>5, <1>6

\* A transaction that is accepted moves the chain along with its task.
LEMMA ExecutedChain ==
    ASSUME IInv, NEW t \in Tasks, sent[t] < Len(Plan(t)),
           Accepts(Pending(t)), Execute(Pending(t)), sent' = [sent EXCEPT ![t] = @ + 1]
    PROVE  /\ registry' \in [Names -> {"nobody", "us", "others"}]
           /\ controllerOf' \in [Controlled -> {"nobody", "deployer", "Controller"}]
           /\ whitelist' \subseteq TradingContracts /\ universe' \in BOOLEAN
           /\ ChainIsSent'
<1> DEFINE k == sent[t]
           tx == Plan(t)[k + 1]
<1>1. TypeOK /\ Progress /\ InOrder /\ ChainIsSent
  BY DEF IInv
<1>2. /\ k \in 0 .. Len(Plan(t)) - 1 /\ \A u \in Tasks : sent[u] \in Nat
      /\ sent'[t] = k + 1 /\ \A u \in Tasks \ {t} : sent'[u] = sent[u]
  <2>1. sent \in [Tasks -> 0 .. 4] /\ k < Len(Plan(t))
    BY <1>1 DEF TypeOK
  <2> QED
    BY <2>1, PlanLengths
<1>3. /\ tx = Send(tx.op, tx.of)
      /\ tx.op = "register" => tx.of \in Names
      /\ tx.op = "setController" => tx.of \in Controlled
      /\ \A n \in Names : tx = Send("register", n) <=> Owner(n) = t /\ Index(n) = k + 1
      /\ \A c \in contractsToInitialize :
             /\ tx = Send("construct", c) <=> t = Task("upload", c) /\ k = 0
             /\ tx = Send("setController", c) <=> t = Task("init", c) /\ k = 0
      /\ tx = Send("construct", "AugurLite") <=> t.stage = "augurLite" /\ k = 0
      /\ tx = Send("setController", "AugurLite") <=> t.stage = "augurLite" /\ k = 1
      /\ \A c : tx = Send("addToWhitelist", c) <=> t = Task("whitelist", c) /\ k = 0
      /\ tx.op = "createUniverse" <=> t.stage = "universe" /\ k = 0
  <2> HIDE DEF k
  <2> QED
    BY <1>2, TransactionOf DEF Controlled
<1>4. tx = Pending(t) /\ tx = Plan(t)[k + 1]
  BY DEF Pending
<1> HIDE DEF tx, k
<1>5. /\ registry' \in [Names -> {"nobody", "us", "others"}]
      /\ \A n \in Names :
             registry'[n] = IF tx = Send("register", n) THEN "us" ELSE registry[n]
      /\ controllerOf' \in [Controlled -> {"nobody", "deployer", "Controller"}]
      /\ \A c \in Controlled :
             controllerOf'[c] = IF tx = Send("setController", c) THEN "Controller"
                                ELSE IF tx = Send("construct", c) THEN "deployer"
                                ELSE controllerOf[c]
      /\ \A c : c \in whitelist' <=> c \in whitelist \/ tx = Send("addToWhitelist", c)
      /\ universe' \in BOOLEAN
      /\ universe' <=> universe \/ tx.op = "createUniverse"
  <2>1. PICK it : it = tx
    OBVIOUS
  <2>2. /\ it = Send(it.op, it.of) /\ Execute(it)
        /\ it.op = "register" => it.of \in Names
        /\ it.op = "setController" => it.of \in Controlled
    BY <1>3, <1>4, <2>1
  <2> QED
    BY <1>1, <2>1, <2>2, ExecuteFacts
<1>6. ASSUME NEW n \in Names
      PROVE  registry'[n] = IF Registered(n)' THEN "us"
                            ELSE IF controllerGiven THEN "others" ELSE "nobody"
  <2>1. Index(n) \in Nat /\ Owner(n)' = Owner(n) /\ Index(n)' = Index(n)
    BY DEF Index, Owner
  <2>2. Registered(n)' <=> Owner(n) \in Tasks /\ sent'[Owner(n)] >= Index(n)
    BY <2>1 DEF Registered
  <2>3. registry[n] = IF Registered(n) THEN "us"
                      ELSE IF controllerGiven THEN "others" ELSE "nobody"
    BY <1>1 DEF ChainIsSent
  <2>4. CASE tx = Send("register", n)
    BY <1>2, <1>3, <1>5, <2>1, <2>2, <2>4
  <2>5. CASE tx # Send("register", n)
    <3>1. Owner(n) # t \/ Index(n) # k + 1
      BY <1>3, <2>5
    <3>2. Registered(n)' <=> Registered(n)
      BY <1>2, <2>1, <2>2, <3>1 DEF Registered, k
    <3> QED
      BY <1>5, <2>3, <2>5, <3>2
  <2> QED
    BY <2>4, <2>5
<1>7. ASSUME NEW c \in contractsToInitialize
      PROVE  controllerOf'[c] = IF sent'[Task("upload", c)] = 0 THEN "nobody"
                                ELSE IF sent'[Task("init", c)] = 0 THEN "deployer"
                                ELSE "Controller"
  <2> DEFINE up == Task("upload", c)
             init == Task("init", c)
  <2>1. /\ up \in Tasks /\ init \in Tasks /\ up # init /\ Len(Plan(init)) = 1
        /\ up.stage = "upload" /\ init.stage = "init" /\ c \in Controlled
    <3>1. c \in Uploaded
      BY DeploymentParameters, NamesApart DEF Uploaded
    <3> QED
      BY <3>1, TasksAre, PlanLength DEF Task, Controlled
  <2>2. controllerOf[c] = IF sent[up] = 0 THEN "nobody"
                          ELSE IF sent[init] = 0 THEN "deployer" ELSE "Controller"
    BY <1>1 DEF ChainIsSent
  <2>3. /\ tx = Send("construct", c) <=> t = up /\ k = 0
        /\ tx = Send("setController", c) <=> t = init /\ k = 0
    BY <1>3
  <2>4. tx.op = "setController" /\ tx.of = c => controllerOf[c] = "deployer"
    BY <1>4 DEF Accepts
  <2> HIDE DEF up, init
  <2>5. CASE t = up /\ k = 0
    <3>1. status[init] = "off" \/ status[up] = "done"
      BY <1>1, <2>1 DEF InOrder, Awaiting, Rank
    <3>4. status[up] # "done"
      BY <1>1, <2>5, PlanLengths DEF Progress
    <3>2. sent[init] = 0
      BY <1>1, <2>1, <3>1, <3>4 DEF Progress
    <3>3. controllerOf'[c] = "deployer"
      BY <1>5, <2>1, <2>3, <2>5
    <3> QED
      BY <1>2, <2>1, <2>5, <3>2, <3>3 DEF up, init
  <2>6. CASE t = init
    <3>1. k = 0
      <4>1. Len(Plan(t)) = 1
        BY <2>1, <2>6
      <4> QED
        BY <1>2, <4>1
    <3>2. tx = Send("setController", c) /\ tx.op = "setController" /\ tx.of = c
      BY <2>3, <2>6, <3>1 DEF Send
    <3>3. sent[up] # 0
      BY <2>2, <2>4, <3>2
    <3>4. controllerOf'[c] = "Controller"
      BY <1>5, <2>1, <3>2
    <3> QED
      BY <1>2, <2>1, <2>6, <3>1, <3>3, <3>4 DEF up, init
  <2>7. CASE t # init /\ ~(t = up /\ k = 0)
    <3>1. controllerOf'[c] = controllerOf[c]
      BY <1>5, <2>1, <2>3, <2>7
    <3>2. sent'[init] = sent[init] /\ (sent'[up] = 0 <=> sent[up] = 0)
      BY <1>2, <2>1, <2>7 DEF k
    <3> QED
      BY <2>2, <3>1, <3>2 DEF up, init
  <2> QED
    BY <2>5, <2>6, <2>7
<1>8. LET n == sent'[Task("augurLite", "AugurLite")]
      IN  controllerOf'["AugurLite"] = IF n = 0 THEN "nobody"
                                       ELSE IF n = 1 THEN "deployer" ELSE "Controller"
  <2> DEFINE aug == Task("augurLite", "AugurLite")
  <2>1. /\ aug \in Tasks /\ "AugurLite" \in Controlled
        /\ t.stage = "augurLite" <=> t = aug
    BY TasksAre, TaskCases DEF Task, Controlled
  <2>2. controllerOf["AugurLite"] = IF sent[aug] = 0 THEN "nobody"
                                    ELSE IF sent[aug] = 1 THEN "deployer" ELSE "Controller"
    BY <1>1 DEF ChainIsSent
  <2> HIDE DEF aug
  <2>3. CASE t = aug /\ k = 0
    BY <1>2, <1>3, <1>5, <2>1, <2>3 DEF aug, Send
  <2>4. CASE t = aug /\ k = 1
    BY <1>2, <1>3, <1>5, <2>1, <2>4 DEF aug, Send
  <2>5. CASE t # aug \/ k \notin {0, 1}
    <3>1. controllerOf'["AugurLite"] = controllerOf["AugurLite"]
      BY <1>3, <1>5, <2>1, <2>5
    <3> QED
      BY <1>2, <2>1, <2>2, <2>5, <3>1 DEF aug, k
  <2> QED
    BY <2>3, <2>4, <2>5
<1>9. \A c : c \in whitelist' <=> c \in TradingContracts /\ sent'[Task("whitelist", c)] = 1
  <2>1. ASSUME NEW c \in TradingContracts
        PROVE  c \in whitelist' <=> sent'[Task("whitelist", c)] = 1
    <3>1. /\ Task("whitelist", c) \in Tasks /\ Len(Plan(Task("whitelist", c))) = 1
          /\ c \in whitelist <=> sent[Task("whitelist", c)] = 1
      BY <1>1, TasksAre, PlanLength DEF ChainIsSent
    <3>2. CASE t = Task("whitelist", c)
      <4>1. k = 0
        <5>1. Len(Plan(t)) = 1
          BY <3>1, <3>2
        <5> QED
          BY <1>2, <5>1
      <4> QED
        BY <1>2, <1>3, <1>5, <3>2, <4>1
    <3>3. CASE t # Task("whitelist", c)
      BY <1>2, <1>3, <1>5, <3>1, <3>3
    <3> QED
      BY <3>2, <3>3
  <2>2. ASSUME NEW c, tx = Send("addToWhitelist", c) PROVE c \in TradingContracts
    <3>1. t = Task("whitelist", c)
      BY <1>3, <2>2
    <3> QED
      BY <3>1, TaskCases DEF Task
  <2>3. whitelist \subseteq TradingContracts
    BY <1>1 DEF TypeOK
  <2> QED
    BY <1>5, <2>1, <2>2, <2>3
<1>10. universe' <=> sent'[Task("universe", "Universe")] = 1
  <2> DEFINE uni == Task("universe", "Universe")
  <2>1. /\ uni \in Tasks /\ Len(Plan(uni)) = 1
        /\ t.stage = "universe" <=> t = uni
        /\ universe <=> sent[uni] = 1
    BY <1>1, TasksAre, PlanLength, TaskCases DEF Task, ChainIsSent
  <2> HIDE DEF uni
  <2>2. CASE t = uni
    <3>1. k = 0
      <4>1. Len(Plan(t)) = 1
        BY <2>1, <2>2
      <4> QED
        BY <1>2, <4>1
    <3> QED
      BY <1>2, <1>3, <1>5, <2>1, <2>2, <3>1 DEF uni
  <2>3. CASE t # uni
    BY <1>2, <1>3, <1>5, <2>1, <2>3 DEF uni
  <2> QED
    BY <2>2, <2>3
<1>11. whitelist' = {c \in TradingContracts : sent'[Task("whitelist", c)] = 1}
  BY <1>9
<1>12. ChainIsSent'
  BY <1>6, <1>7, <1>8, <1>10, <1>11 DEF ChainIsSent
<1> QED
  BY <1>5, <1>11, <1>12
-----------------------------------------------------------------------------
(* The parts of the invariant *)

TaskStages == {"controller", "augurLite", "upload", "init", "whitelist", "time", "universe"}

LEMMA StageOf == \A t \in Tasks : t.stage \in TaskStages
BY TaskCases DEF Task, TaskStages

\* What is neither sent nor mined leaves the chain where the tasks are.
LEMMA ChainKept ==
    ASSUME ChainIsSent, UNCHANGED <<sent, chainVars>>
    PROVE  ChainIsSent'
<1>1. \A n : Owner(n)' = Owner(n) /\ Index(n)' = Index(n)
  BY DEF Owner, Index
<1>2. \A n : Registered(n)' <=> Registered(n)
  BY <1>1 DEF Registered
<1> QED
  BY <1>2 DEF ChainIsSent, chainVars

\* A step of one task that has started and is not done.
LEMMA OrderKept ==
    ASSUME InOrder, NEW t \in Tasks, status[t] \notin {"off", "done"},
           status'[t] \notin {"off", "reading"},
           \A u \in Tasks \ {t} : status'[u] = status[u],
           useNormalTime' = useNormalTime, stage' \in {stage, "failed"}
    PROVE  InOrder'
<1>1. ASSUME NEW v \in Tasks, NEW u \in Tasks, status'[v] # "off",
             u.stage \in Awaiting, Rank(u.stage) < Rank(v.stage)
      PROVE  status'[u] = "done"
  BY <1>1 DEF InOrder
<1>2. ASSUME NEW v \in Tasks, stage' # "failed", Rank(stage) < Rank(v.stage)
      PROVE  status'[v] = "off"
  BY <1>2 DEF InOrder
<1>3. ASSUME NEW v \in Tasks, stage' # "failed", Rank(v.stage) < Rank(stage)
      PROVE  \/ status'[v] = "done"
             \/ v.stage \in {"init", "time"}
             \/ v.stage = "universe" /\ ~createGenesisUniverse
  BY <1>3 DEF InOrder
<1>4. ASSUME NEW v \in Tasks
      PROVE  /\ v.stage = "time" /\ status'[v] # "off" => ~NormalTime
             /\ v.stage = "universe" /\ status'[v] # "off" => createGenesisUniverse
             /\ status'[v] = "reading" => v.stage \in {"init", "whitelist"}
  BY DEF InOrder
<1>5. NormalTime' <=> NormalTime
  BY DEF NormalTime
<1>6. stage' # "failed" => stage' = stage
  OBVIOUS
<1> QED
  BY <1>1, <1>2, <1>3, <1>4, <1>5, <1>6 DEF InOrder, Rank, Awaiting

InPool(t) == \E i \in DOMAIN pool : pool[i] = t

\* A task that waits for its transaction is in the pool, one in the pool waits
\* for it or has thrown.
PoolStatus ==
    \A t \in Tasks : /\ status[t] = "sent" => InPool(t)
                     /\ InPool(t) => status[t] \in {"sent", "failed"}

LEMMA SentIsInPool == IInv => PoolStatus
BY DEF IInv, TypeOK, InPool, PoolStatus

LEMMA ProgressKept ==
    ASSUME Progress, NEW t \in Tasks, sent' = sent,
           status'[t] \in {"ready", "sent", "failed"},
           status'[t] = "ready" \/ InPool(t)' => sent[t] < Len(Plan(t)),
           \A u \in Tasks \ {t} : status'[u] = status[u] /\ (InPool(u)' => InPool(u))
    PROVE  Progress'
<1>1. ASSUME NEW u \in Tasks
      PROVE  /\ sent[u] \in 0 .. Len(Plan(u))
             /\ status'[u] \in {"off", "reading"} => sent[u] = 0
             /\ status'[u] = "ready" \/ InPool(u)' => sent[u] < Len(Plan(u))
             /\ status'[u] = "done" => sent[u] = Len(Plan(u))
  <2>1. CASE u = t
    BY <2>1 DEF Progress
  <2>2. CASE u # t
    BY <2>2 DEF Progress, InPool
  <2> QED
    BY <2>1, <2>2
<1> QED
  BY <1>1 DEF Progress, InPool

\* A transaction joins the pool.
LEMMA Appended ==
    ASSUME PoolIsSent, NEW e \in Tasks \cup {Gap}, pool' = Append(pool, e),
           e = Gap \/ ~InPool(e)
    PROVE  /\ PoolIsSent'
           /\ \A u : InPool(u)' <=> u = e \/ InPool(u)
<1> DEFINE T == Tasks \cup {Gap}
<1>1. pool \in Seq(T)
  BY DEF PoolIsSent
<1> HIDE DEF T
<1>2. /\ pool' \in Seq(T) /\ Len(pool') = Len(pool) + 1 /\ Len(pool) \in Nat
      /\ DOMAIN pool = 1 .. Len(pool) /\ DOMAIN pool' = 1 .. Len(pool) + 1
      /\ \A i \in 1 .. Len(pool) : pool'[i] = pool[i]
      /\ pool'[Len(pool) + 1] = e
  <2>1. e \in T
    BY DEF T
  <2> QED
    BY <1>1, <2>1
<1>3. \A u : InPool(u)' <=> u = e \/ InPool(u)
  BY <1>2 DEF InPool
<1>4. ASSUME NEW i \in DOMAIN pool', NEW j \in DOMAIN pool', pool'[i] = pool'[j]
      PROVE  i = j \/ pool'[i] = Gap
  <2>1. CASE i \in DOMAIN pool /\ j \in DOMAIN pool
    BY <1>2, <1>4, <2>1 DEF PoolIsSent
  <2>2. CASE i \notin DOMAIN pool /\ j \notin DOMAIN pool
    BY <1>2, <2>2
  <2>3. CASE (i \in DOMAIN pool) # (j \in DOMAIN pool)
    BY <1>2, <1>4, <2>3 DEF InPool
  <2> QED
    BY <2>1, <2>2, <2>3
<1> QED
  BY <1>2, <1>3, <1>4 DEF PoolIsSent, T

\* The first transaction leaves the pool.
LEMMA Shortened ==
    ASSUME PoolIsSent, pool # <<>>, Head(pool) # Gap, pool' = Tail(pool)
    PROVE  /\ PoolIsSent' /\ Head(pool) \in Tasks /\ InPool(Head(pool))
           /\ \A u : u # Gap => (InPool(u)' <=> InPool(u) /\ u # Head(pool))
<1> DEFINE T == Tasks \cup {Gap}
<1>1. pool \in Seq(T)
  BY DEF PoolIsSent
<1> HIDE DEF T
<1>2. /\ pool' \in Seq(T) /\ Len(pool) \in Nat \ {0} /\ Len(pool') = Len(pool) - 1
      /\ Head(pool) = pool[1] /\ pool[1] \in T
      /\ \A i \in 1 .. Len(pool) - 1 : pool'[i] = pool[i + 1]
  BY <1>1, HeadTailProperties, ElementOfSeq, EmptySeq
<1>3. DOMAIN pool = 1 .. Len(pool) /\ DOMAIN pool' = 1 .. Len(pool) - 1
  BY <1>1, <1>2
<1>4. \A i, j \in 1 .. Len(pool) : pool[i] = pool[j] => i = j \/ pool[i] = Gap
  BY <1>3 DEF PoolIsSent
<1>5. ASSUME NEW u, u # Gap PROVE InPool(u)' <=> InPool(u) /\ u # Head(pool)
  <2>1. ASSUME InPool(u)' PROVE InPool(u) /\ u # Head(pool)
    <3>1. PICK i \in 1 .. Len(pool) - 1 : pool'[i] = u
      BY <1>3, <2>1 DEF InPool
    <3>2. i + 1 \in 1 .. Len(pool) /\ i + 1 # 1 /\ 1 \in 1 .. Len(pool) /\ pool[i + 1] = u
      BY <1>2, <3>1
    <3> QED
      BY <1>2, <1>3, <1>4, <1>5, <3>2 DEF InPool
  <2>2. ASSUME InPool(u), u # Head(pool) PROVE InPool(u)'
    <3>1. PICK i \in 1 .. Len(pool) : pool[i] = u
      BY <1>3, <2>2 DEF InPool
    <3>2. i - 1 \in 1 .. Len(pool) - 1 /\ pool'[i - 1] = pool[i]
      <4>1. i # 1
        BY <1>2, <2>2, <3>1
      <4>2. i - 1 \in 1 .. Len(pool) - 1 /\ (i - 1) + 1 = i
        BY <1>2, <4>1
      <4> QED
        BY <1>2, <4>2
    <3> QED
      BY <1>3, <3>1, <3>2 DEF InPool
  <2> QED
    BY <2>1, <2>2
<1>6. ASSUME NEW i \in 1 .. Len(pool) - 1, NEW j \in 1 .. Len(pool) - 1, pool'[i] = pool'[j]
      PROVE  i = j \/ pool'[i] = Gap
  <2>1. i + 1 \in 1 .. Len(pool) /\ j + 1 \in 1 .. Len(pool)
        /\ pool[i + 1] = pool'[i] /\ pool[j + 1] = pool'[j]
    BY <1>2
  <2>2. i + 1 = j + 1 \/ pool[i + 1] = Gap
    BY <1>4, <1>6, <2>1
  <2> QED
    BY <2>1, <2>2
<1>7. InPool(Head(pool))
  <2>1. 1 \in 1 .. Len(pool)
    BY <1>2
  <2> QED
    BY <1>2, <1>3, <2>1 DEF InPool
<1> QED
  BY <1>2, <1>3, <1>5, <1>6, <1>7 DEF PoolIsSent, T

-----------------------------------------------------------------------------
(* The steps *)

\* A step of one task that moves nothing on the chain, as a whole.
LEMMA OneTaskStep ==
    ASSUME IInv, NEW t \in Tasks, status[t] \notin {"off", "done"},
           status' \in [Tasks -> {"off", "reading", "ready", "sent", "done", "failed"}],
           status'[t] \in {"ready", "sent", "failed"},
           status'[t] = "ready" \/ InPool(t)' => sent[t] < Len(Plan(t)),
           \A u \in Tasks \ {t} : status'[u] = status[u] /\ (InPool(u)' => InPool(u)),
           UNCHANGED <<sent, chainVars, running, useNormalTime>>,
           stage' \in {stage, "failed"}, failures' \in 0 .. MaxFailures,
           PoolIsSent', PoolStatus'
    PROVE  IInv'
<1>1. TypeOK /\ Progress /\ InOrder /\ ChainIsSent
  BY DEF IInv
<1>2. Progress'
  BY <1>1, ProgressKept
<1>3. InOrder'
  BY <1>1, OrderKept
<1>4. ChainIsSent'
  BY <1>1, ChainKept
<1>5. TypeOK'
  BY <1>1 DEF TypeOK, PoolStatus, InPool, chainVars, Stages
<1> QED
  BY <1>2, <1>3, <1>4, <1>5 DEF IInv

LEMMA SubmitInv ==
    ASSUME IInv, NEW t \in Tasks, Submit(t) PROVE IInv'
<1>1. TypeOK /\ PoolIsSent /\ Progress
  BY DEF IInv
<1>2. /\ status[t] = "ready" /\ status' = [status EXCEPT ![t] = "sent"]
      /\ pool' = Append(pool, t)
      /\ UNCHANGED <<stage, sent, chainVars, failures, running, useNormalTime>>
  BY DEF Submit
<1>3. PoolIsSent' /\ \A u : InPool(u)' <=> u = t \/ InPool(u)
  <2>1. ~InPool(t)
    BY <1>2, SentIsInPool DEF PoolStatus
  <2> QED
    BY <1>1, <1>2, <2>1, Appended
<1>4. /\ status' \in [Tasks -> {"off", "reading", "ready", "sent", "done", "failed"}]
      /\ status'[t] = "sent" /\ \A u \in Tasks \ {t} : status'[u] = status[u]
  BY <1>1, <1>2 DEF TypeOK
<1>5. sent[t] < Len(Plan(t)) /\ failures' \in 0 .. MaxFailures
  BY <1>1, <1>2 DEF Progress, TypeOK
<1>6. PoolStatus'
  BY <1>3, <1>4, SentIsInPool DEF PoolStatus
<1> QED
  BY <1>2, <1>3, <1>4, <1>5, <1>6, OneTaskStep

\* A task that fails or goes on without a transaction.
LEMMA PoolUntouched ==
    ASSUME IInv, NEW t \in Tasks, status[t] \in {"reading", "ready", "sent"}, pool' = pool,
           status' \in [Tasks -> {"off", "reading", "ready", "sent", "done", "failed"}],
           status'[t] = "failed" \/ (status'[t] = "ready" /\ status[t] # "sent"),
           \A u \in Tasks \ {t} : status'[u] = status[u],
           UNCHANGED <<sent, chainVars, running, useNormalTime>>,
           stage' \in {stage, "failed"}, failures' \in 0 .. MaxFailures
    PROVE  IInv'
<1>1. PoolIsSent' /\ \A u : InPool(u)' <=> InPool(u)
  BY DEF IInv, PoolIsSent, InPool
<1>2. PoolStatus'
  BY <1>1, SentIsInPool DEF PoolStatus
<1>3. sent[t] < Len(Plan(t))
  <2>1. CASE status[t] = "sent"
    BY <2>1, SentIsInPool DEF PoolStatus, InPool, IInv, Progress
  <2>2. CASE status[t] = "ready"
    BY <2>2 DEF IInv, Progress
  <2>3. CASE status[t] = "reading"
    <3>1. sent[t] = 0 /\ Len(Plan(t)) \in 1 .. 4
      BY <2>3, PlanLengths DEF IInv, Progress
    <3>2. \A n \in 1 .. 4 : 0 < n
      OBVIOUS
    <3> QED
      BY <3>1, <3>2, Zenon
  <2> QED
    BY <2>1, <2>2, <2>3
<1> QED
  BY <1>1, <1>2, <1>3, OneTaskStep

LEMMA EstimateRefusedInv ==
    ASSUME IInv, NEW t \in Tasks, EstimateRefused(t) PROVE IInv'
<1>1. TypeOK
  BY DEF IInv
<1>2. /\ status[t] = "ready" /\ status' = [status EXCEPT ![t] = "failed"]
      /\ UNCHANGED <<stage, sent, pool, chainVars, failures, running, useNormalTime>>
  BY DEF EstimateRefused
<1>3. /\ status' \in [Tasks -> {"off", "reading", "ready", "sent", "done", "failed"}]
      /\ status'[t] = "failed" /\ \A u \in Tasks \ {t} : status'[u] = status[u]
      /\ failures' \in 0 .. MaxFailures
  BY <1>1, <1>2 DEF TypeOK
<1> QED
  BY <1>2, <1>3, PoolUntouched

\* A task that reads always finds its transaction needed: nothing else sends it.
LEMMA NeverNeedless ==
    ASSUME IInv, NEW t \in Tasks, status[t] = "reading" PROVE ~Needless(t)
<1>1. t.stage \in {"init", "whitelist"} /\ sent[t] = 0
  BY DEF IInv, InOrder, Progress
<1>2. CASE t.stage = "init"
  <2>1. t.of \in contractsToInitialize /\ t = Task("init", t.of)
    BY <1>2, TaskCases DEF Task
  <2>2. controllerOf[t.of] # "Controller"
    BY <1>1, <2>1 DEF IInv, ChainIsSent
  <2> QED
    BY <1>2, <2>2 DEF Needless
<1>3. CASE t.stage = "whitelist"
  <2>1. t.of \in TradingContracts /\ t = Task("whitelist", t.of)
    BY <1>3, TaskCases DEF Task
  <2>2. t.of \notin whitelist
    BY <1>1, <2>1 DEF IInv, ChainIsSent
  <2> QED
    BY <1>3, <2>2 DEF Needless
<1> QED
  BY <1>1, <1>2, <1>3

LEMMA ReadInv ==
    ASSUME IInv, NEW t \in Tasks, Read(t) PROVE IInv'
<1>1. TypeOK
  BY DEF IInv
<1>2. /\ status[t] = "reading" /\ status' = [status EXCEPT ![t] = "ready"]
      /\ UNCHANGED <<stage, sent, pool, chainVars, failures, running, useNormalTime>>
  BY NeverNeedless DEF Read, Skips
<1>3. /\ status' \in [Tasks -> {"off", "reading", "ready", "sent", "done", "failed"}]
      /\ status'[t] = "ready" /\ \A u \in Tasks \ {t} : status'[u] = status[u]
      /\ failures' \in 0 .. MaxFailures
  BY <1>1, <1>2 DEF TypeOK
<1> QED
  BY <1>2, <1>3, PoolUntouched

LEMMA RequestFailsInv ==
    ASSUME IInv, NEW t \in Tasks, RequestFails(t) PROVE IInv'
<1>1. TypeOK
  BY DEF IInv
<1>2. /\ status[t] \in {"reading", "ready", "sent"}
      /\ status' = [status EXCEPT ![t] = "failed"]
      /\ failures < MaxFailures /\ failures' = failures + 1 /\ stage' \in {stage, "failed"}
      /\ UNCHANGED <<sent, pool, chainVars, running, useNormalTime>>
  BY DEF RequestFails
<1>3. /\ status' \in [Tasks -> {"off", "reading", "ready", "sent", "done", "failed"}]
      /\ status'[t] = "failed" /\ \A u \in Tasks \ {t} : status'[u] = status[u]
  BY <1>1, <1>2 DEF TypeOK
<1>4. failures' \in 0 .. MaxFailures
  BY <1>1, <1>2, DeploymentParameters DEF TypeOK
<1> QED
  BY <1>2, <1>3, <1>4, PoolUntouched

LEMMA SendFailsInv ==
    ASSUME IInv, NEW t \in Tasks, SendFails(t) PROVE IInv'
<1>1. TypeOK /\ PoolIsSent /\ Progress
  BY DEF IInv
<1>2. /\ status[t] = "ready" /\ status' = [status EXCEPT ![t] = "failed"]
      /\ pool' = Append(pool, Gap) /\ failures < MaxFailures /\ failures' = failures + 1
      /\ UNCHANGED <<stage, sent, chainVars, running, useNormalTime>>
  BY DEF SendFails
<1>3. PoolIsSent' /\ \A u : InPool(u)' <=> u = Gap \/ InPool(u)
  BY <1>1, <1>2, Appended
<1>4. /\ status' \in [Tasks -> {"off", "reading", "ready", "sent", "done", "failed"}]
      /\ status'[t] = "failed" /\ \A u \in Tasks \ {t} : status'[u] = status[u]
  BY <1>1, <1>2 DEF TypeOK
<1>5. failures' \in 0 .. MaxFailures
  BY <1>1, <1>2, DeploymentParameters DEF TypeOK
<1>6. /\ PoolStatus' /\ ~InPool(t)'
      /\ \A u \in Tasks : InPool(u)' => InPool(u)
  BY <1>2, <1>3, <1>4, SentIsInPool, GapIsNoTask DEF PoolStatus
<1> QED
  BY <1>2, <1>3, <1>4, <1>5, <1>6, OneTaskStep

LEMMA MineInv ==
    ASSUME IInv, Mine PROVE IInv'
<1>1. TypeOK /\ PoolIsSent /\ Progress /\ InOrder /\ ChainIsSent
  BY DEF IInv
<1>2. /\ pool # <<>> /\ Head(pool) # Gap /\ pool' = Tail(pool)
      /\ UNCHANGED <<stage, failures, running, useNormalTime>>
  BY DEF Mine
<1>3. PICK t \in Tasks : t = Head(pool)
  BY <1>1, <1>2, Shortened
<1>4. /\ PoolIsSent' /\ InPool(t) /\ status[t] \in {"sent", "failed"}
      /\ \A u \in Tasks : InPool(u)' <=> InPool(u) /\ u # t
  BY <1>1, <1>2, <1>3, Shortened, SentIsInPool, GapIsNoTask DEF PoolStatus
<1>5. failures' \in 0 .. MaxFailures
  BY <1>1, <1>2 DEF TypeOK
<1>6. CASE ~Accepts(Pending(t))
  <2>1. status' = [status EXCEPT ![t] = "failed"] /\ UNCHANGED <<sent, chainVars>>
    BY <1>3, <1>6 DEF Mine
  <2>2. /\ status' \in [Tasks -> {"off", "reading", "ready", "sent", "done", "failed"}]
        /\ status'[t] = "failed" /\ \A u \in Tasks \ {t} : status'[u] = status[u]
    BY <1>1, <2>1 DEF TypeOK
  <2>3. PoolStatus'
    BY <1>4, <2>2, SentIsInPool DEF PoolStatus
  <2> QED
    BY <1>2, <1>4, <1>5, <2>1, <2>2, <2>3, OneTaskStep
<1>7. CASE Accepts(Pending(t))
  <2>1. /\ Execute(Pending(t)) /\ sent' = [sent EXCEPT ![t] = @ + 1]
        /\ status' = [status EXCEPT ![t] =
               IF @ = "failed" THEN "failed"
               ELSE IF sent[t] + 1 = Len(Plan(t)) THEN "done" ELSE "ready"]
    BY <1>3, <1>7 DEF Mine
  <2>4. sent[t] \in Nat /\ sent[t] < Len(Plan(t)) /\ Len(Plan(t)) \in 1 .. 4
    BY <1>1, <1>4, PlanLengths DEF Progress, InPool
  <2>2. /\ registry' \in [Names -> {"nobody", "us", "others"}]
        /\ controllerOf' \in [Controlled -> {"nobody", "deployer", "Controller"}]
        /\ whitelist' \subseteq TradingContracts /\ universe' \in BOOLEAN
        /\ ChainIsSent'
    BY <1>7, <2>1, <2>4, ExecutedChain
  <2>3. /\ status' \in [Tasks -> {"off", "reading", "ready", "sent", "done", "failed"}]
        /\ status'[t] = IF status[t] = "failed" THEN "failed"
                        ELSE IF sent[t] + 1 = Len(Plan(t)) THEN "done" ELSE "ready"
        /\ \A u \in Tasks \ {t} : status'[u] = status[u]
    BY <1>1, <2>1 DEF TypeOK
  <2>5. /\ sent' \in [Tasks -> 0 .. 4] /\ sent'[t] = sent[t] + 1
        /\ \A u \in Tasks \ {t} : sent'[u] = sent[u]
    <3>1. sent \in [Tasks -> 0 .. 4]
      BY <1>1 DEF TypeOK
    <3>2. sent[t] + 1 \in 0 .. 4
      <4>1. \A k \in Nat : \A n \in 1 .. 4 : k < n => k + 1 \in 0 .. 4
        OBVIOUS
      <4> QED
        BY <2>4, <4>1
    <3> QED
      BY <2>1, <3>1, <3>2
  <2>6. Progress'
    <3>1. ASSUME NEW u \in Tasks
          PROVE  /\ sent'[u] \in 0 .. Len(Plan(u))
                 /\ status'[u] \in {"off", "reading"} => sent'[u] = 0
                 /\ status'[u] = "ready" \/ InPool(u)' => sent'[u] < Len(Plan(u))
                 /\ status'[u] = "done" => sent'[u] = Len(Plan(u))
      <4>1. CASE u = t
        BY <1>4, <2>3, <2>4, <2>5, <4>1
      <4>2. CASE u # t
        <5>1. InPool(u)' => InPool(u)
          BY <1>4
        <5> QED
          BY <1>1, <2>3, <2>5, <4>2, <5>1 DEF Progress, InPool
      <4> QED
        BY <4>1, <4>2
    <3> QED
      BY <3>1 DEF Progress, InPool
  <2>7. InOrder'
    BY <1>1, <1>2, <1>4, <2>3, OrderKept
  <2>8. TypeOK'
    <3>1. PoolStatus'
      BY <1>4, <2>3, SentIsInPool DEF PoolStatus
    <3> QED
      BY <1>1, <1>2, <1>5, <2>2, <2>3, <2>5, <3>1 DEF TypeOK, PoolStatus, InPool, Controlled
  <2> QED
    BY <1>4, <2>2, <2>6, <2>7, <2>8 DEF IInv
<1> QED
  BY <1>6, <1>7

\* What deploy has not come to is off, and what it awaited is done.
LEMMA ProceedInv ==
    ASSUME IInv, Proceed PROVE IInv'
<1>1. TypeOK /\ PoolIsSent /\ Progress /\ InOrder /\ ChainIsSent
  BY DEF IInv
<1>2. /\ stage \notin {"deployed", "failed"} /\ stage \in Stages /\ Awaited(stage)
      /\ UNCHANGED <<sent, pool, chainVars, failures, running, useNormalTime>>
  BY <1>1 DEF Proceed, TypeOK
<1>3. ChainIsSent'
  BY <1>1, <1>2, ChainKept
<1>4. PoolIsSent' /\ \A u : InPool(u)' <=> InPool(u)
  BY <1>1, <1>2 DEF PoolIsSent, InPool
<1>5. NormalTime' <=> NormalTime
  BY <1>2 DEF NormalTime
<1>6. CASE stage' = "failed" /\ UNCHANGED status
  <2>1. Progress'
    BY <1>1, <1>2, <1>6 DEF Progress
  <2>2. InOrder'
    BY <1>1, <1>5, <1>6 DEF InOrder
  <2>3. TypeOK'
    BY <1>1, <1>2, <1>6 DEF TypeOK, chainVars, Stages
  <2> QED
    BY <1>3, <1>4, <2>1, <2>2, <2>3 DEF IInv
<1>7. CASE /\ ~Throws(stage) /\ stage' = NextStage
           /\ status' = [t \in Tasks |->
                  IF t \notin TasksOf(NextStage) THEN status[t]
                  ELSE IF NextStage \in {"init", "whitelist"} THEN "reading" ELSE "ready"]
  <2>1. PICK next : next = NextStage
    OBVIOUS
  <2>2. /\ next \in Stages \ {"failed"} /\ Rank(stage) < Rank(next)
        /\ next = "time" => ~NormalTime
        /\ next = "universe" => createGenesisUniverse
        /\ \A s \in TaskStages : Rank(stage) < Rank(s) /\ Rank(s) < Rank(next) =>
               s = "time" \/ (s = "universe" /\ ~createGenesisUniverse)
    <3> DEFINE Good == /\ next \in Stages \ {"failed"} /\ Rank(stage) < Rank(next)
                       /\ next = "time" => ~NormalTime
                       /\ next = "universe" => createGenesisUniverse
                       /\ \A s \in TaskStages : Rank(stage) < Rank(s) /\ Rank(s) < Rank(next) =>
                              s = "time" \/ (s = "universe" /\ ~createGenesisUniverse)
    <3>1. CASE stage = "controller"
      BY <2>1, <3>1 DEF NextStage, Stages, TaskStages, Rank
    <3>2. CASE stage = "augurLite"
      BY <2>1, <3>2 DEF NextStage, Stages, TaskStages, Rank
    <3>3. CASE stage = "upload"
      BY <2>1, <3>3 DEF NextStage, Stages, TaskStages, Rank
    <3>4. CASE stage = "init"
      BY <2>1, <3>4 DEF NextStage, Stages, TaskStages, Rank
    <3>5. CASE stage = "whitelist"
      BY <2>1, <3>5 DEF NextStage, Stages, TaskStages, Rank
    <3>6. CASE stage = "time"
      BY <2>1, <3>6 DEF NextStage, Stages, TaskStages, Rank
    <3>7. CASE stage = "universe"
      BY <2>1, <3>7 DEF NextStage, Stages, TaskStages, Rank
    <3>9. CASE stage = "blocksFile"
      BY <2>1, <3>9 DEF NextStage, Stages, TaskStages, Rank
    <3>8. CASE stage = "addressesFile"
      BY <2>1, <3>8 DEF NextStage, Stages, TaskStages, Rank
    <3> QED
      BY <1>2, <3>1, <3>2, <3>3, <3>4, <3>5, <3>6, <3>7, <3>8, <3>9 DEF Stages
  <2>3. ASSUME NEW t \in Tasks
        PROVE  status'[t] = IF t.stage # next THEN status[t]
                            ELSE IF next \in {"init", "whitelist"} THEN "reading" ELSE "ready"
    BY <1>7, <2>1, TasksOfStage
  <2>4. ASSUME NEW t \in Tasks, t.stage = next
        PROVE  status[t] = "off" /\ sent[t] = 0 /\ 0 < Len(Plan(t))
    <3>1. status[t] = "off"
      BY <1>1, <1>2, <2>2, <2>4 DEF InOrder
    <3>2. sent[t] = 0 /\ Len(Plan(t)) \in 1 .. 4
      BY <1>1, <3>1, PlanLengths DEF Progress
    <3> QED
      BY <3>1, <3>2
  <2>5. ASSUME NEW t \in Tasks, t.stage = stage, stage # "init"
        PROVE  status[t] = "done"
    <3>1. t \in TasksOf(stage)
      BY <2>5, TasksOfStage
    <3> QED
      BY <1>2, <1>7, <2>5, <3>1 DEF Awaited, Throws, Settled
  <2>6. \A s \in TaskStages : Rank(s) = Rank(stage) => s = stage
    BY <1>2 DEF TaskStages, Rank, Stages
  <2>7. /\ Rank(stage) \in Nat /\ Rank(next) \in Nat
        /\ \A t \in Tasks : Rank(t.stage) \in Nat /\ t.stage \in TaskStages
    <3>1. \A s : Rank(s) \in Nat
      BY DEF Rank
    <3> QED
      BY <3>1, StageOf
  <2>8. TypeOK'
    <3>1. status' \in [Tasks -> {"off", "reading", "ready", "sent", "done", "failed"}]
      BY <1>1, <1>7 DEF TypeOK
    <3>2. PoolStatus'
      BY <1>4, <2>3, <2>4, SentIsInPool DEF PoolStatus
    <3>3. stage' \in Stages
      BY <1>7, <2>1, <2>2
    <3> QED
      BY <1>1, <1>2, <3>1, <3>2, <3>3 DEF TypeOK, PoolStatus, InPool, chainVars
  <2>9. Progress'
    <3>1. ASSUME NEW t \in Tasks
          PROVE  /\ sent[t] \in 0 .. Len(Plan(t))
                 /\ status'[t] \in {"off", "reading"} => sent[t] = 0
                 /\ status'[t] = "ready" \/ InPool(t)' => sent[t] < Len(Plan(t))
                 /\ status'[t] = "done" => sent[t] = Len(Plan(t))
      <4>1. CASE t.stage = next
        BY <1>1, <2>3, <2>4, <4>1 DEF Progress
      <4>2. CASE t.stage # next
        BY <1>1, <1>4, <2>3, <4>2 DEF Progress, InPool
      <4> QED
        BY <4>1, <4>2
    <3> QED
      BY <1>2, <3>1 DEF Progress, InPool
  <2>10. ASSUME NEW t \in Tasks, Rank(t.stage) < Rank(next)
         PROVE  /\ \/ status[t] = "done"
                   \/ t.stage \in {"init", "time"}
                   \/ t.stage = "universe" /\ ~createGenesisUniverse
                /\ status'[t] = status[t]
    <3>1. t.stage # next
      BY <2>7, <2>10
    <3>2. CASE Rank(t.stage) < Rank(stage)
      BY <1>1, <1>2, <2>3, <3>1, <3>2 DEF InOrder
    <3>3. CASE Rank(t.stage) = Rank(stage)
      BY <2>3, <2>5, <2>6, <2>7, <3>1, <3>3
    <3>4. CASE Rank(stage) < Rank(t.stage)
      BY <2>2, <2>3, <2>7, <2>10, <3>1, <3>4
    <3> QED
      BY <2>7, <3>2, <3>3, <3>4
  <2>11. InOrder'
    <3>1. ASSUME NEW t \in Tasks, NEW u \in Tasks, status'[t] # "off",
                 u.stage \in Awaiting, Rank(u.stage) < Rank(t.stage)
          PROVE  status'[u] = "done"
      <4>1. CASE t.stage = next
        BY <2>10, <3>1, <4>1 DEF Awaiting
      <4>2. CASE t.stage # next
        <5>1. status[u] = "done"
          BY <1>1, <2>3, <3>1, <4>2 DEF InOrder
        <5> QED
          BY <2>3, <2>4, <5>1
      <4> QED
        BY <4>1, <4>2
    <3>2. ASSUME NEW t \in Tasks, Rank(next) < Rank(t.stage)
          PROVE  status'[t] = "off"
      <4>1. Rank(stage) < Rank(t.stage) /\ t.stage # next
        BY <2>2, <2>7, <3>2
      <4> QED
        BY <1>1, <1>2, <2>3, <4>1 DEF InOrder
    <3>3. ASSUME NEW t \in Tasks
          PROVE  /\ t.stage = "time" /\ status'[t] # "off" => ~NormalTime
                 /\ t.stage = "universe" /\ status'[t] # "off" => createGenesisUniverse
                 /\ status'[t] = "reading" => t.stage \in {"init", "whitelist"}
      BY <1>1, <2>2, <2>3 DEF InOrder
    <3> QED
      BY <1>5, <1>7, <2>1, <2>2, <2>10, <3>1, <3>2, <3>3 DEF InOrder
  <2> QED
    BY <1>3, <1>4, <2>8, <2>9, <2>11 DEF IInv
<1> QED
  BY <1>6, <1>7 DEF Proceed

\* The process ends or a request of deploy itself fails: no task is touched.
LEMMA EndInv ==
    ASSUME IInv, UNCHANGED <<taskVars, chainVars, useNormalTime>>,
           stage' \in {stage, "failed"}, failures' \in 0 .. MaxFailures, running' \in BOOLEAN
    PROVE  IInv'
<1>1. TypeOK /\ PoolIsSent /\ Progress /\ InOrder /\ ChainIsSent
  BY DEF IInv
<1>2. ChainIsSent'
  BY <1>1, ChainKept DEF taskVars
<1>3. PoolIsSent' /\ Progress'
  BY <1>1 DEF PoolIsSent, Progress, taskVars
<1>4. NormalTime' <=> NormalTime
  BY DEF NormalTime
<1>5. InOrder'
  <2>1. CASE stage' = stage
    BY <1>1, <1>4, <2>1 DEF InOrder, taskVars
  <2>2. CASE stage' = "failed"
    BY <1>1, <1>4, <2>2 DEF InOrder, taskVars
  <2> QED
    BY <2>1, <2>2
<1>6. TypeOK'
  BY <1>1 DEF TypeOK, taskVars, chainVars, Stages
<1> QED
  BY <1>2, <1>3, <1>5, <1>6 DEF IInv

LEMMA DeployFailsInv ==
    ASSUME IInv, DeployFails PROVE IInv'
<1>1. failures \in 0 .. MaxFailures /\ running \in BOOLEAN
  BY DEF IInv, TypeOK
<1>2. failures' \in 0 .. MaxFailures /\ stage' = "failed" /\ running' = running
      /\ UNCHANGED <<taskVars, chainVars, useNormalTime>>
  BY <1>1, DeploymentParameters DEF DeployFails
<1> QED
  BY <1>1, <1>2, EndInv

LEMMA ExitInv ==
    ASSUME IInv, Exit PROVE IInv'
<1>1. failures \in 0 .. MaxFailures
  BY DEF IInv, TypeOK
<1> QED
  BY <1>1, EndInv DEF Exit

LEMMA StutterInv ==
    ASSUME IInv, UNCHANGED vars PROVE IInv'
<1>1. failures \in 0 .. MaxFailures /\ running \in BOOLEAN
  BY DEF IInv, TypeOK
<1> QED
  BY <1>1, EndInv DEF vars, taskVars

LEMMA NextInv == IInv /\ [Next]_vars => IInv'
<1> SUFFICES ASSUME IInv, [Next]_vars PROVE IInv'
  OBVIOUS
<1>1. CASE \E t \in Tasks : TaskStep(t) \/ RequestFails(t) \/ SendFails(t)
  BY <1>1, SubmitInv, EstimateRefusedInv, ReadInv, RequestFailsInv, SendFailsInv DEF TaskStep
<1>2. CASE Mine
  BY <1>2, MineInv
<1>3. CASE Proceed
  BY <1>3, ProceedInv
<1>4. CASE DeployFails
  BY <1>4, DeployFailsInv
<1>5. CASE Exit
  BY <1>5, ExitInv
<1>6. CASE UNCHANGED vars
  BY <1>6, StutterInv
<1> QED
  BY <1>1, <1>2, <1>3, <1>4, <1>5, <1>6 DEF Next

LEMMA InitInv == Init => IInv
<1> SUFFICES ASSUME Init PROVE IInv
  OBVIOUS
<1>1. /\ \A t \in Tasks : sent[t] = 0
      /\ \A t \in Tasks : status[t] = IF t.stage = "controller" THEN "ready" ELSE "off"
      /\ pool = <<>> /\ stage = "controller" /\ failures = 0 /\ running = TRUE
  BY TasksOfStage DEF Init
<1>2. TypeOK
  <2>1. status \in [Tasks -> {"off", "reading", "ready", "sent", "done", "failed"}]
        /\ sent \in [Tasks -> 0 .. 4]
    BY DEF Init
  <2>2. /\ registry \in [Names -> {"nobody", "us", "others"}]
        /\ controllerOf \in [contractsToInitialize \cup {"AugurLite"}
                                 -> {"nobody", "deployer", "Controller"}]
        /\ whitelist \subseteq TradingContracts /\ universe \in BOOLEAN
        /\ useNormalTime \in TimeModes
    BY DEF Init
  <2>3. \A t \in Tasks : status[t] # "sent" /\ ~ \E i \in DOMAIN pool : pool[i] = t
    BY <1>1
  <2> QED
    BY <1>1, <2>1, <2>2, <2>3, DeploymentParameters DEF TypeOK, Stages
<1>3. PoolIsSent
  BY <1>1 DEF PoolIsSent
<1>4. Progress
  <2>1. ASSUME NEW t \in Tasks
        PROVE  sent[t] = 0 /\ status[t] \in {"ready", "off"}
               /\ 0 \in 0 .. Len(Plan(t)) /\ 0 < Len(Plan(t))
    <3>1. \A n \in 1 .. 4 : 0 \in 0 .. n /\ 0 < n
      OBVIOUS
    <3> QED
      BY <1>1, <3>1, PlanLengths
  <2> QED
    BY <2>1 DEF Progress
<1>5. InOrder
  BY <1>1, StageOf DEF InOrder, TaskStages, Awaiting, Rank
<1>6. ChainIsSent
  <2>1. \A n : ~Registered(n)
    BY <1>1 DEF Registered, Index
  <2>2. /\ \A c \in contractsToInitialize : Task("upload", c) \in Tasks
        /\ \A c \in TradingContracts : Task("whitelist", c) \in Tasks
        /\ Task("augurLite", "AugurLite") \in Tasks /\ Task("universe", "Universe") \in Tasks
    BY TasksAre, NamesApart
  <2> QED
    BY <1>1, <2>1, <2>2 DEF ChainIsSent, Init
<1> QED
  BY <1>2, <1>3, <1>4, <1>5, <1>6 DEF IInv

LEMMA Invariance == Spec => []IInv
BY InitInv, NextInv, PTL DEF Spec

-----------------------------------------------------------------------------
(* What follows from it *)

\* The contracts of the uploads that are done are in the registry.
LEMMA UploadIsRegistered ==
    ASSUME IInv, NEW n \in Uploaded, status[Task("upload", n)] = "done"
    PROVE  registry[n] = "us"
<1>1. Owner(n) = Task("upload", n) /\ Owner(n) \in Tasks /\ n \in Names
  BY NamesApart, TasksAre DEF Owner
<1>2. sent[Task("upload", n)] = Index(n)
  <2>1. sent[Task("upload", n)] = Len(Plan(Task("upload", n)))
    BY <1>1 DEF IInv, Progress
  <2>2. Len(Plan(Task("upload", n))) = IF n = Token THEN 4 ELSE 2
    BY PlanLength
  <2>3. Index(n) = IF n = Token THEN 4 ELSE 2
    BY NamesApart DEF Index
  <2> QED
    BY <2>1, <2>2, <2>3
<1>3. Registered(n)
  <2>1. Index(n) \in Nat
    BY DEF Index
  <2> QED
    BY <1>1, <1>2, <2>1 DEF Registered
<1> QED
  BY <1>1, <1>3 DEF IInv, ChainIsSent

\* A task of a stage that deploy awaits is done once a later one has started.
LEMMA StartedAfter ==
    ASSUME IInv, NEW t \in Tasks, NEW u \in Tasks, status[t] # "off",
           u.stage \in Awaiting, Rank(u.stage) < Rank(t.stage)
    PROVE  status[u] = "done"
BY DEF IInv, InOrder

LEMMA UploadedBefore ==
    ASSUME IInv, NEW t \in Tasks, status[t] # "off",
           t.stage \in {"init", "whitelist", "time", "universe"}, NEW n \in Uploaded
    PROVE  status[Task("upload", n)] = "done"
<1>1. Task("upload", n) \in Tasks /\ Task("upload", n).stage = "upload"
  BY TasksAre DEF Task
<1>2. "upload" \in Awaiting /\ Rank("upload") < Rank(t.stage)
  BY DEF Awaiting, Rank
<1> QED
  BY <1>1, <1>2, StartedAfter

\* Nothing is opened to the traders before the registry is complete, whatever
\* fails and in whatever order the uploads are answered.
THEOREM OpenedLate == Spec => []DeployInv
<1>1. IInv => DeployInv
  <2> SUFFICES ASSUME IInv PROVE DeployInv
    OBVIOUS
  <2>1. ASSUME whitelist # {} \/ universe, NEW n \in Uploaded
        PROVE  registry[n] = "us"
    <3>1. PICK t \in Tasks : t.stage \in {"whitelist", "universe"} /\ sent[t] = 1
      <4>1. CASE whitelist # {}
        <5>1. PICK c \in TradingContracts : sent[Task("whitelist", c)] = 1
          BY <4>1 DEF IInv, ChainIsSent
        <5>2. Task("whitelist", c) \in Tasks /\ Task("whitelist", c).stage = "whitelist"
          BY TasksAre DEF Task
        <5> QED
          BY <5>1, <5>2
      <4>2. CASE universe
        <5>1. sent[Task("universe", "Universe")] = 1
          BY <4>2 DEF IInv, ChainIsSent
        <5>2. /\ Task("universe", "Universe") \in Tasks
              /\ Task("universe", "Universe").stage = "universe"
          BY TasksAre DEF Task
        <5> QED
          BY <5>1, <5>2
      <4> QED
        BY <2>1, <4>1, <4>2
    <3>2. status[t] # "off"
      BY <3>1 DEF IInv, Progress
    <3>3. status[Task("upload", n)] = "done"
      BY <3>1, <3>2, UploadedBefore
    <3> QED
      BY <3>3, UploadIsRegistered
  <2> QED
    BY <2>1 DEF DeployInv, OpenedAfterUpload, IInv
<1> QED
  BY <1>1, Invariance, PTL

\* What is published is a complete deployment, whatever failed before it.
THEOREM CompleteWhenPublished == Spec => []PublishedIsComplete
<1>1. IInv => PublishedIsComplete
  <2> SUFFICES ASSUME IInv, stage = "deployed"
               PROVE  /\ \A n \in Uploaded \cup {"AugurLite"} : registry[n] = "us"
                      /\ TradingContracts \subseteq whitelist
                      /\ createGenesisUniverse => universe
    BY DEF PublishedIsComplete
  <2>1. ASSUME NEW t \in Tasks
        PROVE  \/ status[t] = "done"
               \/ t.stage \in {"init", "time"}
               \/ t.stage = "universe" /\ ~createGenesisUniverse
    <3>1. Rank(t.stage) < Rank(stage)
      BY StageOf DEF TaskStages, Rank
    <3> QED
      BY <3>1 DEF IInv, InOrder
  <2>2. ASSUME NEW n \in Uploaded PROVE registry[n] = "us"
    <3>1. Task("upload", n) \in Tasks /\ Task("upload", n).stage = "upload"
      BY TasksAre DEF Task
    <3>2. status[Task("upload", n)] = "done"
      BY <2>1, <3>1
    <3> QED
      BY <3>2, UploadIsRegistered
  <2>3. registry["AugurLite"] = "us"
    <3> DEFINE aug == Task("augurLite", "AugurLite")
    <3>1. aug \in Tasks /\ aug.stage = "augurLite"
      BY TasksAre DEF Task
    <3>2. sent[aug] = 3
      BY <2>1, <3>1, PlanLength DEF IInv, Progress
    <3>3. Registered("AugurLite")
      <4>1. Owner("AugurLite") = aug /\ Index("AugurLite") = 3
        BY DEF Owner, Index, Token, TokenTarget
      <4> QED
        BY <3>1, <3>2, <4>1 DEF Registered
    <3>4. "AugurLite" \in Names
      BY DEF Names
    <3> QED
      BY <3>3, <3>4 DEF IInv, ChainIsSent
  <2>4. ASSUME NEW c \in TradingContracts PROVE c \in whitelist
    <3>1. Task("whitelist", c) \in Tasks /\ Task("whitelist", c).stage = "whitelist"
      BY TasksAre DEF Task
    <3>2. sent[Task("whitelist", c)] = 1
      BY <2>1, <3>1, PlanLength DEF IInv, Progress
    <3> QED
      BY <3>2 DEF IInv, ChainIsSent
  <2>5. ASSUME createGenesisUniverse PROVE universe
    <3>1. /\ Task("universe", "Universe") \in Tasks
          /\ Task("universe", "Universe").stage = "universe"
      BY TasksAre DEF Task
    <3>2. sent[Task("universe", "Universe")] = 1
      BY <2>1, <2>5, <3>1, PlanLength DEF IInv, Progress
    <3> QED
      BY <3>2 DEF IInv, ChainIsSent
  <2> QED
    BY <2>2, <2>3, <2>4, <2>5
<1> QED
  BY <1>1, Invariance, PTL

-----------------------------------------------------------------------------
(* A first deployment on real time *)

\* The contracts that createGenesisUniverse looks up are uploaded.
UniverseHasItsContracts ==
    createGenesisUniverse => {"UniverseFactory", "Universe", Token} \subseteq Uploaded

\* The next transaction of every task is one that the contracts accept.
LEMMA NextIsAccepted ==
    ASSUME IInv, ~controllerGiven, UniverseHasItsContracts, NormalTime,
           NEW t \in Tasks, status[t] \in {"ready", "sent"}
    PROVE  Accepts(Pending(t))
<1>1. PICK k \in 0 .. Len(Plan(t)) - 1 : k = sent[t]
  <2>1. status[t] = "ready" \/ InPool(t)
    BY SentIsInPool DEF PoolStatus
  <2>2. sent[t] \in Nat /\ sent[t] < Len(Plan(t)) /\ Len(Plan(t)) \in 1 .. 4
    BY <2>1, PlanLengths DEF IInv, Progress, InPool
  <2> QED
    BY <2>2
<1>2. PICK tx : tx = Plan(t)[k + 1]
  OBVIOUS
<1>3. /\ tx = Send(tx.op, tx.of)
      /\ tx.op = "register" => tx.of \in Names
      /\ tx.op = "setController" => tx.of \in Controlled
      /\ \A n \in Names : tx = Send("register", n) <=> Owner(n) = t /\ Index(n) = k + 1
      /\ \A c \in contractsToInitialize :
             tx = Send("setController", c) <=> t = Task("init", c) /\ k = 0
      /\ tx = Send("setController", "AugurLite") <=> t.stage = "augurLite" /\ k = 1
      /\ tx.op = "createUniverse" <=> t.stage = "universe" /\ k = 0
      /\ tx.op = "setTimestamp" <=> t.stage = "time" /\ k = 0
  BY <1>2, TransactionOf DEF Controlled
<1>4. ASSUME tx.op = "register" PROVE registry[tx.of] = "nobody"
  <2>1. tx.of \in Names /\ Owner(tx.of) = t /\ Index(tx.of) = k + 1
    BY <1>3, <1>4
  <2>2. ~Registered(tx.of)
    BY <1>1, <2>1 DEF Registered
  <2> QED
    BY <2>1, <2>2 DEF IInv, ChainIsSent
<1>5. ASSUME tx.op = "setController" PROVE controllerOf[tx.of] = "deployer"
  <2>1. CASE tx.of \in contractsToInitialize
    <3>1. t = Task("init", tx.of) /\ k = 0
      BY <1>3, <1>5, <2>1
    <3>2. t.stage = "init" /\ tx.of \in Uploaded
      BY <2>1, <3>1, NamesApart DEF Task
    <3>3. status[Task("upload", tx.of)] = "done"
      BY <3>2, UploadedBefore
    <3>4. sent[Task("upload", tx.of)] # 0
      <4>1. Task("upload", tx.of) \in Tasks
        BY <3>2, TasksAre
      <4>2. Len(Plan(Task("upload", tx.of))) # 0
        <5>1. \A n \in 1 .. 4 : n # 0
          OBVIOUS
        <5> QED
          BY <4>1, <5>1, PlanLengths
      <4> QED
        BY <3>3, <4>1, <4>2 DEF IInv, Progress
    <3> QED
      BY <1>1, <2>1, <3>1, <3>4 DEF IInv, ChainIsSent
  <2>2. CASE tx.of = "AugurLite"
    <3>1. t = Task("augurLite", "AugurLite") /\ k = 1
      BY <1>3, <1>5, <2>2, TaskCases DEF Task
    <3> QED
      BY <1>1, <2>2, <3>1 DEF IInv, ChainIsSent
  <2> QED
    BY <1>3, <1>5, <2>1, <2>2 DEF Controlled
<1>6. tx.op # "setTimestamp"
  BY <1>3 DEF IInv, InOrder
<1>7. ASSUME tx.op = "createUniverse"
      PROVE  /\ controllerOf["AugurLite"] = "Controller"
             /\ \A n \in {"UniverseFactory", "Universe"} :
                    n \in Names /\ registry[n] # "nobody"
  <2>1. t.stage = "universe" /\ status[t] # "off"
    BY <1>3, <1>7
  <2>2. createGenesisUniverse
    BY <2>1 DEF IInv, InOrder
  <2>3. ASSUME NEW n \in {"UniverseFactory", "Universe"}
        PROVE  n \in Names /\ registry[n] # "nobody"
    <3>1. n \in Uploaded
      BY <2>2 DEF UniverseHasItsContracts
    <3>2. registry[n] = "us"
      BY <2>1, <3>1, UploadedBefore, UploadIsRegistered
    <3> QED
      BY <3>1, <3>2, NamesApart
  <2>4. controllerOf["AugurLite"] = "Controller"
    <3> DEFINE aug == Task("augurLite", "AugurLite")
    <3>1. aug \in Tasks /\ aug.stage = "augurLite" /\ Len(Plan(aug)) = 3
      BY TasksAre, PlanLength DEF Task
    <3>2. aug.stage \in Awaiting /\ Rank(aug.stage) < Rank(t.stage)
      BY <2>1, <3>1 DEF Awaiting, Rank
    <3>3. status[aug] = "done"
      BY <2>1, <3>1, <3>2, StartedAfter
    <3>4. sent[aug] = 3
      BY <3>1, <3>3 DEF IInv, Progress
    <3> QED
      BY <3>4 DEF IInv, ChainIsSent
  <2> QED
    BY <2>3, <2>4
<1>8. Accepts(tx)
  BY <1>4, <1>5, <1>6, <1>7 DEF Accepts
<1>9. Pending(t) = tx
  BY <1>1, <1>2 DEF Pending
<1> QED
  BY <1>8, <1>9

LEMMA NothingThrowsNext ==
    ASSUME IInv, NothingThrows, UniverseHasItsContracts, [Next]_vars
    PROVE  NothingThrows'
<1> SUFFICES ASSUME ~controllerGiven, NormalTime', failures' = 0
             PROVE  stage' # "failed" /\ \A t \in Tasks : status'[t] # "failed"
  BY DEF NothingThrows
<1>1. /\ failures \in Nat /\ NormalTime
      /\ status \in [Tasks -> {"off", "reading", "ready", "sent", "done", "failed"}]
  <2>1. useNormalTime' = useNormalTime
    BY DEF Next, TaskStep, Submit, EstimateRefused, Read, RequestFails, SendFails, Mine,
           Proceed, DeployFails, Exit, vars
  <2> QED
    BY <2>1 DEF IInv, TypeOK, NormalTime
<1>2. failures = 0 => stage # "failed" /\ \A t \in Tasks : status[t] # "failed"
  BY <1>1 DEF NothingThrows
<1>3. ASSUME NEW t \in Tasks, TaskStep(t) \/ RequestFails(t) \/ SendFails(t)
      PROVE  stage' # "failed" /\ \A u \in Tasks : status'[u] # "failed"
  <2>1. CASE Submit(t)
    BY <1>1, <1>2, <2>1 DEF Submit
  <2>2. CASE EstimateRefused(t)
    BY <1>1, <2>2, NextIsAccepted DEF EstimateRefused
  <2>3. CASE Read(t)
    BY <1>1, <1>2, <2>3 DEF Read
  <2>4. CASE RequestFails(t) \/ SendFails(t)
    BY <1>1, <2>4 DEF RequestFails, SendFails
  <2> QED
    BY <1>3, <2>1, <2>2, <2>3, <2>4 DEF TaskStep
<1>4. ASSUME Mine PROVE stage' # "failed" /\ \A u \in Tasks : status'[u] # "failed"
  <2>1. /\ pool # <<>> /\ Head(pool) # Gap /\ stage' = stage /\ failures' = failures
    BY <1>4 DEF Mine
  <2>2. PICK t \in Tasks : t = Head(pool) /\ status[t] = "sent"
    <3>1. pool \in Seq(Tasks \cup {Gap})
      BY DEF IInv, PoolIsSent
    <3>2. Head(pool) \in Tasks
      BY <2>1, <3>1
    <3>3. 1 \in DOMAIN pool /\ pool[1] = Head(pool)
      BY <2>1, <3>1
    <3> QED
      BY <1>1, <1>2, <2>1, <3>2, <3>3, SentIsInPool DEF PoolStatus, InPool
  <2>3. Accepts(Pending(t))
    BY <1>1, <2>2, NextIsAccepted
  <2>4. status' = [status EXCEPT ![t] = IF @ = "failed" THEN "failed"
                       ELSE IF sent[t] + 1 = Len(Plan(t)) THEN "done" ELSE "ready"]
    BY <1>4, <2>2, <2>3 DEF Mine
  <2> QED
    BY <1>1, <1>2, <2>1, <2>2, <2>4
<1>5. ASSUME Proceed PROVE stage' # "failed" /\ \A u \in Tasks : status'[u] # "failed"
  <2>1. failures = 0 /\ stage \notin {"deployed", "failed"} /\ stage \in Stages
    BY <1>5 DEF Proceed, IInv, TypeOK
  <2>2. ~Throws(stage)
    BY <1>2, <2>1, TasksOfTasks DEF Throws
  <2>3. NextStage # "failed" /\ (NextStage = "universe" => createGenesisUniverse)
    BY <2>1 DEF NextStage, Stages
  <2>4. CanStart(NextStage)
    BY <2>3 DEF CanStart, HasContract, UniverseHasItsContracts
  <2>5. /\ stage' = NextStage
        /\ \A t \in Tasks : status'[t] \in {status[t], "reading", "ready"}
    BY <1>5, <2>2, <2>4 DEF Proceed
  <2> QED
    BY <1>2, <2>1, <2>3, <2>5
<1>6. CASE DeployFails
  BY <1>1, <1>6 DEF DeployFails
<1>7. CASE Exit \/ UNCHANGED vars
  BY <1>2, <1>7 DEF Exit, vars, taskVars
<1> QED
  BY <1>3, <1>4, <1>5, <1>6, <1>7 DEF Next

\* A first deployment on real time throws only if a request to the node fails,
\* in whatever order the node answers the tasks.
THEOREM FirstDeploymentSucceeds ==
    ASSUME ~controllerGiven, UniverseHasItsContracts
    PROVE  Spec => []DeploySucceedsOnRealTime
<1>1. Init => NothingThrows
  BY DEF Init, NothingThrows
<1>2. IInv /\ NothingThrows /\ [Next]_vars => NothingThrows'
  BY NothingThrowsNext
<1>3. NothingThrows => DeploySucceedsOnRealTime
  BY DEF NothingThrows, DeploySucceedsOnRealTime, DeploySucceeds
<1> QED
  BY <1>1, <1>2, <1>3, Invariance, PTL DEF Spec


=============================================================================
