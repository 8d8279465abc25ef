------------------------------ MODULE Protocol ------------------------------
(***************************************************************************)
(* The contracts behind the markets: Controller (whitelist, registry,      *)
(* emergency stop), AugurLite with its universes, Universe with its        *)
(* markets, and the factories.  Universes and markets are Delegators,      *)
(* which look the code they run up in the registry at every call.          *)
(*                                                                         *)
(* Public functions are called by users and by the contracts in every      *)
(* order; a call that reverts changes nothing and is not a step.  Who      *)
(* calls a factory chooses the controller too: what is created under       *)
(* another one is foreign, and answers whatever that controller's code     *)
(* lets it answer, a different thing every time.                           *)
(***************************************************************************)
EXTENDS FiniteSets

CONSTANTS
    Users,          \* accounts that call the contracts; an address that is
                    \* not one of them (0, an uploaded contract) calls nothing
    Deployer,       \* the user who deployed Controller and AugurLite
    UniverseNames,  \* names createUniverse looks up: UniverseFactory, Universe
    MarketNames,    \* names createMarket looks up: MarketFactory, Market,
                    \* MailboxFactory, ShareToken, CompleteSets, Time, ...
    TradingNames,   \* those that trade it: CompleteSets, ClaimTradingProceeds
    Codes,          \* uploaded contracts that names are registered for
    Universes,      \* addresses of universes
    Markets,        \* addresses of markets
    Tokens,         \* denomination tokens
    Claims,         \* bound: sets of markets a foreign universe says it contains
    None            \* the address 0

Names == UniverseNames \cup MarketNames \cup {"AugurLite"}

ASSUME ProtocolParameters ==
    /\ Deployer \in Users
    /\ TradingNames \subseteq MarketNames
    /\ Claims \subseteq SUBSET Markets
    /\ Universes \cap Markets = {}
    /\ None \notin Users \cup Codes \cup Universes \cup Markets \cup Tokens

VARIABLES
    owner,          \* Controller.owner
    whitelist,      \* Controller.whitelist
    registry,       \* Controller.registry
    stopped,        \* Controller.stopped
    augurController,\* AugurLite's controller: its deployer, then the Controller
    known,          \* AugurLite.universes
    universeToken,  \* Universe.denominationToken, None until it is created
    contained,      \* Universe.markets
    marketUniverse, \* Market.universe, None until it is created
    marketToken,    \* Market.denominationToken
    foreign         \* universes and markets created under another controller:
                    \* of them the variables above say what they answer now

adminVars == <<owner, whitelist, registry, stopped>>
universeVars == <<known, universeToken>>
marketVars == <<contained, marketUniverse, marketToken>>
createdVars == <<universeVars, marketVars, foreign>>
vars == <<adminVars, augurController, createdVars>>

Init ==
    /\ owner = Deployer
    /\ whitelist = {Deployer}
    /\ registry = [n \in Names |-> None]
    /\ stopped = FALSE
    /\ augurController = "deployer"
    /\ known = {}
    /\ universeToken = [u \in Universes |-> None]
    /\ contained = [u \in Universes |-> {}]
    /\ marketUniverse = [m \in Markets |-> None]
    /\ marketToken = [m \in Markets |-> None]
    /\ foreign = {}

-----------------------------------------------------------------------------
(* Controller *)

\* A fault to check against: the owner must be whitelisted as well, which a
\* transfer of the ownership does not do.
WhitelistedOwner(sender) == sender = owner /\ sender \in whitelist

\* onlyOwnerCaller
IsOwner(sender) == sender = owner

addToWhitelist(sender, target) ==
    /\ IsOwner(sender)
    /\ whitelist' = whitelist \cup {target}
    /\ UNCHANGED <<owner, registry, stopped, augurController, createdVars>>

\* Taken off the whitelist, a trading contract is refused by the share tokens
\* and by AugurLite.trustedTransfer: it buys, sells and claims nothing more.
removeFromWhitelist(sender, target) ==
    /\ IsOwner(sender)
    /\ whitelist' = whitelist \ {target}
    /\ UNCHANGED <<owner, registry, stopped, augurController, createdVars>>

\* A fault to check against: a name may be registered again.
AlwaysRegistrable(name) == TRUE

Registrable(name) == registry[name] = None

registerContract(sender, name, code) ==
    /\ IsOwner(sender)
    /\ Registrable(name)
    /\ registry' = [registry EXCEPT ![name] = code]
    /\ UNCHANGED <<owner, whitelist, stopped, augurController, createdVars>>

\* The new owner is not checked: it may be the address 0 or a contract.
transferOwnership(sender, newOwner) ==
    /\ IsOwner(sender)
    /\ owner' = newOwner
    /\ UNCHANGED <<whitelist, registry, stopped, augurController, createdVars>>

\* The stop is logged by AugurLite, which must be registered and know that the
\* Controller controls it.
AugurLogs == registry["AugurLite"] # None /\ augurController = "Controller"

\* The modifiers of emergencyStop, and the log it writes first, do not revert.
CanStop(sender) == IsOwner(sender) /\ ~stopped /\ AugurLogs

emergencyStop(sender) ==
    /\ CanStop(sender)
    /\ stopped' = TRUE
    /\ UNCHANGED <<owner, whitelist, registry, augurController, createdVars>>

\* Controlled.setController of AugurLite: its controller gives it to another
\* one, and the Controller has no function that does.
setController(sender) ==
    /\ augurController = "deployer" /\ sender = Deployer
    /\ augurController' = "Controller"
    /\ UNCHANGED <<adminVars, createdVars>>

-----------------------------------------------------------------------------
(* AugurLite, Universe and the factories *)

Registered(names) == \A n \in names : registry[n] # None

\* A fault to check against: initialization does not look at the stop.
AnyTimes == TRUE

\* onlyInGoodTimes
InGoodTimes == ~stopped

\* What a factory is passed as _controller: the Controller or something else,
\* whose registry and stop are its own.
Controllers == {"Controller", "other"}

\* A new Delegator asks the controller it is created under.
Created(address, controller) ==
    foreign' = IF controller = "Controller" THEN foreign ELSE foreign \cup {address}

\* UniverseFactory.createUniverse: a new Delegator that is initialized.
UniverseCreated(u, token, controller) ==
    /\ controller = "Controller" => Registered(UniverseNames) /\ InGoodTimes
    /\ universeToken[u] = None
    /\ universeToken' = [universeToken EXCEPT ![u] = token]
    /\ Created(u, controller)

\* AugurLite.createUniverse
createUniverse(u, token) ==
    /\ augurController = "Controller"
    /\ UniverseCreated(u, token, augurController)
    /\ known' = known \cup {u}
    /\ UNCHANGED <<adminVars, augurController, marketVars>>

\* UniverseFactory.createUniverse, which is public too.
createUnknownUniverse(u, token, controller) ==
    /\ UniverseCreated(u, token, controller)
    /\ UNCHANGED <<adminVars, augurController, known, marketVars>>

\* A fault to check against: a market may use any token.
AnyToken(u, token) == universeToken[u] # None

\* Market.initialize compares the token with the universe's.
TokenMatches(u, token) == universeToken[u] # None /\ universeToken[u] = token

\* MarketFactory.createMarket: a new Delegator that is initialized, whose other
\* parameters are valid (module MarketRules).  The universe is the caller's
\* choice as well, and may be a foreign one.
MarketCreated(m, u, token, controller) ==
    /\ controller = "Controller" =>
           /\ Registered(MarketNames \cup {"AugurLite"})
           /\ InGoodTimes
           /\ TokenMatches(u, token)
    /\ marketUniverse[m] = None
    /\ marketUniverse' = [marketUniverse EXCEPT ![m] = u]
    /\ marketToken' = [marketToken EXCEPT ![m] = token]
    /\ Created(m, controller)

\* A fault to check against: the creation of a market is logged for anyone.
AnyUniverse(u) == AugurLogs

\* AugurLite.logMarketCreated reverts for a universe it does not know.
IsKnown(u) == AugurLogs /\ u \in known

\* Universe.createYesNoMarket, createCategoricalMarket and createScalarMarket,
\* which pass the universe's own controller on.
createMarket(m, u, token) ==
    /\ u \notin foreign
    /\ MarketCreated(m, u, token, "Controller")
    /\ contained' = [contained EXCEPT ![u] = @ \cup {m}]
    /\ IsKnown(u)
    /\ UNCHANGED <<adminVars, augurController, universeVars>>

\* MarketFactory.createMarket, which is public too.
createStrayMarket(m, u, token, controller) ==
    /\ MarketCreated(m, u, token, controller)
    /\ UNCHANGED <<adminVars, augurController, universeVars, contained>>

\* Delegator's fallback runs what its controller has registered at the time of
\* the call: a foreign universe or market may answer differently later.
ForeignUniverse(u, token, markets) ==
    /\ u \in foreign
    /\ universeToken' = [universeToken EXCEPT ![u] = token]
    /\ contained' = [contained EXCEPT ![u] = markets]
    /\ UNCHANGED <<adminVars, augurController, known, marketUniverse, marketToken, foreign>>

ForeignMarket(m, u, token) ==
    /\ m \in foreign
    /\ marketUniverse' = [marketUniverse EXCEPT ![m] = u]
    /\ marketToken' = [marketToken EXCEPT ![m] = token]
    /\ UNCHANGED <<adminVars, augurController, universeVars, contained, foreign>>

Next ==
    \/ \E s \in Users :
           \/ \E t \in Users \cup Codes : addToWhitelist(s, t) \/ removeFromWhitelist(s, t)
           \/ \E n \in Names, c \in Codes : registerContract(s, n, c)
           \/ \E v \in Users \cup Codes \cup {None} : transferOwnership(s, v)
           \/ emergencyStop(s) \/ setController(s)
    \/ \E u \in Universes, t \in Tokens :
           \/ createUniverse(u, t)
           \/ \E c \in Controllers : createUnknownUniverse(u, t, c)
           \/ \E m \in Markets : createMarket(m, u, t) \/ ForeignMarket(m, u, t)
           \/ \E m \in Markets, c \in Controllers : createStrayMarket(m, u, t, c)
           \/ \E ms \in Claims : ForeignUniverse(u, t, ms)

Spec == Init /\ [][Next]_vars

-----------------------------------------------------------------------------

\* MarketValidator.marketIsLegit, which CompleteSets and ClaimTradingProceeds
\* ask of every market they touch.
marketIsLegit(m) ==
    /\ registry["AugurLite"] # None
    /\ marketUniverse[m] \in known
    /\ m \in contained[marketUniverse[m]]

\* A market is traded by contracts the share tokens take calls from.
Tradable(m) ==
    /\ marketIsLegit(m)
    /\ ~stopped
    /\ \A n \in TradingNames : registry[n] \in whitelist

\* Every variable has its type.
TypeOK ==
    /\ owner \in Users \cup Codes \cup {None}
    /\ whitelist \subseteq Users \cup Codes
    /\ registry \in [Names -> Codes \cup {None}]
    /\ stopped \in BOOLEAN
    /\ augurController \in {"deployer", "Controller"}
    /\ known \subseteq Universes
    /\ universeToken \in [Universes -> Tokens \cup {None}]
    /\ contained \in [Universes -> SUBSET Markets]
    /\ marketUniverse \in [Markets -> Universes \cup {None}]
    /\ marketToken \in [Markets -> Tokens \cup {None}]
    /\ foreign \subseteq Universes \cup Markets

\* No address is created twice: what is known or foreign has been initialized.
CreatedOnce ==
    /\ \A u \in known \cup (foreign \cap Universes) : universeToken[u] # None
    /\ \A m \in foreign \cap Markets : marketUniverse[m] # None

\* Whoever created it and through whichever contract, a market that a universe
\* under the Controller contains is under the Controller too and was initialized
\* with that universe, which AugurLite knows.
ContainedMarketsAreKnown ==
    /\ known \cap foreign = {}
    /\ \A u \in Universes \ foreign : \A m \in contained[u] :
           m \notin foreign /\ marketUniverse[m] = u /\ u \in known

\* All markets of a universe escrow the universe's denomination token.
OneTokenPerUniverse ==
    \A m \in Markets \ foreign :
        marketUniverse[m] # None /\ marketUniverse[m] \notin foreign =>
            marketToken[m] # None /\ marketToken[m] = universeToken[marketUniverse[m]]

\* The names a universe or a market needs to run are registered while one exists.
CodeIsRegistered ==
    /\ (\E u \in Universes \ foreign : universeToken[u] # None) => Registered(UniverseNames)
    /\ (\E m \in Markets \ foreign : marketUniverse[m] # None) => Registered(MarketNames)
    /\ known # {} => augurController = "Controller"
    /\ stopped => AugurLogs

\* What the containers promise together, and what they rest on.
ProtocolInv ==
    /\ TypeOK /\ CreatedOnce
    /\ ContainedMarketsAreKnown /\ OneTokenPerUniverse /\ CodeIsRegistered

\* A market AugurLite vouches for stays so, with its token and the code it runs,
\* whatever the owner of the Controller does and whatever foreign contracts say.
\* That does not keep it open: two calls of the owner close it, the emergency
\* stop and taking a trading contract off the whitelist, and no other call does.
LegitMarketsStay ==
    [][\A m \in Markets :
           /\ marketIsLegit(m) =>
                  /\ marketIsLegit(m)'
                  /\ m \notin foreign'
                  /\ marketToken'[m] = marketToken[m]
                  /\ \A n \in MarketNames : registry'[n] = registry[n]
           /\ Tradable(m) /\ ~Tradable(m)' =>
                  \E s \in Users :
                      \/ emergencyStop(s)
                      \/ \E n \in TradingNames : removeFromWhitelist(s, registry[n])]_vars

\* After an emergency stop nothing is created under the Controller and no market
\* becomes legitimate.  The factories go on for other controllers: what they
\* create is foreign.
StopEndsCreation ==
    [][stopped =>
           /\ UNCHANGED known
           /\ \A u \in Universes \ foreign' :
                  universeToken'[u] = universeToken[u] /\ contained'[u] = contained[u]
           /\ \A m \in Markets \ foreign' :
                  marketUniverse'[m] = marketUniverse[m] /\ marketToken'[m] = marketToken[m]
           /\ \A m \in Markets : marketIsLegit(m)' => marketIsLegit(m)]_vars

\* Once there is a legitimate market and as long as nothing is stopped, the user
\* who owns the Controller can stop it, and no other user can.  It does not say
\* that a user owns it: handed to the address 0 or to an uploaded contract the
\* Controller cannot be stopped, nor handed on.
OwnerCanStop ==
    (\E m \in Markets : marketIsLegit(m)) /\ ~stopped =>
        \A s \in Users : CanStop(s) <=> s = owner

=============================================================================
