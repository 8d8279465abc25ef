--------------------------- MODULE ProtocolProofs ---------------------------
(***************************************************************************)
(* Proofs about Protocol: what universes and markets rely on holds for any *)
(* number of users, names, universes, markets and tokens, whatever the     *)
(* owner of the Controller does.                                           *)
(***************************************************************************)
EXTENDS Protocol, TLAPS

\* The actions, grouped by the state they change.
Administration(s) ==
    \/ \E t \in Users \cup Codes : addToWhitelist(s, t) \/ removeFromWhitelist(s, t)
    \/ \E v \in Users \cup Codes \cup {None} : transferOwnership(s, v)
    \/ emergencyStop(s)

\* The calls that create or change universes and markets.
UniverseCall(u, t) ==
    createUniverse(u, t) \/ \E c \in Controllers : createUnknownUniverse(u, t, c)

MarketCall(m, u, t) ==
    createMarket(m, u, t) \/ \E c \in Controllers : createStrayMarket(m, u, t, c)

ForeignCall ==
    \E u \in Universes, t \in Tokens :
        \/ \E ms \in Claims : ForeignUniverse(u, t, ms)
        \/ \E m \in Markets : ForeignMarket(m, u, t)

\* Every step is of one of the groups.
LEMMA CallsOfNext ==
    ASSUME [Next]_vars
    PROVE  \/ \E s \in Users : Administration(s) \/ setController(s)
           \/ \E s \in Users, n \in Names, c \in Codes : registerContract(s, n, c)
           \/ \E u \in Universes, t \in Tokens : UniverseCall(u, t)
           \/ \E m \in Markets, u \in Universes, t \in Tokens : MarketCall(m, u, t)
           \/ ForeignCall
           \/ UNCHANGED vars
  BY DEF Next, Administration, UniverseCall, MarketCall, ForeignCall

\* ProtocolInv holds at the start, when nothing exists.
LEMMA InitProtocol == Init => ProtocolInv
  <1> SUFFICES ASSUME Init PROVE ProtocolInv
    OBVIOUS
  <1> USE ProtocolParameters
  <1>1. TypeOK
    BY DEF Init, TypeOK
  <1>2. ContainedMarketsAreKnown /\ CreatedOnce
    BY DEF Init, ContainedMarketsAreKnown, CreatedOnce
  <1>3. OneTokenPerUniverse
    BY DEF Init, OneTokenPerUniverse
  <1>4. CodeIsRegistered
    BY DEF Init, CodeIsRegistered
  <1> QED
    BY <1>1, <1>2, <1>3, <1>4 DEF ProtocolInv

\* Whitelist and ownership are none of what ProtocolInv relates, and a stop is
\* logged by AugurLite.
LEMMA AdministrationKeepsInv ==
    ASSUME ProtocolInv, NEW s \in Users, Administration(s)
    PROVE  ProtocolInv'
  <1>1. UNCHANGED <<registry, augurController, createdVars>>
    BY DEF Administration, addToWhitelist, removeFromWhitelist, transferOwnership,
           emergencyStop
  <1>2. /\ owner' \in Users \cup Codes \cup {None}
        /\ whitelist' \subseteq Users \cup Codes
        /\ stopped' \in BOOLEAN
        /\ stopped' => AugurLogs
    <2>1. /\ owner \in Users \cup Codes \cup {None}
          /\ whitelist \subseteq Users \cup Codes
          /\ stopped \in BOOLEAN /\ (stopped => AugurLogs)
      BY DEF ProtocolInv, TypeOK, CodeIsRegistered
    <2>2. CASE \E t \in Users \cup Codes : addToWhitelist(s, t) \/ removeFromWhitelist(s, t)
      BY <2>1, <2>2 DEF addToWhitelist, removeFromWhitelist
    <2>3. CASE \E v \in Users \cup Codes \cup {None} : transferOwnership(s, v)
      BY <2>1, <2>3 DEF transferOwnership
    <2>4. CASE emergencyStop(s)
      BY <2>1, <2>4 DEF emergencyStop, CanStop
    <2> QED
      BY <2>2, <2>3, <2>4 DEF Administration
  <1>3. TypeOK'
    BY <1>1, <1>2 DEF ProtocolInv, TypeOK, createdVars, universeVars, marketVars
  <1>4. /\ ContainedMarketsAreKnown' /\ OneTokenPerUniverse' /\ CodeIsRegistered'
        /\ CreatedOnce'
    BY <1>1, <1>2 DEF ProtocolInv, ContainedMarketsAreKnown, OneTokenPerUniverse,
            CreatedOnce, CodeIsRegistered, Registered, AugurLogs, createdVars, universeVars, marketVars
  <1> QED
    BY <1>3, <1>4 DEF ProtocolInv

\* A name that is registered stays registered for the same contract.
LEMMA RegistryGrows ==
    ASSUME TypeOK, [Next]_vars
    PROVE  \A n \in Names : registry[n] # None => registry'[n] = registry[n]
  <1>1. CASE UNCHANGED registry
    BY <1>1
  <1>2. CASE \E s \in Users, n \in Names, c \in Codes : registerContract(s, n, c)
    BY <1>2 DEF registerContract, Registrable, TypeOK
  <1> QED
    BY <1>1, <1>2, CallsOfNext DEF Administration, UniverseCall, MarketCall,
       ForeignCall, vars, adminVars, addToWhitelist, removeFromWhitelist,
       transferOwnership, emergencyStop, setController, createUniverse,
       createUnknownUniverse, createMarket, createStrayMarket, ForeignUniverse,
       ForeignMarket

\* A registration adds a name and keeps the others, so no code that a universe
\* or a market runs goes missing.
LEMMA RegistrationKeepsInv ==
    ASSUME ProtocolInv, NEW s \in Users, NEW n \in Names, NEW c \in Codes,
           registerContract(s, n, c)
    PROVE  ProtocolInv'
  <1> USE ProtocolParameters
  <1>1. TypeOK'
    BY DEF ProtocolInv, TypeOK, registerContract, createdVars, universeVars, marketVars
  <1>2. \A m \in Names : registry[m] # None => registry'[m] # None
    BY DEF ProtocolInv, TypeOK, registerContract
  <1>3. Registered(UniverseNames) => Registered(UniverseNames)'
    BY <1>2 DEF Registered, Names
  <1>4. Registered(MarketNames) => Registered(MarketNames)'
    BY <1>2 DEF Registered, Names
  <1>5. UNCHANGED <<stopped, augurController, createdVars>>
    BY DEF registerContract
  <1>6. AugurLogs => AugurLogs'
    BY <1>2, <1>5 DEF AugurLogs, Names
  <1>7. /\ ContainedMarketsAreKnown' /\ OneTokenPerUniverse' /\ CodeIsRegistered'
        /\ CreatedOnce'
    BY <1>3, <1>4, <1>5, <1>6 DEF ProtocolInv, ContainedMarketsAreKnown,
            OneTokenPerUniverse, CreatedOnce, CodeIsRegistered, createdVars, universeVars, marketVars
  <1> QED
    BY <1>1, <1>7 DEF ProtocolInv

\* AugurLite gets its controller once.
LEMMA SetControllerKeepsInv ==
    ASSUME ProtocolInv, NEW s \in Users, setController(s)
    PROVE  ProtocolInv'
  <1>1. augurController' = "Controller" /\ UNCHANGED <<adminVars, createdVars>>
    BY DEF setController
  <1> QED
    BY <1>1 DEF ProtocolInv, TypeOK, ContainedMarketsAreKnown, OneTokenPerUniverse,
                CreatedOnce, CodeIsRegistered, Registered, AugurLogs, adminVars, createdVars,
                universeVars, marketVars

\* A new universe has no markets yet if it is not foreign, and its token is set
\* once.
LEMMA UniverseKeepsInv ==
    ASSUME ProtocolInv, NEW u \in Universes, NEW t \in Tokens, UniverseCall(u, t)
    PROVE  ProtocolInv'
  <1> USE ProtocolParameters
  <1>1. /\ universeToken[u] = None
        /\ universeToken' = [universeToken EXCEPT ![u] = t]
        /\ UNCHANGED <<adminVars, augurController, marketVars>>
        /\ \/ foreign' = foreign \cup {u} /\ known' = known
           \/ /\ foreign' = foreign
              /\ Registered(UniverseNames)
              /\ known' = known \/ (known' = known \cup {u} /\ augurController = "Controller")
    BY DEF UniverseCall, createUniverse, createUnknownUniverse, UniverseCreated, Created
  <1>2. u \notin known /\ u \notin foreign /\ u \notin Markets /\ t # None
    BY <1>1 DEF ProtocolInv, CreatedOnce
  <1>3. TypeOK'
    BY <1>1 DEF ProtocolInv, TypeOK, adminVars, marketVars
  <1>4. CreatedOnce'
    BY <1>1, <1>2 DEF ProtocolInv, CreatedOnce, TypeOK, marketVars
  <1>5. ContainedMarketsAreKnown'
    <2>1. known' \cap foreign' = {}
      BY <1>1, <1>2 DEF ProtocolInv, ContainedMarketsAreKnown
    <2>2. ASSUME NEW v \in Universes \ foreign', NEW m \in contained'[v]
          PROVE  m \notin foreign' /\ marketUniverse'[m] = v /\ v \in known'
      <3>1. v \in Universes \ foreign /\ m \in contained[v] /\ m \in Markets
        BY <1>1, <2>2 DEF ProtocolInv, TypeOK, marketVars
      <3>2. m \notin foreign /\ marketUniverse[m] = v /\ v \in known
        BY <3>1 DEF ProtocolInv, ContainedMarketsAreKnown
      <3> QED
        BY <1>1, <1>2, <3>1, <3>2 DEF marketVars
    <2> QED
      BY <2>1, <2>2 DEF ContainedMarketsAreKnown
  <1>6. OneTokenPerUniverse'
    <2> SUFFICES ASSUME NEW m \in Markets \ foreign', marketUniverse'[m] # None,
                        marketUniverse'[m] \notin foreign'
                 PROVE  /\ marketToken'[m] # None
                        /\ marketToken'[m] = universeToken'[marketUniverse'[m]]
      BY DEF OneTokenPerUniverse
    <2>1. /\ marketToken[m] # None
          /\ marketToken[m] = universeToken[marketUniverse[m]]
      BY <1>1 DEF ProtocolInv, OneTokenPerUniverse, marketVars
    <2>2. marketUniverse[m] # u
      BY <1>1, <2>1
    <2> QED
      BY <1>1, <2>1, <2>2 DEF ProtocolInv, TypeOK, marketVars
  <1>7. CodeIsRegistered'
    <2>1. \A v \in Universes : v # u => universeToken'[v] = universeToken[v]
      BY <1>1 DEF ProtocolInv, TypeOK
    <2>2. (\E v \in Universes \ foreign' : universeToken'[v] # None) => Registered(UniverseNames)'
      BY <1>1, <2>1 DEF ProtocolInv, CodeIsRegistered, Registered, adminVars
    <2>3. (\E m \in Markets \ foreign' : marketUniverse'[m] # None) => Registered(MarketNames)'
      BY <1>1 DEF ProtocolInv, CodeIsRegistered, Registered, adminVars, marketVars
    <2>4. known' # {} => augurController' = "Controller"
      BY <1>1 DEF ProtocolInv, CodeIsRegistered
    <2>5. stopped' => AugurLogs'
      BY <1>1 DEF ProtocolInv, CodeIsRegistered, AugurLogs, adminVars
    <2> QED
      BY <2>2, <2>3, <2>4, <2>5 DEF CodeIsRegistered
  <1> QED
    BY <1>3, <1>4, <1>5, <1>6, <1>7 DEF ProtocolInv

\* A new market takes the token of its universe unless it is foreign, and a
\* universe contains it only if AugurLite knows the universe.
LEMMA MarketKeepsInv ==
    ASSUME ProtocolInv, NEW m \in Markets, NEW u \in Universes, NEW t \in Tokens,
           MarketCall(m, u, t)
    PROVE  ProtocolInv'
  <1> USE ProtocolParameters
  <1>1. /\ marketUniverse[m] = None
        /\ marketUniverse' = [marketUniverse EXCEPT ![m] = u]
        /\ marketToken' = [marketToken EXCEPT ![m] = t]
        /\ UNCHANGED <<adminVars, augurController, universeVars>>
        /\ \/ foreign' = foreign \cup {m} /\ contained' = contained
           \/ /\ foreign' = foreign
              /\ Registered(MarketNames)
              /\ universeToken[u] = t
              /\ \/ contained' = contained
                 \/ contained' = [contained EXCEPT ![u] = @ \cup {m}] /\ u \in known
    BY DEF MarketCall, createMarket, createStrayMarket, MarketCreated, TokenMatches,
           IsKnown, Registered, Created
  <1>2. m \notin foreign /\ m \notin Universes /\ t # None /\ u # None
    BY <1>1 DEF ProtocolInv, CreatedOnce
  <1>3. TypeOK'
    BY <1>1 DEF ProtocolInv, TypeOK, adminVars, universeVars
  <1>4. CreatedOnce'
    BY <1>1, <1>2 DEF ProtocolInv, CreatedOnce, TypeOK, universeVars
  <1>5. ContainedMarketsAreKnown'
    <2>1. known' \cap foreign' = {}
      BY <1>1, <1>2 DEF ProtocolInv, ContainedMarketsAreKnown, TypeOK, universeVars
    <2>2. ASSUME NEW v \in Universes \ foreign', NEW n \in contained'[v]
          PROVE  n \notin foreign' /\ marketUniverse'[n] = v /\ v \in known'
      <3>1. CASE n \in contained[v]
        <4>1. /\ v \in Universes \ foreign /\ n \in Markets
              /\ n \notin foreign /\ marketUniverse[n] = v /\ v \in known
          BY <1>1, <3>1 DEF ProtocolInv, ContainedMarketsAreKnown, TypeOK
        <4>2. n # m
          BY <1>1, <4>1
        <4> QED
          BY <1>1, <4>1, <4>2 DEF ProtocolInv, TypeOK, universeVars
      <3>2. CASE n \notin contained[v]
        <4>1. v = u /\ n = m /\ u \in known /\ foreign' = foreign
          BY <1>1, <3>2 DEF ProtocolInv, TypeOK
        <4> QED
          BY <1>1, <1>2, <4>1 DEF ProtocolInv, TypeOK, universeVars
      <3> QED
        BY <3>1, <3>2
    <2> QED
      BY <2>1, <2>2 DEF ContainedMarketsAreKnown
  <1>6. OneTokenPerUniverse'
    <2> SUFFICES ASSUME NEW n \in Markets \ foreign', marketUniverse'[n] # None,
                        marketUniverse'[n] \notin foreign'
                 PROVE  /\ marketToken'[n] # None
                        /\ marketToken'[n] = universeToken'[marketUniverse'[n]]
      BY DEF OneTokenPerUniverse
    <2>1. CASE n = m
      BY <1>1, <1>2, <2>1 DEF ProtocolInv, TypeOK, universeVars
    <2>2. CASE n # m
      BY <1>1, <2>2 DEF ProtocolInv, OneTokenPerUniverse, TypeOK, universeVars
    <2> QED
      BY <2>1, <2>2
  <1>7. CodeIsRegistered'
    <2>1. \A n \in Markets : n # m => marketUniverse'[n] = marketUniverse[n]
      BY <1>1 DEF ProtocolInv, TypeOK
    <2>2. (\E v \in Universes \ foreign' : universeToken'[v] # None) => Registered(UniverseNames)'
      BY <1>1 DEF ProtocolInv, CodeIsRegistered, Registered, adminVars, universeVars
    <2>3. (\E n \in Markets \ foreign' : marketUniverse'[n] # None) => Registered(MarketNames)'
      BY <1>1, <2>1 DEF ProtocolInv, CodeIsRegistered, Registered, adminVars
    <2>4. /\ known' # {} => augurController' = "Controller"
          /\ stopped' => AugurLogs'
      BY <1>1 DEF ProtocolInv, CodeIsRegistered, AugurLogs, adminVars, universeVars
    <2> QED
      BY <2>2, <2>3, <2>4 DEF CodeIsRegistered
  <1> QED
    BY <1>3, <1>4, <1>5, <1>6, <1>7 DEF ProtocolInv

\* What foreign universes and markets answer is none of what the others relate.
LEMMA ForeignCallKeepsInv ==
    ASSUME ProtocolInv, ForeignCall
    PROVE  ProtocolInv'
  <1> USE ProtocolParameters
  <1>1. /\ UNCHANGED <<adminVars, augurController, known, foreign>>
        /\ universeToken' \in [Universes -> Tokens \cup {None}]
        /\ contained' \in [Universes -> SUBSET Markets]
        /\ marketUniverse' \in [Markets -> Universes \cup {None}]
        /\ marketToken' \in [Markets -> Tokens \cup {None}]
        /\ \A u \in Universes \ foreign :
               universeToken'[u] = universeToken[u] /\ contained'[u] = contained[u]
        /\ \A m \in Markets \ foreign :
               marketUniverse'[m] = marketUniverse[m] /\ marketToken'[m] = marketToken[m]
        /\ \A u \in Universes : universeToken[u] # None => universeToken'[u] # None
        /\ \A m \in Markets : marketUniverse[m] # None => marketUniverse'[m] # None
    <2>1. CASE \E u \in Universes, t \in Tokens, ms \in Claims : ForeignUniverse(u, t, ms)
      BY <2>1 DEF ForeignUniverse, ProtocolInv, TypeOK
    <2>2. CASE \E u \in Universes, t \in Tokens, m \in Markets : ForeignMarket(m, u, t)
      BY <2>2 DEF ForeignMarket, ProtocolInv, TypeOK, universeVars
    <2> QED
      BY <2>1, <2>2 DEF ForeignCall
  <1>2. TypeOK'
    BY <1>1 DEF ProtocolInv, TypeOK, adminVars
  <1>3. CreatedOnce'
    BY <1>1 DEF ProtocolInv, CreatedOnce, TypeOK
  <1>4. ContainedMarketsAreKnown'
    <2>1. ASSUME NEW u \in Universes \ foreign', NEW m \in contained'[u]
          PROVE  m \notin foreign' /\ marketUniverse'[m] = u /\ u \in known'
      <3>1. u \in Universes \ foreign /\ m \in contained[u] /\ m \in Markets
        BY <1>1, <2>1 DEF ProtocolInv, TypeOK
      <3>2. m \notin foreign /\ marketUniverse[m] = u /\ u \in known
        BY <3>1 DEF ProtocolInv, ContainedMarketsAreKnown
      <3> QED
        BY <1>1, <3>1, <3>2
    <2> QED
      BY <1>1, <2>1 DEF ProtocolInv, ContainedMarketsAreKnown
  <1>5. OneTokenPerUniverse'
    <2> SUFFICES ASSUME NEW m \in Markets \ foreign', marketUniverse'[m] # None,
                        marketUniverse'[m] \notin foreign'
                 PROVE  /\ marketToken'[m] # None
                        /\ marketToken'[m] = universeToken'[marketUniverse'[m]]
      BY DEF OneTokenPerUniverse
    <2>1. m \in Markets \ foreign /\ marketUniverse[m] \in Universes \ foreign
      BY <1>1 DEF ProtocolInv, TypeOK
    <2> QED
      BY <1>1, <2>1 DEF ProtocolInv, OneTokenPerUniverse
  <1>6. CodeIsRegistered'
    BY <1>1 DEF ProtocolInv, CodeIsRegistered, Registered, AugurLogs, adminVars
  <1> QED
    BY <1>2, <1>3, <1>4, <1>5, <1>6 DEF ProtocolInv

\* Every step keeps ProtocolInv.
LEMMA StepKeepsProtocol == ProtocolInv /\ [Next]_vars => ProtocolInv'
  <1> SUFFICES ASSUME ProtocolInv, [Next]_vars PROVE ProtocolInv'
    OBVIOUS
  <1>1. CASE UNCHANGED vars
    BY <1>1 DEF vars, adminVars, createdVars, universeVars, marketVars, ProtocolInv,
                TypeOK, CreatedOnce, ContainedMarketsAreKnown, OneTokenPerUniverse,
                CodeIsRegistered, Registered, AugurLogs
  <1> QED
    BY <1>1, AdministrationKeepsInv, SetControllerKeepsInv, RegistrationKeepsInv,
       UniverseKeepsInv, MarketKeepsInv, ForeignCallKeepsInv, CallsOfNext

\* Whoever creates universes and markets, under whichever controller, through
\* whichever contract and in whatever order: a contained market belongs to its
\* universe and escrows the universe's token, and the code it runs stays
\* registered.
THEOREM ProtocolInvariant == Spec => []ProtocolInv
  <1> QED
    BY InitProtocol, StepKeepsProtocol, PTL DEF Spec

\* A market AugurLite vouches for is under the Controller, as is its universe.
LEMMA LegitFacts ==
    ASSUME ProtocolInv, NEW m \in Markets, marketIsLegit(m)
    PROVE  /\ marketUniverse[m] \in Universes \ foreign
           /\ marketUniverse[m] # None
           /\ marketUniverse[m] \in known
           /\ m \notin foreign
           /\ m \in contained[marketUniverse[m]]
           /\ Registered(MarketNames) /\ AugurLogs
  <1> USE ProtocolParameters
  <1>1. /\ registry["AugurLite"] # None
        /\ marketUniverse[m] \in known /\ m \in contained[marketUniverse[m]]
    BY DEF marketIsLegit
  <1>2. marketUniverse[m] \in Universes \ foreign /\ marketUniverse[m] # None
    BY <1>1 DEF ProtocolInv, TypeOK, ContainedMarketsAreKnown
  <1>3. m \notin foreign
    BY <1>1, <1>2 DEF ProtocolInv, ContainedMarketsAreKnown
  <1>4. Registered(MarketNames) /\ augurController = "Controller"
    BY <1>1, <1>2, <1>3 DEF ProtocolInv, CodeIsRegistered
  <1> QED
    BY <1>1, <1>2, <1>3, <1>4 DEF AugurLogs

\* What every call leaves of a universe and a market that exist under the
\* Controller, and how a universe gets a market.
LEMMA CreatedStays ==
    ASSUME ProtocolInv, [Next]_vars
    PROVE  /\ known \subseteq known'
           /\ \A u \in Universes \ foreign : contained[u] \subseteq contained'[u]
           /\ \A m \in Markets \ foreign : marketUniverse[m] # None =>
                  /\ m \notin foreign'
                  /\ marketUniverse'[m] = marketUniverse[m]
                  /\ marketToken'[m] = marketToken[m]
  <1> DEFINE Stays ==
         /\ known \subseteq known'
         /\ \A u \in Universes \ foreign : contained[u] \subseteq contained'[u]
         /\ \A m \in Markets \ foreign : marketUniverse[m] # None =>
                /\ m \notin foreign'
                /\ marketUniverse'[m] = marketUniverse[m]
                /\ marketToken'[m] = marketToken[m]
  <1> USE ProtocolParameters
  <1>1. CASE UNCHANGED createdVars
    BY <1>1 DEF createdVars, universeVars, marketVars
  <1>2. ASSUME NEW u \in Universes, NEW t \in Tokens, UniverseCall(u, t) PROVE Stays
    BY <1>2 DEF UniverseCall, createUniverse, createUnknownUniverse, UniverseCreated,
                Created, marketVars
  <1>3. ASSUME NEW m \in Markets, NEW u \in Universes, NEW t \in Tokens,
               MarketCall(m, u, t)
        PROVE  Stays
    <2>1. /\ marketUniverse[m] = None
          /\ marketUniverse' = [marketUniverse EXCEPT ![m] = u]
          /\ marketToken' = [marketToken EXCEPT ![m] = t]
          /\ known' = known
          /\ foreign' = foreign \/ foreign' = foreign \cup {m}
          /\ contained' = contained \/ contained' = [contained EXCEPT ![u] = @ \cup {m}]
      BY <1>3 DEF MarketCall, createMarket, createStrayMarket, MarketCreated,
                  Created, universeVars
    <2> QED
      BY <2>1 DEF ProtocolInv, TypeOK
  <1>4. CASE ForeignCall
    BY <1>4 DEF ForeignCall, ForeignUniverse, ForeignMarket, universeVars,
                ProtocolInv, TypeOK
  <1>5. (\E s \in Users : Administration(s) \/ setController(s))
            \/ (\E s \in Users, n \in Names, c \in Codes : registerContract(s, n, c))
            \/ UNCHANGED vars
        => UNCHANGED createdVars
    BY DEF Administration, addToWhitelist, removeFromWhitelist, transferOwnership,
           emergencyStop, setController, registerContract, vars
  <1> QED
    BY <1>1, <1>2, <1>3, <1>4, <1>5, CallsOfNext

\* The calls that change whitelist or stop so that trading ends.
LEMMA ClosingCalls ==
    ASSUME ProtocolInv, [Next]_vars, ~stopped,
           NEW c \in whitelist, stopped' \/ c \notin whitelist'
    PROVE  \E s \in Users : emergencyStop(s) \/ removeFromWhitelist(s, c)
  <1>1. CASE \E s \in Users : Administration(s)
    BY <1>1 DEF Administration, addToWhitelist, removeFromWhitelist,
                transferOwnership, emergencyStop
  <1>2. ~UNCHANGED <<stopped, whitelist>>
    OBVIOUS
  <1> QED
    BY <1>1, <1>2, CallsOfNext DEF setController, registerContract, UniverseCall,
       MarketCall, ForeignCall, createUniverse, createUnknownUniverse, createMarket,
       createStrayMarket, ForeignUniverse, ForeignMarket, vars, adminVars

\* What marketIsLegit accepted once it accepts for ever, and the market keeps
\* its token and its code.
LEMMA LegitStays ==
    ASSUME ProtocolInv, [Next]_vars, NEW m \in Markets, marketIsLegit(m)
    PROVE  /\ marketIsLegit(m)'
           /\ m \notin foreign'
           /\ marketToken'[m] = marketToken[m]
           /\ \A n \in MarketNames : registry'[n] = registry[n]
  <1>1. /\ marketUniverse[m] \in Universes \ foreign /\ marketUniverse[m] # None
        /\ marketUniverse[m] \in known /\ m \notin foreign
        /\ m \in contained[marketUniverse[m]]
        /\ Registered(MarketNames) /\ AugurLogs
    BY LegitFacts
  <1>2. /\ \A n \in MarketNames : registry'[n] = registry[n]
        /\ registry'["AugurLite"] # None
    BY <1>1, RegistryGrows DEF ProtocolInv, Registered, AugurLogs, Names
  <1>3. /\ m \notin foreign' /\ marketUniverse'[m] = marketUniverse[m]
        /\ marketToken'[m] = marketToken[m]
        /\ marketUniverse[m] \in known'
        /\ m \in contained'[marketUniverse[m]]
    BY <1>1, CreatedStays
  <1> QED
    BY <1>2, <1>3 DEF marketIsLegit

\* Only the owner closes a market that could be traded, by one of two calls.
LEMMA TradingEnds ==
    ASSUME ProtocolInv, [Next]_vars, NEW m \in Markets, Tradable(m), ~Tradable(m)'
    PROVE  \E s \in Users :
               \/ emergencyStop(s)
               \/ \E n \in TradingNames : removeFromWhitelist(s, registry[n])
  <1>1. /\ marketIsLegit(m)'
        /\ \A n \in TradingNames : registry'[n] = registry[n] /\ registry[n] \in whitelist
    BY LegitStays, ProtocolParameters DEF Tradable
  <1>2. stopped' \/ \E n \in TradingNames : registry[n] \notin whitelist'
    BY <1>1 DEF Tradable
  <1>3. ~stopped
    BY DEF Tradable
  <1>4. ASSUME NEW n \in TradingNames, registry[n] \notin whitelist'
        PROVE  \E s \in Users : emergencyStop(s) \/ removeFromWhitelist(s, registry[n])
    BY <1>1, <1>3, <1>4, ClosingCalls
  <1>5. ASSUME stopped' PROVE \E s \in Users : emergencyStop(s)
    BY <1>3, <1>5, CallsOfNext DEF Administration, addToWhitelist,
       removeFromWhitelist, transferOwnership, setController, registerContract,
       UniverseCall, MarketCall, ForeignCall, createUniverse, createUnknownUniverse,
       createMarket, createStrayMarket, ForeignUniverse, ForeignMarket, vars, adminVars
  <1> QED
    BY <1>2, <1>4, <1>5

\* Whatever the owner registers, whitelists or hands over, a legitimate market
\* stays one with its token and its code; only the emergency stop and taking a
\* trading contract off the whitelist end its trading.
THEOREM MarketsStayLegit == Spec => LegitMarketsStay
  <1>1. ProtocolInv /\ [Next]_vars =>
            [\A m \in Markets :
                 /\ marketIsLegit(m) =>
                        /\ marketIsLegit(m)'
                        /\ m \notin foreign'
                        /\ marketToken'[m] = marketToken[m]
                        /\ \A n \in MarketNames : registry'[n] = registry[n]
                 /\ Tradable(m) /\ ~Tradable(m)' =>
                        \E s \in Users :
                            \/ emergencyStop(s)
                            \/ \E n \in TradingNames :
                                   removeFromWhitelist(s, registry[n])]_vars
    BY LegitStays, TradingEnds
  <1> QED
    BY <1>1, ProtocolInvariant, PTL DEF Spec, LegitMarketsStay

\* A step after an emergency stop creates what is foreign, or nothing.
LEMMA StoppedStep ==
    ASSUME ProtocolInv, [Next]_vars, stopped
    PROVE  /\ UNCHANGED known
           /\ \A u \in Universes \ foreign' :
                  universeToken'[u] = universeToken[u] /\ contained'[u] = contained[u]
           /\ \A m \in Markets \ foreign' :
                  marketUniverse'[m] = marketUniverse[m] /\ marketToken'[m] = marketToken[m]
  <1> DEFINE Kept ==
         /\ UNCHANGED known
         /\ \A u \in Universes \ foreign' :
                universeToken'[u] = universeToken[u] /\ contained'[u] = contained[u]
         /\ \A m \in Markets \ foreign' :
                marketUniverse'[m] = marketUniverse[m] /\ marketToken'[m] = marketToken[m]
  <1>1. CASE UNCHANGED createdVars
    BY <1>1 DEF createdVars, universeVars, marketVars
  <1>2. ASSUME NEW u \in Universes, NEW t \in Tokens, UniverseCall(u, t) PROVE Kept
    <2>1. /\ universeToken' = [universeToken EXCEPT ![u] = t]
          /\ foreign' = foreign \cup {u}
          /\ UNCHANGED <<known, contained, marketUniverse, marketToken>>
      BY <1>2 DEF UniverseCall, createUniverse, createUnknownUniverse,
                  UniverseCreated, InGoodTimes, Controllers, Created, marketVars
    <2> QED
      BY <2>1 DEF ProtocolInv, TypeOK
  <1>3. ASSUME NEW m \in Markets, NEW u \in Universes, NEW t \in Tokens,
               MarketCall(m, u, t)
        PROVE  Kept
    <2>1. /\ marketUniverse' = [marketUniverse EXCEPT ![m] = u]
          /\ marketToken' = [marketToken EXCEPT ![m] = t]
          /\ foreign' = foreign \cup {m}
          /\ UNCHANGED <<known, universeToken, contained>>
      BY <1>3 DEF MarketCall, createMarket, createStrayMarket, MarketCreated,
                  InGoodTimes, Controllers, Created, universeVars
    <2> QED
      BY <2>1 DEF ProtocolInv, TypeOK
  <1>4. CASE ForeignCall
    BY <1>4 DEF ForeignCall, ForeignUniverse, ForeignMarket, universeVars,
                ProtocolInv, TypeOK
  <1>5. (\E s \in Users : Administration(s) \/ setController(s))
            \/ (\E s \in Users, n \in Names, c \in Codes : registerContract(s, n, c))
            \/ UNCHANGED vars
        => UNCHANGED createdVars
    BY DEF Administration, addToWhitelist, removeFromWhitelist, transferOwnership,
           emergencyStop, setController, registerContract, vars
  <1> QED
    BY <1>1, <1>2, <1>3, <1>4, <1>5, CallsOfNext

\* Nothing but a creation makes a market legitimate, once AugurLite is there.
LEMMA StoppedLegit ==
    ASSUME ProtocolInv, [Next]_vars, stopped, NEW m \in Markets, marketIsLegit(m)'
    PROVE  marketIsLegit(m)
  <1>1. ProtocolInv'
    BY StepKeepsProtocol
  <1>2. /\ marketUniverse'[m] \in Universes \ foreign'
        /\ marketUniverse'[m] \in known' /\ m \notin foreign'
        /\ m \in contained'[marketUniverse'[m]]
    BY <1>1 DEF marketIsLegit, ProtocolInv, TypeOK, ContainedMarketsAreKnown
  <1>3. /\ known' = known
        /\ marketUniverse'[m] = marketUniverse[m]
        /\ contained'[marketUniverse'[m]] = contained[marketUniverse'[m]]
    BY <1>2, StoppedStep
  <1>4. registry["AugurLite"] # None
    BY DEF ProtocolInv, CodeIsRegistered, AugurLogs
  <1> QED
    BY <1>2, <1>3, <1>4 DEF marketIsLegit

\* The emergency stop ends the creation of universes and markets under the
\* Controller through every contract; what the public factories still create for
\* other controllers never becomes a market AugurLite vouches for.
THEOREM StopIsEffective == Spec => StopEndsCreation
  <1>1. ProtocolInv /\ [Next]_vars =>
            [stopped =>
                 /\ UNCHANGED known
                 /\ \A u \in Universes \ foreign' :
                        universeToken'[u] = universeToken[u] /\ contained'[u] = contained[u]
                 /\ \A m \in Markets \ foreign' :
                        marketUniverse'[m] = marketUniverse[m] /\ marketToken'[m] = marketToken[m]
                 /\ \A m \in Markets : marketIsLegit(m)' => marketIsLegit(m)]_vars
    BY StoppedStep, StoppedLegit
  <1> QED
    BY <1>1, ProtocolInvariant, PTL DEF Spec, StopEndsCreation

\* Once there is a market to protect, the log of the stop cannot fail: the user
\* who owns the Controller can stop it, whitelisted or not, and nobody else can.
THEOREM StopPossible == Spec => []OwnerCanStop
  <1>1. ProtocolInv => OwnerCanStop
    BY LegitFacts DEF OwnerCanStop, CanStop, IsOwner
  <1> QED
    BY <1>1, ProtocolInvariant, PTL

=============================================================================
