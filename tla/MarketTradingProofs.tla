------------------------- MODULE MarketTradingProofs -------------------------
(***************************************************************************)
(* Proofs about MarketTrading for every number of users, outcomes and      *)
(* ticks, every fee and every bound: arithmetic (sums over the outcomes    *)
(* are additive and scale, and the resolutions the oracle may report never *)
(* exceed numTicks), the types, the inductive invariant IInv and from it   *)
(* the solvency of the market, what single calls may never do, the steps   *)
(* of the vault the market implements, the conservation of every token,    *)
(* from which no sale or claim can be blocked, the loop of a claim, whose  *)
(* closed form the model uses, and what an emergency stop ends when some   *)
(* accounts are on the whitelist.                                          *)
(***************************************************************************)
EXTENDS MarketVault, MarketWhitelist, BEP20Proofs

(* Sums over the outcomes *)

\* Outcomes are the first numbers below MAX_OUTCOMES.
LEMMA OutcomesAreSmall ==
    /\ 0 \in Outcomes
    /\ Outcomes \subseteq 0 .. 7
BY MarketParameters DEF Outcomes

\* At extends a function over the outcomes by zeros.
LEMMA AtIsInt ==
    ASSUME NEW f \in [Outcomes -> Int], NEW i \in Int
    PROVE  At(f, i) \in Int
BY DEF At

\* The sum over the outcomes of the sum of two functions.
LEMMA SumAdd ==
    ASSUME NEW f \in [Outcomes -> Int], NEW g \in [Outcomes -> Int],
           NEW h \in [Outcomes -> Int],
           \A o \in Outcomes : h[o] = f[o] + g[o]
    PROVE  SumOutcomes(h) = SumOutcomes(f) + SumOutcomes(g)
<1>1. \A i \in 0 .. 7 : At(h, i) = At(f, i) + At(g, i)
  BY DEF At
<1>2. \A i \in 0 .. 7 : At(f, i) \in Int /\ At(g, i) \in Int /\ At(h, i) \in Int
  BY AtIsInt
<1> QED
  BY <1>1, <1>2 DEF SumOutcomes

\* The sum over the outcomes of the multiples of a function.
LEMMA SumScale ==
    ASSUME NEW f \in [Outcomes -> Int], NEW h \in [Outcomes -> Int], NEW c \in Int,
           \A o \in Outcomes : h[o] = c * f[o]
    PROVE  SumOutcomes(h) = c * SumOutcomes(f)
<1>1. \A i \in 0 .. 7 : At(h, i) = c * At(f, i)
  BY DEF At
<1>2. \A i \in 0 .. 7 : At(f, i) \in Int /\ At(h, i) \in Int
  BY AtIsInt
<1>3. \A a, b \in Int : c * (a + b) = c * a + c * b
  OBVIOUS
<1> QED
  BY <1>1, <1>2, <1>3 DEF SumOutcomes

\* A sum of naturals is a natural that no summand exceeds.
LEMMA SumNat ==
    ASSUME NEW f \in [Outcomes -> Nat]
    PROVE  /\ SumOutcomes(f) \in Nat
           /\ \A o \in Outcomes : f[o] <= SumOutcomes(f)
<1>1. \A i \in 0 .. 7 : At(f, i) \in Nat
  BY DEF At
<1>2. SumOutcomes(f) \in Nat /\ \A i \in 0 .. 7 : At(f, i) <= SumOutcomes(f)
  BY <1>1 DEF SumOutcomes
<1>3. \A o \in Outcomes : f[o] = At(f, o) /\ o \in 0 .. 7
  BY OutcomesAreSmall DEF At
<1> QED
  BY <1>2, <1>3

\* A sum of integers is an integer.
LEMMA SumInt ==
    ASSUME NEW f \in [Outcomes -> Int]
    PROVE  SumOutcomes(f) \in Int
<1>1. \A i \in 0 .. 7 : At(f, i) \in Int
  BY AtIsInt
<1> QED
  BY <1>1 DEF SumOutcomes

\* Sums over the outcomes are monotone.
LEMMA SumMonotone ==
    ASSUME NEW f \in [Outcomes -> Int], NEW g \in [Outcomes -> Int],
           \A o \in Outcomes : f[o] <= g[o]
    PROVE  SumOutcomes(f) <= SumOutcomes(g)
<1>1. \A i \in 0 .. 7 : At(f, i) <= At(g, i)
  BY DEF At
<1>2. \A i \in 0 .. 7 : At(f, i) \in Int /\ At(g, i) \in Int
  BY AtIsInt
<1> QED
  BY <1>1, <1>2 DEF SumOutcomes

\* The same value for every outcome.
LEMMA SumConstant ==
    ASSUME NEW q \in Int, NEW f \in [Outcomes -> Int],
           \A o \in Outcomes : f[o] = q
    PROVE  SumOutcomes(f) = numOutcomes * q
<1>1. \A i \in 0 .. 7 : At(f, i) = IF i < numOutcomes THEN q ELSE 0
  BY MarketParameters DEF At, Outcomes
<1>2. numOutcomes \in 2 .. 8
  BY MarketParameters
<1>3. CASE numOutcomes \in 2 .. 4
  <2>1. CASE numOutcomes = 2
    BY <1>1, <2>1 DEF SumOutcomes
  <2>2. CASE numOutcomes = 3
    BY <1>1, <2>2 DEF SumOutcomes
  <2>3. CASE numOutcomes = 4
    BY <1>1, <2>3 DEF SumOutcomes
  <2> QED
    BY <1>3, <2>1, <2>2, <2>3
<1>4. CASE numOutcomes \in 5 .. 8
  <2>1. CASE numOutcomes = 5
    BY <1>1, <2>1 DEF SumOutcomes
  <2>2. CASE numOutcomes = 6
    BY <1>1, <2>2 DEF SumOutcomes
  <2>3. CASE numOutcomes = 7
    BY <1>1, <2>3 DEF SumOutcomes
  <2>4. CASE numOutcomes = 8
    BY <1>1, <2>4 DEF SumOutcomes
  <2> QED
    BY <1>4, <2>1, <2>2, <2>3, <2>4
<1> QED
  BY <1>2, <1>3, <1>4

\* The floor that an invalid market pays, taken for every outcome.
LEMMA FloorTimesOutcomes ==
    /\ numTicks \div numOutcomes \in Nat
    /\ numOutcomes * (numTicks \div numOutcomes) <= numTicks
BY MarketParameters

\* No resolution the oracle may report assigns more than numTicks.
THEOREM ResolutionWithinNumTicks ==
    ASSUME NEW payout \in [Outcomes -> Nat], NEW isInvalid \in BOOLEAN,
           verifyResolutionInformation(payout, isInvalid)
    PROVE  SumOutcomes(payout) \in 0 .. numTicks
<1>1. CASE isInvalid
  <2>1. \A o \in Outcomes : payout[o] = numTicks \div numOutcomes
    BY <1>1 DEF verifyResolutionInformation
  <2>2. SumOutcomes(payout) = numOutcomes * (numTicks \div numOutcomes)
    BY <2>1, SumConstant, FloorTimesOutcomes
  <2> QED
    BY <2>2, FloorTimesOutcomes, SumNat, MarketParameters
<1>2. CASE ~isInvalid
  BY <1>2, MarketParameters DEF verifyResolutionInformation
<1> QED
  BY <1>1, <1>2

\* The creator's fee is a part of the amount it is taken from.
LEMMA FeeWithinAmount ==
    ASSUME NEW amount \in Nat
    PROVE  deriveMarketCreatorFeeAmount(amount) \in 0 .. amount
<1>1. CASE feeDivisor = 0
  BY <1>1 DEF deriveMarketCreatorFeeAmount
<1>2. CASE feeDivisor # 0
  <2>1. feeDivisor \in Nat /\ feeDivisor >= 2
    BY <1>2, MarketParameters
  <2>2. amount \div feeDivisor \in Nat
    BY <2>1
  <2>3. feeDivisor * (amount \div feeDivisor) <= amount
    BY <2>1
  <2>4. amount \div feeDivisor <= feeDivisor * (amount \div feeDivisor)
    BY <2>1, <2>2
  <2> QED
    BY <1>2, <2>1, <2>2, <2>3, <2>4 DEF deriveMarketCreatorFeeAmount
<1> QED
  BY <1>1, <1>2

\* Worth is a number for every supply and every resolution.
LEMMA WorthInt ==
    ASSUME NEW n \in [Outcomes -> Int], NEW payout \in [Outcomes -> Int]
    PROVE  Worth(n, payout) \in Int
<1>1. [o \in Outcomes |-> n[o] * payout[o]] \in [Outcomes -> Int]
  OBVIOUS
<1> QED
  BY <1>1, SumInt DEF Worth

\* Worth of the shares that two parties hold together.
LEMMA WorthAdd ==
    ASSUME NEW n \in [Outcomes -> Int], NEW k \in [Outcomes -> Int],
           NEW m \in [Outcomes -> Int], NEW payout \in [Outcomes -> Int],
           \A o \in Outcomes : m[o] = n[o] + k[o]
    PROVE  Worth(m, payout) = Worth(n, payout) + Worth(k, payout)
<1> DEFINE F(x) == [o \in Outcomes |-> x[o] * payout[o]]
<1>1. F(n) \in [Outcomes -> Int] /\ F(k) \in [Outcomes -> Int] /\ F(m) \in [Outcomes -> Int]
  OBVIOUS
<1>2. \A o \in Outcomes : F(m)[o] = F(n)[o] + F(k)[o]
  <2>1. ASSUME NEW o \in Outcomes
        PROVE  (n[o] + k[o]) * payout[o] = n[o] * payout[o] + k[o] * payout[o]
    OBVIOUS
  <2> QED
    BY <2>1
<1>3. SumOutcomes(F(m)) = SumOutcomes(F(n)) + SumOutcomes(F(k))
  <2> HIDE DEF F
  <2> QED
    BY <1>1, <1>2, SumAdd
<1> QED
  BY <1>3 DEF Worth

\* Worth of an equal number of shares of every outcome, a complete set each.
LEMMA WorthOfSets ==
    ASSUME NEW c \in Int, NEW k \in [Outcomes -> Int], NEW payout \in [Outcomes -> Int],
           \A o \in Outcomes : k[o] = c
    PROVE  Worth(k, payout) = c * SumOutcomes(payout)
<1> DEFINE f == [o \in Outcomes |-> k[o] * payout[o]]
<1>1. f \in [Outcomes -> Int] /\ \A o \in Outcomes : f[o] = c * payout[o]
  OBVIOUS
<1>2. SumOutcomes(f) = c * SumOutcomes(payout)
  <2> HIDE DEF f
  <2> QED
    BY <1>1, SumScale
<1> QED
  BY <1>2 DEF Worth

-----------------------------------------------------------------------------
(* Payments out of the market *)

\* The two payments of a sale and a claim take at most their sum from the
\* market, and exactly the sum unless the market pays itself.
LEMMA PaidOutFacts ==
    ASSUME TypeOK, NEW spender \in Spenders, NEW to \in Accounts,
           NEW amount \in Nat, NEW fee \in Nat, CanPayOut(spender, to, amount, fee)
    PROVE  /\ PaidOut(to, amount, fee) \in [Accounts -> Uint]
           /\ PaidOut(to, amount, fee)[Market] >= cash[Market] - (amount + fee)
           /\ marketAllowance[spender] - (amount + fee) \in Uint
<1> DEFINE first == Moved(cash, Market, to, amount)
<1>1. Market \in Accounts /\ Mailbox \in Accounts /\ Market # Mailbox
  BY TradingParameters DEF Accounts
<1>2. cash \in [Accounts -> Uint] /\ marketAllowance[spender] \in Uint /\ MaxUint \in Nat
  BY TradingParameters, Width DEF TypeOK
<1>3. /\ CanMove(cash, Market, to, amount)
      /\ CanMove(first, Market, Mailbox, fee)
      /\ marketAllowance[spender] >= amount + fee
  BY DEF CanPayOut
<1>4. /\ first \in [Accounts -> Uint]
      /\ first[Market] >= cash[Market] - amount
  <2>1. cash[Market] \in Int
    BY <1>1, <1>2 DEF Uint
  <2> QED
    BY <1>1, <1>2, <1>3, <2>1, MovedFacts
<1>5. /\ Moved(first, Market, Mailbox, fee) \in [Accounts -> Uint]
      /\ Moved(first, Market, Mailbox, fee)[Market] = first[Market] - fee
  <2> HIDE DEF first
  <2> QED
    BY <1>1, <1>3, <1>4, MovedFacts
<1>6. PaidOut(to, amount, fee) = Moved(first, Market, Mailbox, fee)
  BY DEF PaidOut
<1>7. first[Market] \in Int /\ cash[Market] \in Int
  BY <1>1, <1>2, <1>4 DEF Uint
<1> HIDE DEF first
<1>8. marketAllowance[spender] - (amount + fee) \in Uint
  BY <1>2, <1>3 DEF Uint
<1> QED
  BY <1>4, <1>5, <1>6, <1>7, <1>8

-----------------------------------------------------------------------------
(* Type correctness *)

\* What a sale pays: the fee is a part of the payout.
LEMMA SaleFacts ==
    ASSUME NEW amount \in Amounts
    PROVE  LET payout == amount * numTicks
               fee    == deriveMarketCreatorFeeAmount(payout)
           IN  /\ amount \in Nat /\ payout \in Nat
               /\ fee \in Nat /\ payout - fee \in Nat
               /\ (payout - fee) + fee = payout
<1> DEFINE payout == amount * numTicks
<1>1. amount \in Nat /\ numTicks \in Nat
  BY TradingParameters, MarketParameters DEF Uint
<1>2. payout \in Nat
  BY <1>1
<1> HIDE DEF payout
<1>3. deriveMarketCreatorFeeAmount(payout) \in 0 .. payout
  BY <1>2, FeeWithinAmount
<1>4. /\ deriveMarketCreatorFeeAmount(payout) \in Nat
      /\ payout - deriveMarketCreatorFeeAmount(payout) \in Nat
      /\ (payout - deriveMarketCreatorFeeAmount(payout))
             + deriveMarketCreatorFeeAmount(payout) = payout
  BY <1>2, <1>3
<1> QED
  BY <1>1, <1>2, <1>4 DEF payout

\* What a claim pays: the worth of the holder's shares, the fees included.
LEMMA ClaimFacts ==
    ASSUME TypeOK, NEW h \in Accounts
    PROVE  LET proceeds == SumOutcomes(Proceeds(h))
               fee      == SumOutcomes(CreatorShares(h))
           IN  /\ proceeds \in Nat /\ fee \in Nat /\ proceeds - fee \in Nat
               /\ (proceeds - fee) + fee = proceeds
               /\ proceeds = Worth([o \in Outcomes |-> shares[o][h]], payoutNumerators)
<1>1. \A o \in Outcomes : shares[o][h] \in Nat /\ payoutNumerators[o] \in Nat
  BY MarketParameters, TradingParameters DEF TypeOK, Uint
<1>2. Proceeds(h) \in [Outcomes -> Nat]
  <2>1. \A a, b \in Nat : a * b \in Nat
    OBVIOUS
  <2> QED
    BY <1>1, <2>1 DEF Proceeds
<1>3. /\ CreatorShares(h) \in [Outcomes -> Nat]
      /\ \A o \in Outcomes : CreatorShares(h)[o] <= Proceeds(h)[o]
  <2>1. ASSUME NEW o \in Outcomes
        PROVE  deriveMarketCreatorFeeAmount(Proceeds(h)[o]) \in 0 .. Proceeds(h)[o]
    BY <1>2, FeeWithinAmount
  <2>2. \A o \in Outcomes : CreatorShares(h)[o] \in 0 .. Proceeds(h)[o]
    BY <2>1 DEF CreatorShares
  <2>3. CreatorShares(h) = [o \in Outcomes |-> CreatorShares(h)[o]]
    BY DEF CreatorShares
  <2>4. \A o \in Outcomes : CreatorShares(h)[o] \in Nat /\ CreatorShares(h)[o] <= Proceeds(h)[o]
    BY <1>2, <2>2
  <2> QED
    BY <2>3, <2>4
<1>4. SumOutcomes(Proceeds(h)) \in Nat /\ SumOutcomes(CreatorShares(h)) \in Nat
  BY <1>2, <1>3, SumNat
<1>5. SumOutcomes(CreatorShares(h)) <= SumOutcomes(Proceeds(h))
  BY <1>2, <1>3, SumMonotone
<1>6. SumOutcomes(Proceeds(h)) = Worth([o \in Outcomes |-> shares[o][h]], payoutNumerators)
  <2>1. Proceeds(h) = [o \in Outcomes |->
                          [i \in Outcomes |-> shares[i][h]][o] * payoutNumerators[o]]
    BY DEF Proceeds
  <2> QED
    BY <2>1 DEF Worth
<1> QED
  BY <1>4, <1>5, <1>6

\* The initial state, and what every call leaves in the storage.
LEMMA InitType == Init => TypeOK
<1> SUFFICES ASSUME Init PROVE TypeOK
  OBVIOUS
<1>1. MaxUint \in Nat /\ 0 \in Uint /\ MaxUint \in Uint
  BY TradingParameters, Width DEF Uint
<1>2. now \in Nat /\ resolutionTime \in Nat
  BY TradingParameters DEF Init
<1>3. stopped \in BOOLEAN /\ invalid \in BOOLEAN
  BY DEF Init
<1>4. payoutNumerators \in [Outcomes -> 0 .. numTicks]
  BY MarketParameters DEF Init
<1>5. cash \in [Accounts -> Uint]
  BY <1>1, TradingParameters DEF Init
<1>6. /\ augurAllowance \in [Users -> Uint] /\ marketAllowance \in [Spenders -> Uint]
      /\ shares \in [Outcomes -> [Accounts -> Uint]] /\ supply \in [Outcomes -> Uint]
  BY <1>1 DEF Init
<1>7. mailboxOwner \in Users
  BY TradingParameters DEF Init
<1> QED
  BY <1>2, <1>3, <1>4, <1>5, <1>6, <1>7 DEF TypeOK

\* The bounds and the accounts.
LEMMA ConstantTypes ==
    /\ MaxUint \in Nat /\ 0 \in Uint /\ MaxUint \in Uint
    /\ Market \in Accounts /\ Mailbox \in Accounts /\ Users \subseteq Accounts
    /\ \A s \in Spenders : s \in {"CompleteSets", "ClaimTradingProceeds"}
    /\ Amounts \subseteq Uint /\ Gifts \subseteq Uint /\ Approvals \subseteq Uint
BY TradingParameters, Width DEF Uint, Accounts, Spenders

\* A purchase and a sale of complete sets, stopped or not.
LEMMA BuyType ==
    ASSUME TypeOK, NEW u \in Users, NEW n \in Amounts, buyCompleteSets(u, n)
    PROVE  TypeOK'
<1> USE DEF TypeOK
<1> DEFINE cost == n * numTicks
<1>1. cost \in Nat /\ n \in Nat
  BY ConstantTypes, MarketParameters DEF Uint
<1>2. CanMove(cash, u, Market, cost) /\ augurAllowance[u] >= cost
  BY DEF buyCompleteSets
<1>3. cash' \in [Accounts -> Uint]
  BY ConstantTypes, <1>1, <1>2, MovedFacts DEF buyCompleteSets
<1>4. augurAllowance[u] - cost \in Uint
  <2> HIDE DEF cost
  <2> QED
    BY ConstantTypes, <1>1, <1>2 DEF Uint
<1>5. augurAllowance' \in [Users -> Uint]
  BY <1>4 DEF buyCompleteSets
<1>6. \A o \in Outcomes : supply[o] + n \in Uint /\ shares[o][u] + n \in Uint
  BY ConstantTypes, <1>1 DEF buyCompleteSets, Uint
<1>7. shares' \in [Outcomes -> [Accounts -> Uint]] /\ supply' \in [Outcomes -> Uint]
  BY ConstantTypes, <1>6 DEF buyCompleteSets
<1> QED
  BY <1>3, <1>5, <1>7 DEF buyCompleteSets, resolutionVars

LEMMA SellType ==
    ASSUME TypeOK, NEW a \in Accounts, NEW n \in Amounts, sellCompleteSets(a, n)
    PROVE  TypeOK'
<1> USE DEF TypeOK
<1> DEFINE payout == n * numTicks
           fee == deriveMarketCreatorFeeAmount(payout)
<1>1. n \in Nat /\ payout \in Nat /\ fee \in Nat /\ payout - fee \in Nat
      /\ (payout - fee) + fee = payout
  BY SaleFacts
<1>2. CanPayOut("CompleteSets", a, payout - fee, fee) /\ "CompleteSets" \in Spenders
  BY DEF sellCompleteSets, CanRedeem, Spenders
<1>3. /\ cash' = PaidOut(a, payout - fee, fee)
      /\ marketAllowance' = [marketAllowance EXCEPT !["CompleteSets"] = @ - payout]
      /\ shares' = [o \in Outcomes |-> [shares[o] EXCEPT ![a] = @ - n]]
      /\ supply' = [o \in Outcomes |-> supply[o] - n]
      /\ \A o \in Outcomes : shares[o][a] >= n /\ supply[o] >= n
      /\ UNCHANGED <<now, stopped, mailboxOwner, resolutionTime, payoutNumerators,
                     invalid, augurAllowance>>
  BY DEF sellCompleteSets, CanRedeem, resolutionVars
<1> HIDE DEF payout, fee
<1>4. cash' \in [Accounts -> Uint] /\ marketAllowance["CompleteSets"] - payout \in Uint
  BY ConstantTypes, <1>1, <1>2, <1>3, PaidOutFacts
<1>5. marketAllowance' \in [Spenders -> Uint]
  BY <1>3, <1>4
<1>6. \A o \in Outcomes : supply[o] - n \in Uint /\ shares[o][a] - n \in Uint
  BY ConstantTypes, <1>1, <1>3 DEF Uint
<1>7. shares' \in [Outcomes -> [Accounts -> Uint]] /\ supply' \in [Outcomes -> Uint]
  BY ConstantTypes, <1>3, <1>6
<1> QED
  BY <1>3, <1>4, <1>5, <1>7

LEMMA NextType == TypeOK /\ [Next]_vars => TypeOK'
<1> SUFFICES ASSUME TypeOK, [Next]_vars PROVE TypeOK'
  OBVIOUS
<1> USE DEF TypeOK
<1>0. /\ MaxUint \in Nat /\ 0 \in Uint /\ MaxUint \in Uint
      /\ Market \in Accounts /\ Mailbox \in Accounts /\ Users \subseteq Accounts
      /\ \A s \in Spenders : s \in {"CompleteSets", "ClaimTradingProceeds"}
      /\ Amounts \subseteq Uint /\ Gifts \subseteq Uint /\ Approvals \subseteq Uint
  BY ConstantTypes
<1>1. ASSUME NEW u \in Users, NEW n \in Amounts, Buy(u, n) PROVE TypeOK'
  BY <1>1, BuyType DEF Buy
<1>2. ASSUME NEW u \in Users, NEW n \in Amounts, Sell(u, n) PROVE TypeOK'
  BY <1>0, <1>2, SellType DEF Sell
<1>3. ASSUME NEW h \in Accounts, Claim(h) PROVE TypeOK'
  <2> DEFINE proceeds == SumOutcomes(Proceeds(h))
             fee == SumOutcomes(CreatorShares(h))
  <2>1. proceeds \in Nat /\ fee \in Nat /\ proceeds - fee \in Nat
        /\ (proceeds - fee) + fee = proceeds
    BY ClaimFacts
  <2>2. CanPayOut("ClaimTradingProceeds", h, proceeds - fee, fee)
        /\ "ClaimTradingProceeds" \in Spenders
    BY <1>3 DEF Claim, CanClaim, Spenders
  <2>3. /\ cash' = PaidOut(h, proceeds - fee, fee)
        /\ marketAllowance' =
               [marketAllowance EXCEPT !["ClaimTradingProceeds"] = @ - proceeds]
        /\ shares' = [o \in Outcomes |-> [shares[o] EXCEPT ![h] = 0]]
        /\ supply' = [o \in Outcomes |-> supply[o] - shares[o][h]]
        /\ \A o \in Outcomes : supply[o] >= shares[o][h]
        /\ UNCHANGED <<now, stopped, mailboxOwner, resolutionTime, payoutNumerators,
                       invalid, augurAllowance>>
    BY <1>3 DEF Claim, CanClaim, resolutionVars
  <2> HIDE DEF proceeds, fee
  <2>4. cash' \in [Accounts -> Uint] /\ marketAllowance["ClaimTradingProceeds"] - proceeds \in Uint
    BY <1>0, <2>1, <2>2, <2>3, PaidOutFacts
  <2>5. marketAllowance' \in [Spenders -> Uint]
    BY <2>3, <2>4
  <2>6. \A o \in Outcomes : supply[o] - shares[o][h] \in Uint
    BY <1>0, <2>3 DEF Uint
  <2>7. shares' \in [Outcomes -> [Accounts -> Uint]] /\ supply' \in [Outcomes -> Uint]
    BY <1>0, <2>3, <2>6
  <2> QED
    BY <2>3, <2>4, <2>5, <2>7
<1>4. ASSUME NEW u \in Users, NEW p \in [Outcomes -> 0 .. numTicks], NEW i \in BOOLEAN,
             Resolve(u, p, i)
      PROVE  TypeOK'
  BY <1>4 DEF Resolve, escrowVars
<1>5. CASE ApproveSpenders
  BY <1>0, <1>5 DEF ApproveSpenders, resolutionVars
<1>6. ASSUME NEW from \in Accounts, NEW to \in Accounts, NEW n \in Uint,
             TransferCash(from, to, n)
      PROVE  TypeOK'
  <2>1. cash' \in [Accounts -> Uint]
    BY <1>0, <1>6, MovedFacts DEF TransferCash, Uint
  <2> QED
    BY <1>6, <2>1 DEF TransferCash, resolutionVars
<1>7. ASSUME NEW o \in Outcomes, NEW from \in Accounts, NEW to \in Accounts, NEW n \in Uint,
             TransferShares(o, from, to, n)
      PROVE  TypeOK'
  <2>1. shares[o] \in [Accounts -> Uint] /\ n \in Nat /\ CanMove(shares[o], from, to, n)
    BY <1>0, <1>7 DEF TransferShares, Uint
  <2>2. Moved(shares[o], from, to, n) \in [Accounts -> Uint]
    BY <2>1, MovedFacts
  <2> QED
    BY <1>7, <2>2 DEF TransferShares, resolutionVars
<1>8. ASSUME NEW u \in Users, NEW n \in Approvals, ApproveAugur(u, n) PROVE TypeOK'
  BY <1>0, <1>8 DEF ApproveAugur, resolutionVars
<1>9. ASSUME NEW u \in Users, WithdrawCash(u) PROVE TypeOK'
  <2>1. TransferCash(Mailbox, mailboxOwner, cash[Mailbox])
        /\ mailboxOwner \in Accounts /\ cash[Mailbox] \in Uint
    BY <1>0, <1>9 DEF WithdrawCash
  <2> QED
    BY <1>0, <1>6, <2>1
<1>10. ASSUME NEW u \in Users, NEW o \in Outcomes, WithdrawShares(u, o) PROVE TypeOK'
  <2>1. TransferShares(o, Mailbox, mailboxOwner, shares[o][Mailbox])
        /\ mailboxOwner \in Accounts /\ shares[o][Mailbox] \in Uint
    BY <1>0, <1>10 DEF WithdrawShares
  <2> QED
    BY <1>0, <1>7, <2>1
<1>11. ASSUME NEW u \in Users, NEW v \in Users, TransferMailbox(u, v) PROVE TypeOK'
  BY <1>11 DEF TransferMailbox, resolutionVars, escrowVars
<1>12. CASE EmergencyStop
  BY <1>12 DEF EmergencyStop, resolutionVars, escrowVars
<1>13. CASE NextBlock
  BY <1>13 DEF NextBlock, resolutionVars, escrowVars
<1>20. CASE \E t \in 0 .. MaxTime : SetTimestamp(t)
  BY <1>20, TradingParameters DEF SetTimestamp, resolutionVars, escrowVars
<1>14. CASE UNCHANGED vars
  BY <1>14 DEF vars, resolutionVars, escrowVars
<1> QED
  BY <1>0, <1>1, <1>2, <1>3, <1>4, <1>5, <1>6, <1>7, <1>8, <1>9, <1>10, <1>11, <1>12,
     <1>13, <1>14, <1>20 DEF Next, OtherCalls

\* Every balance, allowance and supply stays a uint256, in every reachable
\* state: the checks of SafeMath that revert a call are enough for that.
THEOREM TypeCorrect == Spec => []TypeOK
BY InitType, NextType, PTL DEF Spec

-----------------------------------------------------------------------------
(* Solvency *)

\* The numbers Backed is about.
LEMMA BackedTypes ==
    ASSUME TypeOK
    PROVE  /\ cash[Market] \in Nat
           /\ supply \in [Outcomes -> Nat]
           /\ payoutNumerators \in [Outcomes -> Nat]
           /\ Worth(supply, payoutNumerators) \in Int
           /\ SumOutcomes(payoutNumerators) \in Nat
           /\ Unassigned \in Int
           /\ numTicks \in Nat
<1>1. cash[Market] \in Nat
  BY TradingParameters DEF TypeOK, Accounts, Uint
<1>2. supply \in [Outcomes -> Nat] /\ payoutNumerators \in [Outcomes -> Nat]
  BY MarketParameters, TradingParameters DEF TypeOK, Uint
<1>3. SumOutcomes(payoutNumerators) \in Nat /\ numTicks \in Nat
  BY <1>2, SumNat, MarketParameters
<1>4. Worth(supply, payoutNumerators) \in Int
  BY <1>2, WorthInt
<1> QED
  BY <1>1, <1>2, <1>3, <1>4 DEF Unassigned

\* Complete sets created (or, for a negative number, destroyed) at numTicks
\* each leave the market as well backed as it was, resolved or not.
LEMMA BackedAfterSets ==
    ASSUME TypeOK, TypeOK', Backed, NEW d \in Int,
           payoutNumerators' = payoutNumerators,
           \A o \in Outcomes : supply'[o] = supply[o] + d,
           cash'[Market] >= cash[Market] + d * numTicks
    PROVE  Backed'
<1>1. PICK o \in Outcomes :
         cash[Market] >= Worth(supply, payoutNumerators) + Unassigned * supply[o]
  BY DEF Backed
<1>2. Unassigned' = Unassigned /\ Unassigned >= 0
  BY DEF Unassigned, Backed
<1>3. Worth(supply', payoutNumerators)
        = Worth(supply, payoutNumerators) + d * SumOutcomes(payoutNumerators)
  <2> DEFINE k == [p \in Outcomes |-> d]
  <2>1. k \in [Outcomes -> Int] /\ \A p \in Outcomes : k[p] = d
    OBVIOUS
  <2>2. supply \in [Outcomes -> Int] /\ supply' \in [Outcomes -> Int]
        /\ payoutNumerators \in [Outcomes -> Int]
    <3>1. \A f \in [Outcomes -> Nat] : f \in [Outcomes -> Int]
      OBVIOUS
    <3>2. supply \in [Outcomes -> Nat] /\ supply' \in [Outcomes -> Nat]
          /\ payoutNumerators \in [Outcomes -> Nat]
      BY BackedTypes, TradingParameters DEF TypeOK, Uint
    <3> QED
      BY <3>1, <3>2
  <2>3. \A p \in Outcomes : supply'[p] = supply[p] + k[p]
    OBVIOUS
  <2> HIDE DEF k
  <2>4. Worth(supply', payoutNumerators)
          = Worth(supply, payoutNumerators) + Worth(k, payoutNumerators)
    BY <2>1, <2>2, <2>3, WorthAdd
  <2>5. Worth(k, payoutNumerators) = d * SumOutcomes(payoutNumerators)
    BY <2>1, <2>2, WorthOfSets
  <2> QED
    BY <2>4, <2>5
<1>4. Unassigned * supply'[o] = Unassigned * supply[o] + Unassigned * d
  <2>1. supply[o] \in Int /\ Unassigned \in Int /\ supply'[o] = supply[o] + d
    BY BackedTypes
  <2> QED
    BY <2>1
<1>5. d * numTicks = d * SumOutcomes(payoutNumerators) + Unassigned * d
  <2>1. SumOutcomes(payoutNumerators) \in Int /\ numTicks \in Int
    BY BackedTypes
  <2> QED
    BY <2>1 DEF Unassigned
<1>6. cash'[Market] >= Worth(supply', payoutNumerators) + Unassigned * supply'[o]
  <2>1. /\ cash[Market] \in Int
        /\ Worth(supply, payoutNumerators) \in Int
        /\ SumOutcomes(payoutNumerators) \in Int
        /\ Unassigned \in Int /\ supply[o] \in Int /\ numTicks \in Int
    BY BackedTypes
  <2>3. cash'[Market] \in Int
    BY TradingParameters DEF TypeOK, Accounts, Uint
  <2>2. d * SumOutcomes(payoutNumerators) \in Int /\ Unassigned * d \in Int
        /\ Unassigned * supply[o] \in Int
    BY <2>1
  <2> QED
    BY <1>1, <1>3, <1>4, <1>5, <2>1, <2>2, <2>3
<1> QED
  BY <1>2, <1>6 DEF Backed

\* Burning shares against what they are worth, as a claim does, leaves the
\* market backed; so does burning none and receiving tokens.
LEMMA BackedAfterBurn ==
    ASSUME TypeOK, TypeOK', Backed, NEW k \in [Outcomes -> Nat],
           payoutNumerators' = payoutNumerators,
           \A o \in Outcomes : supply'[o] = supply[o] - k[o],
           cash'[Market] >= cash[Market] - Worth(k, payoutNumerators)
    PROVE  Backed'
<1>1. PICK o \in Outcomes :
         cash[Market] >= Worth(supply, payoutNumerators) + Unassigned * supply[o]
  BY DEF Backed
<1>2. Unassigned' = Unassigned /\ Unassigned >= 0
  BY DEF Unassigned, Backed
<1>3. /\ supply \in [Outcomes -> Int] /\ supply' \in [Outcomes -> Int]
      /\ k \in [Outcomes -> Int] /\ payoutNumerators \in [Outcomes -> Int]
  <2>1. \A f \in [Outcomes -> Nat] : f \in [Outcomes -> Int]
    OBVIOUS
  <2>2. supply \in [Outcomes -> Nat] /\ supply' \in [Outcomes -> Nat]
        /\ payoutNumerators \in [Outcomes -> Nat]
    BY BackedTypes, TradingParameters DEF TypeOK, Uint
  <2> QED
    BY <2>1, <2>2
<1>4. Worth(supply, payoutNumerators)
        = Worth(supply', payoutNumerators) + Worth(k, payoutNumerators)
  <2>1. \A p \in Outcomes : supply[p] = supply'[p] + k[p]
    BY <1>3
  <2> QED
    BY <1>3, <2>1, WorthAdd
<1>5. Unassigned * supply[o] >= Unassigned * supply'[o]
  <2>1. /\ Unassigned \in Nat /\ supply[o] \in Nat /\ supply'[o] \in Nat
        /\ supply[o] >= supply'[o]
    BY <1>2, BackedTypes, TradingParameters DEF TypeOK, Uint
  <2>2. \A a, b, c \in Nat : b >= c => a * b >= a * c
    OBVIOUS
  <2> QED
    BY <2>1, <2>2
<1>6. cash'[Market] >= Worth(supply', payoutNumerators) + Unassigned * supply'[o]
  <2>1. /\ cash[Market] \in Int
        /\ cash'[Market] \in Int
        /\ Worth(supply, payoutNumerators) \in Int
        /\ Worth(supply', payoutNumerators) \in Int
        /\ Worth(k, payoutNumerators) \in Int
    <3>1. cash[Market] \in Int /\ cash'[Market] \in Int
      BY DEF TypeOK, Accounts, Uint
    <3>2. Worth(supply, payoutNumerators) \in Int /\ Worth(supply', payoutNumerators) \in Int
      BY <1>3, BackedTypes, WorthInt
    <3>3. Worth(k, payoutNumerators) \in Int
      BY <1>3, BackedTypes, WorthInt
    <3> QED
      BY <3>1, <3>2, <3>3
  <2>2. Unassigned * supply[o] \in Int /\ Unassigned * supply'[o] \in Int
    BY <1>3, BackedTypes
  <2> QED
    BY <1>1, <1>4, <1>5, <2>1, <2>2
<1> QED
  BY <1>2, <1>6 DEF Backed

\* A call that leaves the supplies and the resolution alone and takes nothing
\* from the market.
LEMMA BackedUnlessPaid ==
    ASSUME TypeOK, TypeOK', Backed, UNCHANGED <<supply, payoutNumerators>>,
           cash'[Market] >= cash[Market]
    PROVE  Backed'
<1>1. \A o \in Outcomes : supply'[o] = supply[o] + 0
  BY BackedTypes
<1>2. cash'[Market] >= cash[Market] + 0 * numTicks
  <2>1. 0 * numTicks = 0 /\ cash[Market] \in Nat
    BY BackedTypes
  <2> QED
    BY <2>1
<1>3. payoutNumerators' = payoutNumerators
  OBVIOUS
<1> QED
  BY <1>1, <1>2, <1>3, BackedAfterSets, 0 \in Int

\* A resolution moves nothing and leaves the same escrow covering the same
\* complete sets, now outcome by outcome.
LEMMA BackedAfterResolve ==
    ASSUME TypeOK, Backed, SuppliesEqualUntilResolved, ~isResolved,
           payoutNumerators = [o \in Outcomes |-> 0],
           NEW payout \in [Outcomes -> 0 .. numTicks], NEW isInvalid \in BOOLEAN,
           verifyResolutionInformation(payout, isInvalid),
           payoutNumerators' = payout, UNCHANGED <<supply, cash>>
    PROVE  Backed'
<1>1. PICK o \in Outcomes :
         cash[Market] >= Worth(supply, payoutNumerators) + Unassigned * supply[o]
  BY DEF Backed
<1>2. /\ payout \in [Outcomes -> Nat] /\ payout \in [Outcomes -> Int]
      /\ supply \in [Outcomes -> Int] /\ payoutNumerators \in [Outcomes -> Int]
  <2>1. \A f \in [Outcomes -> Nat] : f \in [Outcomes -> Int]
    OBVIOUS
  <2>2. supply \in [Outcomes -> Nat] /\ payout \in [Outcomes -> Nat]
        /\ payoutNumerators \in [Outcomes -> Nat]
    BY BackedTypes, MarketParameters
  <2> QED
    BY <2>1, <2>2
<1>3. SumOutcomes(payout) \in 0 .. numTicks
  BY <1>2, ResolutionWithinNumTicks
<1>4. \A p \in Outcomes : supply[p] = supply[o]
  BY DEF SuppliesEqualUntilResolved
<1>5. Worth(supply, payout) = supply[o] * SumOutcomes(payout)
  <2>1. supply[o] \in Int
    BY <1>2
  <2> QED
    BY <1>2, <1>4, <2>1, WorthOfSets
<1>6. Worth(supply, payoutNumerators) = 0 /\ Unassigned = numTicks
  <2>1. SumOutcomes(payoutNumerators) = 0
    <3>1. \A p \in Outcomes : payoutNumerators[p] = 0 * payout[p]
      BY <1>2
    <3>2. SumOutcomes(payoutNumerators) = 0 * SumOutcomes(payout)
      BY <1>2, <3>1, SumScale, 0 \in Int
    <3> QED
      BY <1>3, <3>2, MarketParameters
  <2>2. Worth(supply, payoutNumerators) = supply[o] * SumOutcomes(payoutNumerators)
    <3>1. supply[o] \in Int
      BY <1>2
    <3> QED
      BY <1>2, <1>4, <3>1, WorthOfSets
  <2> QED
    BY <1>2, <2>1, <2>2, BackedTypes DEF Unassigned
<1>7. Unassigned' = numTicks - SumOutcomes(payout) /\ Unassigned' >= 0
  BY <1>3, MarketParameters DEF Unassigned
<1>8. supply[o] * SumOutcomes(payout) + (numTicks - SumOutcomes(payout)) * supply[o]
        = numTicks * supply[o]
  BY <1>2, <1>3, MarketParameters
<1>9. cash'[Market] >= Worth(supply', payoutNumerators') + Unassigned' * supply'[o]
  <2>1. cash[Market] >= 0 + numTicks * supply[o]
    BY <1>1, <1>6
  <2>2. numTicks * supply[o] \in Int /\ cash[Market] \in Int
    BY <1>2, BackedTypes
  <2> QED
    BY <1>5, <1>7, <1>8, <2>1, <2>2
<1> QED
  BY <1>7, <1>9 DEF Backed

\* A transfer of an account that is not the market takes nothing from it.
LEMMA TransferFacts ==
    ASSUME TypeOK, NEW from \in Accounts \ {Market}, NEW to \in Accounts, NEW n \in Uint,
           TransferCash(from, to, n)
    PROVE  cash'[Market] >= cash[Market]
<1>1. cash \in [Accounts -> Uint] /\ Market \in Accounts /\ n \in Nat /\ cash[Market] \in Nat
  BY TradingParameters DEF TypeOK, Accounts, Uint
<1>2. CanMove(cash, from, to, n) /\ cash' = Moved(cash, from, to, n)
  BY DEF TransferCash
<1>3. CASE to = Market
  BY <1>1, <1>2, <1>3, MovedFacts
<1>4. CASE to # Market
  BY <1>1, <1>2, <1>4, MovedFacts
<1> QED
  BY <1>3, <1>4

\* IInv holds of a new market.
LEMMA InitInv == Init => IInv
<1> SUFFICES ASSUME Init PROVE IInv
  OBVIOUS
<1>1. TypeOK
  BY InitType
<1>2. /\ resolutionTime = 0 /\ payoutNumerators = [o \in Outcomes |-> 0]
      /\ supply = [o \in Outcomes |-> 0] /\ cash[Market] = 0
  BY TradingParameters DEF Init, Accounts
<1>3. SuppliesEqualUntilResolved
  BY <1>2 DEF SuppliesEqualUntilResolved
<1>4. Backed
  <2>1. payoutNumerators \in [Outcomes -> Int] /\ supply \in [Outcomes -> Int]
    BY <1>2
  <2>2. SumOutcomes(payoutNumerators) = numOutcomes * 0
    BY <1>2, <2>1, SumConstant, 0 \in Int
  <2>3. Worth(supply, payoutNumerators) = 0 * SumOutcomes(payoutNumerators)
    BY <1>2, <2>1, WorthOfSets, 0 \in Int
  <2>4. SumOutcomes(payoutNumerators) = 0 /\ Worth(supply, payoutNumerators) = 0
    BY <2>2, <2>3, MarketParameters
  <2>5. Unassigned = numTicks /\ numTicks \in Nat
    BY <2>4, MarketParameters DEF Unassigned
  <2>6. 0 \in Outcomes /\ supply[0] = 0
    BY <1>2, OutcomesAreSmall
  <2>7. cash[Market] >= Worth(supply, payoutNumerators) + Unassigned * supply[0]
    BY <1>2, <2>4, <2>5, <2>6
  <2> QED
    BY <2>5, <2>6, <2>7 DEF Backed
<1> QED
  BY <1>1, <1>2, <1>3, <1>4 DEF IInv

\* Every call preserves IInv.
LEMMA NextInv == IInv /\ [Next]_vars => IInv'
<1> SUFFICES ASSUME IInv, [Next]_vars PROVE IInv'
  OBVIOUS
<1>1. TypeOK /\ TypeOK' /\ SuppliesEqualUntilResolved /\ Backed
      /\ (~isResolved => payoutNumerators = [o \in Outcomes |-> 0])
  BY NextType DEF IInv
<1>2. ASSUME UNCHANGED <<resolutionTime, payoutNumerators>>, Backed',
             \E d \in Int : \/ \A o \in Outcomes : supply'[o] = supply[o] + d
                            \/ isResolved
      PROVE  IInv'
  BY <1>1, <1>2 DEF IInv, SuppliesEqualUntilResolved, isResolved
<1>3. ASSUME UNCHANGED <<resolutionTime, payoutNumerators, supply>>,
             cash'[Market] >= cash[Market]
      PROVE  IInv'
  <2>1. Backed'
    BY <1>1, <1>3, BackedUnlessPaid
  <2> QED
    BY <1>1, <1>3, <2>1 DEF IInv, SuppliesEqualUntilResolved, isResolved
<1>4. cash[Market] \in Nat /\ Market \in Accounts /\ Mailbox \in Accounts \ {Market}
      /\ Users \subseteq Accounts \ {Market}
      /\ mailboxOwner \in Accounts
      /\ Gifts \subseteq Uint
  BY <1>1, BackedTypes, TradingParameters DEF TypeOK, Accounts
<1>5. ASSUME NEW u \in Users, NEW n \in Amounts, Buy(u, n) PROVE IInv'
  <2> DEFINE cost == n * numTicks
  <2>1. n \in Nat /\ n \in Int /\ cost \in Nat
    BY SaleFacts
  <2>2. /\ CanMove(cash, u, Market, cost)
        /\ cash' = Moved(cash, u, Market, cost)
        /\ supply' = [o \in Outcomes |-> supply[o] + n]
        /\ UNCHANGED <<resolutionTime, payoutNumerators>>
    BY <1>5 DEF Buy, buyCompleteSets, resolutionVars
  <2>3. cash'[Market] = cash[Market] + cost
    <3> HIDE DEF cost
    <3>1. cash \in [Accounts -> Uint] /\ u \in Accounts /\ u # Market
      BY <1>1, <1>4 DEF TypeOK
    <3> QED
      BY <1>4, <2>1, <2>2, <3>1, MovedFacts
  <2>4. cash'[Market] >= cash[Market] + n * numTicks
    BY <1>4, <2>1, <2>3
  <2>5. \A o \in Outcomes : supply'[o] = supply[o] + n
    BY <2>2
  <2>6. Backed'
    BY <1>1, <2>1, <2>2, <2>4, <2>5, BackedAfterSets
  <2> QED
    BY <1>2, <2>1, <2>2, <2>5, <2>6
<1>6. ASSUME NEW u \in Users, NEW n \in Amounts, Sell(u, n) PROVE IInv'
  <2> DEFINE payout == n * numTicks
             fee == deriveMarketCreatorFeeAmount(payout)
  <2>1. n \in Nat /\ payout \in Nat /\ fee \in Nat /\ payout - fee \in Nat
        /\ (payout - fee) + fee = payout
    BY SaleFacts
  <2>2. /\ CanPayOut("CompleteSets", u, payout - fee, fee)
        /\ "CompleteSets" \in Spenders /\ u \in Accounts
        /\ cash' = PaidOut(u, payout - fee, fee)
        /\ supply' = [o \in Outcomes |-> supply[o] - n]
        /\ UNCHANGED <<resolutionTime, payoutNumerators>>
    BY <1>4, <1>6 DEF Sell, sellCompleteSets, CanRedeem, resolutionVars, Spenders
  <2>3. cash'[Market] >= cash[Market] - payout
    <3> HIDE DEF payout, fee
    <3> QED
      BY <1>1, <2>1, <2>2, PaidOutFacts
  <2>4. -n \in Int /\ cash'[Market] >= cash[Market] + (-n) * numTicks
    <3>1. (-n) * numTicks = -(n * numTicks) /\ -n \in Int /\ cash'[Market] \in Int
      BY <1>1, <1>4, <2>1, MarketParameters, TradingParameters DEF TypeOK, Uint
    <3> QED
      BY <1>4, <2>1, <2>3, <3>1
  <2>5. \A o \in Outcomes : supply'[o] = supply[o] + (-n)
    BY <1>1, <2>1, <2>2, BackedTypes
  <2>6. Backed'
    BY <1>1, <2>2, <2>4, <2>5, BackedAfterSets
  <2> QED
    BY <1>2, <2>2, <2>4, <2>5, <2>6
<1>7. ASSUME NEW h \in Accounts, Claim(h) PROVE IInv'
  <2> DEFINE proceeds == SumOutcomes(Proceeds(h))
             fee == SumOutcomes(CreatorShares(h))
             k == [o \in Outcomes |-> shares[o][h]]
  <2>1. proceeds \in Nat /\ fee \in Nat /\ proceeds - fee \in Nat
        /\ (proceeds - fee) + fee = proceeds
        /\ proceeds = Worth(k, payoutNumerators)
    BY <1>1, ClaimFacts
  <2>2. /\ CanPayOut("ClaimTradingProceeds", h, proceeds - fee, fee)
        /\ "ClaimTradingProceeds" \in Spenders
        /\ cash' = PaidOut(h, proceeds - fee, fee)
        /\ supply' = [o \in Outcomes |-> supply[o] - shares[o][h]]
        /\ UNCHANGED <<resolutionTime, payoutNumerators>>
        /\ isResolved
    BY <1>7 DEF Claim, CanClaim, ClaimOpen, resolutionVars, Spenders
  <2>3. k \in [Outcomes -> Nat] /\ \A o \in Outcomes : supply'[o] = supply[o] - k[o]
    BY <1>1, <2>2, TradingParameters DEF TypeOK, Uint
  <2> HIDE DEF proceeds, fee, k
  <2>4. cash'[Market] >= cash[Market] - Worth(k, payoutNumerators)
    BY <1>1, <2>1, <2>2, PaidOutFacts
  <2>5. Backed'
    BY <1>1, <2>2, <2>3, <2>4, BackedAfterBurn
  <2> QED
    BY <1>2, <2>2, <2>5, 0 \in Int
<1>8. ASSUME NEW u \in Users, NEW p \in [Outcomes -> 0 .. numTicks], NEW i \in BOOLEAN,
             Resolve(u, p, i)
      PROVE  IInv'
  <2>1. /\ ~isResolved /\ verifyResolutionInformation(p, i)
        /\ payoutNumerators' = p /\ UNCHANGED <<supply, cash>>
        /\ resolutionTime' = now /\ now > endTime
    BY <1>8 DEF Resolve, ResolutionOpen, escrowVars
  <2>2. Backed'
    BY <1>1, <2>1, BackedAfterResolve
  <2>3. isResolved'
    BY <1>1, <2>1, TradingParameters DEF isResolved, TypeOK
  <2> QED
    BY <1>1, <2>2, <2>3 DEF IInv, SuppliesEqualUntilResolved
<1>9. CASE ApproveSpenders
  BY <1>3, <1>4, <1>9 DEF ApproveSpenders, resolutionVars
<1>10. ASSUME NEW from \in Accounts \ {Market}, NEW to \in Accounts, NEW n \in Uint,
              TransferCash(from, to, n)
       PROVE  IInv'
  BY <1>1, <1>3, <1>10, TransferFacts DEF TransferCash, resolutionVars
<1>11. ASSUME NEW o \in Outcomes, NEW from, NEW to, NEW n, TransferShares(o, from, to, n)
       PROVE  IInv'
  BY <1>3, <1>4, <1>11 DEF TransferShares, resolutionVars
<1>12. ASSUME NEW u \in Users, NEW n \in Approvals, ApproveAugur(u, n) PROVE IInv'
  BY <1>3, <1>4, <1>12 DEF ApproveAugur, resolutionVars
<1>13. ASSUME NEW u \in Users, WithdrawCash(u) PROVE IInv'
  <2>1. TransferCash(Mailbox, mailboxOwner, cash[Mailbox]) /\ cash[Mailbox] \in Uint
    BY <1>1, <1>4, <1>13 DEF WithdrawCash, TypeOK
  <2> QED
    BY <1>4, <1>10, <2>1
<1>14. ASSUME NEW u \in Users, NEW o \in Outcomes, WithdrawShares(u, o) PROVE IInv'
  BY <1>11, <1>14 DEF WithdrawShares
<1>15. ASSUME NEW u \in Users, NEW v \in Users, TransferMailbox(u, v) PROVE IInv'
  BY <1>3, <1>4, <1>15 DEF TransferMailbox, resolutionVars, escrowVars
<1>16. CASE EmergencyStop
  BY <1>3, <1>4, <1>16 DEF EmergencyStop, resolutionVars, escrowVars
<1>17. CASE NextBlock
  BY <1>3, <1>4, <1>17 DEF NextBlock, resolutionVars, escrowVars
<1>20. CASE \E t \in 0 .. MaxTime : SetTimestamp(t)
  BY <1>3, <1>4, <1>20 DEF SetTimestamp, resolutionVars, escrowVars
<1>18. CASE UNCHANGED vars
  BY <1>3, <1>4, <1>18 DEF vars, resolutionVars, escrowVars
<1>19. \A u \in Users, a \in Accounts, n \in Gifts : TransferCash(u, a, n) => IInv'
  BY <1>4, <1>10
<1> QED
  BY <1>5, <1>6, <1>7, <1>8, <1>9, <1>11, <1>12, <1>13, <1>14, <1>15, <1>16, <1>17,
     <1>18, <1>19, <1>20 DEF Next, OtherCalls

\* The inductive invariant holds in every reachable state.
THEOREM Inductive == Spec => []IInv
BY InitInv, NextInv, PTL DEF Spec

\* IInv covers what assertBalances() asks for: the shares outstanding after a
\* resolution, the complete sets before it.
LEMMA InvSolvent == IInv => Solvent
<1> SUFFICES ASSUME IInv PROVE Solvent
  OBVIOUS
<1>1. TypeOK /\ Backed /\ SuppliesEqualUntilResolved
      /\ (~isResolved => payoutNumerators = [o \in Outcomes |-> 0])
  BY DEF IInv
<1>2. PICK o \in Outcomes :
         cash[Market] >= Worth(supply, payoutNumerators) + Unassigned * supply[o]
  BY <1>1 DEF Backed
<1>3. /\ cash[Market] \in Int /\ supply[o] \in Nat /\ supply \in [Outcomes -> Int]
      /\ Worth(supply, payoutNumerators) \in Int
      /\ Unassigned \in Nat /\ numTicks \in Nat
  BY <1>1, BackedTypes DEF Backed
<1>4. CASE isResolved
  <2>1. Unassigned * supply[o] \in Nat
    BY <1>3
  <2> QED
    BY <1>2, <1>3, <1>4, <2>1 DEF Solvent, ExpectedBalance
<1>5. CASE ~isResolved
  <2>1. payoutNumerators \in [Outcomes -> Int] /\ \A p \in Outcomes : payoutNumerators[p] = 0
    BY <1>1, <1>5
  <2>2. SumOutcomes(payoutNumerators) = 0
    BY <2>1, SumConstant, MarketParameters, 0 \in Int
  <2>3. \A p \in Outcomes : supply[p] = supply[o]
    BY <1>1, <1>5 DEF SuppliesEqualUntilResolved
  <2>4. Worth(supply, payoutNumerators) = supply[o] * SumOutcomes(payoutNumerators)
    BY <1>3, <2>1, <2>3, WorthOfSets
  <2>5. Worth(supply, payoutNumerators) = 0 /\ Unassigned = numTicks
    BY <1>3, <2>2, <2>4 DEF Unassigned
  <2>6. supply[0] = supply[o]
    BY <2>3, OutcomesAreSmall
  <2>7. numTicks * supply[o] = supply[o] * numTicks /\ numTicks * supply[o] \in Int
    BY <1>3
  <2> QED
    BY <1>2, <1>3, <1>5, <2>5, <2>6, <2>7 DEF Solvent, ExpectedBalance
<1> QED
  BY <1>4, <1>5

\* The market can pay every outstanding share whatever happened before: the
\* assertion in Market.assertBalances never fails.
THEOREM AlwaysSolvent == Spec => []Solvent
BY Inductive, InvSolvent, PTL

\* Only complete sets exist before the resolution, as assertBalances assumes
\* when it looks at the supply of outcome 0 only.
THEOREM SuppliesEqual == Spec => []SuppliesEqualUntilResolved
<1>1. IInv => SuppliesEqualUntilResolved
  BY DEF IInv
<1> QED
  BY <1>1, Inductive, PTL

-----------------------------------------------------------------------------
(* The calls *)

\* The calls of Next: sets of shares are bought or sold, a holder claims, the
\* oracle reports, and the others leave supplies and resolution alone.
QuietCall ==
    \/ ApproveSpenders
    \/ \E from \in Accounts \ {Market}, to \in Accounts, n \in Uint : TransferCash(from, to, n)
    \/ \E o \in Outcomes, from \in Accounts, to \in Accounts, n \in Uint : TransferShares(o, from, to, n)
    \/ \E u \in Users, n \in Approvals : ApproveAugur(u, n)
    \/ \E u, v \in Users : TransferMailbox(u, v)
    \/ NextBlock
    \/ \E t \in 0 .. MaxTime : SetTimestamp(t)

LEMMA CallsOfNext ==
    ASSUME TypeOK, [Next]_vars
    PROVE  \/ \E u \in Users, n \in Amounts : Buy(u, n) \/ Sell(u, n)
           \/ \E h \in Accounts : Claim(h)
           \/ \E u \in Users, p \in [Outcomes -> 0 .. numTicks], i \in BOOLEAN : Resolve(u, p, i)
           \/ QuietCall
           \/ EmergencyStop
           \/ UNCHANGED vars
<1>1. /\ Users \subseteq Accounts \ {Market}
      /\ Gifts \subseteq Uint /\ Amounts \subseteq Uint
      /\ Mailbox \in Accounts \ {Market} /\ mailboxOwner \in Users
      /\ cash[Mailbox] \in Uint
      /\ \A o \in Outcomes : shares[o][Mailbox] \in Uint
  BY TradingParameters DEF TypeOK, Accounts
<1>2. ASSUME NEW u \in Users, WithdrawCash(u) PROVE QuietCall
  BY <1>1, <1>2 DEF WithdrawCash, QuietCall
<1>3. ASSUME NEW u \in Users, NEW o \in Outcomes, WithdrawShares(u, o) PROVE QuietCall
  BY <1>1, <1>3 DEF WithdrawShares, QuietCall
<1>4. ASSUME NEW u \in Users, NEW a \in Accounts, NEW n \in Gifts, TransferCash(u, a, n)
      PROVE  QuietCall
  BY <1>1, <1>4 DEF QuietCall
<1>5. ASSUME NEW u \in Users, NEW a \in Accounts, NEW n \in Amounts, NEW o \in Outcomes,
             TransferShares(o, u, a, n)
      PROVE  QuietCall
  BY <1>1, <1>5 DEF QuietCall
<1>6. ApproveSpenders \/ NextBlock \/ (\E t \in 0 .. MaxTime : SetTimestamp(t))
        \/ (\E u \in Users, n \in Approvals : ApproveAugur(u, n))
        \/ (\E u, v \in Users : TransferMailbox(u, v)) => QuietCall
  BY DEF QuietCall
<1> QED
  BY <1>2, <1>3, <1>4, <1>5, <1>6 DEF Next, OtherCalls

\* What a quiet call leaves alone.
LEMMA QuietCallFacts ==
    ASSUME TypeOK, QuietCall
    PROVE  /\ UNCHANGED <<stopped, resolutionTime, payoutNumerators, invalid, supply>>
           /\ cash'[Market] >= cash[Market]
<1>1. cash[Market] \in Nat
  BY BackedTypes
<1>2. ASSUME NEW from \in Accounts \ {Market}, NEW to \in Accounts, NEW n \in Uint,
             TransferCash(from, to, n)
      PROVE  /\ UNCHANGED <<stopped, resolutionTime, payoutNumerators, invalid, supply>>
             /\ cash'[Market] >= cash[Market]
  BY <1>2, TransferFacts DEF TransferCash, resolutionVars
<1>3. CASE ~(\E from \in Accounts \ {Market}, to \in Accounts, n \in Uint :
                 TransferCash(from, to, n))
  BY <1>1, <1>3 DEF QuietCall, ApproveSpenders, TransferShares, ApproveAugur,
     TransferMailbox, NextBlock, SetTimestamp, resolutionVars, escrowVars
<1> QED
  BY <1>2, <1>3

-----------------------------------------------------------------------------
(* The resolution *)

LEMMA ResolutionStep ==
    ASSUME TypeOK, [Next]_vars
    PROVE  /\ isResolved => UNCHANGED resolutionVars
           /\ ~isResolved /\ isResolved' => resolutionTime' = now /\ now > endTime
<1>1. ASSUME UNCHANGED resolutionVars
      PROVE  /\ isResolved => UNCHANGED resolutionVars
             /\ ~isResolved /\ isResolved' => resolutionTime' = now /\ now > endTime
  BY <1>1 DEF resolutionVars, isResolved
<1>2. ASSUME NEW u \in Users, NEW n \in Amounts, Buy(u, n) \/ Sell(u, n)
      PROVE  UNCHANGED resolutionVars
  BY <1>2 DEF Buy, buyCompleteSets, Sell, sellCompleteSets, CanRedeem
<1>3. ASSUME NEW h \in Accounts, Claim(h) PROVE UNCHANGED resolutionVars
  BY <1>3 DEF Claim, CanClaim
<1>4. ASSUME QuietCall PROVE UNCHANGED resolutionVars
  BY <1>4, QuietCallFacts DEF resolutionVars
<1>5. EmergencyStop \/ UNCHANGED vars => UNCHANGED resolutionVars
  BY DEF EmergencyStop, vars
<1>6. ASSUME NEW u \in Users, NEW p, NEW i, Resolve(u, p, i)
      PROVE  ~isResolved /\ resolutionTime' = now /\ now > endTime
  BY <1>6 DEF Resolve, ResolutionOpen
<1> QED
  BY <1>1, <1>2, <1>3, <1>4, <1>5, <1>6, CallsOfNext

-----------------------------------------------------------------------------
(* Payments *)

\* The creator's part of an amount is no more than the amount over feeDivisor.
LEMMA FeeBound ==
    ASSUME NEW amount \in Nat, feeDivisor # 0
    PROVE  feeDivisor * deriveMarketCreatorFeeAmount(amount) <= amount
<1>1. feeDivisor \in Nat \ {0}
  BY MarketParameters
<1>2. feeDivisor * (amount \div feeDivisor) <= amount
  BY <1>1
<1> QED
  BY <1>2 DEF deriveMarketCreatorFeeAmount

\* The same for the sum of the parts taken outcome by outcome.
LEMMA FeesBound ==
    ASSUME TypeOK, NEW h \in Accounts
    PROVE  /\ feeDivisor = 0 => SumOutcomes(CreatorShares(h)) = 0
           /\ feeDivisor # 0 =>
                  feeDivisor * SumOutcomes(CreatorShares(h)) <= SumOutcomes(Proceeds(h))
<1>1. Proceeds(h) \in [Outcomes -> Nat]
  <2>1. \A o \in Outcomes : shares[o][h] \in Nat /\ payoutNumerators[o] \in Nat
    BY MarketParameters, TradingParameters DEF TypeOK, Uint
  <2>2. \A a, b \in Nat : a * b \in Nat
    OBVIOUS
  <2> QED
    BY <2>1, <2>2 DEF Proceeds
<1>2. CreatorShares(h) \in [Outcomes -> Int]
  <2>1. \A o \in Outcomes : deriveMarketCreatorFeeAmount(Proceeds(h)[o]) \in Int
    BY <1>1, FeeWithinAmount
  <2> QED
    BY <2>1 DEF CreatorShares
<1>3. CASE feeDivisor = 0
  <2>1. \A o \in Outcomes : CreatorShares(h)[o] = 0
    BY <1>3 DEF CreatorShares, deriveMarketCreatorFeeAmount
  <2>2. SumOutcomes(CreatorShares(h)) = numOutcomes * 0
    BY <1>2, <2>1, SumConstant, 0 \in Int
  <2> QED
    BY <1>3, <2>2, MarketParameters
<1>4. CASE feeDivisor # 0
  <2> DEFINE scaled == [o \in Outcomes |-> feeDivisor * CreatorShares(h)[o]]
  <2>1. feeDivisor \in Int
    BY MarketParameters
  <2>2. scaled \in [Outcomes -> Int]
    BY <1>2, <2>1
  <2>3. \A o \in Outcomes : scaled[o] <= Proceeds(h)[o]
    <3>1. ASSUME NEW o \in Outcomes
          PROVE  feeDivisor * deriveMarketCreatorFeeAmount(Proceeds(h)[o]) <= Proceeds(h)[o]
      BY <1>1, <1>4, FeeBound
    <3> QED
      BY <3>1 DEF CreatorShares
  <2>4. SumOutcomes(scaled) = feeDivisor * SumOutcomes(CreatorShares(h))
    <3>1. \A o \in Outcomes : scaled[o] = feeDivisor * CreatorShares(h)[o]
      OBVIOUS
    <3> HIDE DEF scaled
    <3> QED
      BY <1>2, <2>1, <2>2, <3>1, SumScale
  <2> HIDE DEF scaled
  <2>5. Proceeds(h) \in [Outcomes -> Int]
    BY <1>1
  <2> QED
    BY <1>4, <2>2, <2>3, <2>4, <2>5, SumMonotone
<1> QED
  BY <1>3, <1>4

\* A payment out of the market reaches a user in full and leaves the market by
\* its sum.
LEMMA PaidToUser ==
    ASSUME TypeOK, NEW spender \in Spenders, NEW u \in Users,
           NEW amount \in Nat, NEW fee \in Nat, CanPayOut(spender, u, amount, fee)
    PROVE  /\ PaidOut(u, amount, fee)[u] = cash[u] + amount
           /\ PaidOut(u, amount, fee)[Market] = cash[Market] - (amount + fee)
<1> DEFINE first == Moved(cash, Market, u, amount)
<1>1. /\ Market \in Accounts /\ Mailbox \in Accounts /\ u \in Accounts
      /\ Market # Mailbox /\ u # Market /\ u # Mailbox
  BY TradingParameters DEF Accounts
<1>2. cash \in [Accounts -> Uint] /\ cash[Market] \in Int /\ cash[u] \in Int
  BY <1>1 DEF TypeOK, Uint
<1>3. /\ CanMove(cash, Market, u, amount)
      /\ CanMove(first, Market, Mailbox, fee)
  BY DEF CanPayOut
<1>4. /\ first \in [Accounts -> Uint]
      /\ first[Market] = cash[Market] - amount
      /\ first[u] = cash[u] + amount
  BY <1>1, <1>2, <1>3, MovedFacts
<1>5. PaidOut(u, amount, fee) = Moved(first, Market, Mailbox, fee)
  BY DEF PaidOut
<1> HIDE DEF first
<1>6. /\ Moved(first, Market, Mailbox, fee)[Market] = first[Market] - fee
      /\ Moved(first, Market, Mailbox, fee)[u] = first[u]
  BY <1>1, <1>3, <1>4, MovedFacts
<1> QED
  BY <1>2, <1>4, <1>5, <1>6

\* Enough is paid for shares worth v when p less a fee is paid, the fee is at
\* most one part in d, and p covers v.
LEMMA EnoughPaid ==
    ASSUME NEW p \in Nat, NEW fee \in Nat, NEW v \in Int, NEW d \in Nat \ {0},
           d * fee <= p, v <= p
    PROVE  (p - fee) * d >= v * (d - 1)
<1>1. (p - fee) * d = p * d - d * fee
  OBVIOUS
<1>2. p * d - p = p * (d - 1)
  OBVIOUS
<1>3. p * (d - 1) >= v * (d - 1)
  <2>1. d - 1 \in Nat /\ p - v \in Nat
    OBVIOUS
  <2>2. (p - v) * (d - 1) \in Nat
    BY <2>1
  <2>3. (p - v) * (d - 1) = p * (d - 1) - v * (d - 1)
    OBVIOUS
  <2>4. p * (d - 1) \in Int /\ v * (d - 1) \in Int
    OBVIOUS
  <2> QED
    BY <2>2, <2>3, <2>4
<1>4. p * d \in Int /\ d * fee \in Int /\ p * (d - 1) \in Int /\ v * (d - 1) \in Int
  OBVIOUS
<1> QED
  BY <1>1, <1>2, <1>3, <1>4

\* What the property says of one user.
Paid(u) ==
    IF feeDivisor = 0
    THEN cash'[u] - cash[u] >= BurntValue(u)
    ELSE (cash'[u] - cash[u]) * feeDivisor >= BurntValue(u) * (feeDivisor - 1)

LEMMA PaidIfCovered ==
    ASSUME NEW u \in Users, NEW p \in Nat, NEW fee \in Nat, BurntValue(u) \in Int,
           cash'[u] - cash[u] = p - fee, BurntValue(u) <= p,
           feeDivisor = 0 => fee = 0,
           feeDivisor # 0 => feeDivisor * fee <= p
    PROVE  Paid(u)
<1>1. CASE feeDivisor = 0
  BY <1>1 DEF Paid
<1>2. CASE feeDivisor # 0
  <2>1. feeDivisor \in Nat \ {0}
    BY <1>2, MarketParameters
  <2>2. (p - fee) * feeDivisor >= BurntValue(u) * (feeDivisor - 1)
    BY <1>2, <2>1, EnoughPaid
  <2> QED
    BY <1>2, <2>2 DEF Paid
<1> QED
  BY <1>1, <1>2

LEMMA SalePays ==
    ASSUME IInv, NEW u \in Users, NEW n \in Amounts, Sell(u, n) PROVE Paid(u)
<1> DEFINE payout == n * numTicks
           fee == deriveMarketCreatorFeeAmount(payout)
<1>1. TypeOK /\ Backed
  BY DEF IInv
<1>2. n \in Nat /\ payout \in Nat /\ fee \in Nat /\ payout - fee \in Nat
  BY SaleFacts
<1>3. /\ CanPayOut("CompleteSets", u, payout - fee, fee) /\ "CompleteSets" \in Spenders
      /\ cash' = PaidOut(u, payout - fee, fee)
      /\ shares' = [o \in Outcomes |-> [shares[o] EXCEPT ![u] = @ - n]]
  BY DEF Sell, sellCompleteSets, CanRedeem, Spenders
<1>4. u \in Accounts /\ cash[u] \in Int
  BY <1>1 DEF Accounts, TypeOK, Uint
<1>5. cash'[u] - cash[u] = payout - fee
  <2> HIDE DEF payout, fee
  <2>1. cash'[u] = cash[u] + (payout - fee)
    BY <1>1, <1>2, <1>3, PaidToUser
  <2> QED
    BY <1>2, <1>4, <2>1
<1>6. \A o \in Outcomes : shares[o][u] - shares'[o][u] = n
  <2>1. \A o \in Outcomes : shares[o][u] \in Int /\ shares'[o][u] = shares[o][u] - n
    BY <1>1, <1>3, <1>4 DEF TypeOK, Uint
  <2> QED
    BY <1>2, <2>1
<1>7. BurntValue(u) \in Int /\ BurntValue(u) <= payout
  <2>1. CASE isResolved
    <3> DEFINE k == [o \in Outcomes |-> shares[o][u] - shares'[o][u]]
    <3>1. k \in [Outcomes -> Int] /\ \A o \in Outcomes : k[o] = n
      BY <1>2, <1>6
    <3>2. payoutNumerators \in [Outcomes -> Int] /\ SumOutcomes(payoutNumerators) \in Nat
          /\ SumOutcomes(payoutNumerators) <= numTicks /\ numTicks \in Nat
      <4>1. \A f \in [Outcomes -> Nat] : f \in [Outcomes -> Int]
        OBVIOUS
      <4> QED
        BY <1>1, <4>1, BackedTypes DEF Backed, Unassigned
    <3>3. BurntValue(u) = Worth(k, payoutNumerators)
      BY <2>1 DEF BurntValue
    <3> HIDE DEF k
    <3>4. Worth(k, payoutNumerators) = n * SumOutcomes(payoutNumerators)
      BY <1>2, <3>1, <3>2, WorthOfSets
    <3>5. \A a, b, c \in Nat : b <= c => a * b <= a * c
      OBVIOUS
    <3> QED
      BY <1>2, <3>2, <3>3, <3>4, <3>5
  <2>2. CASE ~isResolved
    <3>1. BurntValue(u) = numTicks * n
      BY <2>2, <1>6, OutcomesAreSmall DEF BurntValue
    <3> QED
      BY <1>2, <3>1, MarketParameters
  <2> QED
    BY <2>1, <2>2
<1>8. /\ feeDivisor = 0 => fee = 0
      /\ feeDivisor # 0 => feeDivisor * fee <= payout
  <2>1. feeDivisor = 0 => fee = 0
    BY DEF deriveMarketCreatorFeeAmount
  <2> HIDE DEF payout
  <2> QED
    BY <1>2, <2>1, FeeBound
<1> HIDE DEF payout, fee
<1> QED
  BY <1>2, <1>5, <1>7, <1>8, PaidIfCovered

LEMMA ClaimPays ==
    ASSUME TypeOK, NEW u \in Users, Claim(u) PROVE Paid(u)
<1> DEFINE proceeds == SumOutcomes(Proceeds(u))
           fee == SumOutcomes(CreatorShares(u))
           k == [o \in Outcomes |-> shares[o][u]]
<1>1. u \in Accounts /\ cash[u] \in Int
  BY DEF Accounts, TypeOK, Uint
<1>2. proceeds \in Nat /\ fee \in Nat /\ proceeds - fee \in Nat
      /\ proceeds = Worth(k, payoutNumerators)
  BY <1>1, ClaimFacts
<1>3. /\ CanPayOut("ClaimTradingProceeds", u, proceeds - fee, fee)
      /\ "ClaimTradingProceeds" \in Spenders
      /\ cash' = PaidOut(u, proceeds - fee, fee)
      /\ shares' = [o \in Outcomes |-> [shares[o] EXCEPT ![u] = 0]]
      /\ isResolved
  BY DEF Claim, CanClaim, ClaimOpen, Spenders
<1>4. /\ feeDivisor = 0 => fee = 0
      /\ feeDivisor # 0 => feeDivisor * fee <= proceeds
  BY <1>1, FeesBound
<1>5. BurntValue(u) = proceeds
  <2>1. \A o \in Outcomes : shares[o][u] - shares'[o][u] = shares[o][u]
    <3>1. \A o \in Outcomes : shares[o][u] \in Int /\ shares'[o][u] = 0
      BY <1>1, <1>3 DEF TypeOK, Uint
    <3> QED
      BY <3>1
  <2>2. [o \in Outcomes |-> shares[o][u] - shares'[o][u]] = k
    BY <2>1
  <2> QED
    BY <1>2, <1>3, <2>2 DEF BurntValue
<1> HIDE DEF proceeds, fee, k
<1>6. cash'[u] - cash[u] = proceeds - fee
  <2>1. cash'[u] = cash[u] + (proceeds - fee)
    BY <1>2, <1>3, PaidToUser
  <2> QED
    BY <1>1, <1>2, <2>1
<1> QED
  BY <1>2, <1>4, <1>5, <1>6, PaidIfCovered

LEMMA BurntStep ==
    ASSUME IInv, [Next]_vars, supply' # supply, NEW u \in Users,
           \E o \in Outcomes : shares'[o][u] < shares[o][u]
    PROVE  Paid(u)
<1>1. TypeOK /\ u \in Accounts
  BY DEF IInv, Accounts
<1>2. \A o \in Outcomes : shares[o][u] \in Nat
  BY <1>1, TradingParameters DEF TypeOK, Uint
<1>3. ASSUME NEW v \in Users, NEW n \in Amounts, Buy(v, n) PROVE FALSE
  <2>1. n \in Nat
    BY SaleFacts
  <2>2. \A o \in Outcomes : shares'[o][u] \in {shares[o][u], shares[o][u] + n}
    BY <1>1, <1>3 DEF Buy, buyCompleteSets, TypeOK
  <2> QED
    BY <1>2, <2>1, <2>2
<1>4. ASSUME NEW v \in Users, NEW n \in Amounts, Sell(v, n) PROVE Paid(u)
  <2>1. CASE v = u
    BY <1>4, <2>1, SalePays
  <2>2. CASE v # u
    <3>1. \A o \in Outcomes : shares'[o][u] = shares[o][u]
      BY <1>1, <1>4, <2>2 DEF Sell, sellCompleteSets, CanRedeem, TypeOK
    <3> QED
      BY <1>2, <3>1
  <2> QED
    BY <2>1, <2>2
<1>5. ASSUME NEW h \in Accounts, Claim(h) PROVE Paid(u)
  <2>1. CASE h = u
    BY <1>1, <1>5, <2>1, ClaimPays
  <2>2. CASE h # u
    <3>1. \A o \in Outcomes : shares'[o][u] = shares[o][u]
      BY <1>1, <1>5, <2>2 DEF Claim, CanClaim, TypeOK
    <3> QED
      BY <1>2, <3>1
  <2> QED
    BY <2>1, <2>2
<1>6. QuietCall => FALSE
  BY <1>1, QuietCallFacts
<1>7. ASSUME NEW v \in Users, NEW p, NEW i PROVE ~Resolve(v, p, i)
  BY DEF Resolve, escrowVars
<1>8. ~EmergencyStop /\ ~UNCHANGED vars
  BY DEF EmergencyStop, vars, escrowVars
<1> QED
  BY <1>1, <1>3, <1>4, <1>5, <1>6, <1>7, <1>8, CallsOfNext

\* Whoever burns a user's shares, the user in a sale or anyone in a claim, the
\* user is paid what they are worth in the same call, less the creator's fee at
\* most.  Rounding is always in the user's favour.
THEOREM BurntSharesPaid == Spec => BurntSharesArePaid
<1>1. IInv /\ [Next]_vars =>
        [supply' # supply =>
           \A u \in Users :
             (\E o \in Outcomes : shares'[o][u] < shares[o][u]) =>
                 IF feeDivisor = 0
                 THEN cash'[u] - cash[u] >= BurntValue(u)
                 ELSE (cash'[u] - cash[u]) * feeDivisor
                          >= BurntValue(u) * (feeDivisor - 1)]_vars
  BY BurntStep DEF Paid
<1> QED
  BY <1>1, Inductive, PTL DEF Spec, BurntSharesArePaid

-----------------------------------------------------------------------------
(* The refinement of the vault *)

\* Among the supplies of the outcomes there is a least one.
LEMMA LeastOfOutcomes ==
    ASSUME NEW f \in [Outcomes -> Nat]
    PROVE  LET least == CHOOSE n \in {f[o] : o \in Outcomes} : \A o \in Outcomes : n <= f[o]
           IN  /\ least \in Nat
               /\ \A o \in Outcomes : least <= f[o]
               /\ \E o \in Outcomes : least = f[o]
<1> DEFINE T == {f[o] : o \in Outcomes}
<1>1. T \in SUBSET Nat /\ T # {}
  BY OutcomesAreSmall
<1>2. \E n \in T : \A m \in T : n <= m
  <2> HIDE DEF T
  <2> QED
    BY <1>1, LeastNat
<1>3. \E n \in T : \A o \in Outcomes : n <= f[o]
  BY <1>2
<1> QED
  BY <1>1, <1>3

LEMMA FewestSharesFacts ==
    ASSUME TypeOK
    PROVE  /\ FewestShares \in Nat
           /\ \A o \in Outcomes : FewestShares <= supply[o]
           /\ \E o \in Outcomes : FewestShares = supply[o]
BY BackedTypes, LeastOfOutcomes DEF FewestShares

\* The same of the state after a step.
LEMMA FewestSharesNext ==
    ASSUME TypeOK'
    PROVE  /\ FewestShares' \in Nat
           /\ \A o \in Outcomes : FewestShares' <= supply'[o]
           /\ \E o \in Outcomes : FewestShares' = supply'[o]
<1>1. supply' \in [Outcomes -> Nat]
  BY TradingParameters DEF TypeOK, Uint
<1> QED
  BY <1>1, LeastOfOutcomes DEF FewestShares

\* The numbers Liability is made of, before a step and after it.
LEMMA LiabilityTypes ==
    ASSUME TypeOK, TypeOK', payoutNumerators' = payoutNumerators
    PROVE  /\ supply \in [Outcomes -> Int] /\ supply' \in [Outcomes -> Int]
           /\ payoutNumerators \in [Outcomes -> Int]
           /\ SumOutcomes(payoutNumerators) \in Int
           /\ numTicks \in Int /\ Unassigned \in Int /\ Unassigned' = Unassigned
           /\ FewestShares \in Int /\ FewestShares' \in Int
           /\ Worth(supply, payoutNumerators) \in Int
           /\ Worth(supply', payoutNumerators) \in Int
           /\ Liability \in Int /\ Liability' \in Int
           /\ Liability' = Worth(supply', payoutNumerators) + Unassigned * FewestShares'
<1>1. /\ supply \in [Outcomes -> Int] /\ supply' \in [Outcomes -> Int]
      /\ payoutNumerators \in [Outcomes -> Int]
  <2>1. \A f \in [Outcomes -> Nat] : f \in [Outcomes -> Int]
    OBVIOUS
  <2>2. supply \in [Outcomes -> Nat] /\ supply' \in [Outcomes -> Nat]
        /\ payoutNumerators \in [Outcomes -> Nat]
    BY BackedTypes, TradingParameters DEF TypeOK, Uint
  <2> QED
    BY <2>1, <2>2
<1>2. /\ SumOutcomes(payoutNumerators) \in Int /\ numTicks \in Int
      /\ Unassigned \in Int /\ Unassigned' = Unassigned
      /\ FewestShares \in Int /\ FewestShares' \in Int
  BY BackedTypes, FewestSharesFacts, FewestSharesNext DEF Unassigned
<1>3. Worth(supply, payoutNumerators) \in Int /\ Worth(supply', payoutNumerators) \in Int
  BY <1>1, WorthInt
<1>4. Liability' = Worth(supply', payoutNumerators) + Unassigned * FewestShares'
  BY <1>2 DEF Liability
<1>5. Unassigned * FewestShares \in Int /\ Unassigned * FewestShares' \in Int
  BY <1>2
<1> QED
  BY <1>1, <1>2, <1>3, <1>4, <1>5 DEF Liability

\* Complete sets that are created or destroyed change the liability by their
\* price.
LEMMA LiabilityAfterSets ==
    ASSUME TypeOK, TypeOK', NEW d \in Int, payoutNumerators' = payoutNumerators,
           \A o \in Outcomes : supply'[o] = supply[o] + d
    PROVE  Liability' = Liability + d * numTicks
<1>1. FewestShares' = FewestShares + d
  <2>1. PICK o \in Outcomes : FewestShares = supply[o]
    BY FewestSharesFacts
  <2>2. PICK p \in Outcomes : FewestShares' = supply'[p]
    BY FewestSharesNext
  <2>3. FewestShares <= supply[p] /\ FewestShares' <= supply'[o]
    BY FewestSharesFacts, FewestSharesNext
  <2>4. supply[p] \in Int /\ supply[o] \in Int
    BY LiabilityTypes
  <2> QED
    BY <2>1, <2>2, <2>3, <2>4
<1>2. Worth(supply', payoutNumerators)
        = Worth(supply, payoutNumerators) + d * SumOutcomes(payoutNumerators)
  <2> DEFINE k == [p \in Outcomes |-> d]
  <2>1. k \in [Outcomes -> Int] /\ \A p \in Outcomes : k[p] = d
    OBVIOUS
  <2>2. \A p \in Outcomes : supply'[p] = supply[p] + k[p]
    OBVIOUS
  <2> HIDE DEF k
  <2>3. Worth(supply', payoutNumerators)
          = Worth(supply, payoutNumerators) + Worth(k, payoutNumerators)
    BY <2>1, <2>2, LiabilityTypes, WorthAdd
  <2>4. Worth(k, payoutNumerators) = d * SumOutcomes(payoutNumerators)
    BY <2>1, LiabilityTypes, WorthOfSets
  <2> QED
    BY <2>3, <2>4
<1>3. Unassigned * FewestShares' = Unassigned * FewestShares + Unassigned * d
  BY <1>1, LiabilityTypes
<1>4. d * numTicks = d * SumOutcomes(payoutNumerators) + Unassigned * d
  BY LiabilityTypes DEF Unassigned
<1>5. /\ d * SumOutcomes(payoutNumerators) \in Int /\ Unassigned * d \in Int
      /\ Unassigned * FewestShares \in Int
  BY LiabilityTypes
<1> QED
  BY <1>2, <1>3, <1>4, <1>5, LiabilityTypes DEF Liability

\* A claim burns shares worth what it pays, and completes no set.
LEMMA LiabilityAfterClaim ==
    ASSUME TypeOK, TypeOK', Unassigned >= 0, NEW k \in [Outcomes -> Nat],
           payoutNumerators' = payoutNumerators,
           \A o \in Outcomes : supply'[o] = supply[o] - k[o]
    PROVE  Liability' <= Liability - Worth(k, payoutNumerators)
<1>1. k \in [Outcomes -> Int]
  OBVIOUS
<1>0. Worth(k, payoutNumerators) \in Int
  BY <1>1, LiabilityTypes, WorthInt
<1>2. Worth(supply, payoutNumerators)
        = Worth(supply', payoutNumerators) + Worth(k, payoutNumerators)
  <2>1. \A p \in Outcomes : supply[p] = supply'[p] + k[p]
    BY LiabilityTypes
  <2>2. /\ supply \in [Outcomes -> Int] /\ supply' \in [Outcomes -> Int]
        /\ payoutNumerators \in [Outcomes -> Int]
    BY LiabilityTypes
  <2> QED
    BY <1>1, <2>1, <2>2, WorthAdd
<1>3. FewestShares' <= FewestShares
  <2>1. PICK o \in Outcomes : FewestShares = supply[o]
    BY FewestSharesFacts
  <2>2. FewestShares' <= supply'[o] /\ supply'[o] <= supply[o] /\ supply'[o] \in Int
    BY FewestSharesNext, LiabilityTypes
  <2> QED
    BY <2>1, <2>2, LiabilityTypes
<1>4. Unassigned * FewestShares' <= Unassigned * FewestShares
  <2>1. Unassigned \in Nat /\ FewestShares \in Nat /\ FewestShares' \in Nat
    BY LiabilityTypes, FewestSharesFacts, FewestSharesNext
  <2>2. \A a, b, c \in Nat : b <= c => a * b <= a * c
    OBVIOUS
  <2> QED
    BY <1>3, <2>1, <2>2
<1>5. Unassigned * FewestShares \in Int /\ Unassigned * FewestShares' \in Int
  BY LiabilityTypes
<1> QED
  BY <1>0, <1>2, <1>4, <1>5, LiabilityTypes DEF Liability

\* A resolution divides up the price of the complete sets and changes nothing
\* in what is owed altogether.
LEMMA LiabilityAfterResolve ==
    ASSUME IInv, ~isResolved, NEW payout \in [Outcomes -> 0 .. numTicks],
           payoutNumerators' = payout, supply' = supply
    PROVE  Liability' = Liability
<1>1. /\ TypeOK /\ payoutNumerators = [o \in Outcomes |-> 0]
      /\ \A o, p \in Outcomes : supply[o] = supply[p]
  BY DEF IInv, SuppliesEqualUntilResolved
<1>2. PICK o \in Outcomes : FewestShares = supply[o]
  BY <1>1, FewestSharesFacts
<1>3. supply \in [Outcomes -> Int] /\ payout \in [Outcomes -> Int]
      /\ payoutNumerators \in [Outcomes -> Int] /\ supply[o] \in Int
  <2>1. supply \in [Outcomes -> Nat] /\ numTicks \in Nat
    BY <1>1, BackedTypes
  <2> QED
    BY <1>1, <2>1
<1>4. FewestShares' = FewestShares
  BY DEF FewestShares
<1>5. /\ Worth(supply, payout) = supply[o] * SumOutcomes(payout)
      /\ Worth(supply, payoutNumerators) = supply[o] * SumOutcomes(payoutNumerators)
  BY <1>1, <1>3, WorthOfSets
<1>6. SumOutcomes(payout) \in Int /\ SumOutcomes(payoutNumerators) \in Int /\ numTicks \in Int
  BY <1>1, <1>3, SumInt, BackedTypes
<1>7. \A s, t \in Int : s * t + (numTicks - t) * s = numTicks * s
  BY <1>6
<1>8. Liability = numTicks * supply[o]
  <2>1. Liability = supply[o] * SumOutcomes(payoutNumerators)
                        + (numTicks - SumOutcomes(payoutNumerators)) * supply[o]
    BY <1>2, <1>5 DEF Liability, Unassigned
  <2> QED
    BY <1>3, <1>6, <1>7, <2>1
<1>9. Liability' = numTicks * supply[o]
  <2>1. Liability' = supply[o] * SumOutcomes(payout)
                         + (numTicks - SumOutcomes(payout)) * supply[o]
    BY <1>2, <1>4, <1>5 DEF Liability, Unassigned
  <2> QED
    BY <1>3, <1>6, <1>7, <2>1
<1> QED
  BY <1>8, <1>9

\* What a payment, whoever receives it, takes from the market: nothing comes in,
\* and at most its sum goes out.
LEMMA PaidOutTakes ==
    ASSUME TypeOK, NEW spender \in Spenders, NEW to \in Accounts,
           NEW amount \in Nat, NEW fee \in Nat, CanPayOut(spender, to, amount, fee)
    PROVE  /\ PaidOut(to, amount, fee)[Market] <= cash[Market]
           /\ cash[Market] - PaidOut(to, amount, fee)[Market] <= amount + fee
<1> DEFINE first == Moved(cash, Market, to, amount)
<1>1. Market \in Accounts /\ Mailbox \in Accounts /\ Market # Mailbox
  BY TradingParameters DEF Accounts
<1>2. cash \in [Accounts -> Uint] /\ cash[Market] \in Int
  BY <1>1 DEF TypeOK, Uint
<1>3. CanMove(cash, Market, to, amount) /\ CanMove(first, Market, Mailbox, fee)
  BY DEF CanPayOut
<1>4. first \in [Accounts -> Uint] /\ first[Market] <= cash[Market]
  BY <1>1, <1>2, <1>3, MovedFacts
<1>5. Moved(first, Market, Mailbox, fee)[Market] = first[Market] - fee
      /\ first[Market] \in Int
  <2> HIDE DEF first
  <2> QED
    BY <1>1, <1>3, <1>4, MovedFacts DEF Uint
<1>6. PaidOut(to, amount, fee)[Market] = first[Market] - fee
  BY <1>5 DEF PaidOut
<1>7. PaidOut(to, amount, fee)[Market] >= cash[Market] - (amount + fee)
  BY PaidOutFacts
<1> HIDE DEF first
<1> QED
  BY <1>2, <1>4, <1>5, <1>6, <1>7

LEMMA VaultAtStart == Init => V!VaultInit
<1> SUFFICES ASSUME Init PROVE V!VaultInit
  OBVIOUS
<1>1. TypeOK
  BY InitType
<1>2. /\ payoutNumerators = [o \in Outcomes |-> 0]
      /\ supply = [o \in Outcomes |-> 0] /\ cash[Market] = 0 /\ stopped = FALSE
  BY TradingParameters DEF Init, Accounts
<1>3. payoutNumerators \in [Outcomes -> Int] /\ supply \in [Outcomes -> Int]
      /\ SumOutcomes(payoutNumerators) \in Int /\ Unassigned \in Int
  BY <1>1, <1>2, BackedTypes
<1>4. FewestShares = 0
  BY <1>1, <1>2, FewestSharesFacts
<1>5. Worth(supply, payoutNumerators) = 0
  <2>1. Worth(supply, payoutNumerators) = 0 * SumOutcomes(payoutNumerators)
    BY <1>2, <1>3, WorthOfSets, 0 \in Int
  <2> QED
    BY <1>3, <2>1
<1>6. Liability = 0
  BY <1>3, <1>4, <1>5 DEF Liability
<1> QED
  BY <1>2, <1>6 DEF V!VaultInit

\* A step that changes none of what the vault sees.
LEMMA VaultUntouched ==
    ASSUME UNCHANGED <<supply, payoutNumerators, stopped>>,
           cash'[Market] = cash[Market]
    PROVE  UNCHANGED V!vaultVars
<1>1. Liability' = Liability
  BY DEF Liability, Unassigned, FewestShares
<1> QED
  BY <1>1 DEF V!vaultVars

\* The market's balance is a number, and no user is the market.
LEMMA EscrowTypes ==
    ASSUME TypeOK, TypeOK'
    PROVE  /\ cash[Market] \in Int /\ cash'[Market] \in Int
           /\ Users \subseteq Accounts \ {Market} /\ Market \in Accounts
<1>1. Users \subseteq Accounts \ {Market} /\ Market \in Accounts
  BY TradingParameters DEF Accounts
<1>2. cash[Market] \in Uint /\ cash'[Market] \in Uint
  BY <1>1 DEF TypeOK
<1> QED
  BY <1>1, <1>2 DEF Uint

LEMMA BuyIssues ==
    ASSUME TypeOK, TypeOK', NEW u \in Users, NEW n \in Amounts, Buy(u, n)
    PROVE  V!Issue
<1> DEFINE cost == n * numTicks
<1>1. n \in Int /\ cost \in Nat
  BY SaleFacts
<1>2. /\ CanMove(cash, u, Market, cost) /\ cost >= 1
      /\ cash' = Moved(cash, u, Market, cost)
      /\ \A o \in Outcomes : supply'[o] = supply[o] + n
      /\ payoutNumerators' = payoutNumerators
      /\ ~stopped /\ stopped' = stopped
  BY DEF Buy, buyCompleteSets, resolutionVars, InGoodTimes
<1>3. /\ cash \in [Accounts -> Uint] /\ u \in Accounts /\ Market \in Accounts /\ u # Market
      /\ cash[Market] \in Int
  BY EscrowTypes DEF TypeOK
<1>4. Liability' = Liability + cost
  BY <1>1, <1>2, LiabilityAfterSets
<1>5. Liability \in Int
  BY <1>2, LiabilityTypes
<1> HIDE DEF cost
<1>6. cash'[Market] = cash[Market] + cost
  BY <1>1, <1>2, <1>3, MovedFacts
<1> QED
  BY <1>1, <1>2, <1>3, <1>4, <1>5, <1>6 DEF V!Issue

LEMMA SellRedeems ==
    ASSUME TypeOK, TypeOK', NEW u \in Users, NEW n \in Amounts, Sell(u, n)
    PROVE  V!Redeem
<1> DEFINE payout == n * numTicks
           fee == deriveMarketCreatorFeeAmount(payout)
<1>1. n \in Nat /\ payout \in Nat /\ fee \in Nat /\ payout - fee \in Nat
      /\ (payout - fee) + fee = payout
  BY SaleFacts
<1>2. /\ CanPayOut("CompleteSets", u, payout - fee, fee) /\ "CompleteSets" \in Spenders
      /\ cash' = PaidOut(u, payout - fee, fee)
      /\ supply' = [o \in Outcomes |-> supply[o] - n]
      /\ payoutNumerators' = payoutNumerators
      /\ ~stopped /\ stopped' = stopped
  BY DEF Sell, sellCompleteSets, CanRedeem, Spenders, resolutionVars, InGoodTimes
<1>3. Liability' = Liability + (-n) * numTicks
  <2>1. -n \in Int /\ \A o \in Outcomes : supply'[o] = supply[o] + (-n)
    BY <1>1, <1>2, BackedTypes
  <2> QED
    BY <1>2, <2>1, LiabilityAfterSets
<1>4. Liability' = Liability - payout
  <2>1. (-n) * numTicks = -(n * numTicks)
    BY <1>1, MarketParameters
  <2>2. Liability \in Int
    BY <1>2, LiabilityTypes
  <2> QED
    BY <1>1, <1>3, <2>1, <2>2
<1>5. Liability \in Int /\ cash[Market] \in Int /\ cash'[Market] \in Int /\ u \in Accounts
  BY <1>2, LiabilityTypes, EscrowTypes
<1> HIDE DEF payout, fee
<1>6. cash'[Market] <= cash[Market] /\ cash[Market] - cash'[Market] <= payout
  BY <1>1, <1>2, <1>5, PaidOutTakes
<1> QED
  BY <1>1, <1>2, <1>4, <1>5, <1>6 DEF V!Redeem

LEMMA ClaimRedeems ==
    ASSUME TypeOK, TypeOK', Unassigned >= 0, NEW h \in Accounts, Claim(h)
    PROVE  V!Redeem
<1> DEFINE proceeds == SumOutcomes(Proceeds(h))
           fee == SumOutcomes(CreatorShares(h))
           k == [o \in Outcomes |-> shares[o][h]]
<1>1. proceeds \in Nat /\ fee \in Nat /\ proceeds - fee \in Nat
      /\ (proceeds - fee) + fee = proceeds
      /\ proceeds = Worth(k, payoutNumerators)
  BY ClaimFacts
<1>2. /\ CanPayOut("ClaimTradingProceeds", h, proceeds - fee, fee)
      /\ "ClaimTradingProceeds" \in Spenders
      /\ cash' = PaidOut(h, proceeds - fee, fee)
      /\ supply' = [o \in Outcomes |-> supply[o] - shares[o][h]]
      /\ payoutNumerators' = payoutNumerators
      /\ ~stopped /\ stopped' = stopped
  BY DEF Claim, CanClaim, Spenders, resolutionVars, InGoodTimes
<1>3. k \in [Outcomes -> Nat] /\ \A o \in Outcomes : supply'[o] = supply[o] - k[o]
  BY <1>2, TradingParameters DEF TypeOK, Uint
<1> HIDE DEF proceeds, fee, k
<1>4. Liability' <= Liability - proceeds
  BY <1>1, <1>2, <1>3, LiabilityAfterClaim
<1>5. Liability \in Int /\ Liability' \in Int /\ cash[Market] \in Int /\ cash'[Market] \in Int
  BY <1>2, LiabilityTypes, EscrowTypes
<1>6. cash'[Market] <= cash[Market] /\ cash[Market] - cash'[Market] <= proceeds
  BY <1>1, <1>2, PaidOutTakes
<1> QED
  BY <1>1, <1>2, <1>4, <1>5, <1>6 DEF V!Redeem

\* Tokens that are given to the market, and calls it does not notice.
LEMMA QuietCallGives ==
    ASSUME TypeOK, TypeOK', QuietCall
    PROVE  V!Gift \/ UNCHANGED V!vaultVars
<1>1. /\ UNCHANGED <<stopped, payoutNumerators, supply>>
      /\ cash'[Market] >= cash[Market]
  BY QuietCallFacts
<1>2. cash[Market] \in Int /\ cash'[Market] \in Int
  BY TradingParameters DEF TypeOK, Accounts, Uint
<1>3. CASE cash'[Market] = cash[Market]
  BY <1>1, <1>3, VaultUntouched
<1>4. CASE cash'[Market] > cash[Market]
  <2>1. Liability' = Liability
    BY <1>1 DEF Liability, Unassigned, FewestShares
  <2> QED
    BY <1>1, <1>4, <2>1 DEF V!Gift
<1> QED
  BY <1>1, <1>2, <1>3, <1>4

\* Every call maps to a step of the vault or to none.
LEMMA VaultStep ==
    ASSUME IInv, IInv', [Next]_vars
    PROVE  [V!VaultNext]_(V!vaultVars)
<1>1. TypeOK /\ TypeOK' /\ Unassigned >= 0
  BY DEF IInv, Backed
<1>2. ASSUME NEW u \in Users, NEW n \in Amounts, Buy(u, n) \/ Sell(u, n)
      PROVE  V!VaultNext
  BY <1>1, <1>2, BuyIssues, SellRedeems DEF V!VaultNext
<1>3. ASSUME NEW h \in Accounts, Claim(h) PROVE V!VaultNext
  BY <1>1, <1>3, ClaimRedeems DEF V!VaultNext
<1>4. ASSUME NEW u \in Users, NEW p \in [Outcomes -> 0 .. numTicks], NEW i \in BOOLEAN,
             Resolve(u, p, i)
      PROVE  UNCHANGED V!vaultVars
  <2>1. /\ ~isResolved /\ payoutNumerators' = p
        /\ UNCHANGED <<supply, cash, stopped>>
    BY <1>4 DEF Resolve, ResolutionOpen, escrowVars
  <2>2. Liability' = Liability
    BY <2>1, LiabilityAfterResolve
  <2> QED
    BY <2>1, <2>2 DEF V!vaultVars
<1>5. QuietCall => V!VaultNext \/ UNCHANGED V!vaultVars
  BY <1>1, QuietCallGives DEF V!VaultNext
<1>6. CASE EmergencyStop
  <2>1. /\ ~stopped /\ stopped'
        /\ UNCHANGED <<supply, payoutNumerators, cash>>
    BY <1>6 DEF EmergencyStop, resolutionVars, escrowVars
  <2>2. Liability' = Liability
    BY <2>1 DEF Liability, Unassigned, FewestShares
  <2> QED
    BY <2>1, <2>2 DEF V!VaultNext, V!Close
<1>7. CASE UNCHANGED vars
  BY <1>7, VaultUntouched DEF vars, resolutionVars, escrowVars
<1> QED
  BY <1>1, <1>2, <1>3, <1>4, <1>5, <1>6, <1>7, CallsOfNext

\* A market is a vault, for any users, outcomes, ticks and fee: it issues shares
\* only against their full price, pays out only against shares that are given
\* up, resolves without changing what it owes, and does nothing after a stop.
THEOREM MarketImplementsVault == Spec => ImplementsVault
BY VaultAtStart, VaultStep, Inductive, PTL DEF Spec, ImplementsVault, V!VaultSpec

-----------------------------------------------------------------------------
(* Conservation *)

\* The accounts are finitely many, and balances are numbers.
LEMMA AccountsFinite ==
    /\ IsFiniteSet(Accounts)
    /\ Uint \subseteq Int
    /\ \A bal \in [Accounts -> Uint] : bal \in [Accounts -> Int]
<1>1. IsFiniteSet({Market, Mailbox})
  <2>1. IsFiniteSet({Market} \cup {Mailbox})
    BY FS_Singleton, FS_AddElement
  <2>2. {Market} \cup {Mailbox} = {Market, Mailbox}
    OBVIOUS
  <2> QED
    BY <2>1, <2>2
<1>2. IsFiniteSet(Accounts)
  BY <1>1, TradingParameters, FS_Union DEF Accounts
<1>3. Uint \subseteq Int
  BY DEF Uint
<1> QED
  BY <1>2, <1>3

\* So do the two payments of a sale or a claim.
LEMMA PaidOutKeepsTotal ==
    ASSUME TypeOK, NEW spender \in Spenders, NEW to \in Accounts,
           NEW amount \in Nat, NEW fee \in Nat, CanPayOut(spender, to, amount, fee)
    PROVE  Total(PaidOut(to, amount, fee), Accounts) = Total(cash, Accounts)
<1> DEFINE first == Moved(cash, Market, to, amount)
<1>1. Market \in Accounts /\ Mailbox \in Accounts /\ cash \in [Accounts -> Uint]
  BY DEF TypeOK, Accounts
<1>2. CanMove(cash, Market, to, amount) /\ CanMove(first, Market, Mailbox, fee)
  BY DEF CanPayOut
<1>3. first \in [Accounts -> Uint] /\ Total(first, Accounts) = Total(cash, Accounts)
  BY <1>1, <1>2, MovedFacts, MovedKeepsTotal, AccountsFinite
<1> HIDE DEF first
<1>4. Total(Moved(first, Market, Mailbox, fee), Accounts) = Total(first, Accounts)
  BY <1>1, <1>2, <1>3, MovedKeepsTotal, AccountsFinite
<1> QED
  BY <1>3, <1>4 DEF PaidOut, first

\* Conservation in terms of Total, as the calls preserve it.
CashConserved == Total(cash, Accounts) = Total(InitialCash, Users)
SharesConserved == \A o \in Outcomes : Total(shares[o], Accounts) = supply[o]

LEMMA ConservationIsTotal ==
    ASSUME TypeOK
    PROVE  Conservation <=> CashConserved /\ SharesConserved
<1>1. /\ cash \in [Accounts -> Int] /\ InitialCash \in [Users -> Int]
      /\ \A o \in Outcomes : shares[o] \in [Accounts -> Int]
  <2>1. InitialCash \in [Users -> Uint] /\ Uint \subseteq Int
    BY TradingParameters, AccountsFinite
  <2> QED
    BY <2>1, AccountsFinite DEF TypeOK
<1>2. /\ FoldFunction(+, 0, cash) = Total(cash, Accounts)
      /\ FoldFunction(+, 0, InitialCash) = Total(InitialCash, Users)
      /\ \A o \in Outcomes : FoldFunction(+, 0, shares[o]) = Total(shares[o], Accounts)
  BY <1>1, FoldIsTotal
<1> QED
  BY <1>2 DEF Conservation, CashConserved, SharesConserved

LEMMA ConservedAtStart == Init => CashConserved /\ SharesConserved
<1> SUFFICES ASSUME Init PROVE CashConserved /\ SharesConserved
  OBVIOUS
<1>1. TypeOK
  BY InitType
<1>2. /\ IsFiniteSet(Accounts) /\ IsFiniteSet(Users)
      /\ Market \in Accounts /\ Mailbox \in Accounts \ {Market}
      /\ (Accounts \ {Market}) \ {Mailbox} = Users
      /\ cash \in [Accounts -> Int]
  <2>1. IsFiniteSet(Accounts) /\ IsFiniteSet(Users)
    BY AccountsFinite, TradingParameters
  <2>2. /\ Market \in Accounts /\ Mailbox \in Accounts \ {Market}
        /\ (Accounts \ {Market}) \ {Mailbox} = Users
    BY TradingParameters DEF Accounts
  <2>3. cash \in [Accounts -> Int]
    BY <1>1, AccountsFinite DEF TypeOK
  <2> QED
    BY <2>1, <2>2, <2>3
<1>3. /\ cash[Market] = 0 /\ cash[Mailbox] = 0
      /\ \A u \in Users : cash[u] = InitialCash[u]
  BY TradingParameters DEF Init, Accounts
<1>4. CashConserved
  <2>1. Total(cash, Accounts) = cash[Market] + Total(cash, Accounts \ {Market})
    BY <1>2, TotalRemove
  <2>2. IsFiniteSet(Accounts \ {Market})
    BY <1>2, FS_RemoveElement
  <2>3. Total(cash, Accounts \ {Market}) = cash[Mailbox] + Total(cash, Users)
    BY <1>2, <2>2, TotalRemove
  <2>4. Total(cash, Users) = Total(InitialCash, Users)
    BY <1>2, <1>3, TotalSame
  <2>5. Total(cash, Users) \in Int
    <3>1. \A u \in Users : cash[u] \in Int
      BY <1>2
    <3> QED
      BY <1>2, <3>1, TotalInt
  <2> QED
    BY <1>3, <2>1, <2>3, <2>4, <2>5 DEF CashConserved
<1>5. SharesConserved
  <2>1. ASSUME NEW o \in Outcomes PROVE Total(shares[o], Accounts) = supply[o]
    <3>1. supply[o] = 0 /\ \A a \in Accounts : shares[o][a] = 0
      BY DEF Init
    <3> QED
      BY <1>2, <3>1, TotalZero
  <2> QED
    BY <2>1 DEF SharesConserved
<1> QED
  BY <1>4, <1>5

\* Shares of every outcome that one account gains or loses with the supply.
LEMMA SharesConservedAfter ==
    ASSUME TypeOK, TypeOK', SharesConserved, NEW a \in Accounts,
           NEW d \in [Outcomes -> Int],
           \A o \in Outcomes : shares'[o][a] = shares[o][a] + d[o],
           \A o \in Outcomes : \A b \in Accounts \ {a} : shares'[o][b] = shares[o][b],
           \A o \in Outcomes : supply'[o] = supply[o] + d[o]
    PROVE  SharesConserved'
<1>1. ASSUME NEW o \in Outcomes PROVE Total(shares'[o], Accounts) = supply'[o]
  <2>1. shares[o] \in [Accounts -> Uint] /\ shares'[o] \in [Accounts -> Uint]
    BY DEF TypeOK
  <2>2. shares[o] \in [Accounts -> Int] /\ shares'[o] \in [Accounts -> Int]
        /\ IsFiniteSet(Accounts)
    BY <2>1, AccountsFinite
  <2>3. Total(shares'[o], Accounts)
          = Total(shares[o], Accounts) + (shares'[o][a] - shares[o][a])
    BY <2>2, TotalUpdate
  <2>4. shares[o][a] \in Int /\ shares'[o][a] = shares[o][a] + d[o] /\ d[o] \in Int
    BY <2>2
  <2>5. Total(shares[o], Accounts) = supply[o]
    BY DEF SharesConserved
  <2> QED
    BY <2>3, <2>4, <2>5
<1> QED
  BY <1>1 DEF SharesConserved

\* Buying and selling complete sets, and claiming.
LEMMA BuyConserves ==
    ASSUME TypeOK, TypeOK', CashConserved, SharesConserved,
           NEW u \in Users, NEW n \in Amounts, Buy(u, n)
    PROVE  CashConserved' /\ SharesConserved'
<1>1. /\ n \in Nat /\ n * numTicks \in Nat
      /\ Market \in Accounts /\ u \in Accounts /\ cash \in [Accounts -> Uint]
  BY SaleFacts DEF Accounts, TypeOK
<1>2. CanMove(cash, u, Market, n * numTicks) /\ cash' = Moved(cash, u, Market, n * numTicks)
  BY DEF Buy, buyCompleteSets
<1>3. CashConserved'
  BY <1>1, <1>2, MovedKeepsTotal, AccountsFinite DEF CashConserved
<1> DEFINE d == [o \in Outcomes |-> n]
<1>4. /\ d \in [Outcomes -> Int]
      /\ \A o \in Outcomes : d[o] = n
  BY <1>1
<1>5. /\ \A o \in Outcomes : shares'[o][u] = shares[o][u] + n
      /\ \A o \in Outcomes : \A b \in Accounts \ {u} : shares'[o][b] = shares[o][b]
      /\ \A o \in Outcomes : supply'[o] = supply[o] + n
  BY <1>1 DEF Buy, buyCompleteSets, TypeOK
<1> HIDE DEF d
<1>6. SharesConserved'
  BY <1>1, <1>4, <1>5, SharesConservedAfter
<1> QED
  BY <1>3, <1>6

LEMMA SellConserves ==
    ASSUME TypeOK, TypeOK', CashConserved, SharesConserved,
           NEW u \in Users, NEW n \in Amounts, Sell(u, n)
    PROVE  CashConserved' /\ SharesConserved'
<1> DEFINE payout == n * numTicks
           fee == deriveMarketCreatorFeeAmount(payout)
<1>1. /\ n \in Nat /\ fee \in Nat /\ payout - fee \in Nat
      /\ u \in Accounts /\ "CompleteSets" \in Spenders
  BY SaleFacts DEF Accounts, Spenders
<1>2. /\ CanPayOut("CompleteSets", u, payout - fee, fee)
      /\ cash' = PaidOut(u, payout - fee, fee)
  BY DEF Sell, sellCompleteSets, CanRedeem
<1> HIDE DEF payout, fee
<1>3. CashConserved'
  BY <1>1, <1>2, PaidOutKeepsTotal DEF CashConserved
<1> DEFINE d == [o \in Outcomes |-> -n]
<1>4. /\ d \in [Outcomes -> Int]
      /\ \A o \in Outcomes : d[o] = -n
  BY <1>1
<1>5. /\ \A o \in Outcomes : shares'[o][u] = shares[o][u] - n
      /\ \A o \in Outcomes : \A b \in Accounts \ {u} : shares'[o][b] = shares[o][b]
      /\ \A o \in Outcomes : supply'[o] = supply[o] - n
  BY <1>1 DEF Sell, sellCompleteSets, CanRedeem, TypeOK
<1>6. \A o \in Outcomes : shares[o][u] \in Int /\ supply[o] \in Int
  BY <1>1 DEF TypeOK, Uint
<1> HIDE DEF d
<1>7. /\ \A o \in Outcomes : shares'[o][u] = shares[o][u] + d[o]
      /\ \A o \in Outcomes : supply'[o] = supply[o] + d[o]
  BY <1>1, <1>4, <1>5, <1>6
<1>8. SharesConserved'
  BY <1>1, <1>4, <1>5, <1>7, SharesConservedAfter
<1> QED
  BY <1>3, <1>8

LEMMA ClaimConserves ==
    ASSUME TypeOK, TypeOK', CashConserved, SharesConserved,
           NEW h \in Accounts, Claim(h)
    PROVE  CashConserved' /\ SharesConserved'
<1> DEFINE proceeds == SumOutcomes(Proceeds(h))
           fee == SumOutcomes(CreatorShares(h))
<1>1. fee \in Nat /\ proceeds - fee \in Nat /\ "ClaimTradingProceeds" \in Spenders
  BY ClaimFacts DEF Spenders
<1>2. /\ CanPayOut("ClaimTradingProceeds", h, proceeds - fee, fee)
      /\ cash' = PaidOut(h, proceeds - fee, fee)
  BY DEF Claim, CanClaim
<1> HIDE DEF proceeds, fee
<1>3. CashConserved'
  BY <1>1, <1>2, PaidOutKeepsTotal DEF CashConserved
<1> DEFINE d == [o \in Outcomes |-> -shares[o][h]]
<1>4. \A o \in Outcomes : shares[o][h] \in Int /\ supply[o] \in Int
  BY DEF TypeOK, Uint
<1>5. /\ d \in [Outcomes -> Int]
      /\ \A o \in Outcomes : d[o] = -shares[o][h]
  BY <1>4
<1>6. /\ \A o \in Outcomes : shares'[o][h] = 0
      /\ \A o \in Outcomes : \A b \in Accounts \ {h} : shares'[o][b] = shares[o][b]
      /\ \A o \in Outcomes : supply'[o] = supply[o] - shares[o][h]
  BY DEF Claim, CanClaim, TypeOK
<1> HIDE DEF d
<1>7. /\ \A o \in Outcomes : shares'[o][h] = shares[o][h] + d[o]
      /\ \A o \in Outcomes : supply'[o] = supply[o] + d[o]
  BY <1>4, <1>5, <1>6
<1>8. SharesConserved'
  BY <1>5, <1>6, <1>7, SharesConservedAfter
<1> QED
  BY <1>3, <1>8

\* Transfers, and calls that touch no balance.
LEMMA QuietCallConserves ==
    ASSUME TypeOK, CashConserved, SharesConserved, QuietCall
    PROVE  CashConserved' /\ SharesConserved'
<1>1. ASSUME UNCHANGED <<cash, shares, supply>>
      PROVE  CashConserved' /\ SharesConserved'
  BY <1>1 DEF CashConserved, SharesConserved
<1>2. Uint \subseteq Nat
  BY DEF Uint
<1>3. ASSUME NEW from \in Accounts, NEW to \in Accounts, NEW n \in Uint,
             TransferCash(from, to, n)
      PROVE  CashConserved' /\ SharesConserved'
  <2>1. /\ CanMove(cash, from, to, n) /\ cash' = Moved(cash, from, to, n)
        /\ UNCHANGED <<shares, supply>>
    BY <1>3 DEF TransferCash
  <2>2. cash \in [Accounts -> Uint] /\ n \in Nat
    BY <1>2 DEF TypeOK
  <2> QED
    BY <2>1, <2>2, MovedKeepsTotal, AccountsFinite DEF CashConserved, SharesConserved
<1>4. ASSUME NEW o \in Outcomes, NEW from \in Accounts, NEW to \in Accounts, NEW n \in Uint,
             TransferShares(o, from, to, n)
      PROVE  CashConserved' /\ SharesConserved'
  <2>1. /\ CanMove(shares[o], from, to, n)
        /\ shares' = [shares EXCEPT ![o] = Moved(@, from, to, n)]
        /\ UNCHANGED <<cash, supply>>
    BY <1>4 DEF TransferShares
  <2>2. shares \in [Outcomes -> [Accounts -> Uint]] /\ n \in Nat
    BY <1>2 DEF TypeOK
  <2>3. Total(Moved(shares[o], from, to, n), Accounts) = Total(shares[o], Accounts)
    BY <2>1, <2>2, MovedKeepsTotal, AccountsFinite
  <2>4. /\ shares'[o] = Moved(shares[o], from, to, n)
        /\ \A p \in Outcomes \ {o} : shares'[p] = shares[p]
    BY <2>1, <2>2
  <2> QED
    BY <2>1, <2>3, <2>4 DEF CashConserved, SharesConserved
<1>5. CASE /\ ~(\E from \in Accounts \ {Market}, to \in Accounts, n \in Uint :
                    TransferCash(from, to, n))
           /\ ~(\E o \in Outcomes, from \in Accounts, to \in Accounts, n \in Uint :
                    TransferShares(o, from, to, n))
  <2>1. UNCHANGED <<cash, shares, supply>>
    BY <1>5 DEF QuietCall, ApproveSpenders, ApproveAugur, TransferMailbox, NextBlock,
       SetTimestamp, escrowVars
  <2> QED
    BY <1>1, <2>1
<1> QED
  BY <1>3, <1>4, <1>5

LEMMA ConservedNext ==
    ASSUME TypeOK, TypeOK', CashConserved, SharesConserved, [Next]_vars
    PROVE  CashConserved' /\ SharesConserved'
<1>1. ASSUME NEW u \in Users, NEW n \in Amounts, Buy(u, n) \/ Sell(u, n)
      PROVE  CashConserved' /\ SharesConserved'
  BY <1>1, BuyConserves, SellConserves
<1>2. ASSUME NEW h \in Accounts, Claim(h)
      PROVE  CashConserved' /\ SharesConserved'
  BY <1>2, ClaimConserves
<1>3. ASSUME UNCHANGED <<cash, shares, supply>>
      PROVE  CashConserved' /\ SharesConserved'
  BY <1>3 DEF CashConserved, SharesConserved
<1>4. ASSUME NEW u \in Users, NEW p, NEW i, Resolve(u, p, i)
      PROVE  UNCHANGED <<cash, shares, supply>>
  BY <1>4 DEF Resolve, escrowVars
<1>5. EmergencyStop \/ UNCHANGED vars => UNCHANGED <<cash, shares, supply>>
  BY DEF EmergencyStop, vars, escrowVars
<1> QED
  BY <1>1, <1>2, <1>3, <1>4, <1>5, QuietCallConserves, CallsOfNext

\* However many users trade: no call on the market, its share tokens or the
\* denomination token creates or loses denomination tokens, and totalSupply of
\* a share token is always what its holders have.
THEOREM Conserved == Spec => []Conservation
<1>1. Init => TypeOK /\ CashConserved /\ SharesConserved
  BY InitType, ConservedAtStart
<1>2. /\ TypeOK /\ CashConserved /\ SharesConserved
      /\ [Next]_vars
      => (TypeOK /\ CashConserved /\ SharesConserved)'
  BY NextType, ConservedNext
<1>3. TypeOK /\ CashConserved /\ SharesConserved => Conservation
  BY ConservationIsTotal
<1> QED
  BY <1>1, <1>2, <1>3, PTL DEF Spec

-----------------------------------------------------------------------------
(* Sales and claims that cannot be blocked *)

\* What the accounts have is within the token's supply, which is a uint256, and
\* the shares of one holder within the supply of the share token.
LEMMA CashWithinSupply ==
    ASSUME TypeOK, CashConserved
    PROVE  /\ \A a \in Accounts : cash[a] \in Nat /\ cash[a] <= MaxUint
           /\ \A a, b \in Accounts : a # b => cash[a] + cash[b] <= MaxUint
<1>1. cash \in [Accounts -> Nat] /\ IsFiniteSet(Accounts)
      /\ \A a \in Accounts : cash[a] <= MaxUint
  BY AccountsFinite, Width DEF TypeOK, Uint
<1>2. Total(InitialCash, Users) <= MaxUint
  <2>1. InitialCash \in [Users -> Int]
    BY TradingParameters DEF Uint
  <2>2. FoldFunction(+, 0, InitialCash) = Total(InitialCash, Users)
    BY <2>1, FoldIsTotal
  <2> QED
    BY <2>2, InitialSupply
<1>3. Total(cash, Accounts) <= MaxUint
  BY <1>2 DEF CashConserved
<1>4. Total(cash, Accounts) \in Nat
  BY <1>1, TotalNat
<1>5. \A a, b \in Accounts : a # b => cash[a] + cash[b] <= Total(cash, Accounts)
  BY <1>1, WithinTotal
<1> QED
  BY <1>1, <1>3, <1>4, <1>5, Width

LEMMA SharesWithinSupply ==
    ASSUME TypeOK, SharesConserved
    PROVE  \A o \in Outcomes : \A a \in Accounts : shares[o][a] <= supply[o]
<1>1. ASSUME NEW o \in Outcomes PROVE \A a \in Accounts : shares[o][a] <= supply[o]
  <2>1. shares[o] \in [Accounts -> Nat] /\ IsFiniteSet(Accounts)
    BY AccountsFinite, Width DEF TypeOK, Uint
  <2>2. \A a \in Accounts : shares[o][a] <= Total(shares[o], Accounts)
    BY <2>1, WithinTotal
  <2> QED
    BY <2>2 DEF SharesConserved
<1> QED
  BY <1>1

\* The escrow and the allowance are all that a payment out of the market needs:
\* as cash is conserved, no recipient's balance can overflow.
LEMMA EnoughToPayOut ==
    ASSUME TypeOK, CashConserved, NEW spender \in Spenders, NEW to \in Accounts,
           NEW amount \in Nat, NEW fee \in Nat,
           cash[Market] >= amount + fee, marketAllowance[spender] >= amount + fee
    PROVE  CanPayOut(spender, to, amount, fee)
<1> DEFINE first == Moved(cash, Market, to, amount)
<1>1. /\ Market \in Accounts /\ Mailbox \in Accounts /\ Market # Mailbox
      /\ cash \in [Accounts -> Uint]
  BY TradingParameters DEF Accounts, TypeOK
<1>2. /\ \A a \in Accounts : cash[a] \in Nat /\ cash[a] <= MaxUint
      /\ \A a, b \in Accounts : a # b => cash[a] + cash[b] <= MaxUint
  BY CashWithinSupply
<1>3. CanMove(cash, Market, to, amount)
  BY <1>1, <1>2, Width DEF CanMove
<1>4. /\ first[Market] = IF to = Market THEN cash[Market] ELSE cash[Market] - amount
      /\ first[Mailbox] = IF to = Mailbox THEN cash[Mailbox] + amount ELSE cash[Mailbox]
  BY <1>1, <1>3, MovedFacts
<1>5. first[Market] >= fee /\ first[Mailbox] + fee <= MaxUint
  <2> HIDE DEF first
  <2>1. cash[Market] \in Nat /\ cash[Mailbox] \in Nat /\ cash[Mailbox] + cash[Market] <= MaxUint
    BY <1>1, <1>2
  <2> QED
    BY <1>4, <2>1, Width
<1>6. CanMove(first, Market, Mailbox, fee)
  BY <1>5 DEF CanMove
<1> QED
  BY <1>3, <1>6 DEF CanPayOut

\* The escrow covers the price of as many complete sets as there are shares of
\* every outcome, before and after any resolution.
LEMMA SetsCovered ==
    ASSUME IInv, NEW n \in Nat, \A o \in Outcomes : n <= supply[o]
    PROVE  n * numTicks <= cash[Market]
<1>1. PICK o \in Outcomes :
         cash[Market] >= Worth(supply, payoutNumerators) + Unassigned * supply[o]
  BY DEF IInv, Backed
<1>2. /\ cash[Market] \in Nat /\ supply \in [Outcomes -> Nat]
      /\ payoutNumerators \in [Outcomes -> Nat] /\ numTicks \in Nat
      /\ SumOutcomes(payoutNumerators) \in Nat /\ Worth(supply, payoutNumerators) \in Int
      /\ Unassigned \in Nat /\ Unassigned = numTicks - SumOutcomes(payoutNumerators)
  BY BackedTypes DEF IInv, Backed, Unassigned
<1> DEFINE sets == [i \in Outcomes |-> n * payoutNumerators[i]]
           all  == [i \in Outcomes |-> supply[i] * payoutNumerators[i]]
<1>3. SumOutcomes(sets) <= SumOutcomes(all)
  <2>1. \A a, b, c \in Nat : a <= b => a * c \in Int /\ b * c \in Int /\ a * c <= b * c
    OBVIOUS
  <2>2. \A i \in Outcomes : n * payoutNumerators[i] \in Int
                             /\ supply[i] * payoutNumerators[i] \in Int
                             /\ n * payoutNumerators[i] <= supply[i] * payoutNumerators[i]
    BY <1>2, <2>1
  <2>3. /\ sets \in [Outcomes -> Int] /\ all \in [Outcomes -> Int]
        /\ \A i \in Outcomes : sets[i] <= all[i]
    BY <2>2
  <2> HIDE DEF sets, all
  <2> QED
    BY <2>3, SumMonotone
<1>4. SumOutcomes(sets) = n * SumOutcomes(payoutNumerators)
  <2>1. /\ sets \in [Outcomes -> Int] /\ payoutNumerators \in [Outcomes -> Int] /\ n \in Int
        /\ \A i \in Outcomes : sets[i] = n * payoutNumerators[i]
    BY <1>2
  <2> HIDE DEF sets
  <2> QED
    BY <2>1, SumScale
<1>5. Worth(supply, payoutNumerators) >= n * SumOutcomes(payoutNumerators)
  BY <1>3, <1>4 DEF Worth
<1>6. Unassigned * supply[o] >= Unassigned * n
  <2>1. \A a, b, c \in Nat : a <= b => c * a <= c * b
    OBVIOUS
  <2> QED
    BY <1>2, <2>1
<1>7. n * SumOutcomes(payoutNumerators) + Unassigned * n = n * numTicks
  <2>1. \A s, t \in Int : n * s + (t - s) * n = n * t
    OBVIOUS
  <2> QED
    BY <1>2, <2>1
<1>8. /\ n * SumOutcomes(payoutNumerators) \in Int /\ Unassigned * n \in Int
      /\ Unassigned * supply[o] \in Int
  <2>1. \A a, b \in Int : a * b \in Int
    OBVIOUS
  <2> QED
    BY <1>2, <2>1
<1> QED
  BY <1>1, <1>2, <1>5, <1>6, <1>7, <1>8

LEMMA SaleNotBlocked == IInv /\ CashConserved /\ SharesConserved => SellNeverBlocked
<1> SUFFICES ASSUME IInv, CashConserved, SharesConserved, NEW u \in Users, NEW n \in Amounts,
                    ~stopped, \A o \in Outcomes : shares[o][u] >= n,
                    marketAllowance["CompleteSets"] >= n * numTicks
             PROVE  CanSell(u, n)
  BY DEF SellNeverBlocked
<1> DEFINE payout == n * numTicks
           fee == deriveMarketCreatorFeeAmount(payout)
<1>1. /\ TypeOK /\ u \in Accounts /\ Market \in Accounts /\ "CompleteSets" \in Spenders
      /\ n \in Nat /\ payout \in Nat /\ fee \in Nat /\ payout - fee \in Nat
      /\ (payout - fee) + fee = payout
  BY SaleFacts DEF IInv, Accounts, Spenders
<1>2. \A o \in Outcomes : n <= supply[o]
  <2>1. \A o \in Outcomes : shares[o][u] \in Int /\ supply[o] \in Int
    BY <1>1 DEF TypeOK, Uint
  <2>2. \A o \in Outcomes : shares[o][u] <= supply[o]
    BY <1>1, SharesWithinSupply
  <2> QED
    BY <1>1, <2>1, <2>2
<1>3. payout <= cash[Market]
  BY <1>1, <1>2, SetsCovered
<1>4. payout <= MaxUint
  BY <1>1, <1>3, CashWithinSupply, Width
<1>5. CanPayOut("CompleteSets", u, payout - fee, fee)
  <2> HIDE DEF payout, fee
  <2>1. marketAllowance["CompleteSets"] >= payout
    BY DEF payout
  <2> QED
    BY <1>1, <1>3, <2>1, EnoughToPayOut
<1>6. \A o \in Outcomes : shares[o][u] >= n /\ supply[o] >= n
  BY <1>2
<1> QED
  BY <1>3, <1>4, <1>5, <1>6 DEF CanSell, CanRedeem, InGoodTimes

LEMMA IInvNext == IInv /\ CashConserved /\ SharesConserved /\ [Next]_vars
                      => (IInv /\ CashConserved /\ SharesConserved)'
<1>1. IInv => TypeOK
  BY DEF IInv
<1> QED
  BY <1>1, NextInv, NextType, ConservedNext

\* What a call may rely on: the invariant and the conservation of all tokens.
LEMMA Accounted == Spec => [](IInv /\ CashConserved /\ SharesConserved)
BY InitInv, ConservedAtStart, IInvNext, PTL DEF Spec

\* Nobody can lock in the owner of complete sets: whatever was bought, sold,
\* claimed, transferred, donated or reported before, the sale goes through for
\* the full numTicks a set, and neither escrow nor arithmetic stands in its way.
THEOREM SalesGoThrough == Spec => []SellNeverBlocked
BY Accounted, SaleNotBlocked, PTL

\* The escrow covers what all shares of a holder are worth at the resolution.
LEMMA ProceedsCovered ==
    ASSUME IInv, SharesConserved, NEW h \in Accounts
    PROVE  /\ SumOutcomes(Proceeds(h)) <= cash[Market]
           /\ Proceeds(h) \in [Outcomes -> Nat]
           /\ \A o \in Outcomes : Proceeds(h)[o] <= SumOutcomes(Proceeds(h))
           /\ \A o \in Outcomes : shares[o][h] \in Nat /\ shares[o][h] <= supply[o]
<1>1. PICK o \in Outcomes :
         cash[Market] >= Worth(supply, payoutNumerators) + Unassigned * supply[o]
  BY DEF IInv, Backed
<1>2. /\ TypeOK /\ cash[Market] \in Nat /\ supply \in [Outcomes -> Nat]
      /\ payoutNumerators \in [Outcomes -> Nat]
      /\ Worth(supply, payoutNumerators) \in Int /\ Unassigned \in Nat
  BY BackedTypes DEF IInv, Backed
<1>3. \A i \in Outcomes : shares[i][h] \in Nat /\ shares[i][h] <= supply[i]
  BY <1>2, SharesWithinSupply DEF TypeOK, Uint
<1>4. \A a, b, c \in Nat : a <= b => a * c \in Nat /\ b * c \in Nat /\ a * c <= b * c
  OBVIOUS
<1>5. Proceeds(h) \in [Outcomes -> Nat]
  BY <1>2, <1>3, <1>4 DEF Proceeds
<1> DEFINE all == [i \in Outcomes |-> supply[i] * payoutNumerators[i]]
<1>6. SumOutcomes(Proceeds(h)) <= SumOutcomes(all)
  <2>1. \A i \in Outcomes : Proceeds(h)[i] = shares[i][h] * payoutNumerators[i]
    BY DEF Proceeds
  <2>2. all \in [Outcomes -> Int] /\ \A i \in Outcomes : Proceeds(h)[i] <= all[i]
    BY <1>2, <1>3, <1>4, <2>1
  <2>3. Proceeds(h) \in [Outcomes -> Int]
    BY <1>5
  <2> HIDE DEF all
  <2> QED
    BY <2>2, <2>3, SumMonotone
<1>7. Unassigned * supply[o] \in Nat
  BY <1>2, <1>4
<1>8. SumOutcomes(Proceeds(h)) \in Nat
      /\ \A i \in Outcomes : Proceeds(h)[i] <= SumOutcomes(Proceeds(h))
  BY <1>5, SumNat
<1>9. SumOutcomes(Proceeds(h)) <= cash[Market]
  <2> HIDE DEF all
  <2>1. SumOutcomes(all) = Worth(supply, payoutNumerators)
    BY DEF Worth, all
  <2> QED
    BY <1>1, <1>2, <1>6, <1>7, <1>8, <2>1
<1> QED
  BY <1>3, <1>5, <1>8, <1>9

\* A claim pays from the escrow what the escrow covers.
LEMMA ClaimCanPay ==
    ASSUME IInv, CashConserved, SharesConserved, NEW h \in Accounts,
           marketAllowance["ClaimTradingProceeds"] >= SumOutcomes(Proceeds(h))
    PROVE  LET proceeds == SumOutcomes(Proceeds(h))
               fee      == SumOutcomes(CreatorShares(h))
           IN  /\ \A o \in Outcomes : Proceeds(h)[o] <= MaxUint
               /\ \A o \in Outcomes : supply[o] >= shares[o][h]
               /\ CanPayOut("ClaimTradingProceeds", h, proceeds - fee, fee)
<1> DEFINE proceeds == SumOutcomes(Proceeds(h))
           fee      == SumOutcomes(CreatorShares(h))
<1>1. /\ TypeOK /\ Market \in Accounts /\ "ClaimTradingProceeds" \in Spenders
      /\ fee \in Nat /\ proceeds - fee \in Nat /\ proceeds \in Nat
      /\ (proceeds - fee) + fee = proceeds
  BY ClaimFacts DEF IInv, Accounts, Spenders
<1>2. /\ proceeds <= cash[Market] /\ Proceeds(h) \in [Outcomes -> Nat]
      /\ \A o \in Outcomes : Proceeds(h)[o] <= proceeds
      /\ \A o \in Outcomes : shares[o][h] \in Nat /\ shares[o][h] <= supply[o]
  BY ProceedsCovered
<1>3. marketAllowance["ClaimTradingProceeds"] >= proceeds
  OBVIOUS
<1> HIDE DEF proceeds, fee
<1>4. cash[Market] \in Nat /\ cash[Market] <= MaxUint
  BY <1>1, CashWithinSupply
<1>5. \A o \in Outcomes : Proceeds(h)[o] <= MaxUint
  BY <1>1, <1>2, <1>4, Width
<1>6. \A o \in Outcomes : supply[o] >= shares[o][h]
  BY <1>1, <1>2 DEF TypeOK, Uint
<1>7. CanPayOut("ClaimTradingProceeds", h, proceeds - fee, fee)
  BY <1>1, <1>2, <1>3, EnoughToPayOut
<1> QED
  BY <1>5, <1>6, <1>7 DEF proceeds, fee

LEMMA ClaimNotBlocked == IInv /\ CashConserved /\ SharesConserved => ClaimNeverBlocked
<1> SUFFICES ASSUME IInv, CashConserved, SharesConserved, NEW h \in Accounts \ {Market},
                    ~stopped, isResolved, now > resolutionTime,
                    marketAllowance["ClaimTradingProceeds"] >= SumOutcomes(Proceeds(h))
             PROVE  CanClaim(h)
  BY DEF ClaimNeverBlocked
<1>1. LoggedBalanceFits(h)
  BY DEF LoggedBalanceFits
<1> QED
  BY <1>1, ClaimCanPay DEF CanClaim, ClaimOpen, InGoodTimes

\* A claim for any holder but the market itself goes through from the block after
\* the resolution on: what others sold, claimed or donated cannot block it.
THEOREM ClaimsGoThrough == Spec => []ClaimNeverBlocked
BY Accounted, ClaimNotBlocked, PTL

-----------------------------------------------------------------------------
(* The loop of a claim *)

\* The sum of f over the outcomes before k.
Upto(f, k) == SumOutcomes([i \in Outcomes |-> IF i < k THEN f[i] ELSE 0])

LEMMA UptoSteps ==
    ASSUME NEW f \in [Outcomes -> Int]
    PROVE  /\ Upto(f, 0) = 0
           /\ Upto(f, numOutcomes) = SumOutcomes(f)
           /\ \A k \in Outcomes : Upto(f, k + 1) = Upto(f, k) + f[k]
           /\ \A k \in Nat : Upto(f, k) \in Int
<1> DEFINE Part(k) == [i \in Outcomes |-> IF i < k THEN f[i] ELSE 0]
<1>1. \A k \in Nat : Part(k) \in [Outcomes -> Int]
  OBVIOUS
<1>2. Upto(f, 0) = 0
  <2>1. Part(0) \in [Outcomes -> Int] /\ \A o \in Outcomes : Part(0)[o] = 0
    BY OutcomesAreSmall
  <2>2. SumOutcomes(Part(0)) = numOutcomes * 0
    <3> HIDE DEF Part
    <3> QED
      BY <2>1, SumConstant
  <2> QED
    BY <2>2, MarketParameters DEF Upto
<1>3. Upto(f, numOutcomes) = SumOutcomes(f)
  <2>1. Part(numOutcomes) = f
    BY MarketParameters DEF Outcomes
  <2> QED
    BY <2>1 DEF Upto
<1>4. ASSUME NEW k \in Outcomes
      PROVE  Upto(f, k + 1) = Upto(f, k) + f[k]
  <2> DEFINE single == [i \in Outcomes |-> IF i = k THEN f[k] ELSE 0]
  <2>1. /\ Part(k + 1) \in [Outcomes -> Int] /\ Part(k) \in [Outcomes -> Int]
        /\ single \in [Outcomes -> Int]
        /\ \A i \in Outcomes : Part(k + 1)[i] = Part(k)[i] + single[i]
    BY OutcomesAreSmall
  <2>2. \A i \in 0 .. 7 : At(single, i) = IF i = k THEN f[k] ELSE 0
    BY DEF At
  <2>3. k \in 0 .. 7 /\ f[k] \in Int
    BY OutcomesAreSmall
  <2> HIDE DEF single, Part
  <2>4. SumOutcomes(single) = f[k]
    BY <2>2, <2>3 DEF SumOutcomes
  <2>5. SumOutcomes(Part(k + 1)) = SumOutcomes(Part(k)) + SumOutcomes(single)
    BY <2>1, SumAdd
  <2> QED
    BY <2>4, <2>5 DEF Upto, Part
<1>5. ASSUME NEW k \in Nat PROVE Upto(f, k) \in Int
  BY <1>1, SumInt DEF Upto
<1> QED
  BY <1>2, <1>3, <1>4, <1>5

\* What the loop has added up so far is a part of the whole.
LEMMA UptoBounds ==
    ASSUME NEW f \in [Outcomes -> Nat], NEW k \in Outcomes
    PROVE  /\ Upto(f, k) \in Nat
           /\ Upto(f, k) + f[k] <= SumOutcomes(f)
<1>1. f \in [Outcomes -> Int] /\ k \in Nat /\ k + 1 \in Nat
  BY OutcomesAreSmall
<1> DEFINE Part(n) == [i \in Outcomes |-> IF i < n THEN f[i] ELSE 0]
<1>2. Part(k) \in [Outcomes -> Nat] /\ Part(k + 1) \in [Outcomes -> Int]
      /\ \A i \in Outcomes : Part(k + 1)[i] <= f[i]
  OBVIOUS
<1>3. SumOutcomes(Part(k)) \in Nat /\ SumOutcomes(Part(k + 1)) <= SumOutcomes(f)
  <2> HIDE DEF Part
  <2> QED
    BY <1>1, <1>2, SumNat, SumMonotone
<1>4. Upto(f, k) \in Nat /\ Upto(f, k + 1) <= SumOutcomes(f)
  BY <1>3 DEF Upto
<1>5. Upto(f, k + 1) = Upto(f, k) + f[k]
  BY <1>1, UptoSteps
<1> QED
  BY <1>4, <1>5

\* The part of an outcome's proceeds that the holder keeps.
Kept(h) == [o \in Outcomes |-> Proceeds(h)[o] - CreatorShares(h)[o]]

ClaimAllowance == marketAllowance["ClaimTradingProceeds"]

\* The state after k iterations in closed form: balances by the partial sums of
\* what was paid, and shares and supplies of the outcomes before k.
CashAfter(h, k) ==
    [a \in Accounts |->
        cash[a] - (IF a = Market THEN Upto(Proceeds(h), k) ELSE 0)
                + (IF a = h THEN Upto(Kept(h), k) ELSE 0)
                + (IF a = Mailbox THEN Upto(CreatorShares(h), k) ELSE 0)]

Passes(h, o) ==
    LET paid == Moved(CashAfter(h, o), Market, h, Kept(h)[o])
        left == ClaimAllowance - Upto(Proceeds(h), o)
    IN  /\ Proceeds(h)[o] <= MaxUint
        /\ shares[o][h] > 0 => /\ supply[o] >= shares[o][h]
                               /\ CashAfter(h, o)[h] + Kept(h)[o] <= MaxUint
        /\ Kept(h)[o] > 0 => /\ CanMove(CashAfter(h, o), Market, h, Kept(h)[o])
                             /\ left >= Kept(h)[o]
        /\ CreatorShares(h)[o] > 0 =>
               /\ CanMove(paid, Market, Mailbox, CreatorShares(h)[o])
               /\ left - Kept(h)[o] >= CreatorShares(h)[o]

SharesAfter(h, k) ==
    [o \in Outcomes |-> [a \in Accounts |-> IF a = h /\ o < k THEN 0 ELSE shares[o][a]]]

SupplyAfter(h, k) ==
    [o \in Outcomes |-> IF o < k THEN supply[o] - shares[o][h] ELSE supply[o]]

After(h, k) ==
    [ok        |-> \A o \in Outcomes : o < k => Passes(h, o),
     cash      |-> CashAfter(h, k),
     allowance |-> ClaimAllowance - Upto(Proceeds(h), k),
     shares    |-> SharesAfter(h, k),
     supply    |-> SupplyAfter(h, k)]

\* The numbers of the loop.
LEMMA LoopTypes ==
    ASSUME TypeOK, NEW h \in Accounts
    PROVE  /\ Proceeds(h) \in [Outcomes -> Nat]
           /\ CreatorShares(h) \in [Outcomes -> Nat]
           /\ Kept(h) \in [Outcomes -> Nat]
           /\ \A o \in Outcomes : Proceeds(h)[o] = Kept(h)[o] + CreatorShares(h)[o]
           /\ \A o \in Outcomes : shares[o][h] \in Nat /\ supply[o] \in Nat
           /\ cash \in [Accounts -> Nat]
           /\ ClaimAllowance \in Nat
           /\ Market \in Accounts /\ Mailbox \in Accounts
<1>1. /\ \A o \in Outcomes : shares[o][h] \in Nat /\ supply[o] \in Nat
      /\ payoutNumerators \in [Outcomes -> Nat]
      /\ cash \in [Accounts -> Nat] /\ ClaimAllowance \in Nat
      /\ Market \in Accounts /\ Mailbox \in Accounts
  BY MarketParameters DEF TypeOK, Uint, ClaimAllowance, Spenders, Accounts
<1>2. Proceeds(h) \in [Outcomes -> Nat]
  <2>1. \A a, b \in Nat : a * b \in Nat
    OBVIOUS
  <2> QED
    BY <1>1, <2>1 DEF Proceeds
<1>3. \A o \in Outcomes : CreatorShares(h)[o] \in 0 .. Proceeds(h)[o]
  <2>1. ASSUME NEW o \in Outcomes
        PROVE  deriveMarketCreatorFeeAmount(Proceeds(h)[o]) \in 0 .. Proceeds(h)[o]
    BY <1>2, FeeWithinAmount
  <2> QED
    BY <2>1 DEF CreatorShares
<1>4. CreatorShares(h) \in [Outcomes -> Nat]
  <2>1. CreatorShares(h) = [o \in Outcomes |-> CreatorShares(h)[o]]
    BY DEF CreatorShares
  <2> QED
    BY <1>2, <1>3, <2>1
<1>5. /\ Kept(h) \in [Outcomes -> Nat]
      /\ \A o \in Outcomes : Proceeds(h)[o] = Kept(h)[o] + CreatorShares(h)[o]
  BY <1>2, <1>3 DEF Kept
<1> QED
  BY <1>1, <1>2, <1>4, <1>5

LEMMA AfterStart ==
    ASSUME TypeOK, NEW h \in Accounts
    PROVE  After(h, 0) = LoopStart
<1>1. /\ Upto(Proceeds(h), 0) = 0 /\ Upto(Kept(h), 0) = 0 /\ Upto(CreatorShares(h), 0) = 0
      /\ cash \in [Accounts -> Nat] /\ ClaimAllowance \in Nat
  <2>1. /\ Proceeds(h) \in [Outcomes -> Int] /\ Kept(h) \in [Outcomes -> Int]
        /\ CreatorShares(h) \in [Outcomes -> Int]
    BY LoopTypes
  <2> QED
    BY <2>1, LoopTypes, UptoSteps
<1>2. CashAfter(h, 0) = cash
  BY <1>1 DEF CashAfter
<1>3. SharesAfter(h, 0) = shares /\ SupplyAfter(h, 0) = supply
  <2>1. \A o \in Outcomes : ~(o < 0)
    BY OutcomesAreSmall
  <2>2. shares \in [Outcomes -> [Accounts -> Uint]] /\ supply \in [Outcomes -> Uint]
    BY DEF TypeOK
  <2> QED
    BY <2>1, <2>2 DEF SharesAfter, SupplyAfter
<1>4. (\A o \in Outcomes : o < 0 => Passes(h, o)) = TRUE
  <2>1. \A o \in Outcomes : ~(o < 0)
    BY OutcomesAreSmall
  <2> QED
    BY <2>1
<1>5. ClaimAllowance - Upto(Proceeds(h), 0) = marketAllowance["ClaimTradingProceeds"]
  BY <1>1 DEF ClaimAllowance
<1> QED
  BY <1>2, <1>3, <1>4, <1>5 DEF After, LoopStart

\* What an iteration adds to the sums of the closed form.
LEMMA AfterSums ==
    ASSUME TypeOK, NEW h \in Accounts, NEW o \in Outcomes
    PROVE  /\ o \in Nat /\ Proceeds(h)[o] \in Int /\ Kept(h)[o] \in Int
           /\ CreatorShares(h)[o] \in Int
           /\ Proceeds(h)[o] = Kept(h)[o] + CreatorShares(h)[o]
           /\ Kept(h)[o] = Proceeds(h)[o] - CreatorShares(h)[o]
           /\ cash \in [Accounts -> Int]
           /\ Market \in Accounts /\ Mailbox \in Accounts
           /\ Upto(Proceeds(h), o + 1) = Upto(Proceeds(h), o) + Proceeds(h)[o]
           /\ Upto(Kept(h), o + 1) = Upto(Kept(h), o) + Kept(h)[o]
           /\ Upto(CreatorShares(h), o + 1) = Upto(CreatorShares(h), o) + CreatorShares(h)[o]
           /\ Upto(Proceeds(h), o) \in Int /\ Upto(Kept(h), o) \in Int
           /\ Upto(CreatorShares(h), o) \in Int /\ ClaimAllowance \in Int
<1>1. /\ o \in Nat /\ Proceeds(h)[o] \in Int /\ Kept(h)[o] \in Int
      /\ CreatorShares(h)[o] \in Int
      /\ Proceeds(h)[o] = Kept(h)[o] + CreatorShares(h)[o]
      /\ Kept(h)[o] = Proceeds(h)[o] - CreatorShares(h)[o]
      /\ cash \in [Accounts -> Int]
      /\ Market \in Accounts /\ Mailbox \in Accounts
  <2>1. /\ Proceeds(h)[o] \in Nat /\ Kept(h)[o] \in Nat /\ CreatorShares(h)[o] \in Nat
        /\ Proceeds(h)[o] = Kept(h)[o] + CreatorShares(h)[o]
        /\ Market \in Accounts /\ Mailbox \in Accounts
    BY LoopTypes
  <2>2. o \in Nat
    BY OutcomesAreSmall
  <2>3. cash \in [Accounts -> Int]
    BY LoopTypes
  <2>4. /\ Proceeds(h)[o] \in Int /\ Kept(h)[o] \in Int /\ CreatorShares(h)[o] \in Int
        /\ Kept(h)[o] = Proceeds(h)[o] - CreatorShares(h)[o]
    BY <2>1
  <2> QED
    BY <2>1, <2>2, <2>3, <2>4
<1>2. /\ Upto(Proceeds(h), o + 1) = Upto(Proceeds(h), o) + Proceeds(h)[o]
      /\ Upto(Kept(h), o + 1) = Upto(Kept(h), o) + Kept(h)[o]
      /\ Upto(CreatorShares(h), o + 1) = Upto(CreatorShares(h), o) + CreatorShares(h)[o]
      /\ Upto(Proceeds(h), o) \in Int /\ Upto(Kept(h), o) \in Int
      /\ Upto(CreatorShares(h), o) \in Int /\ ClaimAllowance \in Int
  <2>1. /\ Proceeds(h) \in [Outcomes -> Int] /\ Kept(h) \in [Outcomes -> Int]
        /\ CreatorShares(h) \in [Outcomes -> Int]
    BY LoopTypes
  <2> QED
    BY <1>1, <2>1, LoopTypes, UptoSteps
<1> QED
  BY <1>1, <1>2

\* Its two transfers are those of the closed form.
LEMMA CashAfterStep ==
    ASSUME TypeOK, NEW h \in Accounts, NEW o \in Outcomes
    PROVE  CashAfter(h, o + 1)
               = Moved(Moved(CashAfter(h, o), Market, h, Kept(h)[o]),
                       Market, Mailbox, CreatorShares(h)[o])
<1> DEFINE paid == Moved(CashAfter(h, o), Market, h, Kept(h)[o])
<1>1. CashAfter(h, o) \in [Accounts -> Int]
  <2>1. /\ Proceeds(h)[o] \in Int /\ Kept(h)[o] \in Int /\ CreatorShares(h)[o] \in Int
        /\ Upto(Proceeds(h), o + 1) = Upto(Proceeds(h), o) + Proceeds(h)[o]
        /\ Upto(Kept(h), o + 1) = Upto(Kept(h), o) + Kept(h)[o]
        /\ Upto(CreatorShares(h), o + 1) = Upto(CreatorShares(h), o) + CreatorShares(h)[o]
        /\ Upto(Proceeds(h), o) \in Int /\ Upto(Kept(h), o) \in Int
        /\ Upto(CreatorShares(h), o) \in Int
        /\ cash \in [Accounts -> Int]
    BY AfterSums
  <2> QED
    BY <2>1 DEF CashAfter
<1>2. paid \in [Accounts -> Int]
      /\ \A a \in Accounts :
             paid[a] = CashAfter(h, o)[a] - (IF a = Market THEN Kept(h)[o] ELSE 0)
                                          + (IF a = h THEN Kept(h)[o] ELSE 0)
  BY AfterSums, <1>1 DEF Moved
<1> HIDE DEF paid
<1>3. /\ Moved(paid, Market, Mailbox, CreatorShares(h)[o]) \in [Accounts -> Int]
      /\ \A a \in Accounts :
             Moved(paid, Market, Mailbox, CreatorShares(h)[o])[a]
                 = paid[a] - (IF a = Market THEN CreatorShares(h)[o] ELSE 0)
                           + (IF a = Mailbox THEN CreatorShares(h)[o] ELSE 0)
  BY AfterSums, <1>2 DEF Moved
<1>4. /\ CashAfter(h, o + 1) \in [Accounts -> Int]
      /\ \A a \in Accounts :
             CashAfter(h, o + 1)[a]
                 = CashAfter(h, o)[a] - (IF a = Market THEN Proceeds(h)[o] ELSE 0)
                                      + (IF a = h THEN Kept(h)[o] ELSE 0)
                                      + (IF a = Mailbox THEN CreatorShares(h)[o] ELSE 0)
  <2>1. /\ Proceeds(h)[o] \in Int /\ Kept(h)[o] \in Int /\ CreatorShares(h)[o] \in Int
        /\ Upto(Proceeds(h), o + 1) = Upto(Proceeds(h), o) + Proceeds(h)[o]
        /\ Upto(Kept(h), o + 1) = Upto(Kept(h), o) + Kept(h)[o]
        /\ Upto(CreatorShares(h), o + 1) = Upto(CreatorShares(h), o) + CreatorShares(h)[o]
        /\ Upto(Proceeds(h), o) \in Int /\ Upto(Kept(h), o) \in Int
        /\ Upto(CreatorShares(h), o) \in Int
        /\ cash \in [Accounts -> Int]
    BY AfterSums
  <2> QED
    BY <2>1 DEF CashAfter
<1>5. \A a \in Accounts : CashAfter(h, o + 1)[a]
                            = Moved(paid, Market, Mailbox, CreatorShares(h)[o])[a]
  BY AfterSums, <1>1, <1>2, <1>3, <1>4
<1> QED
  BY <1>3, <1>4, <1>5 DEF paid

\* An iteration of the loop is a step of the closed form.
LEMMA AfterStep ==
    ASSUME TypeOK, NEW h \in Accounts, NEW o \in Outcomes
    PROVE  After(h, o + 1) = Iteration(After(h, o), h, o)
<1>1. /\ o \in Nat /\ Proceeds(h)[o] \in Int /\ Kept(h)[o] \in Int
      /\ CreatorShares(h)[o] \in Int
      /\ Proceeds(h)[o] = Kept(h)[o] + CreatorShares(h)[o]
      /\ Kept(h)[o] = Proceeds(h)[o] - CreatorShares(h)[o]
      /\ cash \in [Accounts -> Int]
      /\ Market \in Accounts /\ Mailbox \in Accounts
  BY AfterSums
<1>2. /\ Upto(Proceeds(h), o + 1) = Upto(Proceeds(h), o) + Proceeds(h)[o]
      /\ Upto(Kept(h), o + 1) = Upto(Kept(h), o) + Kept(h)[o]
      /\ Upto(CreatorShares(h), o + 1) = Upto(CreatorShares(h), o) + CreatorShares(h)[o]
      /\ Upto(Proceeds(h), o) \in Int /\ Upto(Kept(h), o) \in Int
      /\ Upto(CreatorShares(h), o) \in Int /\ ClaimAllowance \in Int
  BY AfterSums
<1>3. /\ SharesAfter(h, o)[o][h] = shares[o][h]
      /\ SupplyAfter(h, o)[o] = supply[o]
      /\ shares[o][h] * payoutNumerators[o] = Proceeds(h)[o]
      /\ deriveMarketCreatorFeeAmount(Proceeds(h)[o]) = CreatorShares(h)[o]
  BY <1>1 DEF SharesAfter, SupplyAfter, Proceeds, CreatorShares
<1> DEFINE paid == Moved(CashAfter(h, o), Market, h, Kept(h)[o])
<1>4. CashAfter(h, o + 1) = Moved(paid, Market, Mailbox, CreatorShares(h)[o])
  BY CashAfterStep
<1>5. ClaimAllowance - Upto(Proceeds(h), o + 1)
          = (ClaimAllowance - Upto(Proceeds(h), o)) - Proceeds(h)[o]
  BY <1>1, <1>2
<1>6. \A p \in Outcomes : p < o + 1 <=> p < o \/ p = o
  BY <1>1, OutcomesAreSmall
<1>7. SharesAfter(h, o + 1) = [SharesAfter(h, o) EXCEPT ![o][h] = 0]
  <2> DEFINE Row(k, p) == [a \in Accounts |-> IF a = h /\ p < k THEN 0 ELSE shares[p][a]]
  <2>1. \A k : SharesAfter(h, k) = [p \in Outcomes |-> Row(k, p)]
    BY DEF SharesAfter
  <2>2. \A p \in Outcomes : p # o => Row(o + 1, p) = Row(o, p)
    BY <1>6
  <2>3. Row(o + 1, o) = [Row(o, o) EXCEPT ![h] = 0]
    <3>1. o < o + 1 /\ ~(o < o)
      BY <1>1
    <3> QED
      BY <3>1
  <2> HIDE DEF Row
  <2> QED
    BY <2>1, <2>2, <2>3
<1>8. SupplyAfter(h, o + 1) = [SupplyAfter(h, o) EXCEPT ![o] = @ - shares[o][h]]
  <2> DEFINE Entry(k, p) == IF p < k THEN supply[p] - shares[p][h] ELSE supply[p]
  <2>1. \A k : SupplyAfter(h, k) = [p \in Outcomes |-> Entry(k, p)]
    BY DEF SupplyAfter
  <2>2. \A p \in Outcomes : p # o => Entry(o + 1, p) = Entry(o, p)
    BY <1>6
  <2>3. Entry(o + 1, o) = Entry(o, o) - shares[o][h]
    <3>1. o < o + 1 /\ ~(o < o)
      BY <1>1
    <3> QED
      BY <3>1
  <2> HIDE DEF Entry
  <2> QED
    BY <2>1, <2>2, <2>3
<1>9. (\A p \in Outcomes : p < o + 1 => Passes(h, p))
          = ((\A p \in Outcomes : p < o => Passes(h, p)) /\ Passes(h, o))
  <2>1. (\A p \in Outcomes : p < o + 1 => Passes(h, p))
            <=> (\A p \in Outcomes : p < o => Passes(h, p)) /\ Passes(h, o)
    BY <1>6, Zenon
  <2> QED
    BY <2>1
<1> DEFINE s == After(h, o)
<1>10. /\ s.ok = (\A p \in Outcomes : p < o => Passes(h, p))
       /\ s.cash = CashAfter(h, o)
       /\ s.allowance = ClaimAllowance - Upto(Proceeds(h), o)
       /\ s.shares = SharesAfter(h, o)
       /\ s.supply = SupplyAfter(h, o)
  BY DEF After
<1> HIDE DEF s
<1>11. /\ s.shares[o][h] = shares[o][h]
       /\ s.supply[o] = supply[o]
  BY <1>3, <1>10
<1> DEFINE Checks(n, proceeds, creator, share) ==
               /\ proceeds <= MaxUint
               /\ n > 0 => s.supply[o] >= n /\ s.cash[h] + share <= MaxUint
               /\ share > 0 => CanMove(s.cash, Market, h, share)
                                 /\ s.allowance >= share
               /\ creator > 0 => CanMove(Moved(s.cash, Market, h, share), Market, Mailbox, creator)
                                   /\ s.allowance - share >= creator
           Body(n, proceeds, creator, share) ==
               [ok        |-> s.ok /\ Checks(n, proceeds, creator, share),
                cash      |-> Moved(Moved(s.cash, Market, h, share), Market, Mailbox, creator),
                allowance |-> s.allowance - proceeds,
                shares    |-> [s.shares EXCEPT ![o][h] = 0],
                supply    |-> [s.supply EXCEPT ![o] = @ - n]]
<1>12. Iteration(s, h, o) = Body(shares[o][h], Proceeds(h)[o], CreatorShares(h)[o], Kept(h)[o])
  <2>1. \A n, proceeds, creator, share :
            /\ n = s.shares[o][h]
            /\ proceeds = n * payoutNumerators[o]
            /\ creator = deriveMarketCreatorFeeAmount(proceeds)
            /\ share = proceeds - creator
            => Iteration(s, h, o) = Body(n, proceeds, creator, share)
    <3> TAKE n, proceeds, creator, share
    <3> HAVE /\ n = s.shares[o][h]
             /\ proceeds = n * payoutNumerators[o]
             /\ creator = deriveMarketCreatorFeeAmount(proceeds)
             /\ share = proceeds - creator
    <3>1. (s.ok /\ Checks(n, proceeds, creator, share))
          = (/\ s.ok
             /\ proceeds <= MaxUint
             /\ n > 0 => s.supply[o] >= n /\ s.cash[h] + share <= MaxUint
             /\ share > 0 => CanMove(s.cash, Market, h, share)
                               /\ s.allowance >= share
             /\ creator > 0 => CanMove(Moved(s.cash, Market, h, share), Market, Mailbox, creator)
                                 /\ s.allowance - share >= creator)
      OBVIOUS
    <3> QED
      BY <3>1 DEF Iteration
  <2> HIDE DEF Body
  <2> QED
    BY <1>1, <1>3, <1>11, <2>1
<1>13. (s.ok /\ Checks(shares[o][h], Proceeds(h)[o], CreatorShares(h)[o], Kept(h)[o]))
           = (\A p \in Outcomes : p < o + 1 => Passes(h, p))
  <2>1. Passes(h, o) = Checks(shares[o][h], Proceeds(h)[o], CreatorShares(h)[o], Kept(h)[o])
    BY <1>10, <1>11 DEF Passes
  <2> HIDE DEF Checks
  <2> QED
    BY <1>9, <1>10, <2>1
<1>14. After(h, o + 1) = Body(shares[o][h], Proceeds(h)[o], CreatorShares(h)[o], Kept(h)[o])
  <2> HIDE DEF Checks
  <2> QED
    BY <1>4, <1>5, <1>7, <1>8, <1>10, <1>13 DEF After
<1> HIDE DEF Body
<1> QED
  BY <1>12, <1>14 DEF s

\* The recursion of the loop has one solution, the closed form.
IsRun(h, f) ==
    f = [i \in 0 .. numOutcomes |-> IF i = 0 THEN LoopStart ELSE Iteration(f[i - 1], h, i - 1)]

LEMMA LoopIsAfter ==
    ASSUME TypeOK, NEW h \in Accounts
    PROVE  Loop(h) = After(h, numOutcomes)
<1> DEFINE r == [i \in 0 .. numOutcomes |-> After(h, i)]
<1>0. numOutcomes \in Nat /\ numOutcomes # 0
  BY MarketParameters
<1>1. \A i \in 0 .. numOutcomes : i # 0 =>
          i - 1 \in Outcomes /\ i - 1 \in 0 .. numOutcomes /\ (i - 1) + 1 = i
  BY <1>0 DEF Outcomes
<1>2. ASSUME NEW i \in 0 .. numOutcomes
      PROVE  After(h, i) = IF i = 0 THEN LoopStart ELSE Iteration(After(h, i - 1), h, i - 1)
  <2>1. CASE i = 0
    BY <2>1, AfterStart
  <2>2. CASE i # 0
    <3>1. After(h, (i - 1) + 1) = Iteration(After(h, i - 1), h, i - 1)
      BY <1>1, <2>2, AfterStep
    <3> QED
      BY <1>1, <2>2, <3>1
  <2> QED
    BY <2>1, <2>2
<1>3. IsRun(h, r)
  <2>1. \A i \in 0 .. numOutcomes : i # 0 => r[i - 1] = After(h, i - 1)
    BY <1>1
  <2>2. \A i \in 0 .. numOutcomes :
            After(h, i) = IF i = 0 THEN LoopStart ELSE Iteration(r[i - 1], h, i - 1)
    BY <1>2, <2>1
  <2> QED
    BY <2>2 DEF IsRun
<1>4. ASSUME NEW f, IsRun(h, f)
      PROVE  f[numOutcomes] = After(h, numOutcomes)
  <2> DEFINE G == {i \in Nat : i <= numOutcomes => f[i] = After(h, i)}
  <2>0. \A i \in 0 .. numOutcomes :
            f[i] = IF i = 0 THEN LoopStart ELSE Iteration(f[i - 1], h, i - 1)
    BY <1>4 DEF IsRun
  <2>1. 0 \in G
    BY <1>0, <1>2, <2>0
  <2>2. ASSUME NEW i \in Nat, i \in G PROVE i + 1 \in G
    <3>1. CASE i + 1 <= numOutcomes
      <4>1. /\ i + 1 \in 0 .. numOutcomes /\ i + 1 # 0 /\ (i + 1) - 1 = i
            /\ i <= numOutcomes
        BY <1>0, <3>1
      <4>2. f[i + 1] = Iteration(f[i], h, i)
        BY <2>0, <4>1
      <4>3. After(h, i + 1) = Iteration(After(h, i), h, i)
        BY <1>2, <4>1
      <4>4. f[i] = After(h, i)
        BY <2>2, <4>1
      <4> QED
        BY <4>2, <4>3, <4>4
    <3>2. CASE ~(i + 1 <= numOutcomes)
      BY <3>2
    <3> QED
      BY <3>1, <3>2
  <2>3. Nat \subseteq G
    <3> HIDE DEF G
    <3> QED
      BY <2>1, <2>2, InductionOnNat
  <2> QED
    BY <1>0, <2>3
<1>5. Loop(h) = (CHOOSE f : IsRun(h, f))[numOutcomes]
  BY DEF Loop, IsRun
<1>6. IsRun(h, CHOOSE f : IsRun(h, f))
  BY <1>3
<1> QED
  BY <1>4, <1>5, <1>6

\* Of what the loop has taken, a part is kept and the rest is the creator's.
LEMMA LoopNumbers ==
    ASSUME TypeOK, NEW h \in Accounts
    PROVE  /\ \A k \in Nat : Upto(Proceeds(h), k) = Upto(Kept(h), k) + Upto(CreatorShares(h), k)
           /\ \A o \in Outcomes :
                  /\ Upto(Proceeds(h), o) \in Nat /\ Upto(Kept(h), o) \in Nat
                  /\ Upto(CreatorShares(h), o) \in Nat
                  /\ Upto(Proceeds(h), o) + Proceeds(h)[o] <= SumOutcomes(Proceeds(h))
           /\ Upto(Proceeds(h), numOutcomes) = SumOutcomes(Proceeds(h))
           /\ Upto(CreatorShares(h), numOutcomes) = SumOutcomes(CreatorShares(h))
           /\ Upto(Kept(h), numOutcomes)
                  = SumOutcomes(Proceeds(h)) - SumOutcomes(CreatorShares(h))
           /\ SumOutcomes(Proceeds(h)) \in Nat /\ SumOutcomes(CreatorShares(h)) \in Nat
<1> DEFINE p == Proceeds(h)
           c == CreatorShares(h)
           e == Kept(h)
<1>1. /\ p \in [Outcomes -> Nat] /\ c \in [Outcomes -> Nat] /\ e \in [Outcomes -> Nat]
      /\ \A o \in Outcomes : p[o] = e[o] + c[o]
  BY LoopTypes
<1> HIDE DEF p, c, e
<1>2. p \in [Outcomes -> Int] /\ c \in [Outcomes -> Int] /\ e \in [Outcomes -> Int]
  BY <1>1
<1>3. ASSUME NEW k \in Nat PROVE Upto(p, k) = Upto(e, k) + Upto(c, k)
  <2> DEFINE Part(f) == [i \in Outcomes |-> IF i < k THEN f[i] ELSE 0]
  <2>1. /\ Part(p) \in [Outcomes -> Int] /\ Part(e) \in [Outcomes -> Int]
        /\ Part(c) \in [Outcomes -> Int]
        /\ \A i \in Outcomes : Part(p)[i] = Part(e)[i] + Part(c)[i]
    BY <1>1, <1>2
  <2>2. SumOutcomes(Part(p)) = SumOutcomes(Part(e)) + SumOutcomes(Part(c))
    <3> HIDE DEF Part
    <3> QED
      BY <2>1, SumAdd
  <2> QED
    BY <2>2 DEF Upto
<1>4. /\ Upto(p, numOutcomes) = SumOutcomes(p) /\ Upto(c, numOutcomes) = SumOutcomes(c)
      /\ SumOutcomes(p) \in Nat /\ SumOutcomes(c) \in Nat
      /\ numOutcomes \in Nat
  BY <1>1, <1>2, UptoSteps, SumNat, MarketParameters
<1>5. Upto(e, numOutcomes) = SumOutcomes(p) - SumOutcomes(c)
  <2>1. Upto(e, numOutcomes) \in Int
    BY <1>2, <1>4, UptoSteps
  <2>2. Upto(p, numOutcomes) = Upto(e, numOutcomes) + Upto(c, numOutcomes)
    BY <1>3, <1>4
  <2> QED
    BY <1>4, <2>1, <2>2
<1>6. \A o \in Outcomes : /\ Upto(p, o) \in Nat /\ Upto(e, o) \in Nat /\ Upto(c, o) \in Nat
                          /\ Upto(p, o) + p[o] <= SumOutcomes(p)
  BY <1>1, UptoBounds
<1> QED
  BY <1>3, <1>4, <1>5, <1>6 DEF p, c, e

\* The balances the loop meets in the iteration for o.
LEMMA BalancesMet ==
    ASSUME TypeOK, NEW h \in Accounts, NEW o \in Outcomes
    PROVE  LET met  == CashAfter(h, o)
               paid == Moved(met, Market, h, Kept(h)[o])
           IN  /\ met[Market] = IF h = Market
                                THEN cash[Market] - Upto(CreatorShares(h), o)
                                ELSE cash[Market] - Upto(Proceeds(h), o)
               /\ h = Mailbox => met[h] = cash[h] + Upto(Proceeds(h), o)
               /\ h \notin {Market, Mailbox} => met[h] = cash[h] + Upto(Kept(h), o)
               /\ paid[Market] = IF h = Market THEN met[Market]
                                               ELSE met[Market] - Kept(h)[o]
               /\ paid[Mailbox] = IF h = Mailbox
                                  THEN cash[h] + Upto(Proceeds(h), o) + Kept(h)[o]
                                  ELSE cash[Mailbox] + Upto(CreatorShares(h), o)
<1>1. /\ Market \in Accounts /\ Mailbox \in Accounts /\ Market # Mailbox
      /\ cash \in [Accounts -> Int] /\ Kept(h)[o] \in Int
  BY LoopTypes, TradingParameters
<1>2. /\ Upto(Proceeds(h), o) = Upto(Kept(h), o) + Upto(CreatorShares(h), o)
      /\ Upto(Proceeds(h), o) \in Int /\ Upto(Kept(h), o) \in Int
      /\ Upto(CreatorShares(h), o) \in Int
  BY LoopNumbers, OutcomesAreSmall
<1> DEFINE met == CashAfter(h, o)
           paid == Moved(met, Market, h, Kept(h)[o])
<1>3. /\ met \in [Accounts -> Int]
      /\ \A a \in Accounts :
             met[a] = cash[a] - (IF a = Market THEN Upto(Proceeds(h), o) ELSE 0)
                              + (IF a = h THEN Upto(Kept(h), o) ELSE 0)
                              + (IF a = Mailbox THEN Upto(CreatorShares(h), o) ELSE 0)
  BY <1>1, <1>2 DEF CashAfter
<1> HIDE DEF met
<1>4. \A a \in Accounts : paid[a] = met[a] - (IF a = Market THEN Kept(h)[o] ELSE 0)
                                           + (IF a = h THEN Kept(h)[o] ELSE 0)
  BY <1>1, <1>3 DEF Moved
<1> HIDE DEF paid
<1>5. /\ met[Market] = IF h = Market THEN cash[Market] - Upto(CreatorShares(h), o)
                                     ELSE cash[Market] - Upto(Proceeds(h), o)
      /\ h = Mailbox => met[h] = cash[h] + Upto(Proceeds(h), o)
      /\ h \notin {Market, Mailbox} => met[h] = cash[h] + Upto(Kept(h), o)
      /\ h # Mailbox => met[Mailbox] = cash[Mailbox] + Upto(CreatorShares(h), o)
      /\ met[Market] \in Int /\ met[Mailbox] \in Int
  BY <1>1, <1>2, <1>3
<1>6. /\ paid[Market] = IF h = Market THEN met[Market] ELSE met[Market] - Kept(h)[o]
      /\ paid[Mailbox] = IF h = Mailbox THEN met[Mailbox] + Kept(h)[o] ELSE met[Mailbox]
  BY <1>1, <1>4, <1>5
<1> QED
  BY <1>5, <1>6 DEF met, paid

\* Iterations none of which reverts use no more than the allowance together.
LEMMA LoopUsesAllowance ==
    ASSUME TypeOK, NEW h \in Accounts, \A o \in Outcomes : Passes(h, o)
    PROVE  SumOutcomes(Proceeds(h)) <= ClaimAllowance
<1> DEFINE G == {k \in Nat : k <= numOutcomes => Upto(Proceeds(h), k) <= ClaimAllowance}
<1>1. /\ ClaimAllowance \in Nat /\ Proceeds(h) \in [Outcomes -> Int] /\ numOutcomes \in Nat
  BY LoopTypes, MarketParameters
<1>2. 0 \in G
  BY <1>1, UptoSteps
<1>3. ASSUME NEW k \in Nat, k \in G, k + 1 <= numOutcomes
      PROVE  Upto(Proceeds(h), k + 1) <= ClaimAllowance
  <2>1. k \in Outcomes /\ Upto(Proceeds(h), k) <= ClaimAllowance
    BY <1>1, <1>3 DEF Outcomes
  <2>2. /\ Kept(h)[k] \in Nat /\ CreatorShares(h)[k] \in Nat
        /\ Proceeds(h)[k] = Kept(h)[k] + CreatorShares(h)[k]
        /\ Upto(Proceeds(h), k) \in Nat
    BY <2>1, LoopTypes, LoopNumbers
  <2>3. Upto(Proceeds(h), k + 1) = Upto(Proceeds(h), k) + Proceeds(h)[k]
    BY <1>1, <2>1, UptoSteps
  <2>4. /\ Kept(h)[k] > 0 => ClaimAllowance - Upto(Proceeds(h), k) >= Kept(h)[k]
        /\ CreatorShares(h)[k] > 0 =>
               ClaimAllowance - Upto(Proceeds(h), k) - Kept(h)[k] >= CreatorShares(h)[k]
    BY <2>1 DEF Passes
  <2> QED
    BY <1>1, <2>1, <2>2, <2>3, <2>4
<1>4. Nat \subseteq G
  <2>1. \A k \in Nat : k \in G => k + 1 \in G
    BY <1>3
  <2> HIDE DEF G
  <2> QED
    BY <1>2, <2>1, InductionOnNat
<1>5. Upto(Proceeds(h), numOutcomes) <= ClaimAllowance
  BY <1>1, <1>4
<1> QED
  BY <1>1, <1>5, UptoSteps

\* As long as tokens are conserved and the escrow is backed, an iteration fails
\* only for want of allowance or, for the market itself, on the sum in its log.
LEMMA IterationPasses ==
    ASSUME IInv, CashConserved, SharesConserved, NEW h \in Accounts,
           SumOutcomes(Proceeds(h)) <= ClaimAllowance, LoggedBalanceFits(h),
           NEW o \in Outcomes
    PROVE  Passes(h, o)
<1> DEFINE p    == Proceeds(h)[o]
           c    == CreatorShares(h)[o]
           e    == Kept(h)[o]
           P    == Upto(Proceeds(h), o)
           C    == Upto(CreatorShares(h), o)
           E    == Upto(Kept(h), o)
           all  == SumOutcomes(Proceeds(h))
           met  == CashAfter(h, o)
           paid == Moved(met, Market, h, e)
<1>1. TypeOK
  BY DEF IInv
<1>2. /\ p \in Nat /\ c \in Nat /\ e \in Nat /\ p = e + c
      /\ ClaimAllowance \in Nat
      /\ Market \in Accounts /\ Mailbox \in Accounts /\ Market # Mailbox
  BY <1>1, LoopTypes, TradingParameters
<1>3. /\ P \in Nat /\ C \in Nat /\ E \in Nat /\ P = E + C
      /\ all \in Nat /\ P + p <= all
  BY <1>1, LoopNumbers, OutcomesAreSmall
<1>4. /\ cash[Market] \in Nat /\ cash[Mailbox] \in Nat /\ cash[h] \in Nat
      /\ cash[Market] <= MaxUint
      /\ cash[Mailbox] + cash[Market] <= MaxUint
      /\ h # Market => cash[h] + cash[Market] <= MaxUint
  BY <1>1, <1>2, CashWithinSupply
<1>5. all <= cash[Market] /\ shares[o][h] \in Nat /\ shares[o][h] <= supply[o]
  BY ProceedsCovered
<1>6. /\ met[Market] = IF h = Market THEN cash[Market] - C ELSE cash[Market] - P
      /\ h = Mailbox => met[h] = cash[h] + P
      /\ h \notin {Market, Mailbox} => met[h] = cash[h] + E
      /\ paid[Market] = IF h = Market THEN met[Market] ELSE met[Market] - e
      /\ paid[Mailbox] = IF h = Mailbox THEN cash[h] + P + e ELSE cash[Mailbox] + C
  BY <1>1, BalancesMet
<1>7. h = Market /\ shares[o][h] > 0 => cash[Market] - C + p - c <= MaxUint
  BY DEF LoggedBalanceFits, Upto
<1>8. h = Market => met[h] = cash[Market] - C
  BY <1>6
<1>9. supply[o] \in Nat /\ all <= ClaimAllowance
  BY <1>1, LoopTypes
<1> HIDE DEF p, c, e, P, C, E, all, met, paid
<1>10. p <= MaxUint
  BY <1>2, <1>3, <1>4, <1>5, Width
<1>11. h # Market => met[h] + e <= MaxUint
  BY <1>2, <1>3, <1>4, <1>5, <1>6, Width
<1>12. shares[o][h] > 0 => supply[o] >= shares[o][h] /\ met[h] + e <= MaxUint
  BY <1>2, <1>3, <1>4, <1>5, <1>7, <1>8, <1>9, <1>11, Width
<1>13. CanMove(met, Market, h, e)
  <2>1. met[Market] >= e
    BY <1>2, <1>3, <1>4, <1>5, <1>6
  <2> QED
    BY <1>11, <2>1 DEF CanMove
<1>14. CanMove(paid, Market, Mailbox, c)
  <2>1. paid[Market] >= c
    BY <1>2, <1>3, <1>4, <1>5, <1>6
  <2>2. paid[Mailbox] + c <= MaxUint
    BY <1>2, <1>3, <1>4, <1>5, <1>6, Width
  <2> QED
    BY <2>1, <2>2 DEF CanMove
<1>15. ClaimAllowance - P >= e /\ ClaimAllowance - P - e >= c
  BY <1>2, <1>3, <1>9
<1> QED
  BY <1>10, <1>12, <1>13, <1>14, <1>15 DEF Passes, p, c, e, P, met, paid

\* For the market as the holder, the loop checks what LoggedBalanceFits says.
LEMMA LoopChecksLog ==
    ASSUME TypeOK, \A o \in Outcomes : Passes(Market, o)
    PROVE  LoggedBalanceFits(Market)
<1>1. Market \in Accounts
  BY LoopTypes DEF Accounts
<1>2. SUFFICES ASSUME NEW o \in Outcomes, shares[o][Market] > 0
               PROVE  cash[Market] - Upto(CreatorShares(Market), o)
                          + Proceeds(Market)[o] - CreatorShares(Market)[o] <= MaxUint
  BY DEF LoggedBalanceFits, Upto
<1>3. CashAfter(Market, o)[Market] + Kept(Market)[o] <= MaxUint
  BY <1>2 DEF Passes
<1>4. CashAfter(Market, o)[Market] = cash[Market] - Upto(CreatorShares(Market), o)
  BY <1>1, BalancesMet
<1>5. /\ Kept(Market)[o] = Proceeds(Market)[o] - CreatorShares(Market)[o]
      /\ Proceeds(Market)[o] \in Nat /\ CreatorShares(Market)[o] \in Nat
      /\ cash[Market] \in Nat /\ Upto(CreatorShares(Market), o) \in Nat
  BY <1>1, LoopTypes, LoopNumbers DEF Kept
<1> QED
  BY <1>3, <1>4, <1>5, Width

LEMMA LoopSucceedsLikeClaim ==
    IInv /\ CashConserved /\ SharesConserved => ClaimSucceedsLikeLoop
<1> SUFFICES ASSUME IInv, CashConserved, SharesConserved, NEW h \in Accounts,
                    InGoodTimes, ClaimOpen
             PROVE  Loop(h).ok <=> CanClaim(h)
  BY DEF ClaimSucceedsLikeLoop
<1>1. TypeOK
  BY DEF IInv
<1>2. Loop(h).ok <=> \A o \in Outcomes : Passes(h, o)
  <2>1. \A o \in Outcomes : o < numOutcomes
    BY MarketParameters DEF Outcomes
  <2>2. Loop(h) = After(h, numOutcomes)
    BY <1>1, LoopIsAfter
  <2>3. After(h, numOutcomes).ok = (\A o \in Outcomes : o < numOutcomes => Passes(h, o))
    BY DEF After
  <2> QED
    BY <2>1, <2>2, <2>3
<1>3. ASSUME \A o \in Outcomes : Passes(h, o) PROVE CanClaim(h)
  <2>1. SumOutcomes(Proceeds(h)) <= ClaimAllowance
    BY <1>1, <1>3, LoopUsesAllowance
  <2>2. LoggedBalanceFits(h)
    <3>1. CASE h = Market
      BY <1>1, <1>3, <3>1, LoopChecksLog
    <3>2. CASE h # Market
      BY <3>2 DEF LoggedBalanceFits
    <3> QED
      BY <3>1, <3>2
  <2>3. marketAllowance["ClaimTradingProceeds"] >= SumOutcomes(Proceeds(h))
    BY <1>1, <2>1, LoopTypes, LoopNumbers DEF ClaimAllowance
  <2> QED
    BY <2>2, <2>3, ClaimCanPay DEF CanClaim
<1>4. ASSUME CanClaim(h) PROVE \A o \in Outcomes : Passes(h, o)
  <2>1. /\ LoggedBalanceFits(h)
        /\ ClaimAllowance >= (SumOutcomes(Proceeds(h)) - SumOutcomes(CreatorShares(h)))
                                 + SumOutcomes(CreatorShares(h))
    BY <1>4 DEF CanClaim, CanPayOut, ClaimAllowance
  <2>2. SumOutcomes(Proceeds(h)) <= ClaimAllowance
    BY <1>1, <2>1, LoopTypes, LoopNumbers
  <2> QED
    BY <2>1, <2>2, IterationPasses
<1> QED
  BY <1>2, <1>3, <1>4

\* The loop over the outcomes reverts exactly when the checks of the closed form
\* fail, in every reachable state and for every number of outcomes: partial
\* payments and the balances between two iterations make no difference.
THEOREM ClaimSucceedsAsLoop == Spec => []ClaimSucceedsLikeLoop
BY Accounted, LoopSucceedsLikeClaim, PTL

LEMMA ClaimEndsStep ==
    ASSUME TypeOK, NEW h \in Accounts, Claim(h)
    PROVE  /\ cash' = Loop(h).cash
           /\ shares' = Loop(h).shares
           /\ supply' = Loop(h).supply
           /\ marketAllowance'["ClaimTradingProceeds"] = Loop(h).allowance
<1> DEFINE all == SumOutcomes(Proceeds(h))
           fee == SumOutcomes(CreatorShares(h))
<1>1. Loop(h) = After(h, numOutcomes)
  BY LoopIsAfter
<1>2. /\ Loop(h).cash = CashAfter(h, numOutcomes)
      /\ Loop(h).allowance = ClaimAllowance - Upto(Proceeds(h), numOutcomes)
      /\ Loop(h).shares = SharesAfter(h, numOutcomes)
      /\ Loop(h).supply = SupplyAfter(h, numOutcomes)
  BY <1>1 DEF After
<1>3. /\ shares' = [o \in Outcomes |-> [shares[o] EXCEPT ![h] = 0]]
      /\ supply' = [o \in Outcomes |-> supply[o] - shares[o][h]]
      /\ cash' = Moved(Moved(cash, Market, h, all - fee), Market, Mailbox, fee)
      /\ marketAllowance' =
             [marketAllowance EXCEPT !["ClaimTradingProceeds"] = @ - all]
  BY DEF Claim, PaidOut
<1>4. /\ Upto(Proceeds(h), numOutcomes) = all
      /\ Upto(CreatorShares(h), numOutcomes) = fee
      /\ Upto(Kept(h), numOutcomes) = all - fee
      /\ all \in Nat /\ fee \in Nat
  BY LoopNumbers
<1>5. /\ Market \in Accounts /\ Mailbox \in Accounts /\ cash \in [Accounts -> Int]
  BY LoopTypes
<1>6. \A o \in Outcomes : o < numOutcomes
  BY MarketParameters DEF Outcomes
<1> HIDE DEF all, fee
<1>7. cash' = CashAfter(h, numOutcomes)
  <2> DEFINE first == Moved(cash, Market, h, all - fee)
             second == Moved(first, Market, Mailbox, fee)
  <2>1. /\ first \in [Accounts -> Int]
        /\ \A a \in Accounts : first[a] = cash[a] - (IF a = Market THEN all - fee ELSE 0)
                                                  + (IF a = h THEN all - fee ELSE 0)
    BY <1>4, <1>5 DEF Moved
  <2> HIDE DEF first
  <2>2. /\ second \in [Accounts -> Int]
        /\ \A a \in Accounts : second[a] = first[a] - (IF a = Market THEN fee ELSE 0)
                                                    + (IF a = Mailbox THEN fee ELSE 0)
    BY <1>4, <1>5, <2>1 DEF Moved
  <2> HIDE DEF second
  <2>3. /\ CashAfter(h, numOutcomes) \in [Accounts -> Int]
        /\ \A a \in Accounts :
               CashAfter(h, numOutcomes)[a]
                   = cash[a] - (IF a = Market THEN all ELSE 0)
                             + (IF a = h THEN all - fee ELSE 0)
                             + (IF a = Mailbox THEN fee ELSE 0)
    BY <1>4, <1>5 DEF CashAfter
  <2>4. \A a \in Accounts : second[a] = CashAfter(h, numOutcomes)[a]
    BY <1>4, <1>5, <2>1, <2>2, <2>3
  <2>5. second = CashAfter(h, numOutcomes)
    BY <2>2, <2>3, <2>4
  <2> QED
    BY <1>3, <2>5 DEF second, first
<1>8. shares' = SharesAfter(h, numOutcomes)
  <2>1. ASSUME NEW o \in Outcomes
        PROVE  [shares[o] EXCEPT ![h] = 0]
                   = [a \in Accounts |-> IF a = h /\ o < numOutcomes THEN 0 ELSE shares[o][a]]
    <3>1. shares[o] \in [Accounts -> Uint] /\ o < numOutcomes
      BY <1>6 DEF TypeOK
    <3> QED
      BY <3>1
  <2> QED
    BY <1>3, <2>1 DEF SharesAfter
<1>9. supply' = SupplyAfter(h, numOutcomes)
  BY <1>3, <1>6 DEF SupplyAfter
<1>10. marketAllowance'["ClaimTradingProceeds"] = ClaimAllowance - all
  BY <1>3 DEF ClaimAllowance, TypeOK, Spenders
<1> QED
  BY <1>2, <1>4, <1>7, <1>8, <1>9, <1>10

\* A claim leaves the balances, the supplies and the allowance that the loop of
\* the code leaves, whoever the holder is, the market and the mailbox included.
THEOREM ClaimEndsAsLoop == Spec => ClaimEndsLikeLoop
<1>1. TypeOK => [\A h \in Accounts :
                    LET loop == Loop(h)
                    IN  Claim(h) => /\ cash' = loop.cash
                                    /\ shares' = loop.shares
                                    /\ supply' = loop.supply
                                    /\ marketAllowance'["ClaimTradingProceeds"]
                                           = loop.allowance]_vars
  BY ClaimEndsStep
<1> QED
  BY <1>1, TypeCorrect, PTL DEF ClaimEndsLikeLoop

-----------------------------------------------------------------------------
(* With accounts on the whitelist *)

\* A loop of a claim that does not revert leaves uint256 balances, between any
\* two of its iterations.
LEMMA CashAfterType ==
    ASSUME TypeOK, NEW h \in Accounts, \A o \in Outcomes : Passes(h, o)
    PROVE  CashAfter(h, numOutcomes) \in [Accounts -> Uint]
<1> DEFINE G == {k \in Nat : k <= numOutcomes => CashAfter(h, k) \in [Accounts -> Uint]}
<1>1. numOutcomes \in Nat /\ MaxUint \in Nat
  BY MarketParameters, Width
<1>2. 0 \in G
  <2>1. CashAfter(h, 0) = cash
    BY AfterStart DEF After, LoopStart
  <2> QED
    BY <2>1 DEF TypeOK
<1>3. ASSUME NEW k \in Nat, k \in G, k + 1 <= numOutcomes
      PROVE  CashAfter(h, k + 1) \in [Accounts -> Uint]
  <2> DEFINE paid == Moved(CashAfter(h, k), Market, h, Kept(h)[k])
  <2>1. k \in Outcomes /\ CashAfter(h, k) \in [Accounts -> Uint]
    BY <1>1, <1>3 DEF Outcomes
  <2>2. /\ Market \in Accounts /\ Mailbox \in Accounts
        /\ Kept(h)[k] \in Nat /\ CreatorShares(h)[k] \in Nat
    BY <2>1, LoopTypes
  <2>3. /\ Kept(h)[k] > 0 => CanMove(CashAfter(h, k), Market, h, Kept(h)[k])
        /\ CreatorShares(h)[k] > 0 => CanMove(paid, Market, Mailbox, CreatorShares(h)[k])
    BY <2>1 DEF Passes
  <2>4. \A bal \in [Accounts -> Uint], to \in Accounts : CanMove(bal, Market, to, 0)
    BY <2>2 DEF CanMove, Uint
  <2>5. paid \in [Accounts -> Uint]
    <3>1. CanMove(CashAfter(h, k), Market, h, Kept(h)[k])
      BY <2>1, <2>2, <2>3, <2>4
    <3> QED
      BY <2>1, <2>2, <3>1, MovedFacts
  <2> HIDE DEF paid
  <2>6. CanMove(paid, Market, Mailbox, CreatorShares(h)[k])
    BY <2>2, <2>3, <2>4, <2>5
  <2>7. Moved(paid, Market, Mailbox, CreatorShares(h)[k]) \in [Accounts -> Uint]
    BY <2>2, <2>5, <2>6, MovedFacts
  <2>8. CashAfter(h, k + 1) = Moved(paid, Market, Mailbox, CreatorShares(h)[k])
    BY <2>1, CashAfterStep DEF paid
  <2> QED
    BY <2>7, <2>8
<1>4. Nat \subseteq G
  <2>1. \A k \in Nat : k \in G => k + 1 \in G
    BY <1>3
  <2> HIDE DEF G
  <2> QED
    BY <1>2, <2>1, InductionOnNat
<1> QED
  BY <1>1, <1>4

LEMMA ClaimByLoopType ==
    ASSUME TypeOK, NEW h \in Accounts, ClaimByLoop(h)
    PROVE  TypeOK'
<1>1. /\ Loop(h) = After(h, numOutcomes)
      /\ \A o \in Outcomes : o < numOutcomes
  BY LoopIsAfter, MarketParameters DEF Outcomes
<1>2. \A o \in Outcomes : Passes(h, o)
  BY <1>1 DEF ClaimByLoop, After
<1>3. /\ cash' = CashAfter(h, numOutcomes)
      /\ shares' = SharesAfter(h, numOutcomes)
      /\ supply' = SupplyAfter(h, numOutcomes)
      /\ marketAllowance' =
             [marketAllowance EXCEPT !["ClaimTradingProceeds"]
                  = ClaimAllowance - Upto(Proceeds(h), numOutcomes)]
      /\ UNCHANGED <<now, stopped, mailboxOwner, resolutionTime, payoutNumerators,
                     invalid, augurAllowance>>
  BY <1>1 DEF ClaimByLoop, After, resolutionVars
<1>4. cash' \in [Accounts -> Uint]
  BY <1>2, <1>3, CashAfterType
<1>5. shares' \in [Outcomes -> [Accounts -> Uint]]
  BY <1>3, ConstantTypes DEF SharesAfter, TypeOK
<1>6. supply' \in [Outcomes -> Uint]
  <2>1. ASSUME NEW o \in Outcomes PROVE supply[o] - shares[o][h] \in Uint
    <3>1. supply[o] \in Uint /\ shares[o][h] \in Uint /\ MaxUint \in Nat
      BY ConstantTypes DEF TypeOK
    <3>2. shares[o][h] > 0 => supply[o] >= shares[o][h]
      BY <1>2 DEF Passes
    <3> QED
      BY <3>1, <3>2 DEF Uint
  <2> QED
    BY <1>3, <2>1 DEF SupplyAfter, TypeOK
<1>7. marketAllowance' \in [Spenders -> Uint]
  <2>1. /\ Upto(Proceeds(h), numOutcomes) = SumOutcomes(Proceeds(h))
        /\ SumOutcomes(Proceeds(h)) \in Nat
    BY LoopNumbers
  <2>2. SumOutcomes(Proceeds(h)) <= ClaimAllowance
    BY <1>2, LoopUsesAllowance
  <2>3. ClaimAllowance \in Uint
    BY DEF TypeOK, ClaimAllowance, Spenders
  <2>4. ClaimAllowance - Upto(Proceeds(h), numOutcomes) \in Uint
    BY <2>1, <2>2, <2>3, ConstantTypes DEF Uint
  <2> QED
    BY <1>3, <2>4 DEF TypeOK
<1> QED
  BY <1>3, <1>4, <1>5, <1>6, <1>7 DEF TypeOK

\* What whitelisted accounts call keeps the types too.
LEMMA WhitelistedCallType ==
    ASSUME TypeOK, WhitelistedCall
    PROVE  TypeOK'
<1>1. ASSUME NEW u \in Users, NEW n \in Amounts, buyCompleteSets(u, n) PROVE TypeOK'
  BY <1>1, BuyType
<1>2. ASSUME NEW a \in Accounts, NEW n \in Amounts, sellCompleteSets(a, n) PROVE TypeOK'
  BY <1>2, SellType
<1>3. ASSUME NEW o \in Outcomes, NEW a \in Accounts, NEW n \in Amounts,
             createShares(o, a, n) \/ destroyShares(o, a, n)
      PROVE  TypeOK'
  <2>1. shares[o][a] \in Uint /\ supply[o] \in Uint /\ n \in Uint /\ MaxUint \in Nat
    BY ConstantTypes DEF TypeOK
  <2>2. PICK balance \in Uint, total \in Uint : SharesSet(o, a, balance, total)
    <3>1. CASE createShares(o, a, n)
      <4>1. shares[o][a] + n \in Uint /\ supply[o] + n \in Uint
        BY <2>1, <3>1 DEF createShares, Uint
      <4> QED
        BY <3>1, <4>1 DEF createShares
    <3>2. CASE destroyShares(o, a, n)
      <4>1. shares[o][a] - n \in Uint /\ supply[o] - n \in Uint
        BY <2>1, <3>2 DEF destroyShares, Uint
      <4> QED
        BY <3>2, <4>1 DEF destroyShares
    <3> QED
      BY <1>3, <3>1, <3>2
  <2> QED
    BY <2>2 DEF SharesSet, resolutionVars, TypeOK
<1>4. ASSUME NEW u \in Users, NEW a \in Accounts, NEW n \in Gifts, trustedTransfer(u, a, n)
      PROVE  TypeOK'
  <2>1. n \in Uint /\ n \in Nat /\ u \in Accounts /\ augurAllowance[u] \in Uint
        /\ MaxUint \in Nat
    BY ConstantTypes DEF TypeOK, Uint
  <2>2. cash' \in [Accounts -> Uint]
    BY <1>4, <2>1, MovedFacts DEF trustedTransfer, TypeOK
  <2>3. augurAllowance[u] - n \in Uint
    BY <1>4, <2>1 DEF trustedTransfer, Uint
  <2> QED
    BY <1>4, <2>2, <2>3 DEF trustedTransfer, resolutionVars, TypeOK
<1> QED
  BY <1>1, <1>2, <1>3, <1>4 DEF WhitelistedCall

\* The public calls are those of Next, with the claim as its loop runs it.
LEMMA CallsOfWhitelistedNext ==
    ASSUME [WhitelistedNext]_vars
    PROVE  \/ [Next]_vars
           \/ \E h \in Accounts : ClaimByLoop(h)
           \/ WhitelistedCall
BY DEF WhitelistedNext, PublicCall, Next

LEMMA WhitelistedType == TypeOK /\ [WhitelistedNext]_vars => TypeOK'
BY CallsOfWhitelistedNext, NextType, ClaimByLoopType, WhitelistedCallType

THEOREM WhitelistedTypeCorrect == WhitelistedSpec => []TypeOK
BY InitType, WhitelistedType, PTL DEF WhitelistedSpec

LEMMA WhitelistedResolutionStep ==
    ASSUME TypeOK, [WhitelistedNext]_vars
    PROVE  /\ isResolved => UNCHANGED resolutionVars
           /\ ~isResolved /\ isResolved' => resolutionTime' = now /\ now > endTime
<1>1. ASSUME UNCHANGED resolutionVars
      PROVE  /\ isResolved => UNCHANGED resolutionVars
             /\ ~isResolved /\ isResolved' => resolutionTime' = now /\ now > endTime
  BY <1>1 DEF resolutionVars, isResolved
<1>2. ASSUME NEW h \in Accounts, ClaimByLoop(h) PROVE UNCHANGED resolutionVars
  BY <1>2 DEF ClaimByLoop
<1>4. WhitelistedCall => UNCHANGED resolutionVars
  BY DEF WhitelistedCall, buyCompleteSets, sellCompleteSets, createShares,
     destroyShares, SharesSet, trustedTransfer
<1> QED
  BY <1>1, <1>2, <1>4, CallsOfWhitelistedNext, ResolutionStep

\* Market.resolve accepts one report, after the end time: no later call, of the
\* whitelisted accounts neither, changes what the shares are worth.
THEOREM ResolutionFinal == WhitelistedSpec => ResolutionIsFinal
<1>1. TypeOK /\ [WhitelistedNext]_vars =>
        [/\ isResolved => UNCHANGED resolutionVars
         /\ ~isResolved /\ isResolved' => resolutionTime' = now /\ now > endTime]_vars
  BY WhitelistedResolutionStep
<1> QED
  BY <1>1, WhitelistedTypeCorrect, PTL DEF WhitelistedSpec, ResolutionIsFinal

\* What a stop leaves to everybody who does not use the whitelist.
LEMMA StoppedPublicly ==
    ASSUME TypeOK, [Next]_vars, stopped
    PROVE  /\ stopped'
           /\ cash'[Market] >= cash[Market]
           /\ UNCHANGED <<supply, resolutionVars>>
           /\ \A s \in Spenders : marketAllowance'[s] <= marketAllowance[s]
<1>1. \A s \in Spenders : marketAllowance[s] \in Int
  BY DEF TypeOK, Uint
<1>2. CASE QuietCall
  <2>1. ~ApproveSpenders
    BY DEF ApproveSpenders, InGoodTimes
  <2>2. UNCHANGED marketAllowance
    BY <1>2, <2>1 DEF QuietCall, TransferCash, TransferShares, ApproveAugur,
       TransferMailbox, NextBlock, SetTimestamp, escrowVars
  <2> QED
    BY <1>1, <1>2, <2>2, QuietCallFacts DEF resolutionVars
<1>3. CASE UNCHANGED vars
  BY <1>1, <1>3, BackedTypes DEF vars, escrowVars
<1>4. ~EmergencyStop
  BY DEF EmergencyStop
<1>5. ASSUME NEW u \in Users, NEW n \in Amounts PROVE ~Buy(u, n) /\ ~Sell(u, n)
  BY DEF Buy, Sell, InGoodTimes
<1>6. ASSUME NEW h \in Accounts PROVE ~Claim(h)
  BY DEF Claim, CanClaim, InGoodTimes
<1>7. ASSUME NEW u \in Users, NEW p, NEW i PROVE ~Resolve(u, p, i)
  BY DEF Resolve, InGoodTimes
<1> QED
  BY <1>2, <1>3, <1>4, <1>5, <1>6, <1>7, CallsOfNext

\* What a stop leaves to the whitelisted accounts.
LEMMA StoppedDirectly ==
    ASSUME TypeOK, WhitelistedCall
    PROVE  /\ UNCHANGED <<stopped, resolutionVars>>
           /\ \A s \in Spenders : marketAllowance'[s] <= marketAllowance[s]
           /\ cash'[Market] < cash[Market] =>
                  /\ SetsRedeemed
                  /\ cash[Market] - cash'[Market]
                         <= marketAllowance["CompleteSets"]
                              - marketAllowance'["CompleteSets"]
<1> DEFINE Left ==
       /\ UNCHANGED <<stopped, resolutionVars>>
       /\ \A s \in Spenders : marketAllowance'[s] <= marketAllowance[s]
       /\ cash'[Market] < cash[Market] =>
              /\ SetsRedeemed
              /\ cash[Market] - cash'[Market]
                     <= marketAllowance["CompleteSets"]
                          - marketAllowance'["CompleteSets"]
<1>1. /\ \A s \in Spenders : marketAllowance[s] \in Int
      /\ cash \in [Accounts -> Uint] /\ cash[Market] \in Int
      /\ \A u \in Users : u \in Accounts \ {Market}
      /\ marketAllowance \in [Spenders -> Uint] /\ "CompleteSets" \in Spenders
  BY ConstantTypes, TradingParameters DEF TypeOK, Uint, Spenders
<1>2. ASSUME NEW u \in Users, NEW n \in Nat, CanMove(cash, u, Market, n)
      PROVE  Moved(cash, u, Market, n)[Market] >= cash[Market]
  BY <1>1, <1>2, ConstantTypes, MovedFacts
<1>3. ASSUME NEW u \in Users, NEW n \in Amounts, buyCompleteSets(u, n) PROVE Left
  <2>1. n * numTicks \in Nat
    BY ConstantTypes, MarketParameters DEF Uint
  <2>2. /\ CanMove(cash, u, Market, n * numTicks)
        /\ cash' = Moved(cash, u, Market, n * numTicks)
        /\ UNCHANGED <<stopped, resolutionVars, marketAllowance>>
    BY <1>3 DEF buyCompleteSets
  <2>3. cash'[Market] >= cash[Market]
    BY <1>2, <2>1, <2>2
  <2>4. cash'[Market] \in Int
    BY <1>3, BuyType, ConstantTypes DEF TypeOK, Uint
  <2> QED
    BY <1>1, <2>2, <2>3, <2>4
<1>4. ASSUME NEW a \in Accounts, NEW n \in Amounts, sellCompleteSets(a, n) PROVE Left
  <2> DEFINE payout == n * numTicks
             fee == deriveMarketCreatorFeeAmount(payout)
  <2>1. n \in Nat /\ payout \in Nat /\ fee \in Nat /\ payout - fee \in Nat
        /\ (payout - fee) + fee = payout
    BY SaleFacts
  <2>2. /\ CanPayOut("CompleteSets", a, payout - fee, fee)
        /\ cash' = PaidOut(a, payout - fee, fee)
        /\ marketAllowance' = [marketAllowance EXCEPT !["CompleteSets"] = @ - payout]
        /\ supply' = [o \in Outcomes |-> supply[o] - n]
        /\ UNCHANGED <<stopped, resolutionVars>>
    BY <1>4 DEF sellCompleteSets, CanRedeem
  <2> HIDE DEF fee
  <2>3. cash'[Market] >= cash[Market] - payout /\ cash'[Market] \in Int
    <3> HIDE DEF payout
    <3>1. /\ PaidOut(a, payout - fee, fee) \in [Accounts -> Uint]
          /\ PaidOut(a, payout - fee, fee)[Market] >= cash[Market] - ((payout - fee) + fee)
      BY <1>1, <2>1, <2>2, PaidOutFacts
    <3> QED
      BY <2>1, <2>2, <3>1, ConstantTypes DEF Uint
  <2>4. SetsRedeemed
    <3>1. n \in Uint
      BY ConstantTypes
    <3>2. \A o \in Outcomes : supply'[o] = supply[o] - n
      BY <2>2
    <3>3. cash[Market] - cash'[Market] <= n * numTicks
      <4> HIDE DEF payout
      <4>1. cash[Market] - cash'[Market] <= payout
        BY <1>1, <2>1, <2>3
      <4> QED
        BY <4>1 DEF payout
    <3> QED
      BY <3>1, <3>2, <3>3 DEF SetsRedeemed
  <2> HIDE DEF payout
  <2>5. /\ marketAllowance'["CompleteSets"] = marketAllowance["CompleteSets"] - payout
        /\ \A s \in Spenders : s # "CompleteSets" => marketAllowance'[s] = marketAllowance[s]
    BY <1>1, <2>2
  <2>6. \A s \in Spenders : marketAllowance'[s] <= marketAllowance[s]
    BY <1>1, <2>1, <2>5
  <2> QED
    BY <1>1, <2>1, <2>2, <2>3, <2>4, <2>5, <2>6
<1>5. ASSUME NEW o \in Outcomes, NEW a \in Accounts, NEW n \in Amounts,
             createShares(o, a, n) \/ destroyShares(o, a, n)
      PROVE  Left
  BY <1>1, <1>5 DEF createShares, destroyShares, SharesSet
<1>6. ASSUME NEW u \in Users, NEW a \in Accounts, NEW n \in Gifts, trustedTransfer(u, a, n)
      PROVE  Left
  <2>1. n \in Nat /\ CanMove(cash, u, a, n) /\ cash' = Moved(cash, u, a, n)
    BY <1>6, ConstantTypes DEF trustedTransfer, Uint
  <2>2. cash'[Market] >= cash[Market] /\ cash'[Market] \in Int
    <3>1. cash' \in [Accounts -> Uint]
      BY <1>1, <2>1, MovedFacts
    <3>2. CASE a = Market
      BY <1>1, <1>2, <2>1, <3>1, <3>2, ConstantTypes DEF Uint
    <3>3. CASE a # Market
      BY <1>1, <2>1, <3>1, <3>3, ConstantTypes, MovedFacts DEF Uint
    <3> QED
      BY <3>2, <3>3
  <2> QED
    BY <1>1, <1>6, <2>2 DEF trustedTransfer
<1> QED
  BY <1>3, <1>4, <1>5, <1>6 DEF WhitelistedCall

LEMMA StopStep ==
    ASSUME TypeOK, [WhitelistedNext]_vars, stopped
    PROVE  /\ stopped'
           /\ UNCHANGED resolutionVars
           /\ \A s \in Spenders : marketAllowance'[s] <= marketAllowance[s]
           /\ cash'[Market] < cash[Market] \/ supply' # supply => ~PublicCall
           /\ cash'[Market] < cash[Market] =>
                  /\ SetsRedeemed
                  /\ cash[Market] - cash'[Market]
                         <= marketAllowance["CompleteSets"]
                              - marketAllowance'["CompleteSets"]
<1>1. cash[Market] \in Int /\ cash'[Market] \in Int
  BY WhitelistedType, ConstantTypes DEF TypeOK, Uint
<1>2. ASSUME NEW h \in Accounts PROVE ~ClaimByLoop(h)
  BY DEF ClaimByLoop, InGoodTimes
<1>3. CASE [Next]_vars
  BY <1>1, <1>3, StoppedPublicly
<1>4. CASE WhitelistedCall
  <2>1. PublicCall => [Next]_vars
    BY <1>2 DEF PublicCall, Next
  <2>2. PublicCall => cash'[Market] >= cash[Market] /\ UNCHANGED supply
    BY <2>1, StoppedPublicly
  <2> QED
    BY <1>1, <1>4, <2>2, StoppedDirectly
<1> QED
  BY <1>2, <1>3, <1>4, CallsOfWhitelistedNext

\* After Controller.emergencyStop only the whitelisted accounts take anything
\* out of the market or change its supplies, and what they take out is the price
\* of complete sets they burn, up to the approval the market had given.
THEOREM StopFreezes == WhitelistedSpec => StopFreezesMarket
<1>1. TypeOK /\ [WhitelistedNext]_vars =>
        [stopped => /\ stopped'
                    /\ UNCHANGED resolutionVars
                    /\ \A s \in Spenders : marketAllowance'[s] <= marketAllowance[s]
                    /\ cash'[Market] < cash[Market] \/ supply' # supply => ~PublicCall
                    /\ cash'[Market] < cash[Market] =>
                           /\ SetsRedeemed
                           /\ cash[Market] - cash'[Market]
                                  <= marketAllowance["CompleteSets"]
                                       - marketAllowance'["CompleteSets"]]_vars
  BY StopStep
<1> QED
  BY <1>1, WhitelistedTypeCorrect, PTL DEF WhitelistedSpec, StopFreezesMarket

=============================================================================
