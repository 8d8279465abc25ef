----------------------------- MODULE MarketRules -----------------------------
(***************************************************************************)
(* The parameters Market.initialize fixes for the life of a market, and    *)
(* the arithmetic of Market.sol that depends on nothing else.              *)
(***************************************************************************)
EXTENDS Integers

CONSTANTS
    numOutcomes,    \* outcomes of the market, one share token each
    numTicks,       \* denomination tokens one complete set costs and redeems
    feeDivisor      \* the market creator's fee is 1/feeDivisor, 0 is no fee

\* The requirements of Market.initialize on these parameters.
ASSUME MarketParameters ==
    /\ numOutcomes \in 2 .. 8
    /\ numTicks \in Nat \ {0}
    /\ numTicks >= numOutcomes
    /\ feeDivisor \in Nat \ {1}

Outcomes == 0 .. (numOutcomes - 1)

\* A sum over the outcomes: a market has at most MAX_OUTCOMES = 8 of them.
At(f, i) == IF i \in Outcomes THEN f[i] ELSE 0

SumOutcomes(f) ==
    At(f, 0) + At(f, 1) + At(f, 2) + At(f, 3)
        + At(f, 4) + At(f, 5) + At(f, 6) + At(f, 7)

\* What shares[o] shares of every outcome o are worth at payout[o] each.
Worth(n, payout) == SumOutcomes([o \in Outcomes |-> n[o] * payout[o]])

\* A fault to check against: the fee is rounded up.
FeeRoundedUp(amount) ==
    IF feeDivisor = 0 THEN 0 ELSE (amount + feeDivisor - 1) \div feeDivisor

\* The market creator's part of an amount that leaves the market.
deriveMarketCreatorFeeAmount(amount) ==
    IF feeDivisor = 0 THEN 0 ELSE amount \div feeDivisor

\* A fault to check against: a resolution may assign more than numTicks.
ResolutionCoversNumTicks(payout, isInvalid) ==
    IF isInvalid
    THEN \A o \in Outcomes : payout[o] = numTicks \div numOutcomes
    ELSE SumOutcomes(payout) >= numTicks

\* The resolutions the oracle may report: an invalid market pays the same
\* floor to every outcome, any other resolution distributes numTicks.
verifyResolutionInformation(payout, isInvalid) ==
    IF isInvalid
    THEN \A o \in Outcomes : payout[o] = numTicks \div numOutcomes
    ELSE SumOutcomes(payout) = numTicks

=============================================================================
