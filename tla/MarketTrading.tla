---------------------------- MODULE MarketTrading ----------------------------
(***************************************************************************)
(* One market of AugurLite from its creation on: Market.sol with the       *)
(* contracts that trade it (CompleteSets, ClaimTradingProceeds), the       *)
(* market creator's Mailbox, the market's share tokens, the denomination   *)
(* token and the Controller's emergency stop.  A transaction is atomic, so *)
(* an action is one public call with every call it makes; a call that      *)
(* reverts changes nothing and is not a step.                              *)
(*                                                                         *)
(* Spec trusts the whitelist: besides the owner's stop, the two trading    *)
(* contracts are on it for good and nobody else calls what it opens.       *)
(* MarketWhitelist adds the accounts that are on it as well, the deployer  *)
(* of the Controller first of all.  In Spec the assertBalances() that ends *)
(* a buy, a sale and a claim is not a guard: it is the invariant Solvent,  *)
(* shown to hold in every state.                                           *)
(***************************************************************************)
EXTENDS BEP20Ops, MarketRules, Functions, FiniteSets

CONSTANTS
    Users,          \* externally owned accounts
    Market,         \* the address of the market, which holds the escrow
    Mailbox,        \* the address of the market creator's mailbox
    Oracle,         \* the user who resolves the market
    Creator,        \* the user who created the market
    endTime,        \* the market can be resolved after this time
    controlledTime, \* TimeControlled is registered as Time, not Time
    InitialCash,    \* denomination tokens of every user at the start
    Amounts,        \* bound: numbers of shares users pass to a call
    Gifts,          \* bound: amounts users transfer to other accounts
    Approvals,      \* bound: allowances users give to AugurLite
    MaxTime         \* bound: the last timestamp

Accounts == Users \cup {Market, Mailbox}

\* The contracts Market.approveSpenders lets spend the escrow.
Spenders == {"CompleteSets", "ClaimTradingProceeds"}

ASSUME TradingParameters ==
    /\ IsFiniteSet(Users)
    /\ Market \notin Users /\ Mailbox \notin Users /\ Market # Mailbox
    /\ Oracle \in Users /\ Creator \in Users
    /\ endTime \in Nat \ {0}
    /\ controlledTime \in BOOLEAN
    /\ InitialCash \in [Users -> Uint]
    /\ Amounts \subseteq Uint
    /\ Gifts \subseteq Uint
    /\ Approvals \subseteq Uint
    /\ MaxTime \in Nat

\* The balances add up to the token's totalSupply, which is a uint256.
ASSUME InitialSupply == FoldFunction(+, 0, InitialCash) <= MaxUint

VARIABLES
    now,                \* controller.getTimestamp(): the block's timestamp,
                        \* or the one TimeControlled stores
    stopped,            \* Controller.stopped
    resolutionTime,     \* Market.resolutionTime, 0 before the resolution
    payoutNumerators,   \* Market.payoutNumerators, all 0 before the resolution
    invalid,            \* Market.invalid
    cash,               \* balances of the denomination token
    augurAllowance,     \* its allowances from a user to AugurLite
    marketAllowance,    \* its allowances from the market to the spenders
    shares,             \* balances of the share token of every outcome
    supply,             \* totalSupply of the share token of every outcome
    mailboxOwner        \* Mailbox.owner

escrowVars == <<cash, augurAllowance, marketAllowance, shares, supply>>
resolutionVars == <<resolutionTime, payoutNumerators, invalid>>
vars == <<now, stopped, mailboxOwner, resolutionVars, escrowVars>>

isResolved == resolutionTime # 0

\* A fault to check against: the emergency stop is ignored.
NeverStopped == TRUE

\* onlyInGoodTimes: Controller.stopInEmergency does not revert.
InGoodTimes == ~stopped

\* A fault to check against: the report may be replaced.
ExpiredOnly == now > endTime

\* The state of the market in which Market.resolve accepts a report.
ResolutionOpen == ~isResolved /\ now > endTime

\* A fault to check against: the time check of a claim holds of an unresolved
\* market too, whose resolutionTime is 0.
ClaimOpenByTime == now > resolutionTime

\* A claim needs a resolution of an earlier block; getPayoutNumerator reverts
\* while there is none.
ClaimOpen == isResolved /\ now > resolutionTime

\* The bound assertBalances() puts on the market's balance.
ExpectedBalance ==
    IF isResolved THEN Worth(supply, payoutNumerators)
                  ELSE supply[0] * numTicks

-----------------------------------------------------------------------------

Init ==
    /\ now \in 0 .. (endTime - 1)
    /\ stopped = FALSE
    /\ resolutionTime = 0
    /\ payoutNumerators = [o \in Outcomes |-> 0]
    /\ invalid = FALSE
    /\ cash = [a \in Accounts |-> IF a \in Users THEN InitialCash[a] ELSE 0]
    /\ augurAllowance = [u \in Users |-> 0]
    /\ marketAllowance = [s \in Spenders |-> MaxUint]
    /\ shares = [o \in Outcomes |-> [a \in Accounts |-> 0]]
    /\ supply = [o \in Outcomes |-> 0]
    /\ mailboxOwner = Creator

\* CompleteSets.buyCompleteSets: the sender pays numTicks per complete set
\* through AugurLite.trustedTransfer, which rejects an empty transfer.
buyCompleteSets(sender, amount) ==
    LET cost == amount * numTicks
    IN  /\ cost \in 1 .. MaxUint
        /\ CanMove(cash, sender, Market, cost)
        /\ augurAllowance[sender] >= cost
        /\ \A o \in Outcomes :
               supply[o] + amount <= MaxUint /\ shares[o][sender] + amount <= MaxUint
        /\ cash' = Moved(cash, sender, Market, cost)
        /\ augurAllowance' = [augurAllowance EXCEPT ![sender] = @ - cost]
        /\ shares' = [o \in Outcomes |-> [shares[o] EXCEPT ![sender] = @ + amount]]
        /\ supply' = [o \in Outcomes |-> supply[o] + amount]
        /\ UNCHANGED <<now, stopped, mailboxOwner, resolutionVars, marketAllowance>>

\* CompleteSets.publicBuyCompleteSets: the only way in with a stop check.
Buy(buyer, amount) ==
    /\ InGoodTimes
    /\ buyCompleteSets(buyer, amount)

\* A fault to check against: the fee is paid on top of the amount.
PaidOutFeeOnTop(to, amount, fee) ==
    Moved(Moved(cash, Market, to, amount + fee), Market, Mailbox, fee)

\* Two transferFrom calls out of the market, to one who gives up shares and
\* to the market creator's mailbox; the spender's allowance is used up by both.
PaidOut(to, amount, fee) ==
    Moved(Moved(cash, Market, to, amount), Market, Mailbox, fee)

\* A fault to check against: the escrow cannot be emptied.
CanPayOutStrictly(spender, to, amount, fee) ==
    /\ cash[Market] > amount + fee
    /\ marketAllowance[spender] >= amount + fee

CanPayOut(spender, to, amount, fee) ==
    /\ CanMove(cash, Market, to, amount)
    /\ CanMove(Moved(cash, Market, to, amount), Market, Mailbox, fee)
    /\ marketAllowance[spender] >= amount + fee

\* Nothing that CompleteSets.sellCompleteSets calls reverts.  The fee is paid
\* first, so the market, as the sender, needs the whole payout.
CanRedeem(sender, amount) ==
    LET payout == amount * numTicks
        fee    == deriveMarketCreatorFeeAmount(payout)
    IN  /\ payout <= MaxUint
        /\ \A o \in Outcomes : shares[o][sender] >= amount /\ supply[o] >= amount
        /\ CanPayOut("CompleteSets", sender, payout - fee, fee)
        /\ sender = Market => cash[Market] >= payout

\* CompleteSets.sellCompleteSets: burns a share of every outcome per complete
\* set and pays its numTicks out, resolved or not.
sellCompleteSets(sender, amount) ==
    LET payout == amount * numTicks
        fee    == deriveMarketCreatorFeeAmount(payout)
    IN  /\ CanRedeem(sender, amount)
        /\ shares' = [o \in Outcomes |-> [shares[o] EXCEPT ![sender] = @ - amount]]
        /\ supply' = [o \in Outcomes |-> supply[o] - amount]
        /\ cash' = PaidOut(sender, payout - fee, fee)
        /\ marketAllowance' = [marketAllowance EXCEPT !["CompleteSets"] = @ - payout]
        /\ UNCHANGED <<now, stopped, mailboxOwner, resolutionVars, augurAllowance>>

\* CompleteSets.publicSellCompleteSets: the only way out with a stop check.
CanSell(seller, amount) == InGoodTimes /\ CanRedeem(seller, amount)

Sell(seller, amount) ==
    /\ InGoodTimes
    /\ sellCompleteSets(seller, amount)

\* divideUpWinnings, per outcome: what the holder's shares are worth and the
\* part of it that goes to the market creator.
Proceeds(holder) ==
    [o \in Outcomes |-> shares[o][holder] * payoutNumerators[o]]

CreatorShares(holder) ==
    [o \in Outcomes |-> deriveMarketCreatorFeeAmount(Proceeds(holder)[o])]

\* A fault to check against: the sum in the log of a claim cannot revert.
LoggedBalanceUnchecked(holder) == TRUE

\* The log of a claim adds the amount paid for an outcome to the balance the
\* holder has before that payment.  Only the market itself, as a holder, has
\* no transfer that checks the same sum.
LoggedBalanceFits(holder) ==
    holder = Market =>
        \A o \in Outcomes : shares[o][holder] > 0 =>
            LET feesBefore == SumOutcomes([i \in Outcomes |->
                                  IF i < o THEN CreatorShares(holder)[i] ELSE 0])
            IN  cash[Market] - feesBefore
                    + Proceeds(holder)[o] - CreatorShares(holder)[o] <= MaxUint

\* Nothing that a claim calls reverts, in any iteration of its loop.
CanClaim(holder) ==
    LET proceeds == SumOutcomes(Proceeds(holder))
        fee      == SumOutcomes(CreatorShares(holder))
    IN  /\ InGoodTimes
        /\ ClaimOpen
        /\ \A o \in Outcomes : Proceeds(holder)[o] <= MaxUint
        /\ \A o \in Outcomes : supply[o] >= shares[o][holder]
        /\ LoggedBalanceFits(holder)
        /\ CanPayOut("ClaimTradingProceeds", holder, proceeds - fee, fee)

\* ClaimTradingProceeds.claimTradingProceeds, which anyone may call for any
\* holder: the sum of what its loop over the outcomes burns and pays.
Claim(holder) ==
    LET proceeds == SumOutcomes(Proceeds(holder))
        fee      == SumOutcomes(CreatorShares(holder))
    IN  /\ CanClaim(holder)
        /\ shares' = [o \in Outcomes |-> [shares[o] EXCEPT ![holder] = 0]]
        /\ supply' = [o \in Outcomes |-> supply[o] - shares[o][holder]]
        /\ cash' = PaidOut(holder, proceeds - fee, fee)
        /\ marketAllowance' =
               [marketAllowance EXCEPT !["ClaimTradingProceeds"] = @ - proceeds]
        /\ UNCHANGED <<now, stopped, mailboxOwner, resolutionVars, augurAllowance>>

\* Market.resolve.
Resolve(sender, payout, isInvalid) ==
    /\ InGoodTimes
    /\ ResolutionOpen
    /\ sender = Oracle
    /\ verifyResolutionInformation(payout, isInvalid)
    /\ resolutionTime' = now
    /\ payoutNumerators' = payout
    /\ invalid' = isInvalid
    /\ UNCHANGED <<now, stopped, mailboxOwner, escrowVars>>

\* Market.approveSpenders: anyone may renew the market's approvals.
ApproveSpenders ==
    /\ InGoodTimes
    /\ marketAllowance' = [s \in Spenders |-> MaxUint]
    /\ UNCHANGED <<now, stopped, mailboxOwner, resolutionVars,
                   cash, augurAllowance, shares, supply>>

\* BEP20.transfer of the denomination token.
TransferCash(from, to, amount) ==
    /\ CanMove(cash, from, to, amount)
    /\ cash' = Moved(cash, from, to, amount)
    /\ UNCHANGED <<now, stopped, mailboxOwner, resolutionVars,
                   augurAllowance, marketAllowance, shares, supply>>

\* BEP20.approve of the denomination token, with AugurLite as the spender.
ApproveAugur(user, amount) ==
    /\ augurAllowance' = [augurAllowance EXCEPT ![user] = amount]
    /\ UNCHANGED <<now, stopped, mailboxOwner, resolutionVars,
                   cash, marketAllowance, shares, supply>>

\* BEP20.transfer of the share token of an outcome.
TransferShares(o, from, to, amount) ==
    /\ CanMove(shares[o], from, to, amount)
    /\ shares' = [shares EXCEPT ![o] = Moved(@, from, to, amount)]
    /\ UNCHANGED <<now, stopped, mailboxOwner, resolutionVars,
                   cash, augurAllowance, marketAllowance, supply>>

\* Mailbox.withdrawTokens, of the denomination token and of a share token: its
\* owner takes the whole balance, even after an emergency stop.
WithdrawCash(sender) ==
    /\ sender = mailboxOwner
    /\ TransferCash(Mailbox, mailboxOwner, cash[Mailbox])

WithdrawShares(sender, o) ==
    /\ sender = mailboxOwner
    /\ TransferShares(o, Mailbox, mailboxOwner, shares[o][Mailbox])

\* Ownable.transferOwnership of the mailbox.
TransferMailbox(sender, newOwner) ==
    /\ sender = mailboxOwner
    /\ mailboxOwner' = newOwner
    /\ UNCHANGED <<now, stopped, resolutionVars, escrowVars>>

\* Controller.emergencyStop: there is no call that undoes it.
EmergencyStop ==
    /\ ~stopped
    /\ stopped' = TRUE
    /\ UNCHANGED <<now, mailboxOwner, resolutionVars, escrowVars>>

\* The next block has a later timestamp; the transactions of a block share one.
NextBlock ==
    /\ ~controlledTime
    /\ now < MaxTime
    /\ now' = now + 1
    /\ UNCHANGED <<stopped, mailboxOwner, resolutionVars, escrowVars>>

\* TimeControlled.setTimestamp, and incrementTimestamp with its unchecked sum:
\* the owner sets any time, an earlier one too, stopped or not.
SetTimestamp(timestamp) ==
    /\ controlledTime
    /\ now' = timestamp
    /\ UNCHANGED <<stopped, mailboxOwner, resolutionVars, escrowVars>>

\* All calls but purchases, sales and claims.
OtherCalls ==
    \/ \E u \in Users, p \in [Outcomes -> 0 .. numTicks], i \in BOOLEAN : Resolve(u, p, i)
    \/ ApproveSpenders
    \/ \E u \in Users, a \in Accounts :
           \/ \E n \in Gifts : TransferCash(u, a, n)
           \/ \E n \in Amounts, o \in Outcomes : TransferShares(o, u, a, n)
    \/ \E u \in Users, n \in Approvals : ApproveAugur(u, n)
    \/ \E u \in Users : WithdrawCash(u) \/ \E o \in Outcomes : WithdrawShares(u, o)
    \/ \E u, v \in Users : TransferMailbox(u, v)
    \/ EmergencyStop
    \/ NextBlock
    \/ \E t \in 0 .. MaxTime : SetTimestamp(t)

Next ==
    \/ \E u \in Users, n \in Amounts : Buy(u, n) \/ Sell(u, n)
    \/ \E h \in Accounts : Claim(h)
    \/ OtherCalls

Spec == Init /\ [][Next]_vars

-----------------------------------------------------------------------------
(* Invariants *)

\* Every variable has the type of the storage slot it stands for.
TypeOK ==
    /\ now \in Nat
    /\ stopped \in BOOLEAN
    /\ resolutionTime \in Nat
    /\ payoutNumerators \in [Outcomes -> 0 .. numTicks]
    /\ invalid \in BOOLEAN
    /\ cash \in [Accounts -> Uint]
    /\ augurAllowance \in [Users -> Uint]
    /\ marketAllowance \in [Spenders -> Uint]
    /\ shares \in [Outcomes -> [Accounts -> Uint]]
    /\ supply \in [Outcomes -> Uint]
    /\ mailboxOwner \in Users

\* Market.assertBalances: the market always holds what its outstanding shares
\* are owed, whatever was bought, sold, claimed or transferred before and
\* whenever the market was resolved, so no transaction fails on the assertion,
\* as long as nobody uses the whitelist to mint or burn shares directly.
Solvent == cash[Market] >= ExpectedBalance

\* Before the resolution only complete sets are created and destroyed, so the
\* supply of outcome 0 that assertBalances looks at speaks for every outcome
\* (of the trading contracts: a whitelisted account may mint one outcome).
SuppliesEqualUntilResolved ==
    ~isResolved => \A o, p \in Outcomes : supply[o] = supply[p]

\* No call creates or loses denomination tokens, and a share token's total
\* supply is what its holders have, the market and the mailbox included.
Conservation ==
    /\ FoldFunction(+, 0, cash) = FoldFunction(+, 0, InitialCash)
    /\ \A o \in Outcomes : FoldFunction(+, 0, shares[o]) = supply[o]

\* An owner of complete sets can sell them at any time before a stop: with
\* the market's approval in place, and CompleteSets on the whitelist, no other
\* check of the sale can fail.
SellNeverBlocked ==
    \A u \in Users, n \in Amounts :
        /\ ~stopped
        /\ \A o \in Outcomes : shares[o][u] >= n
        /\ marketAllowance["CompleteSets"] >= n * numTicks
        => CanSell(u, n)

\* Once the market is resolved in an earlier block the claim of every holder
\* succeeds, whoever claimed, bought or sold before, up to a stop and while
\* ClaimTradingProceeds is on the whitelist.  (A claim for the market itself
\* may overflow in its log and never pays anything out.)
ClaimNeverBlocked ==
    \A h \in Accounts \ {Market} :
        /\ ~stopped
        /\ isResolved
        /\ now > resolutionTime
        /\ marketAllowance["ClaimTradingProceeds"] >= SumOutcomes(Proceeds(h))
        => CanClaim(h)

\* The ticks of a complete set that the resolution assigns to no outcome: all
\* of them before it, and what the division of an invalid market leaves over.
Unassigned == numTicks - SumOutcomes(payoutNumerators)

\* The strengthening of Solvent that every call preserves: a complete set can
\* still be sold for its numTicks after an invalid resolution, so the market
\* also keeps the unassigned ticks of every set that could be completed.
Backed ==
    /\ Unassigned >= 0
    /\ \E o \in Outcomes :
           cash[Market] >= Worth(supply, payoutNumerators) + Unassigned * supply[o]

\* The inductive invariant that the solvency of the market rests on.
IInv ==
    /\ TypeOK
    /\ SuppliesEqualUntilResolved
    /\ ~isResolved => payoutNumerators = [o \in Outcomes |-> 0]
    /\ Backed

(* Action properties *)

\* What a holder's burnt shares were worth at the resolution, or as complete
\* sets before it.
BurntValue(h) ==
    IF isResolved
    THEN Worth([o \in Outcomes |-> shares[o][h] - shares'[o][h]], payoutNumerators)
    ELSE numTicks * (shares[0][h] - shares'[0][h])

\* Nobody's shares are burnt, by their own sale or by anyone's claim for them,
\* without paying the holder their value less the creator's fee at most.
BurntSharesArePaid ==
    [][supply' # supply =>
         \A u \in Users :
             (\E o \in Outcomes : shares'[o][u] < shares[o][u]) =>
                 IF feeDivisor = 0
                 THEN cash'[u] - cash[u] >= BurntValue(u)
                 ELSE (cash'[u] - cash[u]) * feeDivisor
                          >= BurntValue(u) * (feeDivisor - 1)]_vars

\* The oracle's report is final, and none is accepted up to the end time; the
\* time itself may be set back behind the report, which closes claims again.
ResolutionIsFinal ==
    [][/\ isResolved => UNCHANGED resolutionVars
       /\ ~isResolved /\ isResolved' => resolutionTime' = now /\ now > endTime]_vars

(* Liveness *)

\* Blocks are produced, and a holder who wants the proceeds sends the claim,
\* and anyone the approvals it needs, again as long as it could succeed.
Fairness ==
    /\ WF_vars(NextBlock)
    /\ WF_vars(ApproveSpenders)
    /\ \A u \in Users : SF_vars(Claim(u))

FairSpec == Spec /\ Fairness

\* Whoever holds shares of a resolved market is rid of them (and, by
\* BurntSharesArePaid, paid for them) unless the Controller's owner stops the
\* contracts first.  The bound on time must leave the claim a later block.
HoldersAreSettled ==
    \A u \in Users :
        (isResolved /\ resolutionTime < MaxTime)
            ~> (stopped \/ \A o \in Outcomes : shares[o][u] = 0)

(* What the repository says of the market and the code does not keep *)

\* README: a complete set is worth one denomination unit whatever the outcome.
CompleteSetWorthOne ==
    isResolved => SumOutcomes(payoutNumerators) = numTicks

=============================================================================
