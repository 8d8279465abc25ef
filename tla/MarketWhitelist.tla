--------------------------- MODULE MarketWhitelist ---------------------------
(***************************************************************************)
(* MarketTrading with the accounts on the Controller's whitelist.  Besides *)
(* the trading contracts the constructor of the Controller puts its        *)
(* deployer there, whom a deployment leaves on it, and the owner may add   *)
(* others.  They call directly what the trading contracts call: none of it *)
(* asks for good times, and the minting and burning of shares asks for no  *)
(* payment.  So the market need not be solvent here, and the               *)
(* assertBalances() that ends a public purchase or sale and a claim is a   *)
(* guard of its own.                                                       *)
(***************************************************************************)
EXTENDS ClaimLoop

CONSTANT Whitelisted    \* accounts that are on the whitelist at any time

ASSUME WhitelistedAccounts == Whitelisted \subseteq Users

\* The shares of one outcome are minted or burnt, for any account.
SharesSet(o, owner, balance, total) ==
    /\ shares' = [shares EXCEPT ![o][owner] = balance]
    /\ supply' = [supply EXCEPT ![o] = total]
    /\ UNCHANGED <<now, stopped, mailboxOwner, resolutionVars,
                   cash, augurAllowance, marketAllowance>>

\* ShareToken.createShares: nothing is paid for the shares.
createShares(o, owner, amount) ==
    /\ supply[o] + amount <= MaxUint
    /\ shares[o][owner] + amount <= MaxUint
    /\ SharesSet(o, owner, shares[o][owner] + amount, supply[o] + amount)

\* ShareToken.destroyShares: nothing is paid out for them.
destroyShares(o, owner, amount) ==
    /\ shares[o][owner] >= amount
    /\ supply[o] >= amount
    /\ SharesSet(o, owner, shares[o][owner] - amount, supply[o] - amount)

\* AugurLite.trustedTransfer of the denomination token: AugurLite spends what
\* a user has approved.  The market and the mailbox never approve it.
trustedTransfer(from, to, amount) ==
    /\ amount > 0
    /\ augurAllowance[from] >= amount
    /\ CanMove(cash, from, to, amount)
    /\ cash' = Moved(cash, from, to, amount)
    /\ augurAllowance' = [augurAllowance EXCEPT ![from] = @ - amount]
    /\ UNCHANGED <<now, stopped, mailboxOwner, resolutionVars,
                   marketAllowance, shares, supply>>

\* onlyWhitelistedCallers: what a whitelisted account calls for anybody.
WhitelistedCall ==
    /\ Whitelisted # {}
    /\ \/ \E u \in Users, n \in Amounts : buyCompleteSets(u, n)
       \/ \E a \in Accounts, n \in Amounts :
              \/ sellCompleteSets(a, n)
              \/ \E o \in Outcomes : createShares(o, a, n) \/ destroyShares(o, a, n)
       \/ \E u \in Users, a \in Accounts, n \in Gifts : trustedTransfer(u, a, n)

\* ClaimTradingProceeds.claimTradingProceeds by its loop: the closed form of
\* MarketTrading is the same only while the market is solvent.
ClaimByLoop(holder) ==
    LET loop == Loop(holder)
    IN  /\ InGoodTimes
        /\ ClaimOpen
        /\ loop.ok
        /\ cash' = loop.cash
        /\ shares' = loop.shares
        /\ supply' = loop.supply
        /\ marketAllowance' =
               [marketAllowance EXCEPT !["ClaimTradingProceeds"] = loop.allowance]
        /\ UNCHANGED <<now, stopped, mailboxOwner, resolutionVars, augurAllowance>>

\* The public calls, of which trades end with assertBalances().
PublicCall ==
    \/ \E u \in Users, n \in Amounts : (Buy(u, n) \/ Sell(u, n)) /\ Solvent'
    \/ \E h \in Accounts : ClaimByLoop(h) /\ Solvent'
    \/ OtherCalls

WhitelistedNext == PublicCall \/ WhitelistedCall

WhitelistedSpec == Init /\ [][WhitelistedNext]_vars

-----------------------------------------------------------------------------
(* Action properties *)

\* A number of complete sets is burnt at once, and no more than its numTicks
\* per set leave the market.
SetsRedeemed ==
    \E n \in Uint :
        /\ \A o \in Outcomes : supply'[o] = supply[o] - n
        /\ cash[Market] - cash'[Market] <= n * numTicks

\* What an emergency stop ends, with the whitelist: it is never lifted, the
\* market is not resolved any more and its approvals are not renewed.  No public
\* call changes the supplies or takes anything out of the market.  Whitelisted
\* accounts go on, but what they take out of the market is taken for complete
\* sets, within the approval that is left.
StopFreezesMarket ==
    [][stopped =>
         /\ stopped'
         /\ UNCHANGED resolutionVars
         /\ \A s \in Spenders : marketAllowance'[s] <= marketAllowance[s]
         /\ cash'[Market] < cash[Market] \/ supply' # supply => ~PublicCall
         /\ cash'[Market] < cash[Market] =>
                /\ SetsRedeemed
                /\ cash[Market] - cash'[Market]
                       <= marketAllowance["CompleteSets"]
                            - marketAllowance'["CompleteSets"]]_vars

=============================================================================
