------------------------------ MODULE ClaimLoop ------------------------------
(***************************************************************************)
(* ClaimTradingProceeds.claimTradingProceeds as its loop over the outcomes *)
(* runs it, to be compared with the closed form MarketTrading!Claim: the   *)
(* checks are made in the order of the code, on the balances the earlier   *)
(* iterations left.                                                        *)
(***************************************************************************)
EXTENDS MarketTrading

\* What the loop reads and writes, and whether it has not reverted so far.
LoopStart ==
    [ok        |-> TRUE,
     cash      |-> cash,
     allowance |-> marketAllowance["ClaimTradingProceeds"],
     shares    |-> shares,
     supply    |-> supply]

\* The body of the loop for one outcome.
Iteration(s, holder, o) ==
    LET n        == s.shares[o][holder]
        proceeds == n * payoutNumerators[o]
        creator  == deriveMarketCreatorFeeAmount(proceeds)
        share    == proceeds - creator
        paid     == Moved(s.cash, Market, holder, share)
    IN  [ok |-> /\ s.ok
                /\ proceeds <= MaxUint
                /\ n > 0 => s.supply[o] >= n /\ s.cash[holder] + share <= MaxUint
                /\ share > 0 => CanMove(s.cash, Market, holder, share)
                                  /\ s.allowance >= share
                /\ creator > 0 => CanMove(paid, Market, Mailbox, creator)
                                    /\ s.allowance - share >= creator,
         cash      |-> Moved(paid, Market, Mailbox, creator),
         allowance |-> s.allowance - proceeds,
         shares    |-> [s.shares EXCEPT ![o][holder] = 0],
         supply    |-> [s.supply EXCEPT ![o] = @ - n]]

Loop(holder) ==
    LET after[i \in 0 .. numOutcomes] ==
            IF i = 0 THEN LoopStart ELSE Iteration(after[i - 1], holder, i - 1)
    IN  after[numOutcomes]

\* The closed form succeeds exactly when the loop does not revert, for every
\* holder in every reachable state.
ClaimSucceedsLikeLoop ==
    \A h \in Accounts :
        InGoodTimes /\ ClaimOpen => (Loop(h).ok <=> CanClaim(h))

\* And it leaves the balances, supplies and allowance that the loop leaves.
ClaimEndsLikeLoop ==
    [][\A h \in Accounts :
         LET loop == Loop(h)
         IN  Claim(h) => /\ cash' = loop.cash
                         /\ shares' = loop.shares
                         /\ supply' = loop.supply
                         /\ marketAllowance'["ClaimTradingProceeds"] = loop.allowance]_vars

=============================================================================
