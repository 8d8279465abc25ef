----------------------------- MODULE MarketVault -----------------------------
(***************************************************************************)
(* MarketTrading implements Vault: the market's balance is what the vault  *)
(* holds, and it owes every outstanding share its numerator and every      *)
(* complete set that is left, or can be completed, the unassigned ticks.   *)
(***************************************************************************)
EXTENDS MarketTrading

FewestShares == CHOOSE n \in {supply[o] : o \in Outcomes} :
                    \A o \in Outcomes : n <= supply[o]

Liability == Worth(supply, payoutNumerators) + Unassigned * FewestShares

V == INSTANCE Vault WITH held <- cash[Market], owed <- Liability, open <- ~stopped

\* Every call on the market, its share tokens or the denomination token is a
\* step of the vault or leaves the vault as it is, for all resolutions.
ImplementsVault == V!VaultSpec

=============================================================================
