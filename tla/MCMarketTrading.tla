--------------------------- MODULE MCMarketTrading ---------------------------
(* Small instances of MarketTrading, of its claim loop and of its refinement *)
(* of the vault, for TLC.                                                    *)
EXTENDS ClaimLoop, MarketVault

CONSTANTS alice, bob

MCUsers == {alice, bob}
JustAlice == {alice}

\* All denomination tokens start with one user: a second user holds the shares
\* and the tokens that are transferred, sold or claimed, and no more.
CashForAlice(n) == [u \in Users |-> IF u = alice THEN n ELSE 0]
ThreeForAlice == CashForAlice(3)
SixForAlice == CashForAlice(6)

=============================================================================
