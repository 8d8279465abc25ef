-------------------------- MODULE MCMarketWhitelist --------------------------
(* A small instance of MarketWhitelist for TLC. *)
EXTENDS MarketWhitelist

CONSTANT alice

TwoForAlice == [u \in Users |-> IF u = alice THEN 2 ELSE 0]
OnlyAlice == {alice}

=============================================================================
