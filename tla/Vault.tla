-------------------------------- MODULE Vault --------------------------------
(***************************************************************************)
(* What a market promises about its escrow, without saying how it trades:  *)
(* it issues claims only against their full price, pays out only against   *)
(* claims that are given up, and does neither once it is closed.           *)
(***************************************************************************)
EXTENDS Naturals

VARIABLES
    held,       \* denomination tokens the vault holds
    owed,       \* what the outstanding claims are worth
    open        \* no emergency stop yet

vaultVars == <<held, owed, open>>

VaultInit ==
    /\ held = 0
    /\ owed = 0
    /\ open = TRUE

\* Claims are issued and their price is paid in.
Issue ==
    /\ open
    /\ held' > held
    /\ owed' - owed = held' - held
    /\ UNCHANGED open

\* Claims are given up, and at most their worth is paid out.
Redeem ==
    /\ open
    /\ held' <= held
    /\ owed' <= owed - (held - held')
    /\ UNCHANGED open

\* Anyone may give tokens to the vault, even to a closed one.
Gift ==
    /\ held' > held
    /\ UNCHANGED <<owed, open>>

Close ==
    /\ open
    /\ open' = FALSE
    /\ UNCHANGED <<held, owed>>

VaultNext == Issue \/ Redeem \/ Gift \/ Close

VaultSpec == VaultInit /\ [][VaultNext]_vaultVars

=============================================================================
