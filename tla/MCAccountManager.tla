-------------------------- MODULE MCAccountManager --------------------------
(* Small instances of AccountManager for TLC: the calls are model values, not *)
(* taken as symmetric, since the run also checks liveness.                    *)
EXTENDS AccountManager

=============================================================================
