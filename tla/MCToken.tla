------------------------------- MODULE MCToken -------------------------------
(* A small instance of DenominationToken for TLC. *)
EXTENDS DenominationToken, TLC

CONSTANTS alice, bob

MCHolders == {alice, bob}
TwoEach == [h \in MCHolders |-> 2]
Symmetric == Permutations(MCHolders)

=============================================================================
