----------------------------- MODULE MCProtocol -----------------------------
(* Small instances of Protocol for TLC. *)
EXTENDS Protocol, TLC

ProtocolSymmetry ==
    Permutations(Universes) \cup Permutations(Markets) \cup Permutations(Tokens)
        \cup Permutations(Codes)

=============================================================================
