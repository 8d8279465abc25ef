---------------------------- MODULE MCDeployment ----------------------------
(* Small instances of Deployment for TLC. *)
EXTENDS Deployment

\* The contracts whose address or state another step of the deployment needs.
FewUploads == contractsToInitialize \cup {"Universe", "UniverseFactory"}
UploadsWithToken == FewUploads \cup {Token}

=============================================================================
