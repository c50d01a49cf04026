---------------------- MODULE MCCredentialTransaction ----------------------
(* Small instances of CredentialTransaction for TLC.                       *)
EXTENDS CredentialTransaction, TLC

\* Processes are alike, and so are accounts.
CredentialSymmetry == Permutations(Clients) \cup Permutations(Logins)
=============================================================================
