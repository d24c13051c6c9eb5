---------------------------- MODULE MCWalletDemo ----------------------------
(***************************************************************************)
(* The script and one user, who runs up to two commands at any moments.    *)
(***************************************************************************)
EXTENDS WalletDemo

CONSTANTS demo, user

MCUser == {user}

=============================================================================
