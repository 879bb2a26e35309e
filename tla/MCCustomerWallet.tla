-------------------------- MODULE MCCustomerWallet --------------------------
(* A small instance of CustomerWallet for TLC.                             *)
EXTENDS CustomerWallet
=============================================================================
